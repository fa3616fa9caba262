-------------------------- MODULE ZipReaderProofs ---------------------------
(***************************************************************************)
(* The allocator of miniz, for every word size, limit and sequence of      *)
(* requests: it never overdraws its budget nor hands out a short block.    *)
(* And the reader of archives, which is a user of that allocator: for      *)
(* every archive, whichever reads fail and whatever memory is refused, it  *)
(* gives back what it took, its index leads to whole records, and an entry *)
(* comes out as its data say. For the last of these, the decoder is kept   *)
(* in step with a reading of the whole stream, token by token (InflateStep) *)
(* and the extraction with the record it was asked for (JobStep).          *)
(***************************************************************************)
EXTENDS ZipReader, NaturalsInduction, WellFoundedInduction, TLAPS

(* A product that passes the check did not wrap around. *)
LEMMA Quotient ==
  ASSUME NEW n \in Nat, NEW k \in Nat, NEW m \in Nat, k # 0, m <= n \div k
  PROVE  k * m <= n
<1> DEFINE q == n \div k
<1>1. q \in Nat /\ k * q <= n OBVIOUS
<1> HIDE DEF q
<1>2. k * m <= k * q
  <2>1. q - m \in Nat BY <1>1 DEF q
  <2>2. k * (q - m) \in Nat BY <2>1
  <2>3. k * (q - m) = k * q - k * m BY <1>1
  <2>4. k * q \in Nat /\ k * m \in Nat BY <1>1
  <2> QED BY <2>2, <2>3, <2>4
<1>3. k * q \in Nat /\ k * m \in Nat BY <1>1
<1> QED BY <1>1, <1>2, <1>3

LEMMA CheckedDoesNotWrap ==
  ASSUME NEW items \in Counts, NEW size \in Sizes, checked_allocation_size(items, size)
  PROVE  /\ Requested(items, size) \in Nat \ {0}
         /\ items * size \in Nat /\ items * size <= Requested(items, size)
<1>1. Word \in Nat /\ Word > 0 /\ items \in 0 .. Word - 1 /\ size \in 0 .. Word - 1
  BY BudgetAssumption
<1>2. items * size \in Nat BY <1>1
<1>3. items * size <= Word - 1
  <2>1. CASE items = 0 BY <1>1, <2>1
  <2>2. CASE items # 0
    <3>1. size <= (Word - 1) \div items BY <2>2 DEF checked_allocation_size
    <3>2. Word - 1 \in Nat /\ items \in Nat /\ size \in Nat BY <1>1
    <3> QED BY <2>2, <3>1, <3>2, Quotient
  <2> QED BY <2>1, <2>2
<1> DEFINE product == items * size
<1>4. product \in Nat /\ product <= Word - 1 BY <1>2, <1>3
<1> HIDE DEF product
<1>5. product % Word = product BY <1>1, <1>4
<1>6. Requested(items, size) = IF product = 0 THEN 1 ELSE product
  BY <1>5 DEF Requested, product
<1>7. Requested(items, size) \in Nat \ {0} /\ product <= Requested(items, size)
  BY <1>4, <1>6
<1> QED BY <1>4, <1>7 DEF product

-----------------------------------------------------------------------------
BInv ==
  /\ current_bytes \in Nat /\ current_bytes <= Limit
  /\ peak_bytes \in Nat /\ peak_bytes <= Limit /\ current_bytes <= peak_bytes
  /\ DOMAIN asked = Live
  /\ \A b \in Live : /\ payload_bytes[b] \in Nat \ {0} /\ payload_bytes[b] <= Limit
                     /\ asked[b] \in Nat /\ asked[b] <= payload_bytes[b]

LEMMA CountFits ==
  ASSUME NEW base \in Nat, base <= Limit, NEW items \in Counts, NEW size \in Sizes,
         Fits(items, size, base), BInv, Count(base + Requested(items, size))
  PROVE  /\ current_bytes' \in Nat /\ current_bytes' <= Limit
         /\ peak_bytes' \in Nat /\ peak_bytes' <= Limit /\ current_bytes' <= peak_bytes'
         /\ Requested(items, size) \in Nat \ {0} /\ Requested(items, size) <= Limit
         /\ items * size \in Nat /\ items * size <= Requested(items, size)
         /\ current_bytes' = base + Requested(items, size)
<1> DEFINE r == Requested(items, size)
<1>1. r \in Nat \ {0} /\ items * size \in Nat /\ items * size <= r
  BY CheckedDoesNotWrap DEF Fits
<1>2. r <= Limit - AtMost(base, Limit) BY DEF Fits
<1> HIDE DEF r
<1>3. Limit \in Nat /\ Word \in Nat /\ Limit < Word BY BudgetAssumption
<1>4. AtMost(base, Limit) = base BY <1>3 DEF AtMost
<1>5. base + r \in Nat /\ base + r <= Limit /\ r <= Limit BY <1>1, <1>2, <1>3, <1>4
<1>6. (base + r) % Word = base + r BY <1>3, <1>5
<1>7. current_bytes' = base + r /\ peak_bytes' = AtLeast(peak_bytes, base + r)
  BY <1>6 DEF Count, r
<1>8. peak_bytes \in Nat /\ peak_bytes <= Limit BY DEF BInv
<1>9. /\ peak_bytes' \in Nat /\ peak_bytes' <= Limit /\ current_bytes' <= peak_bytes'
  BY <1>5, <1>7, <1>8 DEF AtLeast
<1> QED BY <1>1, <1>5, <1>7, <1>9 DEF r

LEMMA BaseFits ==
  ASSUME BInv, NEW b \in Live
  PROVE  Without(b) \in Nat /\ Without(b) <= current_bytes /\ Without(b) <= Limit
<1>1. Limit \in Nat BY BudgetAssumption
<1> QED BY <1>1 DEF BInv, Without

LEMMA BNext == ASSUME BInv, [Next]_vars PROVE BInv'
<1>1. CASE Alloc
  <2>1. PICK b \in Blocks, items \in Counts, size \in Sizes :
          /\ b \in Blocks \ Live /\ Fits(items, size, current_bytes)
          /\ payload_bytes' = [x \in Live \cup {b} |->
               IF x = b THEN Requested(items, size) ELSE payload_bytes[x]]
          /\ asked' = [x \in Live \cup {b} |-> IF x = b THEN items * size ELSE asked[x]]
          /\ Count(current_bytes + Requested(items, size))
    BY <1>1 DEF Alloc, AllocOf
  <2>2. current_bytes \in Nat /\ current_bytes <= Limit BY DEF BInv
  <2>3. /\ current_bytes' \in Nat /\ current_bytes' <= Limit
        /\ peak_bytes' \in Nat /\ peak_bytes' <= Limit /\ current_bytes' <= peak_bytes'
        /\ Requested(items, size) \in Nat \ {0} /\ Requested(items, size) <= Limit
        /\ items * size \in Nat /\ items * size <= Requested(items, size)
    BY <2>1, <2>2, CountFits
  <2>4. Live' = Live \cup {b} /\ DOMAIN asked' = Live' BY <2>1 DEF Live
  <2>5. ASSUME NEW x \in Live'
        PROVE  /\ payload_bytes'[x] \in Nat \ {0} /\ payload_bytes'[x] <= Limit
               /\ asked'[x] \in Nat /\ asked'[x] <= payload_bytes'[x]
    <3>1. CASE x = b BY <2>1, <2>3, <3>1
    <3>2. CASE x # b BY <2>1, <2>4, <3>2 DEF BInv
    <3> QED BY <3>1, <3>2
  <2> QED BY <2>3, <2>4, <2>5 DEF BInv
<1>2. CASE RefuseAlloc BY <1>2 DEF RefuseAlloc, RefuseOf, BInv, Live
<1>3. CASE OutOfMemory BY <1>3 DEF OutOfMemory, NoMemoryOf, BInv, Live
<1>4. CASE Free
  <2>1. PICK b \in Blocks :
          /\ b \in Live /\ payload_bytes' = [x \in Live \ {b} |-> payload_bytes[x]]
          /\ asked' = [x \in Live \ {b} |-> asked[x]]
          /\ current_bytes' = Without(b)
    BY <1>4 DEF Free, FreeOf
  <2>2. peak_bytes' = peak_bytes BY <1>4 DEF Free, FreeOf
  <2>3. Without(b) \in Nat /\ Without(b) <= current_bytes /\ Without(b) <= Limit BY <2>1, BaseFits
  <2>4. Live' = Live \ {b} /\ DOMAIN asked' = Live' BY <2>1 DEF Live
  <2>5. \A x \in Live' : payload_bytes'[x] = payload_bytes[x] /\ asked'[x] = asked[x]
    BY <2>1, <2>4
  <2> QED BY <2>1, <2>2, <2>3, <2>4, <2>5 DEF BInv
<1>5. CASE Realloc
  <2>1. PICK b \in Live, items \in Counts, size \in Sizes :
          /\ Fits(items, size, Base(b))
          /\ payload_bytes' = [payload_bytes EXCEPT ![b] = Requested(items, size)]
          /\ asked' = [asked EXCEPT ![b] = items * size]
          /\ Count(Base(b) + Requested(items, size))
    BY <1>5 DEF Realloc
  <2>2. Base(b) \in Nat /\ Base(b) <= Limit BY BaseFits DEF Base
  <2>3. /\ current_bytes' \in Nat /\ current_bytes' <= Limit
        /\ peak_bytes' \in Nat /\ peak_bytes' <= Limit /\ current_bytes' <= peak_bytes'
        /\ Requested(items, size) \in Nat \ {0} /\ Requested(items, size) <= Limit
        /\ items * size \in Nat /\ items * size <= Requested(items, size)
    BY <2>1, <2>2, CountFits
  <2>4. Live' = Live /\ DOMAIN asked' = Live BY <2>1 DEF Live, BInv
  <2>5. ASSUME NEW x \in Live
        PROVE  /\ payload_bytes'[x] \in Nat \ {0} /\ payload_bytes'[x] <= Limit
               /\ asked'[x] \in Nat /\ asked'[x] <= payload_bytes'[x]
    <3>1. DOMAIN payload_bytes = Live /\ DOMAIN asked = Live BY DEF Live, BInv
    <3>2. CASE x = b BY <2>1, <2>3, <3>1, <3>2
    <3>3. CASE x # b
      <4>1. payload_bytes'[x] = payload_bytes[x] /\ asked'[x] = asked[x]
        BY <2>1, <3>1, <3>3
      <4> QED BY <4>1 DEF BInv
    <3> QED BY <3>2, <3>3
  <2> QED BY <2>3, <2>4, <2>5 DEF BInv
<1>6. CASE RefuseRealloc BY <1>6 DEF RefuseRealloc, BInv, Live
<1>7. CASE UNCHANGED vars BY <1>7 DEF vars, BInv, Live
<1> QED BY <1>1, <1>2, <1>3, <1>4, <1>5, <1>6, <1>7 DEF Next

THEOREM BudgetInvariant == Spec => []BInv
<1>1. Init => BInv
  <2>1. Limit \in Nat BY BudgetAssumption
  <2>2. DOMAIN <<>> = {} OBVIOUS
  <2> QED BY <2>1, <2>2 DEF Init, BInv, Live
<1>2. BInv /\ [Next]_vars => BInv' BY BNext
<1> QED BY <1>1, <1>2, PTL DEF Spec

(* WithinBudget: whatever is asked for, the budget is never overdrawn.     *)
THEOREM BudgetHolds == Spec => []WithinBudget
<1>1. BInv => WithinBudget
  <2>1. Limit \in Nat BY BudgetAssumption
  <2> QED BY <2>1 DEF BInv, WithinBudget
<1> QED BY <1>1, BudgetInvariant, PTL

(* NoShortBlock: no product wraps around unnoticed.                        *)
THEOREM NoBlockIsShort == Spec => []NoShortBlock
<1>1. BInv => NoShortBlock BY DEF BInv, NoShortBlock
<1> QED BY <1>1, BudgetInvariant, PTL

-----------------------------------------------------------------------------
(* The reader allocates and frees by way of the allocator alone, so it is  *)
(* one of the users that AllocBudget allows: each of its steps is a step   *)
(* of the allocator, or none.                                              *)
LEMMA GetIsAllocator ==
  ASSUME NEW b \in Blocks, NEW items, NEW size, NEW got \in BOOLEAN, Get(b, items, size, got)
  PROVE  Next
<1>1. CASE AllocOf(b, items, size)
  <2>1. items \in Counts /\ size \in Sizes BY <1>1 DEF AllocOf
  <2> QED BY <1>1, <2>1 DEF Next, Alloc
<1>2. CASE RefuseOf(items, size)
  <2>1. items \in Counts /\ size \in Sizes BY <1>2 DEF RefuseOf
  <2> QED BY <1>2, <2>1 DEF Next, RefuseAlloc
<1>3. CASE NoMemoryOf(items, size, current_bytes)
  <2>1. items \in Counts /\ size \in Sizes BY <1>3 DEF NoMemoryOf
  <2>2. current_bytes \in {current_bytes} \cup {Base(x) : x \in Live} OBVIOUS
  <2>3. OutOfMemory BY <1>3, <2>1, <2>2 DEF OutOfMemory
  <2> QED BY <2>3 DEF Next
<1> QED BY <1>1, <1>2, <1>3 DEF Get

LEMMA FreeIfIsAllocator ==
  ASSUME NEW b \in Blocks, FreeIf(b) PROVE [Next]_vars
BY DEF FreeIf, Next, Free

LEMMA ReaderIsAllocator ==
  ASSUME [ReaderNext]_reader_vars PROVE [Next]_vars
<1>1. {"state", "cdir", "offsets", "buffer"} = Blocks BY ReaderAssumption
<1>2. CASE UNCHANGED reader_vars BY <1>2 DEF reader_vars
<1>3. CASE Client BY <1>3 DEF Client, Open, Stat, Close
<1>4. CASE Opening
  <2>1. CASE InitInternal BY <1>1, <2>1, GetIsAllocator DEF InitInternal
  <2>2. CASE GetDirectory BY <1>1, <2>2, GetIsAllocator DEF GetDirectory, Block
  <2>3. CASE GetOffsets BY <1>1, <2>3, GetIsAllocator DEF GetOffsets, Block
  <2>4. CASE Locate \/ ReadEnd \/ ReadLocator \/ ReadNear \/ ReadThere \/ Check64
             \/ CheckEnd \/ ReadDirectory \/ CheckRecord
    <3>1. UNCHANGED vars
      BY <2>4 DEF Locate, ReadEnd, ReadLocator, ReadNear, ReadThere, Check64, CheckEnd,
           ReadDirectory, CheckRecord
    <3> QED BY <3>1
  <2> QED BY <1>4, <2>1, <2>2, <2>3, <2>4 DEF Opening
<1>5. CASE Extraction
  <2>1. CASE GetBuffer BY <1>1, <2>1, GetIsAllocator DEF GetBuffer
  <2>2. CASE Release BY <1>1, <2>2, FreeIfIsAllocator DEF Release
  <2>3. CASE BeginExtraction \/ ReadLocal \/ ReadStored \/ Fill \/ Decompress \/ Continue
             \/ CheckResult
    <3>1. UNCHANGED vars
      BY <2>3 DEF BeginExtraction, ReadLocal, ReadStored, Fill, Decompress, Continue, CheckResult
    <3> QED BY <3>1
  <2> QED BY <1>5, <2>1, <2>2, <2>3 DEF Extraction
<1>6. CASE EndInternal
  <2>1. CASE EndDirectory BY <1>1, <2>1, FreeIfIsAllocator DEF EndDirectory
  <2>2. CASE EndOffsets BY <1>1, <2>2, FreeIfIsAllocator DEF EndOffsets
  <2>3. CASE EndState BY <1>1, <2>3, FreeIfIsAllocator DEF EndState
  <2>4. CASE ScopeEnds BY <2>4 DEF ScopeEnds
  <2> QED BY <1>6, <2>1, <2>2, <2>3, <2>4 DEF EndInternal
<1> QED BY <1>2, <1>3, <1>4, <1>5, <1>6 DEF ReaderNext, Program

(* Every run of the reader is a run of the allocator, with everything that *)
(* was proved of it.                                                       *)
THEOREM ReaderUsesAllocator == ReaderSpec => Spec
<1>1. ReaderInit => Init BY DEF ReaderInit
<1>2. [ReaderNext]_reader_vars => [Next]_vars BY ReaderIsAllocator
<1> QED BY <1>1, <1>2, PTL DEF ReaderSpec, Spec

(* WithinBudget, of the reader: an archive of whatever size and contents   *)
(* cannot make it hold more than the limit.                                *)
THEOREM ReaderWithinBudget == ReaderSpec => [](WithinBudget /\ NoShortBlock)
BY ReaderUsesAllocator, BudgetHolds, NoBlockIsShort, PTL

-----------------------------------------------------------------------------
(* What the account says is what the live blocks cost.                     *)
Paid(b) == IF b \in Live THEN payload_bytes[b] ELSE 0
Total == Paid("state") + Paid("cdir") + Paid("offsets") + Paid("buffer")

(* The blocks that may be live at each place: taken one after the other    *)
(* while the archive is opened, given back in the same order.              *)
Held(place) ==
  IF place \in {"closed", "init", "failed", "over"} THEN {}
  ELSE IF place = "offsets" THEN {"state", "cdir"}
  ELSE IF place = "end_offsets" THEN {"state", "offsets"}
  ELSE IF place \in {"read_directory", "records", "end_directory",
                     "open", "extract", "local", "stored", "buffer"}
  THEN {"state", "cdir", "offsets"}
  ELSE IF place \in {"fill", "inflate", "release"} THEN Blocks ELSE {"state"}

HeldInv ==
  /\ Live \subseteq Held(at) /\ current_bytes = Total
  /\ at = "over" => ~file_open

(* The places before the first record of the directory is read.            *)
Unread ==
  {"closed", "init", "locate", "end_record", "locator", "near", "there", "check_64", "check_end",
   "directory", "offsets", "read_directory"}
(* A record that mz_zip_get_cdh may be led to                              *)
Whole(ofs) ==
  /\ Abs(dir.end.ofs + ofs) \in DOMAIN archive.headers
  /\ ofs + HeaderSize(archive.headers[Abs(dir.end.ofs + ofs)]) <= dir.end.csize
IndexInv ==
  /\ archive \in Archives
  /\ DOMAIN zip = {"size", "start", "total", "zip64", "ext", "error"}
  /\ DOMAIN dir = {"eocd", "end", "p"} /\ dir.p \in Nat
  /\ "cdir" \in Live => asked["cdir"] = dir.end.csize
  /\ index \in Seq(Nat) /\ (at \in Unread => index = <<>>)
  /\ "cdir" \in Live => \A i \in DOMAIN index : Whole(index[i])

-----------------------------------------------------------------------------
LEMMA FourBlocks == Blocks = {"state", "cdir", "offsets", "buffer"}
BY ReaderAssumption

LEMMA PaidIsNatural ==
  ASSUME BInv, NEW b \in Blocks PROVE Paid(b) \in Nat
BY DEF BInv, Paid

(* A block that is taken, or given back, is counted once.                  *)
LEMMA TotalGrows ==
  ASSUME BInv, NEW b \in Blocks, Paid(b) = 0, Paid(b)' \in Nat,
         \A x \in Blocks \ {b} : Paid(x)' = Paid(x)
  PROVE  Total' = Total + Paid(b)'
<1> DEFINE s == Paid("state") s_ == Paid("state")' c == Paid("cdir") c_ == Paid("cdir")'
           o == Paid("offsets") o_ == Paid("offsets")' u == Paid("buffer") u_ == Paid("buffer")'
<1>1. s \in Nat /\ c \in Nat /\ o \in Nat /\ u \in Nat BY PaidIsNatural, FourBlocks
<1>2. Total = s + c + o + u /\ Total' = s_ + c_ + o_ + u_ BY DEF Total
<1>3. b \in {"state", "cdir", "offsets", "buffer"} BY FourBlocks
<1>4. /\ b # "state" => s_ = s
      /\ b # "cdir" => c_ = c
      /\ b # "offsets" => o_ = o
      /\ b # "buffer" => u_ = u BY FourBlocks
<1>5. /\ b = "state" => s = 0 /\ s_ = Paid(b)'
      /\ b = "cdir" => c = 0 /\ c_ = Paid(b)'
      /\ b = "offsets" => o = 0 /\ o_ = Paid(b)'
      /\ b = "buffer" => u = 0 /\ u_ = Paid(b)' OBVIOUS
<1> DEFINE r == Paid(b)'
<1>6. r \in Nat OBVIOUS
<1> HIDE DEF s, s_, c, c_, o, o_, u, u_, r
<1>7. s_ + c_ + o_ + u_ = s + c + o + u + r BY <1>1, <1>3, <1>4, <1>5, <1>6 DEF r
<1> QED BY <1>2, <1>7 DEF r

LEMMA TotalShrinks ==
  ASSUME BInv, NEW b \in Blocks, Paid(b)' = 0, \A x \in Blocks \ {b} : Paid(x)' = Paid(x)
  PROVE  Total' = Total - Paid(b) /\ Paid(b) <= Total
<1> DEFINE s == Paid("state") s_ == Paid("state")' c == Paid("cdir") c_ == Paid("cdir")'
           o == Paid("offsets") o_ == Paid("offsets")' u == Paid("buffer") u_ == Paid("buffer")'
           r == Paid(b)
<1>1. s \in Nat /\ c \in Nat /\ o \in Nat /\ u \in Nat BY PaidIsNatural, FourBlocks
<1>2. Total = s + c + o + u /\ Total' = s_ + c_ + o_ + u_ BY DEF Total
<1>3. b \in {"state", "cdir", "offsets", "buffer"} BY FourBlocks
<1>4. /\ b # "state" => s_ = s
      /\ b # "cdir" => c_ = c
      /\ b # "offsets" => o_ = o
      /\ b # "buffer" => u_ = u BY FourBlocks
<1>5. /\ b = "state" => s = r /\ s_ = 0
      /\ b = "cdir" => c = r /\ c_ = 0
      /\ b = "offsets" => o = r /\ o_ = 0
      /\ b = "buffer" => u = r /\ u_ = 0 OBVIOUS
<1>6. r \in Nat BY PaidIsNatural
<1> HIDE DEF s, s_, c, c_, o, o_, u, u_, r
<1>7. s_ + c_ + o_ + u_ = (s + c + o + u) - r /\ r <= s + c + o + u
  BY <1>1, <1>3, <1>4, <1>5, <1>6
<1> QED BY <1>2, <1>7 DEF r

(* What a request leaves behind: one more block, of the size that was asked *)
(* for, or nothing at all.                                                 *)
LEMMA GetEffect ==
  ASSUME BInv, current_bytes = Total, NEW b \in Blocks, NEW items, NEW size, NEW got \in BOOLEAN,
         Get(b, items, size, got)
  PROVE  /\ current_bytes' = Total'
         /\ Live' = (IF got THEN Live \cup {b} ELSE Live)
         /\ got => b \notin Live /\ asked'[b] = items * size
         /\ \A x \in Live : asked'[x] = asked[x]
<1>1. CASE got /\ AllocOf(b, items, size)
  <2>1. /\ b \in Blocks \ Live /\ items \in Counts /\ size \in Sizes
        /\ Fits(items, size, current_bytes)
        /\ payload_bytes' = [x \in Live \cup {b} |->
             IF x = b THEN Requested(items, size) ELSE payload_bytes[x]]
        /\ asked' = [x \in Live \cup {b} |-> IF x = b THEN items * size ELSE asked[x]]
        /\ Count(current_bytes + Requested(items, size))
    BY <1>1 DEF AllocOf
  <2>2. current_bytes \in Nat /\ current_bytes <= Limit BY DEF BInv
  <2>3. /\ Requested(items, size) \in Nat
        /\ current_bytes' = current_bytes + Requested(items, size)
    BY <2>1, <2>2, CountFits
  <2>4. Live' = Live \cup {b} BY <2>1 DEF Live
  <2>5. Paid(b) = 0 /\ Paid(b)' = Requested(items, size) BY <2>1, <2>4 DEF Paid
  <2>6. \A x \in Blocks \ {b} : Paid(x)' = Paid(x) BY <2>1, <2>4 DEF Paid
  <2>7. Total' = Total + Paid(b)' BY <2>3, <2>5, <2>6, TotalGrows
  <2>8. current_bytes' = Total' BY <2>3, <2>5, <2>7
  <2>9. asked'[b] = items * size /\ \A x \in Live : asked'[x] = asked[x] BY <2>1
  <2> QED BY <1>1, <2>1, <2>4, <2>8, <2>9
<1>2. CASE ~got /\ UNCHANGED <<payload_bytes, asked, current_bytes>>
  BY <1>2 DEF Live, Total, Paid
<1> QED BY <1>1, <1>2 DEF Get, RefuseOf, NoMemoryOf

LEMMA FreeEffect ==
  ASSUME BInv, current_bytes = Total, NEW b \in Blocks, FreeIf(b)
  PROVE  /\ current_bytes' = Total' /\ Live' = Live \ {b}
         /\ \A x \in Live' : asked'[x] = asked[x]
<1>1. CASE b \in Live
  <2>1. /\ payload_bytes' = [x \in Live \ {b} |-> payload_bytes[x]]
        /\ asked' = [x \in Live \ {b} |-> asked[x]] /\ current_bytes' = Without(b)
    BY <1>1 DEF FreeIf, FreeOf
  <2>2. Live' = Live \ {b} BY <2>1 DEF Live
  <2>3. Paid(b)' = 0 /\ \A x \in Blocks \ {b} : Paid(x)' = Paid(x) BY <2>1, <2>2 DEF Paid
  <2>4. Total' = Total - Paid(b) /\ Paid(b) <= Total BY <2>3, TotalShrinks
  <2>5. Without(b) = current_bytes - Paid(b) BY <1>1, <2>4 DEF Without, Paid
  <2> QED BY <2>1, <2>2, <2>4, <2>5
<1>2. CASE b \notin Live BY <1>2 DEF FreeIf, vars, Live, Total, Paid
<1> QED BY <1>1, <1>2

LEMMA QuietEffect ==
  ASSUME UNCHANGED vars
  PROVE  Live' = Live /\ Total' = Total /\ current_bytes' = current_bytes /\ asked' = asked
BY DEF vars, Live, Total, Paid

-----------------------------------------------------------------------------
LEMMA HeldQuietly ==
  ASSUME HeldInv, UNCHANGED vars, Held(at) \subseteq Held(at'), at' = "over" => ~file_open'
  PROVE  HeldInv'
BY QuietEffect DEF HeldInv

LEMMA HeldOpening ==
  ASSUME BInv, HeldInv, Opening PROVE HeldInv'
<1> USE FourBlocks
<1>1. current_bytes = Total /\ Live \subseteq Held(at) BY DEF HeldInv
<1>2. CASE InitInternal
  <2>1. PICK got \in BOOLEAN :
          Get("state", 1, StateSize, got) /\ at' = IF got THEN "locate" ELSE "failed"
    BY <1>2 DEF InitInternal
  <2>2. /\ current_bytes' = Total' /\ Live' = (IF got THEN Live \cup {"state"} ELSE Live)
    BY <1>1, <2>1, GetEffect
  <2>3. Live = {} BY <1>1, <1>2 DEF InitInternal, Held
  <2> QED BY <2>1, <2>2, <2>3 DEF HeldInv, Held
<1>3. CASE GetDirectory
  <2>1. PICK got \in BOOLEAN :
          Get("cdir", 1, dir.end.csize, got) /\ at' = IF got THEN "offsets" ELSE "end_directory"
    BY <1>3 DEF GetDirectory, Block, Reject
  <2>2. /\ current_bytes' = Total' /\ Live' = (IF got THEN Live \cup {"cdir"} ELSE Live)
    BY <1>1, <2>1, GetEffect
  <2>3. Live \subseteq {"state"} BY <1>1, <1>3 DEF GetDirectory, Block, Held
  <2> QED BY <2>1, <2>2, <2>3 DEF HeldInv, Held
<1>4. CASE GetOffsets
  <2>1. PICK got \in BOOLEAN :
          /\ Get("offsets", 4, zip.total, got)
          /\ at' = IF got THEN "read_directory" ELSE "end_directory"
    BY <1>4 DEF GetOffsets, Block, Reject
  <2>2. /\ current_bytes' = Total' /\ Live' = (IF got THEN Live \cup {"offsets"} ELSE Live)
    BY <1>1, <2>1, GetEffect
  <2>3. Live \subseteq {"state", "cdir"} BY <1>1, <1>4 DEF GetOffsets, Block, Held
  <2> QED BY <2>1, <2>2, <2>3 DEF HeldInv, Held
<1>5. CASE \/ Locate \/ ReadEnd \/ ReadLocator \/ ReadNear \/ ReadThere \/ Check64 \/ CheckEnd
           \/ ReadDirectory \/ CheckRecord
  <2>1. UNCHANGED vars /\ at' # "over"
    BY <1>5 DEF Locate, ReadEnd, ReadLocator, ReadNear, ReadThere, ReadEnd64, Check64, CheckEnd,
         ReadDirectory, CheckRecord, Reject, Goto
  <2>2. CASE Locate \/ ReadEnd \/ ReadLocator \/ ReadNear \/ ReadThere \/ Check64 \/ CheckEnd
    <3>1. Held(at) = {"state"}
      BY <2>2 DEF Locate, ReadEnd, ReadLocator, ReadNear, ReadThere, Check64, CheckEnd, Held, Goto
    <3>2. at' \in {"end_record", "locator", "near", "there", "check_64", "check_end",
                   "open", "directory", "end_directory"}
      BY <2>2 DEF Locate, ReadEnd, ReadLocator, ReadNear, ReadThere, ReadEnd64, Check64, CheckEnd,
           Reject, Goto
    <3> QED BY <2>1, <3>1, <3>2, HeldQuietly DEF Held
  <2>3. CASE ReadDirectory \/ CheckRecord
    <3>1. at \in {"read_directory", "records"} /\ at' \in {"records", "open", "end_directory"}
      BY <2>3 DEF ReadDirectory, CheckRecord, Reject
    <3> QED BY <2>1, <3>1, HeldQuietly DEF Held
  <2> QED BY <1>5, <2>2, <2>3
<1> QED BY <1>2, <1>3, <1>4, <1>5 DEF Opening

LEMMA HeldExtraction ==
  ASSUME BInv, HeldInv, Extraction PROVE HeldInv'
<1> USE FourBlocks
<1>1. current_bytes = Total /\ Live \subseteq Held(at) BY DEF HeldInv
<1>2. CASE GetBuffer
  <2>1. PICK got \in BOOLEAN :
          Get("buffer", 1, ReadBufSize, got) /\ at' = IF got THEN "fill" ELSE "open"
    BY <1>2 DEF GetBuffer
  <2>2. /\ current_bytes' = Total' /\ Live' = (IF got THEN Live \cup {"buffer"} ELSE Live)
    BY <1>1, <2>1, GetEffect
  <2>3. Live \subseteq {"state", "cdir", "offsets"} BY <1>1, <1>2 DEF GetBuffer, Held
  <2> QED BY <2>1, <2>2, <2>3 DEF HeldInv, Held
<1>3. CASE Release
  <2>1. current_bytes' = Total' /\ Live' = Live \ {"buffer"} BY <1>1, <1>3, FreeEffect DEF Release
  <2>2. at = "release" /\ at' = "open" BY <1>3 DEF Release, Goto
  <2> QED BY <1>1, <2>1, <2>2 DEF HeldInv, Held
<1>4. CASE BeginExtraction \/ ReadLocal \/ ReadStored
  <2>1. /\ UNCHANGED vars /\ at \in {"extract", "local", "stored"}
        /\ at' \in {"open", "local", "stored", "inflate", "buffer"}
    BY <1>4 DEF BeginExtraction, ReadLocal, ReadStored, Fails, Returns
  <2> QED BY <2>1, HeldQuietly DEF Held
<1>5. CASE Fill \/ Decompress \/ Continue \/ CheckResult
  <2>1. /\ UNCHANGED vars /\ at \in {"fill", "inflate"} /\ at' \in {"fill", "inflate", "release"}
    BY <1>5 DEF Fill, Decompress, Continue, CheckResult
  <2> QED BY <2>1, HeldQuietly DEF Held
<1> QED BY <1>2, <1>3, <1>4, <1>5 DEF Extraction

LEMMA HeldEnding ==
  ASSUME BInv, HeldInv, EndInternal PROVE HeldInv'
<1> USE FourBlocks
<1>1. current_bytes = Total /\ Live \subseteq Held(at) BY DEF HeldInv
<1>2. CASE EndDirectory
  <2>1. current_bytes' = Total' /\ Live' = Live \ {"cdir"} BY <1>1, <1>2, FreeEffect DEF EndDirectory
  <2>2. at = "end_directory" /\ at' = "end_offsets" BY <1>2 DEF EndDirectory, Goto
  <2> QED BY <1>1, <2>1, <2>2 DEF HeldInv, Held
<1>3. CASE EndOffsets
  <2>1. current_bytes' = Total' /\ Live' = Live \ {"offsets"} BY <1>1, <1>3, FreeEffect DEF EndOffsets
  <2>2. at = "end_offsets" /\ at' = "end_state" BY <1>3 DEF EndOffsets, Goto
  <2> QED BY <1>1, <2>1, <2>2 DEF HeldInv, Held
<1>4. CASE EndState
  <2>1. current_bytes' = Total' /\ Live' = Live \ {"state"} BY <1>1, <1>4, FreeEffect DEF EndState
  <2>2. at = "end_state" /\ at' = "failed" BY <1>4 DEF EndState, Goto
  <2> QED BY <1>1, <2>1, <2>2 DEF HeldInv, Held
<1>5. CASE ScopeEnds
  <2>1. UNCHANGED vars /\ at = "failed" /\ at' = "over" /\ ~file_open'
    BY <1>5 DEF ScopeEnds, Goto
  <2> QED BY <2>1, HeldQuietly DEF Held
<1> QED BY <1>2, <1>3, <1>4, <1>5 DEF EndInternal

LEMMA HeldStep ==
  ASSUME BInv, HeldInv, [ReaderNext]_reader_vars PROVE HeldInv'
<1>1. CASE Client
  <2>1. /\ UNCHANGED vars
        /\ \/ at = "closed" /\ at' \in {"failed", "init"}
           \/ at = "open" /\ at' \in {"open", "extract", "end_directory"}
    BY <1>1 DEF Client, Open, Stat, Close, Goto
  <2> QED BY <2>1, HeldQuietly DEF Held
<1>2. CASE UNCHANGED reader_vars
  BY <1>2, HeldQuietly DEF reader_vars, HeldInv
<1> QED BY <1>1, <1>2, HeldOpening, HeldExtraction, HeldEnding DEF ReaderNext, Program

LEMMA HeldAlways == ReaderSpec => []HeldInv
<1>1. ReaderInit => HeldInv
  <2>1. DOMAIN <<>> = {} OBVIOUS
  <2> QED BY <2>1 DEF ReaderInit, Init, HeldInv, Live, Total, Paid
<1>2. BInv /\ HeldInv /\ [ReaderNext]_reader_vars => HeldInv' BY HeldStep
<1> QED BY <1>1, <1>2, ReaderUsesAllocator, BudgetInvariant, PTL DEF ReaderSpec

(* NothingLeaks: however an archive is damaged, whichever reads fail and   *)
(* whatever memory is refused, a scan that is over holds no block and no   *)
(* file, and no extraction leaves its read buffer to the next one.         *)
THEOREM ReaderLeaksNothing == ReaderSpec => []NothingLeaks
<1>1. HeldInv => NothingLeaks BY DEF HeldInv, NothingLeaks, Held, Total, Paid
<1> QED BY <1>1, HeldAlways, PTL

-----------------------------------------------------------------------------
(* Steps that leave the directory and the index alone                      *)
LEMMA IndexQuietly ==
  ASSUME IndexInv, UNCHANGED <<archive, dir, index>>, DOMAIN zip' = DOMAIN zip, zip'.start = zip.start,
         at' \in Unread => at \in Unread,
         "cdir" \in Live' => "cdir" \in Live /\ asked'["cdir"] = asked["cdir"]
  PROVE  IndexInv'
<1>1. \A ofs : Whole(ofs)' <=> Whole(ofs) BY DEF Whole, Abs, Sum, HeaderSize
<1> QED BY <1>1 DEF IndexInv

LEMMA SetKeepsZip ==
  ASSUME IndexInv, NEW error PROVE DOMAIN Set(error) = DOMAIN zip /\ Set(error).start = zip.start
BY DEF IndexInv, Set

(* Steps from before the directory has a block: there is no index yet.     *)
LEMMA IndexEarly ==
  ASSUME IndexInv, HeldInv, UNCHANGED <<archive, index, vars>>, at \in Unread, Held(at) = {"state"},
         DOMAIN dir' = DOMAIN dir, dir'.p = dir.p, DOMAIN zip' = DOMAIN zip
  PROVE  IndexInv'
<1>1. "cdir" \notin Live' BY QuietEffect DEF HeldInv
<1> QED BY <1>1 DEF IndexInv

LEMMA IndexLocating ==
  ASSUME IndexInv, HeldInv,
         Locate \/ ReadEnd \/ ReadLocator \/ ReadNear \/ ReadThere \/ Check64 \/ CheckEnd
  PROVE  IndexInv'
<1>1. UNCHANGED <<archive, index, vars>>
  BY DEF Locate, ReadEnd, ReadLocator, ReadNear, ReadThere, ReadEnd64, Check64, CheckEnd, Reject, setting
<1>2. at \in {"locate", "end_record", "locator", "near", "there", "check_64", "check_end"}
  BY DEF Locate, ReadEnd, ReadLocator, ReadNear, ReadThere, Check64, CheckEnd, Goto
<1>3. at \in Unread /\ Held(at) = {"state"} BY <1>2 DEF Unread, Held
<1>4. DOMAIN dir' = DOMAIN dir /\ dir'.p = dir.p
  <2>1. \A v : /\ DOMAIN [dir EXCEPT !.eocd = v] = DOMAIN dir /\ [dir EXCEPT !.eocd = v].p = dir.p
              /\ DOMAIN [dir EXCEPT !.end = v] = DOMAIN dir /\ [dir EXCEPT !.end = v].p = dir.p
    BY DEF IndexInv
  <2>2. \/ dir' = dir \/ \E v : dir' = [dir EXCEPT !.eocd = v] \/ dir' = [dir EXCEPT !.end = v]
    BY DEF Locate, ReadEnd, ReadLocator, ReadNear, ReadThere, ReadEnd64, Check64, CheckEnd, Reject
  <2> QED BY <2>1, <2>2
<1>5. DOMAIN zip' = DOMAIN zip
  <2>1. DOMAIN zip' = DOMAIN zip \/ \E error : zip' = Set(error)
    BY DEF Locate, ReadEnd, ReadLocator, ReadNear, ReadThere, ReadEnd64, Check64, CheckEnd, Reject
  <2> QED BY <2>1, SetKeepsZip
<1> QED BY <1>1, <1>3, <1>4, <1>5, IndexEarly

(* A record that passes the checks lies within what is left.               *)
LEMMA RecordFits ==
  ASSUME NEW h, NEW left, Failing(RecordChecks(h, left)) = {} PROVE ~(HeaderSize(h) > left)
<1>1. 5 \in DOMAIN RecordChecks(h, left) /\ RecordChecks(h, left)[5][1] = (HeaderSize(h) > left)
  BY DEF RecordChecks
<1> QED BY <1>1 DEF Failing

LEMMA HeaderSizeIsNatural ==
  ASSUME NEW a \in Archives, NEW place \in DOMAIN a.headers
  PROVE  HeaderSize(a.headers[place]) \in Nat
<1> DEFINE h == a.headers[place]
<1>1. h.name \in 0 .. U16 /\ h.extra \in 0 .. U16 /\ h.comment \in 0 .. U16
  BY ReaderAssumption DEF IsArchive, IsRecord
<1>2. h.name \in Nat /\ h.extra \in Nat /\ h.comment \in Nat BY <1>1
<1> QED BY <1>2 DEF HeaderSize, RecordSize

LEMMA IndexRecords ==
  ASSUME BInv, IndexInv, CheckRecord PROVE IndexInv'
<1> DEFINE place == Abs(dir.end.ofs + dir.p)
           left == dir.end.csize - dir.p
           h == archive.headers[place]
<1>1. UNCHANGED <<archive, vars>> /\ at = "records" /\ Live' = Live /\ asked' = asked
  BY QuietEffect DEF CheckRecord, setting
<1>2. \/ /\ at' = "end_directory" /\ UNCHANGED <<dir, index>> /\ \E error : zip' = Set(error)
      \/ /\ place \in DOMAIN archive.headers /\ Failing(RecordChecks(h, left)) = {}
         /\ at' \in {"open", "records"} /\ index' = Append(index, dir.p)
         /\ zip' = [zip EXCEPT !.zip64 = @ \/ Look(h) = "zip64", !.ext = @ \/ Look(h) = "zip64"]
         /\ dir' = [dir EXCEPT !.p = @ + HeaderSize(h)]
  BY DEF CheckRecord, Reject
<1>3. CASE at' = "end_directory" /\ UNCHANGED <<dir, index>> /\ \E error : zip' = Set(error)
  BY <1>1, <1>3, SetKeepsZip, IndexQuietly DEF Unread
<1>4. CASE /\ place \in DOMAIN archive.headers /\ Failing(RecordChecks(h, left)) = {}
           /\ at' \in {"open", "records"} /\ index' = Append(index, dir.p)
           /\ zip' = [zip EXCEPT !.zip64 = @ \/ Look(h) = "zip64", !.ext = @ \/ Look(h) = "zip64"]
           /\ dir' = [dir EXCEPT !.p = @ + HeaderSize(h)]
  <2> DEFINE size == HeaderSize(h)
  <2>1. size \in Nat /\ dir.p \in Nat BY <1>4, HeaderSizeIsNatural DEF IndexInv
  <2>2. ~(size > left) BY <1>4, RecordFits
  <2>3. DOMAIN zip' = DOMAIN zip /\ zip'.start = zip.start BY <1>4 DEF IndexInv
  <2> HIDE DEF size
  <2>4. DOMAIN dir' = DOMAIN dir /\ dir'.end = dir.end /\ dir'.p = dir.p + size
    BY <1>4 DEF IndexInv, size
  <2>6. dir'.p \in Nat BY <2>1, <2>4
  <2>7. ASSUME "cdir" \in Live PROVE Whole(dir.p)
    <3>1. dir.end.csize \in Nat BY <2>7 DEF BInv, IndexInv
    <3>2. dir.p + size <= dir.end.csize BY <2>1, <2>2, <3>1
    <3> QED BY <1>4, <3>2 DEF Whole, size
  <2>8. index \in Seq(Nat) /\ index' \in Seq(Nat) BY <1>4, <2>1 DEF IndexInv
  <2>9. \A i \in DOMAIN index' : (i \in DOMAIN index /\ index'[i] = index[i]) \/ index'[i] = dir.p
    BY <1>4, <2>1, <2>8
  <2>10. "cdir" \in Live => \A i \in DOMAIN index' : Whole(index[i])'
    <3>1. SUFFICES ASSUME "cdir" \in Live, NEW i \in DOMAIN index' PROVE Whole(index[i])' OBVIOUS
    <3>2. Whole(index[i])' <=> Whole(index'[i])
      BY <1>1, <2>3, <2>4 DEF Whole, Abs, Sum, HeaderSize
    <3>3. Whole(index'[i]) BY <2>7, <2>9, <3>1 DEF IndexInv
    <3> QED BY <3>2, <3>3
  <2>11. at' \notin Unread BY <1>4 DEF Unread
  <2> QED BY <1>1, <2>3, <2>4, <2>6, <2>8, <2>10, <2>11 DEF IndexInv
<1> QED BY <1>2, <1>3, <1>4

LEMMA IndexBlocks ==
  ASSUME BInv, HeldInv, IndexInv, InitInternal \/ GetDirectory \/ GetOffsets \/ GetBuffer
  PROVE  IndexInv'
<1> USE FourBlocks
<1>1. current_bytes = Total /\ Live \subseteq Held(at) BY DEF HeldInv
<1>2. UNCHANGED <<archive, dir, index>>
  BY DEF InitInternal, GetDirectory, GetOffsets, GetBuffer, Block, Reject, setting
<1>3. DOMAIN zip' = DOMAIN zip /\ zip'.start = zip.start
  <2>1. zip' = zip \/ \E error : zip' = Set(error)
    BY DEF InitInternal, GetDirectory, GetOffsets, GetBuffer, Block, Reject
  <2> QED BY <2>1, SetKeepsZip
<1>4. at' \in Unread => at \in Unread
  BY DEF InitInternal, GetDirectory, GetOffsets, GetBuffer, Block, Reject, Unread
<1>5. CASE InitInternal \/ GetOffsets \/ GetBuffer
  <2>1. PICK b \in Blocks \ {"cdir"} : \E items, size : \E got \in BOOLEAN : Get(b, items, size, got)
    BY <1>5 DEF InitInternal, GetOffsets, GetBuffer, Block
  <2>2. "cdir" \in Live' => "cdir" \in Live /\ asked'["cdir"] = asked["cdir"]
    BY <1>1, <2>1, GetEffect
  <2> QED BY <1>2, <1>3, <1>4, <2>2, IndexQuietly
<1>6. CASE GetDirectory
  <2>1. PICK got \in BOOLEAN :
          /\ Get("cdir", 1, dir.end.csize, got)
          /\ at = "directory" /\ at' = IF got THEN "offsets" ELSE "end_directory"
    BY <1>6 DEF GetDirectory, Block, Reject
  <2>2. /\ Live' = (IF got THEN Live \cup {"cdir"} ELSE Live)
        /\ got => asked'["cdir"] = 1 * dir.end.csize
    BY <1>1, <2>1, GetEffect
  <2>3. index = <<>> /\ "cdir" \notin Live BY <1>1, <2>1 DEF IndexInv, Unread, Held
  <2>4. got => asked'["cdir"] = dir.end.csize
    <3>1. got => dir.end.csize \in Sizes BY <2>1 DEF Get, AllocOf
    <3>2. got => dir.end.csize \in Int BY <3>1, ReaderAssumption, BudgetAssumption
    <3> QED BY <2>2, <3>2
  <2> QED BY <1>2, <1>3, <2>1, <2>2, <2>3, <2>4 DEF IndexInv
<1> QED BY <1>5, <1>6

LEMMA IndexElsewhere ==
  ASSUME BInv, HeldInv, IndexInv,
         Client \/ ReadDirectory \/ BeginExtraction \/ ReadLocal \/ ReadStored \/ Fill \/ Decompress
         \/ Continue \/ CheckResult \/ Release \/ EndInternal
  PROVE  IndexInv'
<1> USE FourBlocks
<1>1. UNCHANGED <<archive, dir, index>>
  BY DEF Client, Open, Stat, Close, ReadDirectory, BeginExtraction, ReadLocal, ReadStored, Fill,
     Decompress, Continue, CheckResult, Release, EndInternal, EndDirectory, EndOffsets, EndState,
     ScopeEnds, Reject, setting
<1>2. DOMAIN zip' = DOMAIN zip /\ zip'.start = zip.start
  <2>1. \/ zip' = zip \/ \E error : zip' = Set(error)
        \/ zip' = [zip EXCEPT !.size = archive.size]
    BY DEF Client, Open, Stat, Close, ReadDirectory, BeginExtraction, ReadLocal, ReadStored, Fill,
       Decompress, Continue, CheckResult, Release, EndInternal, EndDirectory, EndOffsets, EndState,
       ScopeEnds, Reject, Fails, Returns
  <2>2. /\ DOMAIN [zip EXCEPT !.size = archive.size] = DOMAIN zip
        /\ [zip EXCEPT !.size = archive.size].start = zip.start
    BY DEF IndexInv
  <2> QED BY <2>1, <2>2, SetKeepsZip
<1>3. at' \in Unread => at \in Unread
  BY DEF Client, Open, Stat, Close, ReadDirectory, BeginExtraction, ReadLocal, ReadStored, Fill,
     Decompress, Continue, CheckResult, Release, EndInternal, EndDirectory, EndOffsets, EndState,
     ScopeEnds, Reject, Fails, Returns, Goto, Unread
<1>4. "cdir" \in Live' => "cdir" \in Live /\ asked'["cdir"] = asked["cdir"]
  <2>1. CASE UNCHANGED vars BY <2>1, QuietEffect
  <2>2. CASE \E b \in Blocks : FreeIf(b)
    BY <2>2, FreeEffect DEF HeldInv
  <2> QED BY <2>1, <2>2 DEF Client, Open, Stat, Close, ReadDirectory, BeginExtraction, ReadLocal,
     ReadStored, Fill, Decompress, Continue, CheckResult, Release, EndInternal, EndDirectory,
     EndOffsets, EndState, ScopeEnds
<1> QED BY <1>1, <1>2, <1>3, <1>4, IndexQuietly

LEMMA IndexStep ==
  ASSUME BInv, HeldInv, IndexInv, [ReaderNext]_reader_vars PROVE IndexInv'
<1>1. CASE UNCHANGED reader_vars
  BY <1>1, QuietEffect, IndexQuietly DEF reader_vars, setting
<1> QED BY <1>1, IndexLocating, IndexRecords, IndexBlocks, IndexElsewhere
        DEF ReaderNext, Program, Opening, Extraction

(* IndexSound: every record in the index is one, with all of its header    *)
(* inside of the block that holds the directory, for every archive.        *)
THEOREM IndexLeadsToRecords == ReaderSpec => []IndexSound
<1>1. ReaderInit => IndexInv
  <2>1. DOMAIN <<>> = {} /\ <<>> \in Seq(Nat) OBVIOUS
  <2> QED BY <2>1 DEF ReaderInit, Init, IndexInv, Live
<1>2. BInv /\ HeldInv /\ IndexInv /\ [ReaderNext]_reader_vars => IndexInv' BY IndexStep
<1>3. IndexInv => IndexSound BY DEF IndexInv, IndexSound, Whole, Record
<1> QED BY <1>1, <1>2, <1>3, HeldAlways, ReaderUsesAllocator, BudgetInvariant, PTL DEF ReaderSpec

-----------------------------------------------------------------------------
(* What has been read of a stream: its type.                               *)
IsSaid(s) ==
  /\ DOMAIN s = {"pos", "out", "counter", "dist", "failed"}
  /\ s.pos \in Nat /\ s.counter \in Nat /\ s.dist \in Nat /\ s.failed \in BOOLEAN
  /\ IsSequence(s.out)
(* It will not fit, or means nothing.                                      *)
Doomed(said, capacity) == said.failed \/ Len(said.out) > capacity

LEMMA SequenceHas ==
  ASSUME NEW s, IsSequence(s)
  PROVE  Len(s) \in Nat /\ DOMAIN s = 1 .. Len(s)
BY DEF IsSequence

LEMMA NoneIsSequence == IsSequence(<<>>) /\ Len(<<>>) = 0
<1>1. <<>> \in Seq({<<>>[i] : i \in DOMAIN <<>>}) OBVIOUS
<1> QED BY <1>1 DEF IsSequence

LEMMA AppendIsSequence ==
  ASSUME NEW s, NEW v, IsSequence(s)
  PROVE  IsSequence(Append(s, v)) /\ Len(Append(s, v)) = Len(s) + 1
<1> DEFINE S == {s[i] : i \in DOMAIN s} t == Append(s, v) T == {t[i] : i \in DOMAIN t}
<1>1. s \in Seq(S \cup {v}) 
  <2>1. s \in Seq(S) BY DEF IsSequence
  <2> HIDE DEF S
  <2> QED BY <2>1
<1>2. Len(t) = Len(s) + 1 /\ t \in Seq(S \cup {v})
  <2> HIDE DEF S
  <2> QED BY <1>1
<1>3. DOMAIN t = 1 .. Len(t) /\ Len(t) \in Nat
  <2> HIDE DEF S, t
  <2> QED BY <1>2
<1>4. \A i \in 1 .. Len(t) : t[i] \in T BY <1>3
<1>5. t = [i \in 1 .. Len(t) |-> t[i]]
  <2> HIDE DEF S, t
  <2> QED BY <1>2
<1>6. t \in Seq(T)
  <2> HIDE DEF S, t, T
  <2> QED BY <1>3, <1>4, <1>5
<1> QED BY <1>2, <1>6 DEF IsSequence

LEMMA CopiedIsSequence ==
  ASSUME NEW s, NEW dist, NEW n \in Nat, IsSequence(s)
  PROVE  IsSequence(Copied(s, dist, n)) /\ Len(Copied(s, dist, n)) = Len(s) + n
<1> DEFINE k == Len(s) + n c == Copied(s, dist, n) T == {c[i] : i \in DOMAIN c}
<1>1. k \in Nat BY SequenceHas
<1> DEFINE f == CHOOSE value : value = [i \in 1 .. Len(s) + n |-> IF i <= Len(s) THEN s[i] ELSE value[i - dist]]
<1>2. c = [i \in 1 .. k |-> f[i]] BY DEF Copied
<1> HIDE DEF f
<1>3. DOMAIN c = 1 .. k BY <1>2
<1>4. \A i \in 1 .. k : c[i] \in T BY <1>3
<1>5. c = [i \in 1 .. k |-> c[i]]
  <2>1. \A i \in 1 .. k : c[i] = f[i] BY <1>2
  <2> HIDE DEF c, k, T
  <2> QED BY <1>2, <2>1
<1>6. c \in Seq(T) /\ Len(c) = k
  <2> HIDE DEF c, k, T
  <2> QED BY <1>1, <1>3, <1>4, <1>5
<1> QED BY <1>6 DEF IsSequence

-----------------------------------------------------------------------------
(* Where a token ends.                                                     *)
After(said, t) ==
  said.pos + (IF t.kind = "align" THEN (8 - (said.pos % 8)) % 8 ELSE Width(t, 0))

LEMMA WidthIsNatural ==
  ASSUME NEW t, IsToken(t), NEW bits \in Nat PROVE Width(t, bits) \in Nat
BY DEF Width, IsToken, Codes

LEMMA AfterIsNatural ==
  ASSUME NEW said, IsSaid(said), NEW t, IsToken(t)
  PROVE  After(said, t) \in Nat /\ After(said, t) >= said.pos
<1>1. Width(t, 0) \in Nat BY WidthIsNatural
<1>2. said.pos \in Nat BY DEF IsSaid
<1>3. (8 - (said.pos % 8)) % 8 \in Nat BY <1>2
<1> QED BY <1>1, <1>2, <1>3 DEF After

(* The outcomes of a token: bad, or what has been said with one part of it *)
(* changed.                                                                *)
Moved(said, t) == [said EXCEPT !.pos = After(said, t)]
Failed(said, t) == [Moved(said, t) EXCEPT !.failed = TRUE]

LEMMA MovedIs ==
  ASSUME NEW said, IsSaid(said), NEW t, IsToken(t)
  PROVE  /\ IsSaid(Moved(said, t)) /\ Moved(said, t).pos = After(said, t)
         /\ Moved(said, t).out = said.out /\ Moved(said, t).counter = said.counter
         /\ Moved(said, t).dist = said.dist /\ Moved(said, t).failed = said.failed
<1> DEFINE p == After(said, t) m == Moved(said, t)
<1>1. p \in Nat BY AfterIsNatural
<1>2. m = [said EXCEPT !.pos = p] BY DEF Moved
<1> HIDE DEF p, m
<1>3. /\ DOMAIN m = {"pos", "out", "counter", "dist", "failed"}
      /\ m.pos = p /\ m.out = said.out /\ m.counter = said.counter /\ m.dist = said.dist
      /\ m.failed = said.failed BY <1>2 DEF IsSaid
<1>4. IsSaid(m) BY <1>1, <1>3 DEF IsSaid
<1> QED BY <1>3, <1>4 DEF p, m

LEMMA FailedIs ==
  ASSUME NEW said, IsSaid(said), NEW t, IsToken(t)
  PROVE  /\ IsSaid(Failed(said, t)) /\ Failed(said, t).pos = After(said, t)
         /\ Failed(said, t).failed /\ Failed(said, t).out = said.out
<1> DEFINE u == Moved(said, t) m == Failed(said, t)
<1>1. /\ IsSaid(u) /\ u.pos = After(said, t) /\ u.out = said.out BY MovedIs
<1>2. m = [u EXCEPT !.failed = TRUE] BY DEF Failed
<1> HIDE DEF u, m
<1>3. /\ DOMAIN m = {"pos", "out", "counter", "dist", "failed"}
      /\ m.pos = u.pos /\ m.out = u.out /\ m.counter = u.counter /\ m.dist = u.dist
      /\ m.failed = TRUE BY <1>1, <1>2 DEF IsSaid
<1>4. IsSaid(m) BY <1>1, <1>3 DEF IsSaid
<1> QED BY <1>1, <1>3, <1>4 DEF m

(* A token that cannot stand where it does, or of which the end is missing; *)
(* and what a good one does to the output, the counter and the distance.   *)
Wrong(said, t) ==
  \/ t.kind = "header" /\ t.type = 3
  \/ t.kind \in {"stored", "table"} /\ ~t.good
  \/ t.kind = "lengths" /\ t.again /\ said.counter = 0
  \/ t.kind = "tables" /\ ~(t.good /\ said.counter = t.sizes)
  \/ t.kind = "match" /\ said.dist \notin 1 .. Len(said.out)
Bad(said, t, bytes) == said.failed \/ After(said, t) > 8 * bytes \/ Wrong(said, t)
OutOf(said, t) ==
  IF t.kind \in {"raw", "literal"} THEN Append(said.out, t.value)
  ELSE IF t.kind = "match" THEN Copied(said.out, said.dist, said.counter) ELSE said.out
CounterOf(said, t) ==
  IF t.kind = "table" THEN 0 ELSE IF t.kind = "lengths" THEN said.counter + t.count
  ELSE IF t.kind = "length" THEN t.count ELSE said.counter
DistOf(said, t) == IF t.kind = "distance" THEN t.back ELSE said.dist

LEMMA SaysIs ==
  ASSUME NEW said, IsSaid(said), NEW t, IsToken(t), NEW bytes
  PROVE  LET s == Says(said, t, bytes)
         IN  /\ Bad(said, t, bytes) => s = Failed(said, t)
             /\ ~Bad(said, t, bytes) =>
                  /\ DOMAIN s = {"pos", "out", "counter", "dist", "failed"}
                  /\ s.pos = After(said, t) /\ s.out = OutOf(said, t)
                  /\ s.counter = CounterOf(said, t) /\ s.dist = DistOf(said, t) /\ s.failed = FALSE
<1> DEFINE u == Moved(said, t) f == Failed(said, t) s == Says(said, t, bytes) p == After(said, t)
<1>1. s = (IF said.failed \/ p > 8 * bytes THEN f
           ELSE CASE t.kind = "header" -> IF t.type = 3 THEN f ELSE u
             [] t.kind \in {"raw", "literal"} -> [u EXCEPT !.out = Append(@, t.value)]
             [] t.kind = "stored" -> IF t.good THEN u ELSE f
             [] t.kind = "table" -> IF t.good THEN [u EXCEPT !.counter = 0] ELSE f
             [] t.kind = "lengths" ->
                  IF t.again /\ u.counter = 0 THEN f ELSE [u EXCEPT !.counter = @ + t.count]
             [] t.kind = "tables" -> IF t.good /\ u.counter = t.sizes THEN u ELSE f
             [] t.kind = "length" -> [u EXCEPT !.counter = t.count]
             [] t.kind = "distance" -> [u EXCEPT !.dist = t.back]
             [] t.kind = "match" -> IF u.dist \in 1 .. Len(u.out)
                                    THEN [u EXCEPT !.out = Copied(@, u.dist, u.counter)] ELSE f
             [] OTHER -> u)
  BY DEF Says, Moved, Failed, After
<1>2. /\ IsSaid(u) /\ u.pos = p /\ u.out = said.out /\ u.counter = said.counter
      /\ u.dist = said.dist /\ u.failed = said.failed BY MovedIs
<1>2a. ~said.failed => u.failed = FALSE BY <1>2 DEF IsSaid
<1>3. DOMAIN u = {"pos", "out", "counter", "dist", "failed"} BY <1>2 DEF IsSaid
<1>4. Bad(said, t, bytes) =>
        \/ said.failed \/ p > 8 * bytes
        \/ t.kind = "header" /\ t.type = 3
        \/ t.kind \in {"stored", "table"} /\ ~t.good
        \/ t.kind = "lengths" /\ t.again /\ u.counter = 0
        \/ t.kind = "tables" /\ ~(t.good /\ u.counter = t.sizes)
        \/ t.kind = "match" /\ u.dist \notin 1 .. Len(u.out) BY <1>2 DEF Bad, Wrong
<1> HIDE DEF s, u, f, p
<1>5. Bad(said, t, bytes) => s = f
  <2>1. CASE said.failed \/ p > 8 * bytes BY <1>1, <2>1
  <2>2. CASE ~(said.failed \/ p > 8 * bytes)
    <3>1. CASE t.kind = "header" BY <1>1, <1>4, <2>2, <3>1
    <3>2. CASE t.kind = "stored" BY <1>1, <1>4, <2>2, <3>2
    <3>3. CASE t.kind = "table" BY <1>1, <1>4, <2>2, <3>3
    <3>4. CASE t.kind = "lengths" BY <1>1, <1>4, <2>2, <3>4
    <3>5. CASE t.kind = "tables" BY <1>1, <1>4, <2>2, <3>5
    <3>6. CASE t.kind = "match" BY <1>1, <1>4, <2>2, <3>6
    <3> QED BY <1>4, <2>2, <3>1, <3>2, <3>3, <3>4, <3>5, <3>6
  <2> QED BY <2>1, <2>2
<1>6. ASSUME ~Bad(said, t, bytes)
      PROVE  /\ DOMAIN s = {"pos", "out", "counter", "dist", "failed"}
             /\ s.pos = p /\ s.out = OutOf(said, t)
             /\ s.counter = CounterOf(said, t) /\ s.dist = DistOf(said, t) /\ s.failed = FALSE
  <2>1. /\ ~said.failed /\ ~(p > 8 * bytes)
        /\ ~(t.kind = "header" /\ t.type = 3)
        /\ ~(t.kind \in {"stored", "table"} /\ ~t.good)
        /\ ~(t.kind = "lengths" /\ t.again /\ u.counter = 0)
        /\ ~(t.kind = "tables" /\ ~(t.good /\ u.counter = t.sizes))
        /\ ~(t.kind = "match" /\ u.dist \notin 1 .. Len(u.out)) BY <1>2, <1>6 DEF Bad, Wrong, p
  <2> USE DEF OutOf, CounterOf, DistOf
  <2>2. CASE t.kind = "header" BY <1>1, <1>2, <1>2a, <1>3, <2>1, <2>2
  <2>3. CASE t.kind \in {"raw", "literal"} BY <1>1, <1>2, <1>2a, <1>3, <2>1, <2>3
  <2>4. CASE t.kind = "stored" BY <1>1, <1>2, <1>2a, <1>3, <2>1, <2>4
  <2>5. CASE t.kind = "table" BY <1>1, <1>2, <1>2a, <1>3, <2>1, <2>5
  <2>6. CASE t.kind = "lengths" BY <1>1, <1>2, <1>2a, <1>3, <2>1, <2>6
  <2>7. CASE t.kind = "tables" BY <1>1, <1>2, <1>2a, <1>3, <2>1, <2>7
  <2>8. CASE t.kind = "length" BY <1>1, <1>2, <1>2a, <1>3, <2>1, <2>8
  <2>9. CASE t.kind = "distance" BY <1>1, <1>2, <1>2a, <1>3, <2>1, <2>9
  <2>10. CASE t.kind = "match" BY <1>1, <1>2, <1>2a, <1>3, <2>1, <2>10
  <2>11. CASE t.kind \notin {"header", "raw", "literal", "stored", "table", "lengths", "tables",
                             "length", "distance", "match"}
    BY <1>1, <1>2, <1>2a, <1>3, <2>1, <2>11
  <2> QED BY <2>2, <2>3, <2>4, <2>5, <2>6, <2>7, <2>8, <2>9, <2>10, <2>11
<1> QED BY <1>5, <1>6 DEF s, f, p

(* Nothing that has been written is taken back.                            *)
LEMMA OutGrows ==
  ASSUME NEW said, IsSaid(said), NEW t, IsToken(t)
  PROVE  IsSequence(OutOf(said, t)) /\ Len(OutOf(said, t)) >= Len(said.out)
<1>1. /\ IsSequence(said.out) /\ said.counter \in Nat /\ Len(said.out) \in Nat
  BY SequenceHas DEF IsSaid
<1>2. IsSequence(Append(said.out, t.value)) /\ Len(Append(said.out, t.value)) = Len(said.out) + 1
  BY <1>1, AppendIsSequence
<1>3. /\ IsSequence(Copied(said.out, said.dist, said.counter))
      /\ Len(Copied(said.out, said.dist, said.counter)) = Len(said.out) + said.counter
  BY <1>1, CopiedIsSequence
<1>4. CASE t.kind \in {"raw", "literal"}
  <2>1. OutOf(said, t) = Append(said.out, t.value) BY <1>4 DEF OutOf
  <2> QED BY <1>1, <1>2, <2>1
<1>5. CASE t.kind = "match"
  <2>1. OutOf(said, t) = Copied(said.out, said.dist, said.counter) BY <1>5 DEF OutOf
  <2> QED BY <1>1, <1>3, <2>1
<1>6. CASE t.kind \notin {"raw", "literal", "match"}
  <2>1. OutOf(said, t) = said.out BY <1>6 DEF OutOf
  <2> QED BY <1>1, <2>1
<1> QED BY <1>4, <1>5, <1>6

LEMMA CountersAreNatural ==
  ASSUME NEW said, IsSaid(said), NEW t, IsToken(t)
  PROVE  CounterOf(said, t) \in Nat /\ DistOf(said, t) \in Nat
BY DEF IsSaid, IsToken, CounterOf, DistOf

LEMMA SaysSaid ==
  ASSUME NEW said, IsSaid(said), NEW t, IsToken(t), NEW bytes
  PROVE  IsSaid(Says(said, t, bytes))
<1> DEFINE s == Says(said, t, bytes)
<1>1. CASE Bad(said, t, bytes)
  <2>1. s = Failed(said, t) BY <1>1, SaysIs
  <2> QED BY <2>1, FailedIs
<1>2. CASE ~Bad(said, t, bytes)
  <2>1. /\ DOMAIN s = {"pos", "out", "counter", "dist", "failed"}
        /\ s.pos = After(said, t) /\ s.out = OutOf(said, t)
        /\ s.counter = CounterOf(said, t) /\ s.dist = DistOf(said, t) /\ s.failed = FALSE BY <1>2, SaysIs
  <2>2. After(said, t) \in Nat BY AfterIsNatural
  <2>3. IsSequence(OutOf(said, t)) BY OutGrows
  <2>4. CounterOf(said, t) \in Nat /\ DistOf(said, t) \in Nat BY CountersAreNatural
  <2> HIDE DEF s
  <2> QED BY <2>1, <2>2, <2>3, <2>4 DEF IsSaid, s
<1> QED BY <1>1, <1>2

LEMMA DoomStays ==
  ASSUME NEW said, IsSaid(said), NEW t, IsToken(t), NEW bytes, NEW capacity \in Nat,
         Doomed(said, capacity)
  PROVE  Doomed(Says(said, t, bytes), capacity)
<1> DEFINE s == Says(said, t, bytes)
<1>1. CASE Bad(said, t, bytes)
  <2>1. s = Failed(said, t) BY <1>1, SaysIs
  <2> QED BY <2>1, FailedIs DEF Doomed
<1>2. CASE ~Bad(said, t, bytes)
  <2>1. s.out = OutOf(said, t) BY <1>2, SaysIs
  <2>2. ~said.failed BY <1>2 DEF Bad
  <2>3. Len(said.out) > capacity /\ Len(said.out) \in Nat BY <2>2, SequenceHas DEF Doomed, IsSaid
  <2>4. Len(s.out) \in Nat /\ Len(s.out) >= Len(said.out) BY <2>1, OutGrows, SequenceHas
  <2> HIDE DEF s
  <2>5. Len(s.out) > capacity BY <2>3, <2>4
  <2> QED BY <2>5 DEF Doomed, s
<1> QED BY <1>1, <1>2

-----------------------------------------------------------------------------
LEMMA LeastNatural ==
  ASSUME NEW T, T \subseteq Nat, T # {}
  PROVE  \E x \in T : \A y \in T : x <= y
<1> DEFINE Less == {ss \in Nat \X Nat : ss[1] < ss[2]}
<1>1. IsWellFoundedOn(Less, Nat) BY NatLessThanWellFounded DEF OpToRel
<1>2. \A x, y \in Nat : x < y => <<x, y>> \in Less OBVIOUS
<1> HIDE DEF Less
<1>3. PICK x \in T : \A y \in T : ~(<<y, x>> \in Less) BY <1>1, WFMin
<1>4. \A y \in T : ~(y < x) BY <1>2, <1>3
<1> QED BY <1>4

(* A stream is read token by token.                                        *)
ReadsTo(f, n, stream, bytes) ==
  f = [i \in 0 .. n |-> IF i = 0 THEN Begin ELSE Says(f[i - 1], stream[i], bytes)]

LEMMA ReadsAre ==
  ASSUME NEW f, NEW n \in Nat, NEW stream, NEW bytes, ReadsTo(f, n, stream, bytes)
  PROVE  f[0] = Begin /\ \A i \in 1 .. n : f[i] = Says(f[i - 1], stream[i], bytes)
<1> DEFINE next(i) == IF i = 0 THEN Begin ELSE Says(f[i - 1], stream[i], bytes)
           v == [i \in 0 .. n |-> next(i)]
<1>1. f = v BY DEF ReadsTo
<1>2. \A i \in 0 .. n : v[i] = next(i) OBVIOUS
<1> HIDE DEF v
<1>3. \A i \in 0 .. n : f[i] = next(i)
  <2> HIDE DEF next
  <2> QED BY <1>1, <1>2
<1>4. f[0] = Begin
  <2>1. 0 \in 0 .. n OBVIOUS
  <2> QED BY <1>3, <2>1
<1>5. ASSUME NEW i \in 1 .. n PROVE f[i] = Says(f[i - 1], stream[i], bytes)
  <2>1. i \in 0 .. n /\ i # 0 OBVIOUS
  <2>2. f[i] = next(i) BY <1>3, <2>1
  <2> QED BY <2>1, <2>2
<1> QED BY <1>4, <1>5

LEMMA ReadsExist ==
  ASSUME NEW n \in Nat, NEW stream, NEW bytes PROVE \E f : ReadsTo(f, n, stream, bytes)
<1> DEFINE Lacks == {m \in Nat : ~ \E f : ReadsTo(f, m, stream, bytes)}
<1>1. SUFFICES ASSUME Lacks # {} PROVE FALSE
  <2>1. n \notin Lacks BY <1>1
  <2> QED BY <2>1
<1>2. PICK m \in Lacks : \A k \in Lacks : m <= k
  <2>1. Lacks \subseteq Nat OBVIOUS
  <2> HIDE DEF Lacks
  <2> QED BY <1>1, <2>1, LeastNatural
<1>3. m # 0
  <2>1. SUFFICES ASSUME m = 0 PROVE FALSE OBVIOUS
  <2> DEFINE f == [i \in 0 .. 0 |-> Begin]
  <2>2. f = [i \in 0 .. 0 |-> IF i = 0 THEN Begin ELSE Says(f[i - 1], stream[i], bytes)]
    <3> DEFINE g == [i \in 0 .. 0 |-> IF i = 0 THEN Begin ELSE Says(f[i - 1], stream[i], bytes)]
    <3>1. \A i \in 0 .. 0 : i = 0 OBVIOUS
    <3>2. \A i \in 0 .. 0 : f[i] = Begin /\ g[i] = Begin BY <3>1
    <3> QED BY <3>2
  <2>3. ReadsTo(f, 0, stream, bytes) BY <2>2 DEF ReadsTo
  <2> QED BY <1>2, <2>1, <2>3
<1>4. m \in Nat /\ m - 1 \in Nat /\ ~(m <= m - 1) BY <1>2, <1>3
<1>5. m - 1 \notin Lacks BY <1>2, <1>4
<1>6. PICK f : ReadsTo(f, m - 1, stream, bytes) BY <1>4, <1>5
<1>7. f[0] = Begin /\ \A i \in 1 .. m - 1 : f[i] = Says(f[i - 1], stream[i], bytes)
  BY <1>4, <1>6, ReadsAre
<1> DEFINE g == [i \in 0 .. m |-> IF i < m THEN f[i] ELSE Says(f[m - 1], stream[m], bytes)]
           next(i) == IF i = 0 THEN Begin ELSE Says(g[i - 1], stream[i], bytes)
<1>8. g[m] = Says(f[m - 1], stream[m], bytes) /\ \A i \in 0 .. m - 1 : g[i] = f[i] BY <1>4
<1>9. DOMAIN g = 0 .. m /\ g = [i \in 0 .. m |-> g[i]] OBVIOUS
<1> HIDE DEF g
<1>10. ASSUME NEW i \in 0 .. m PROVE g[i] = next(i)
  <2>1. CASE i = 0
    <3>1. 0 \in 0 .. m - 1 BY <1>4
    <3> QED BY <2>1, <3>1, <1>7, <1>8
  <2>2. CASE i # 0 /\ i # m
    <3>1. i \in 1 .. m - 1 /\ i \in 0 .. m - 1 /\ i - 1 \in 0 .. m - 1 BY <2>2, <1>4
    <3>2. g[i] = f[i] /\ g[i - 1] = f[i - 1] BY <3>1, <1>8
    <3>3. f[i] = Says(f[i - 1], stream[i], bytes) BY <3>1, <1>7
    <3> QED BY <2>2, <3>2, <3>3
  <2>3. CASE i = m
    <3>1. m - 1 \in 0 .. m - 1 BY <1>4
    <3>2. g[m - 1] = f[m - 1] BY <3>1, <1>8
    <3> QED BY <2>3, <3>2, <1>3, <1>8
  <2> QED BY <2>1, <2>2, <2>3
<1>11. g = [i \in 0 .. m |-> next(i)]
  <2> HIDE DEF next
  <2> QED BY <1>9, <1>10
<1>12. ReadsTo(g, m, stream, bytes) BY <1>11 DEF ReadsTo
<1> QED BY <1>2, <1>12

LEMMA ReadingReads ==
  ASSUME NEW stream, IsStream(stream), NEW bytes
  PROVE  LET m == Reading(stream, bytes)
         IN  m[0] = Begin /\ \A i \in 1 .. Len(stream) : m[i] = Says(m[i - 1], stream[i], bytes)
<1> DEFINE n == Len(stream)
<1>1. n \in Nat BY SequenceHas DEF IsStream
<1>2. PICK f : ReadsTo(f, n, stream, bytes)
  <2> HIDE DEF n
  <2> QED BY <1>1, ReadsExist
<1>3. Reading(stream, bytes) = CHOOSE g : ReadsTo(g, n, stream, bytes) BY DEF Reading, ReadsTo
<1>4. ReadsTo(Reading(stream, bytes), n, stream, bytes) BY <1>2, <1>3
<1> QED
  <2> HIDE DEF n
  <2>1. LET m == Reading(stream, bytes)
        IN  m[0] = Begin /\ \A i \in 1 .. n : m[i] = Says(m[i - 1], stream[i], bytes)
    BY <1>1, <1>4, ReadsAre
  <2> QED BY <2>1 DEF n

(* Up to every token something has been said, and a reading that is doomed *)
(* stays so.                                                               *)
LEMMA ReadingIsSaid ==
  ASSUME NEW stream, IsStream(stream), NEW bytes, NEW i \in 0 .. Len(stream)
  PROVE  IsSaid(Reading(stream, bytes)[i])
<1> DEFINE n == Len(stream) m == Reading(stream, bytes) Untyped == {k \in 0 .. n : ~IsSaid(m[k])}
<1>1. n \in Nat /\ DOMAIN stream = 1 .. n BY SequenceHas DEF IsStream
<1>2. m[0] = Begin /\ \A k \in 1 .. n : m[k] = Says(m[k - 1], stream[k], bytes) BY ReadingReads
<1>3. SUFFICES ASSUME Untyped # {} PROVE FALSE OBVIOUS
<1>4. PICK k \in Untyped : \A l \in Untyped : k <= l
  <2>1. Untyped \subseteq Nat BY <1>1
  <2> HIDE DEF Untyped
  <2> QED BY <1>3, <2>1, LeastNatural
<1>5. IsSaid(Begin) BY NoneIsSequence DEF IsSaid, Begin
<1> HIDE DEF m, n
<1>6. k \in 1 .. n /\ k - 1 \in 0 .. n /\ ~(k <= k - 1)
  <2>1. k # 0 BY <1>2, <1>4, <1>5
  <2> QED BY <1>1, <1>4, <2>1
<1>7. IsSaid(m[k - 1]) BY <1>4, <1>6
<1>8. IsToken(stream[k]) BY <1>1, <1>6 DEF IsStream
<1>9. IsSaid(m[k]) BY <1>2, <1>6, <1>7, <1>8, SaysSaid
<1> QED BY <1>4, <1>9

LEMMA DoomIsFinal ==
  ASSUME NEW stream, IsStream(stream), NEW bytes, NEW capacity \in Nat, NEW i \in 0 .. Len(stream),
         Doomed(Reading(stream, bytes)[i], capacity)
  PROVE  Doomed(Meaning(stream, bytes), capacity)
<1> DEFINE n == Len(stream) m == Reading(stream, bytes)
           Fine == {k \in i .. n : ~Doomed(m[k], capacity)}
<1>1. n \in Nat /\ DOMAIN stream = 1 .. n BY SequenceHas DEF IsStream
<1>2. \A k \in 1 .. n : m[k] = Says(m[k - 1], stream[k], bytes) BY ReadingReads
<1>2a. \A k \in 0 .. n : IsSaid(m[k]) BY ReadingIsSaid
<1>3. Meaning(stream, bytes) = m[n] BY DEF Meaning
<1>4. SUFFICES ASSUME Fine # {} PROVE FALSE
  <2>1. n \in i .. n BY <1>1
  <2> QED BY <1>3, <1>4, <2>1
<1>5. PICK k \in Fine : \A l \in Fine : k <= l
  <2>1. Fine \subseteq Nat BY <1>1
  <2> HIDE DEF Fine
  <2> QED BY <1>4, <2>1, LeastNatural
<1> HIDE DEF m, n
<1>6. k # i BY <1>5 DEF m
<1>7. /\ k \in 1 .. n /\ k - 1 \in i .. n /\ k - 1 \in 0 .. n /\ ~(k <= k - 1)
  BY <1>1, <1>5, <1>6 DEF n
<1>8. Doomed(m[k - 1], capacity) BY <1>5, <1>7
<1>9. IsToken(stream[k]) BY <1>1, <1>7 DEF IsStream
<1>10. Doomed(m[k], capacity) BY <1>2, <1>2a, <1>7, <1>8, <1>9, DoomStays
<1> QED BY <1>5, <1>10

-----------------------------------------------------------------------------
(* The decoder and the reading it stands for. It has been given so many    *)
(* bytes: what is in its bit buffer has not been read yet.                 *)
Agrees(d, said, given) ==
  /\ ~said.failed
  /\ d.out = said.out /\ d.counter = said.counter /\ d.dist = said.dist
  /\ said.pos = 8 * given - d.bits
  /\ Len(d.out) <= d.capacity
(* In the middle of a token, that so many bits are not enough for.         *)
Middle(d, bits) == d.at <= Len(d.stream) /\ bits < Width(d.stream[d.at], d.bits)
(* The second of two literals has its bits already, or finds them.         *)
Paced(d, avail) ==
  /\ d.path \in {"new", "second", "slow"}
  /\ d.path = "second" => d.bits >= 15 \/ (~d.wide /\ avail >= 2)
Decoder == {"stream", "at", "bits", "path", "counter", "dist", "out", "capacity", "wide"}

Reads == {"running", "NEEDS_MORE_INPUT"}
Working(d, in, total, left) ==
  /\ DOMAIN d = Decoder /\ DOMAIN in = {"avail", "taken", "more"}
  /\ in.avail \in Nat /\ in.taken \in Nat
  /\ d.at \in 1 .. Len(d.stream) + 1 /\ d.bits \in Nat
  /\ Agrees(d, Reading(d.stream, total)[d.at - 1], total - left - in.avail)
  /\ d.bits <= 8 * in.taken \/ Middle(d, d.bits - 8 * in.taken)
  /\ Paced(d, in.avail)
(* It waits for the next piece, between two tokens or in one.              *)
Waiting(d, in) ==
  in.avail = 0 /\ d.path # "second" /\ (d.bits = 0 \/ Middle(d, d.bits))
(* What is left of the input follows the last byte of the stream.          *)
Ended(d, said, given) ==
  /\ ~said.failed /\ d.out = said.out
  /\ d.bits = 0 /\ given = Bytes(said.pos)
(* Of a stream of so many bytes, so many have not been given to the decoder. *)
DecoderOk(d, in, st, total, left) ==
  /\ IsStream(d.stream) /\ d.capacity \in Nat
  /\ st \in Reads => Working(d, in, total, left)
  /\ st = "NEEDS_MORE_INPUT" => in.more /\ Waiting(d, in)
  /\ st = "DONE" => in.avail \in Nat /\ Ended(d, Meaning(d.stream, total), total - left - in.avail)
  /\ st \notin Reads \cup {"DONE"} => Doomed(Meaning(d.stream, total), d.capacity)

-----------------------------------------------------------------------------
LEMMA NeededIs ==
  ASSUME NEW width \in Nat, NEW bits \in Nat, NEW avail \in Nat
  PROVE  /\ Needed(width, bits) \in Nat
         /\ bits + 8 * Needed(width, bits) >= width
         /\ Needed(width, bits) > avail => bits + 8 * avail < width
<1> DEFINE lack == Most(width - bits, 0)
<1>1. lack \in Nat /\ lack >= width - bits /\ (lack = width - bits \/ lack = 0) BY DEF Most
<1>2. Needed(width, bits) = (lack + 7) \div 8 BY DEF Needed, Bytes
<1> HIDE DEF lack
<1> DEFINE n == (lack + 7) \div 8
<1>3. n \in Nat /\ 8 * n >= lack /\ 8 * n <= lack + 7 BY <1>1
<1> HIDE DEF n
<1>4. bits + 8 * n >= width BY <1>1, <1>3
<1>5. ASSUME n > avail PROVE bits + 8 * avail < width
  <2>1. 8 * avail + 8 <= 8 * n BY <1>3, <1>5
  <2>2. lack > 8 * avail BY <1>1, <1>3, <2>1
  <2> QED BY <1>1, <2>2
<1> QED BY <1>2, <1>3, <1>4, <1>5 DEF n

(* The decoder takes enough bytes for a token, and finds too few of them    *)
(* only if there are too few: however far it looks ahead.                  *)
LEMMA WantedIs ==
  ASSUME NEW d, NEW t, NEW avail \in Nat, IsToken(t), d.bits \in Nat, Paced(d, avail)
  PROVE  /\ Wanted(d, t, avail) \in Nat
         /\ Width(t, d.bits) \in Nat
         /\ Wanted(d, t, avail) <= avail => d.bits + 8 * Wanted(d, t, avail) >= Width(t, d.bits)
         /\ Wanted(d, t, avail) > avail => d.bits + 8 * avail < Width(t, d.bits)
<1> DEFINE bits == d.bits w == Wanted(d, t, avail) width == Width(t, bits)
<1>1. width \in Nat BY WidthIsNatural
<1>2. /\ Needed(width, bits) \in Nat /\ bits + 8 * Needed(width, bits) >= width
      /\ Needed(width, bits) > avail => bits + 8 * avail < width BY <1>1, NeededIs
<1> DEFINE Right(n) == /\ n \in Nat /\ (n <= avail => bits + 8 * n >= width)
                       /\ (n > avail => bits + 8 * avail < width)
<1>3. SUFFICES Right(w) BY <1>1
<1>4. CASE t.kind \notin Codes BY <1>2, <1>4 DEF Wanted
<1>5. CASE t.kind \in Codes
  <2>1. width = t.width /\ width <= 15 BY <1>5 DEF Width, IsToken
  <2>2. w = Ahead(d, t, avail) BY <1>5 DEF Wanted
  <2>3. /\ d.path \in {"new", "second", "slow"}
        /\ d.path = "second" => bits >= 15 \/ (~d.wide /\ avail >= 2) BY DEF Paced
  <2>4. Right(HuffDecode(d, t.width, avail))
    <3>1. CASE bits >= 15 BY <2>1, <3>1, <1>1 DEF HuffDecode
    <3>2. CASE ~(bits >= 15) /\ avail >= 2 /\ d.path # "slow"
      <4>1. HuffDecode(d, t.width, avail) = 2 BY <3>2 DEF HuffDecode
      <4> QED BY <2>1, <3>2, <4>1, <1>1
    <3>3. CASE ~(bits >= 15) /\ ~(avail >= 2 /\ d.path # "slow")
      <4>1. HuffDecode(d, t.width, avail) = Needed(width, bits) BY <2>1, <3>3 DEF HuffDecode
      <4> QED BY <1>2, <4>1
    <3> QED BY <3>1, <3>2, <3>3
  <2>5. CASE t.kind \notin {"literal", "length", "end"} \/ SlowPath(d, avail)
    BY <2>2, <2>4, <2>5 DEF Ahead
  <2>6. CASE ~(t.kind \notin {"literal", "length", "end"} \/ SlowPath(d, avail))
    <3>1. d.path = "second" \/ (d.path = "new" /\ avail >= 4) BY <2>3, <2>6 DEF SlowPath
    <3>2. w = IF d.wide THEN IF bits < 30 /\ d.path = "new" THEN 4 ELSE 0
              ELSE IF bits < 15 THEN 2 ELSE 0 BY <2>2, <2>6 DEF Ahead
    <3> HIDE DEF w, bits, width
    <3>3. bits \in Nat BY DEF bits
    <3> QED BY <1>1, <2>1, <2>3, <3>1, <3>2, <3>3
  <2> QED BY <2>5, <2>6
<1> QED BY <1>4, <1>5

(* After the first of two literals there is enough for the second.         *)
LEMMA FastIs ==
  ASSUME NEW d, NEW t, NEW avail \in Nat, IsToken(t), d.bits \in Nat, t.kind = "literal",
         d.path = "new", ~SlowPath(d, avail)
  PROVE  LET w == Wanted(d, t, avail)
         IN  d.bits + 8 * w - Width(t, d.bits) >= 15 \/ (~d.wide /\ avail - w >= 2)
<1> DEFINE bits == d.bits w == Wanted(d, t, avail) width == Width(t, bits)
<1>1. width \in 1 .. 15 BY DEF Width, IsToken, Codes
<1>2. avail >= 4 BY DEF SlowPath
<1>3. w = IF d.wide THEN IF bits < 30 THEN 4 ELSE 0 ELSE IF bits < 15 THEN 2 ELSE 0
  BY DEF Wanted, Ahead, Codes
<1>4. bits \in Nat OBVIOUS
<1> HIDE DEF bits, w, width
<1>5. bits + 8 * w - width >= 15 \/ (~d.wide /\ avail - w >= 2) BY <1>1, <1>2, <1>3, <1>4
<1> QED BY <1>5 DEF bits, w, width

(* Where a token ends, told by what the buffer holds.                      *)
LEMMA AfterIs ==
  ASSUME NEW said, IsSaid(said), NEW t, IsToken(t), NEW given \in Int, NEW bits \in Nat,
         said.pos = 8 * given - bits
  PROVE  After(said, t) = said.pos + Width(t, bits)
<1>1. CASE t.kind = "align"
  <2> DEFINE pos == said.pos q == bits \div 8 r == bits % 8
  <2>1. bits = 8 * q + r /\ r \in 0 .. 7 /\ q \in Int OBVIOUS
  <2>2. pos = 8 * (given - q) - r BY <2>1
  <2>3. (8 - (pos % 8)) % 8 = r
    <3> HIDE DEF pos, q, r
    <3>1. CASE r = 0
      <4>1. pos % 8 = 0 BY <2>1, <2>2, <3>1
      <4> QED BY <3>1, <4>1
    <3>2. CASE r # 0
      <4>1. pos = 8 * (given - q - 1) + (8 - r) /\ 8 - r \in 1 .. 7 /\ given - q - 1 \in Int BY <2>1, <2>2, <3>2
      <4>2. pos % 8 = 8 - r BY <4>1
      <4>3. 8 - (8 - r) = r /\ r % 8 = r BY <2>1
      <4> QED BY <4>2, <4>3
    <3> QED BY <3>1, <3>2
  <2>4. Width(t, bits) = r BY <1>1 DEF Width, Codes
  <2> QED BY <1>1, <2>3, <2>4 DEF After
<1>2. CASE t.kind # "align"
  <2>1. Width(t, bits) = Width(t, 0) BY <1>2 DEF Width
  <2> QED BY <1>2, <2>1 DEF After
<1> QED BY <1>1, <1>2

-----------------------------------------------------------------------------
Said(total) == Reading(inflator.stream, total)[inflator.at - 1]
AtToken == status = "running" /\ inflator.at <= Len(inflator.stream)

LEMMA TokenIs ==
  ASSUME NEW total \in Nat, NEW left \in Nat, DecoderOk(inflator, input, status, total, left), AtToken
  PROVE  /\ Working(inflator, input, total, left)
         /\ IsStream(inflator.stream) /\ inflator.capacity \in Nat
         /\ IsToken(Token) /\ IsSaid(Said(total))
         /\ inflator.at \in 1 .. Len(inflator.stream) /\ Len(inflator.stream) \in Nat
         /\ Reading(inflator.stream, total)[inflator.at] = Says(Said(total), Token, total)
<1> DEFINE s == inflator.stream i == inflator.at n == Len(s)
<1>1. Working(inflator, input, total, left) /\ IsStream(s) /\ inflator.capacity \in Nat
  BY DEF DecoderOk, AtToken, Reads
<1>2. n \in Nat /\ DOMAIN s = 1 .. n BY <1>1, SequenceHas DEF IsStream
<1>3. i \in 1 .. n + 1 BY <1>1 DEF Working
<1> HIDE DEF n
<1>4. i \in 1 .. n /\ i - 1 \in 0 .. n BY <1>2, <1>3 DEF AtToken, n
<1>5. IsToken(Token) BY <1>1, <1>2, <1>4 DEF IsStream, Token
<1>6. IsSaid(Said(total)) BY <1>1, <1>4, ReadingIsSaid DEF Said, n
<1>7. Reading(s, total)[i] = Says(Said(total), Token, total)
  <2>1. \A k \in 1 .. n : Reading(s, total)[k] = Says(Reading(s, total)[k - 1], s[k], total)
    BY <1>1, ReadingReads DEF n
  <2> QED BY <1>4, <2>1 DEF Said, Token
<1> QED BY <1>1, <1>2, <1>4, <1>5, <1>6, <1>7 DEF n

(* A token that means nothing, or too much, dooms the whole stream.        *)
LEMMA DoomLeaves ==
  ASSUME NEW total \in Nat, NEW left \in Nat, DecoderOk(inflator, input, status, total, left), AtToken,
         Doomed(Says(Said(total), Token, total), inflator.capacity),
         inflator'.stream = inflator.stream, inflator'.capacity = inflator.capacity,
         status' \notin Reads \cup {"DONE"}
  PROVE  DecoderOk(inflator', input', status', total, left)
<1>1. /\ IsStream(inflator.stream) /\ inflator.capacity \in Nat /\ Len(inflator.stream) \in Nat
      /\ inflator.at \in 1 .. Len(inflator.stream)
      /\ Reading(inflator.stream, total)[inflator.at] = Says(Said(total), Token, total) BY TokenIs
<1>2. inflator.at \in 0 .. Len(inflator.stream) BY <1>1
<1>3. Doomed(Meaning(inflator.stream, total), inflator.capacity) BY <1>1, <1>2, DoomIsFinal
<1> QED BY <1>1, <1>3 DEF DecoderOk, Reads

LEMMA BadLeaves ==
  ASSUME NEW total \in Nat, NEW left \in Nat, DecoderOk(inflator, input, status, total, left), AtToken,
         Bad(Said(total), Token, total),
         inflator'.stream = inflator.stream, inflator'.capacity = inflator.capacity,
         status' \notin Reads \cup {"DONE"}
  PROVE  DecoderOk(inflator', input', status', total, left)
<1>1. IsSaid(Said(total)) /\ IsToken(Token) BY TokenIs
<1>2. Says(Said(total), Token, total) = Failed(Said(total), Token) BY <1>1, SaysIs
<1>3. Says(Said(total), Token, total).failed BY <1>1, <1>2, FailedIs
<1>4. Doomed(Says(Said(total), Token, total), inflator.capacity) BY <1>3 DEF Doomed
<1> QED BY <1>4, DoomLeaves

(* A token that does not fit in the output any more                        *)
LEMMA LongLeaves ==
  ASSUME NEW total \in Nat, NEW left \in Nat, DecoderOk(inflator, input, status, total, left), AtToken,
         Len(OutOf(Said(total), Token)) > inflator.capacity,
         inflator'.stream = inflator.stream, inflator'.capacity = inflator.capacity,
         status' \notin Reads \cup {"DONE"}
  PROVE  DecoderOk(inflator', input', status', total, left)
<1>1. IsSaid(Said(total)) /\ IsToken(Token) BY TokenIs
<1>2. CASE Bad(Said(total), Token, total) BY <1>2, BadLeaves
<1>3. CASE ~Bad(Said(total), Token, total)
  <2>1. Says(Said(total), Token, total).out = OutOf(Said(total), Token) BY <1>1, <1>3, SaysIs
  <2>2. Doomed(Says(Said(total), Token, total), inflator.capacity) BY <2>1 DEF Doomed
  <2> QED BY <2>2, DoomLeaves
<1> QED BY <1>2, <1>3

(* d is the decoder with something else written, counted or kept.          *)
Same(d) ==
  /\ DOMAIN d = Decoder /\ d.stream = inflator.stream /\ d.at = inflator.at
  /\ d.capacity = inflator.capacity /\ d.wide = inflator.wide
LEMMA ResumeIs ==
  ASSUME NEW total \in Nat, NEW left \in Nat, DecoderOk(inflator, input, status, total, left), AtToken,
         NEW d, Same(d), NEW path, ResumeOn(path, d)
  PROVE  LET w == Wanted(inflator, Token, input.avail)
         IN  /\ DOMAIN inflator' = Decoder /\ DOMAIN input' = {"avail", "taken", "more"}
             /\ inflator'.stream = inflator.stream /\ inflator'.at = inflator.at + 1
             /\ inflator'.bits = Rest /\ inflator'.path = path /\ inflator'.counter = d.counter
             /\ inflator'.dist = d.dist /\ inflator'.out = d.out
             /\ inflator'.capacity = inflator.capacity /\ inflator'.wide = inflator.wide
             /\ input'.avail = input.avail - w /\ input'.taken = input.taken + w
             /\ input'.more = input.more /\ status' = "running"
<1> DEFINE w == Wanted(inflator, Token, input.avail) r == Rest
<1>1. inflator' = [d EXCEPT !.at = @ + 1, !.bits = r, !.path = path] BY DEF ResumeOn
<1>2. input' = [input EXCEPT !.avail = @ - w, !.taken = @ + w] BY DEF ResumeOn, Take
<1>3. DOMAIN input = {"avail", "taken", "more"} BY TokenIs DEF Working
<1>4. status' = "running" BY DEF ResumeOn, AtToken
<1> HIDE DEF w, r
<1>5. /\ DOMAIN inflator' = Decoder
      /\ inflator'.stream = inflator.stream /\ inflator'.at = inflator.at + 1
      /\ inflator'.bits = r /\ inflator'.path = path /\ inflator'.counter = d.counter
      /\ inflator'.dist = d.dist /\ inflator'.out = d.out
      /\ inflator'.capacity = inflator.capacity /\ inflator'.wide = inflator.wide
  BY <1>1 DEF Same, Decoder
<1>6. /\ DOMAIN input' = {"avail", "taken", "more"}
      /\ input'.avail = input.avail - w /\ input'.taken = input.taken + w
      /\ input'.more = input.more BY <1>2, <1>3
<1> QED BY <1>4, <1>5, <1>6 DEF w, r

(* A good token is read, and the decoder agrees with the reading again.    *)
LEMMA Resumes ==
  ASSUME NEW total \in Nat, NEW left \in Nat, DecoderOk(inflator, input, status, total, left), AtToken,
         Enough, NEW d, Same(d), NEW path \in {"new", "second"}, ResumeOn(path, d),
         ~Wrong(Said(total), Token),
         d.out = OutOf(Said(total), Token), d.counter = CounterOf(Said(total), Token),
         d.dist = DistOf(Said(total), Token), Len(d.out) <= inflator.capacity,
         path = "second" => \/ Rest >= 15
                            \/ ~inflator.wide /\ input.avail - Wanted(inflator, Token, input.avail) >= 2
  PROVE  DecoderOk(inflator', input', status', total, left)
<1> DEFINE w == Wanted(inflator, Token, input.avail) said == Said(total) t == Token
           bits == inflator.bits avail == input.avail taken == input.taken
           width == Width(t, bits) given == total - left - avail i == inflator.at
           next == Says(said, t, total) stream == inflator.stream
<1>1. /\ Working(inflator, input, total, left) /\ IsStream(stream) /\ inflator.capacity \in Nat
      /\ IsToken(t) /\ IsSaid(said) /\ i \in 1 .. Len(stream) /\ Len(stream) \in Nat
      /\ Reading(stream, total)[i] = next
  BY TokenIs
<1>2. /\ avail \in Nat /\ taken \in Nat /\ bits \in Nat /\ Paced(inflator, avail)
      /\ Agrees(inflator, said, given)
      /\ bits <= 8 * taken \/ Middle(inflator, bits - 8 * taken)
  BY <1>1 DEF Working, Said
<1>3. w \in Nat /\ width \in Nat /\ w <= avail /\ bits + 8 * w >= width
  <2>1. w <= avail BY DEF Enough
  <2> QED BY <1>1, <1>2, <2>1, WantedIs
<1>4. Rest = bits + 8 * w - width BY DEF Rest
<1>5. ~said.failed /\ said.pos = 8 * given - bits BY <1>2 DEF Agrees
<1>6. given \in Int BY <1>2
<1>7. After(said, t) = said.pos + width BY <1>1, <1>2, <1>5, <1>6, AfterIs
<1>8. bits <= 8 * taken \/ bits - 8 * taken < width BY <1>2 DEF Middle, Token
<1>9. /\ DOMAIN inflator' = Decoder /\ DOMAIN input' = {"avail", "taken", "more"}
      /\ inflator'.stream = stream /\ inflator'.at = i + 1
      /\ inflator'.bits = Rest /\ inflator'.path = path /\ inflator'.counter = d.counter
      /\ inflator'.dist = d.dist /\ inflator'.out = d.out
      /\ inflator'.capacity = inflator.capacity /\ inflator'.wide = inflator.wide
      /\ input'.avail = avail - w /\ input'.taken = taken + w
      /\ input'.more = input.more /\ status' = "running"
  BY ResumeIs
<1> HIDE DEF w, t, bits, avail, taken, width, stream, i
<1>10. After(said, t) <= 8 * total
  <2> HIDE DEF said
  <2>1. given + w <= total BY <1>2, <1>3
  <2>2. After(said, t) = 8 * given - bits + width BY <1>5, <1>7
  <2> HIDE DEF given
  <2> QED BY <1>2, <1>3, <1>6, <2>1, <2>2
<1>11. /\ ~next.failed /\ next.out = d.out /\ next.counter = d.counter /\ next.dist = d.dist
       /\ next.pos = After(said, t)
  <2> HIDE DEF said, next
  <2>1. After(said, t) \in Nat BY <1>1, AfterIsNatural DEF said
  <2>2. ~Bad(said, t, total) BY <1>5, <1>10, <2>1 DEF Bad, said, t
  <2>2a. IsSaid(said) /\ IsToken(t) /\ next = Says(said, t, total) BY <1>1 DEF next
  <2>3. /\ next.pos = After(said, t) /\ next.out = OutOf(said, t)
        /\ next.counter = CounterOf(said, t) /\ next.dist = DistOf(said, t) /\ next.failed = FALSE
    BY <2>2, <2>2a, SaysIs
  <2> QED BY <2>3 DEF said, t
<1>12. Agrees(inflator', next, total - left - input'.avail)
  <2> HIDE DEF said, next
  <2>1. next.pos = 8 * (total - left - input'.avail) - inflator'.bits
    <3>1. total - left - input'.avail = given + w BY <1>2, <1>3, <1>9
    <3>2. next.pos = 8 * given - bits + width BY <1>5, <1>7, <1>11
    <3> HIDE DEF given
    <3> QED BY <1>2, <1>3, <1>4, <1>6, <1>9, <3>1, <3>2
  <2> QED BY <1>9, <1>11, <2>1 DEF Agrees
<1>13. /\ input'.avail \in Nat /\ input'.taken \in Nat /\ inflator'.bits \in Nat
       /\ inflator'.bits <= 8 * input'.taken BY <1>2, <1>3, <1>4, <1>8, <1>9
<1>14. Paced(inflator', input'.avail) BY <1>4, <1>9 DEF Paced, w, avail, t, Rest
<1>15. inflator'.at \in 1 .. Len(inflator'.stream) + 1 /\ inflator'.at - 1 = i BY <1>1, <1>9
<1>16. Working(inflator', input', total, left)
  <2>1. Reading(inflator'.stream, total)[inflator'.at - 1] = next BY <1>1, <1>9, <1>15
  <2> HIDE DEF next, given, said
  <2> QED BY <1>9, <1>12, <1>13, <1>14, <1>15, <2>1 DEF Working
<1> QED BY <1>1, <1>9, <1>16 DEF DecoderOk, Reads

-----------------------------------------------------------------------------
(* What the decoder knows in front of a token, and what changing one part  *)
(* of it leaves alone.                                                     *)
LEMMA KnownIs ==
  ASSUME NEW total \in Nat, NEW left \in Nat, DecoderOk(inflator, input, status, total, left), AtToken
  PROVE  /\ Same(inflator) /\ DOMAIN inflator = Decoder /\ DOMAIN input = {"avail", "taken", "more"}
         /\ inflator.out = Said(total).out /\ inflator.counter = Said(total).counter
         /\ inflator.dist = Said(total).dist
         /\ inflator.counter \in Nat /\ inflator.dist \in Nat /\ inflator.bits \in Nat
         /\ input.avail \in Nat /\ input.taken \in Nat /\ Paced(inflator, input.avail)
         /\ IsSequence(inflator.out) /\ Len(inflator.out) \in Nat
         /\ inflator.capacity \in Nat /\ Len(inflator.out) <= inflator.capacity
         /\ Room(inflator) = inflator.capacity - Len(inflator.out) /\ Room(inflator) \in Nat
<1>1. Working(inflator, input, total, left) /\ IsSaid(Said(total)) /\ inflator.capacity \in Nat
  BY TokenIs
<1>2. /\ DOMAIN inflator = Decoder /\ DOMAIN input = {"avail", "taken", "more"}
      /\ inflator.bits \in Nat /\ input.avail \in Nat /\ input.taken \in Nat
      /\ Paced(inflator, input.avail)
      /\ Agrees(inflator, Said(total), total - left - input.avail) BY <1>1 DEF Working, Said
<1>3. /\ inflator.out = Said(total).out /\ inflator.counter = Said(total).counter
      /\ inflator.dist = Said(total).dist /\ Len(inflator.out) <= inflator.capacity
  BY <1>2 DEF Agrees
<1>4. /\ IsSequence(inflator.out) /\ inflator.counter \in Nat /\ inflator.dist \in Nat
      /\ Len(inflator.out) \in Nat BY <1>1, <1>3, SequenceHas DEF IsSaid
<1>5. Room(inflator) = inflator.capacity - Len(inflator.out) BY DEF Room
<1>6. Room(inflator) \in Nat BY <1>1, <1>3, <1>4, <1>5
<1>7. Same(inflator) BY <1>2 DEF Same
<1> QED BY <1>1, <1>2, <1>3, <1>4, <1>5, <1>6, <1>7

LEMMA ChangedIs ==
  ASSUME DOMAIN inflator = Decoder, NEW v
  PROVE  /\ LET d == [inflator EXCEPT !.out = v]
            IN  Same(d) /\ d.out = v /\ d.counter = inflator.counter /\ d.dist = inflator.dist
         /\ LET d == [inflator EXCEPT !.counter = v]
            IN  Same(d) /\ d.out = inflator.out /\ d.counter = v /\ d.dist = inflator.dist
         /\ LET d == [inflator EXCEPT !.dist = v]
            IN  Same(d) /\ d.out = inflator.out /\ d.counter = inflator.counter /\ d.dist = v
BY DEF Same, Decoder

(* A token without bits is always there.                                   *)
LEMMA NothingWanted ==
  ASSUME NEW total \in Nat, NEW left \in Nat, DecoderOk(inflator, input, status, total, left), AtToken,
         Token.kind \in {"stored", "table", "tables", "match"}
  PROVE  Enough
<1> DEFINE w == Wanted(inflator, Token, input.avail) bits == inflator.bits avail == input.avail
<1>1. /\ IsToken(Token) /\ avail \in Nat /\ bits \in Nat /\ Paced(inflator, avail) BY TokenIs, KnownIs
<1>2. Width(Token, bits) = 0 BY DEF Width, Codes
<1>3. w \in Nat /\ (w > avail => bits + 8 * avail < 0) BY <1>1, <1>2, WantedIs
<1> HIDE DEF w, bits, avail
<1>4. w <= avail BY <1>1, <1>3
<1> QED BY <1>4 DEF Enough, w, avail

(* The decoder leaves, and gives back what it does not need.               *)
LEMMA LeaveIs ==
  ASSUME DOMAIN inflator = Decoder, NEW d, Same(d), NEW bits, NEW taken, NEW avail,
         PutBack(d, bits, taken, avail)
  PROVE  inflator'.stream = inflator.stream /\ inflator'.capacity = inflator.capacity
BY DEF PutBack, Same, Decoder

-----------------------------------------------------------------------------
LEMMA Starves ==
  ASSUME NEW total \in Nat, NEW left \in Nat, DecoderOk(inflator, input, status, total, left),
         input.more <=> left > 0, Starve
  PROVE  DecoderOk(inflator', input', status', total, left)
<1> DEFINE w == Wanted(inflator, Token, input.avail) said == Said(total) t == Token
           bits == inflator.bits avail == input.avail taken == input.taken
           width == Width(t, bits) given == total - left - avail
           path == IF t.kind \in Codes THEN "slow" ELSE "new"
<1>1. AtToken BY DEF Starve, Starving, AtToken
<1>2. /\ Working(inflator, input, total, left) /\ IsStream(inflator.stream)
      /\ inflator.capacity \in Nat /\ IsToken(t) /\ IsSaid(said)
      /\ inflator.at \in 1 .. Len(inflator.stream) BY <1>1, TokenIs
<1>3. /\ avail \in Nat /\ taken \in Nat /\ bits \in Nat /\ Paced(inflator, avail)
      /\ DOMAIN inflator = Decoder /\ DOMAIN input = {"avail", "taken", "more"} BY <1>1, KnownIs
<1>4. /\ Agrees(inflator, said, given)
      /\ bits <= 8 * taken \/ Middle(inflator, bits - 8 * taken) BY <1>2 DEF Working, Said
<1>5. w \in Nat /\ width \in Nat /\ bits + 8 * avail < width
  <2>1. w \in Nat /\ width \in Nat /\ (w > avail => bits + 8 * avail < width) BY <1>2, <1>3, WantedIs
  <2>2. ~(w <= avail) BY DEF Starve, Starving, Enough
  <2> HIDE DEF w, avail, bits, width
  <2> QED BY <2>1, <2>2, <1>3
<1>6. /\ inflator' = [inflator EXCEPT !.bits = bits + 8 * avail, !.path = path]
      /\ input' = [input EXCEPT !.avail = avail - avail, !.taken = taken + avail]
      /\ status' = IF input.more THEN "NEEDS_MORE_INPUT" ELSE "CANNOT_MAKE_PROGRESS"
  BY DEF Starve, Take, Stuck
<1>7. /\ DOMAIN inflator' = Decoder /\ inflator'.stream = inflator.stream /\ inflator'.at = inflator.at
      /\ inflator'.bits = bits + 8 * avail /\ inflator'.path = path
      /\ inflator'.counter = inflator.counter /\ inflator'.dist = inflator.dist
      /\ inflator'.out = inflator.out /\ inflator'.capacity = inflator.capacity
      /\ inflator'.wide = inflator.wide
  <2> HIDE DEF bits, avail, path
  <2> QED BY <1>3, <1>6 DEF Decoder
<1>8. /\ DOMAIN input' = {"avail", "taken", "more"} /\ input'.avail = 0
      /\ input'.taken = taken + avail /\ input'.more = input.more
  <2>1. avail - avail = 0 BY <1>3
  <2> HIDE DEF taken, avail
  <2> QED BY <1>3, <1>6, <2>1
<1>9. ~said.failed /\ said.pos = 8 * given - bits /\ given \in Int BY <1>3, <1>4 DEF Agrees
<1>10. CASE ~input.more
  <2>1. After(said, t) = said.pos + width BY <1>2, <1>3, <1>9, AfterIs
  <2>2. left = 0 BY <1>10
  <2>3. given + avail = total BY <1>3, <2>2
  <2>4. After(said, t) > 8 * total
    <3> HIDE DEF said, bits, avail, width, t, given
    <3> QED BY <1>3, <1>5, <1>9, <2>1, <2>3
  <2>5. Bad(said, t, total) BY <2>4 DEF Bad
  <2>6. status' \notin Reads \cup {"DONE"} BY <1>6, <1>10 DEF Reads
  <2> HIDE DEF said, t
  <2> QED BY <1>1, <1>7, <2>5, <2>6, BadLeaves DEF said, t
<1>11. CASE input.more
  <2>1. status' = "NEEDS_MORE_INPUT" BY <1>6, <1>11
  <2>2. t.kind # "align"
    <3>1. SUFFICES ASSUME t.kind = "align" PROVE FALSE OBVIOUS
    <3>2. width = bits % 8 BY <3>1 DEF Width, Codes
    <3> HIDE DEF width, bits, avail
    <3>3. bits % 8 <= bits BY <1>3
    <3> QED BY <1>3, <1>5, <3>2, <3>3
  <2>3. \A b : Width(t, b) = width BY <2>2 DEF Width
  <2>4. \A b : Middle(inflator', b) <=> b < width
    <3>1. inflator.stream[inflator.at] = t /\ inflator.at <= Len(inflator.stream)
      BY <1>1 DEF Token, AtToken
    <3> HIDE DEF width, t
    <3> QED BY <1>7, <2>3, <3>1 DEF Middle
  <2>5. bits <= 8 * taken \/ bits - 8 * taken < width BY <1>4 DEF Middle, Token
  <2>6. inflator'.bits <= 8 * input'.taken \/ Middle(inflator', inflator'.bits - 8 * input'.taken)
    <3>1. CASE bits <= 8 * taken
      <4> HIDE DEF bits, taken, avail
      <4> QED BY <1>3, <1>7, <1>8, <3>1
    <3>2. CASE bits - 8 * taken < width
      <4> HIDE DEF bits, taken, avail, width
      <4>1. inflator'.bits - 8 * input'.taken = bits - 8 * taken BY <1>3, <1>7, <1>8
      <4> QED BY <2>4, <3>2, <4>1
    <3> QED BY <2>5, <3>1, <3>2
  <2>7. Waiting(inflator', input')
    <3>1. Middle(inflator', inflator'.bits)
      <4> HIDE DEF bits, taken, avail, width
      <4> QED BY <1>5, <1>7, <2>4
    <3> QED BY <1>7, <1>8, <3>1 DEF Waiting
  <2>8. Agrees(inflator', said, total - left - input'.avail)
    <3>1. total - left - input'.avail = given + avail BY <1>3, <1>8
    <3>2. said.pos = 8 * (given + avail) - inflator'.bits
      <4> HIDE DEF said, bits, avail, given
      <4> QED BY <1>3, <1>7, <1>9
    <3> HIDE DEF said, given, avail, bits
    <3> QED BY <1>4, <1>7, <3>1, <3>2 DEF Agrees
  <2>9. Reading(inflator'.stream, total)[inflator'.at - 1] = said BY <1>7 DEF Said
  <2>10. /\ inflator'.at \in 1 .. Len(inflator'.stream) + 1
         /\ input'.avail \in Nat /\ input'.taken \in Nat /\ inflator'.bits \in Nat
    <3>1. inflator.at \in 1 .. Len(inflator.stream) + 1 BY <1>2 DEF Working
    <3> HIDE DEF bits, avail, taken
    <3>2. input'.avail \in Nat /\ input'.taken \in Nat /\ inflator'.bits \in Nat
      BY <1>3, <1>7, <1>8
    <3> QED BY <1>7, <3>1, <3>2
  <2>11. Paced(inflator', input'.avail) BY <1>7 DEF Paced
  <2>12. Working(inflator', input', total, left)
    <3> HIDE DEF said, given, avail, bits, taken, width
    <3> QED BY <1>7, <1>8, <2>6, <2>8, <2>9, <2>10, <2>11 DEF Working
  <2> QED BY <1>2, <1>7, <1>8, <1>11, <2>1, <2>7, <2>12 DEF DecoderOk, Reads
<1> QED BY <1>10, <1>11

-----------------------------------------------------------------------------
(* The coroutine goes on after a token that writes, counts and keeps what  *)
(* the reading says.                                                       *)
LEMMA ResumesPlainly ==
  ASSUME NEW total \in Nat, NEW left \in Nat, DecoderOk(inflator, input, status, total, left), AtToken,
         Enough, ~Wrong(Said(total), Token), NEW d, Same(d), Resume(d),
         d.out = OutOf(Said(total), Token), d.counter = CounterOf(Said(total), Token),
         d.dist = DistOf(Said(total), Token), Len(d.out) <= inflator.capacity
  PROVE  DecoderOk(inflator', input', status', total, left)
<1>1. ResumeOn("new", d) /\ "new" \in {"new", "second"} /\ "new" # "second" BY DEF Resume
<1> QED BY <1>1, Resumes

(* Outcomes of the decoder that are no result                              *)
LEMMA WrongLeaves ==
  ASSUME NEW total \in Nat, NEW left \in Nat, DecoderOk(inflator, input, status, total, left), AtToken,
         Wrong(Said(total), Token), NEW d, Same(d), Leave(d, "FAILED")
  PROVE  DecoderOk(inflator', input', status', total, left)
<1>1. DOMAIN inflator = Decoder BY KnownIs
<1>2. /\ inflator'.stream = inflator.stream /\ inflator'.capacity = inflator.capacity
      /\ status' = "FAILED" BY <1>1, LeaveIs DEF Leave
<1>3. status' \notin Reads \cup {"DONE"} BY <1>2 DEF Reads
<1>4. Bad(Said(total), Token, total) BY DEF Bad
<1> QED BY <1>2, <1>3, <1>4, BadLeaves

LEMMA FullLeaves ==
  ASSUME NEW total \in Nat, NEW left \in Nat, DecoderOk(inflator, input, status, total, left), AtToken,
         Len(OutOf(Said(total), Token)) > inflator.capacity, status' = "HAS_MORE_OUTPUT",
         NEW d, Same(d), NEW bits, NEW taken, NEW avail, PutBack(d, bits, taken, avail)
  PROVE  DecoderOk(inflator', input', status', total, left)
<1>1. DOMAIN inflator = Decoder BY KnownIs
<1>2. /\ inflator'.stream = inflator.stream /\ inflator'.capacity = inflator.capacity
  BY <1>1, LeaveIs
<1>3. status' \notin Reads \cup {"DONE"} BY DEF Reads
<1> QED BY <1>2, <1>3, LongLeaves

-----------------------------------------------------------------------------
DecoderNow(total, left) == DecoderOk(inflator, input, status, total, left)
DecoderThen(total, left) == DecoderOk(inflator', input', status', total, left)

LEMMA QuietTokens ==
  ASSUME NEW total \in Nat, NEW left \in Nat, DecoderNow(total, left),
         BlockHeader \/ AlignOrField \/ StoredSize \/ Tables \/ EndOfBlock
  PROVE  DecoderThen(total, left)
<1> USE DEF DecoderNow, DecoderThen
<1> DEFINE t == Token said == Said(total)
<1>1. AtToken /\ t.kind \in {"header", "align", "field", "stored", "tables", "end"}
  BY DEF BlockHeader, AlignOrField, StoredSize, Tables, EndOfBlock, Running, AtToken, Token
<1>2. /\ Same(inflator) /\ inflator.out = said.out /\ inflator.counter = said.counter
      /\ inflator.dist = said.dist /\ Len(inflator.out) <= inflator.capacity BY <1>1, KnownIs
<1>3. Enough
  <2>1. CASE t.kind \in {"stored", "tables"} BY <1>1, <2>1, NothingWanted
  <2>2. CASE t.kind \notin {"stored", "tables"}
    BY <2>2 DEF BlockHeader, AlignOrField, StoredSize, Tables, EndOfBlock, Running, Token
  <2> QED BY <2>1, <2>2
<1>4. OutOf(said, t) = said.out /\ CounterOf(said, t) = said.counter /\ DistOf(said, t) = said.dist
  BY <1>1 DEF OutOf, CounterOf, DistOf
<1>5. \/ Wrong(said, t) /\ Leave(inflator, "FAILED")
      \/ ~Wrong(said, t) /\ Resume(inflator)
  <2>1. CASE t.kind = "header"
    <3>1. IF t.type = 3 THEN Leave(inflator, "FAILED") ELSE Resume(inflator)
      BY <2>1 DEF BlockHeader, AlignOrField, StoredSize, Tables, EndOfBlock, Running, Token
    <3> QED BY <2>1, <3>1 DEF Wrong
  <2>2. CASE t.kind = "stored"
    <3>1. IF t.good THEN Resume(inflator) ELSE Leave(inflator, "FAILED")
      BY <2>2 DEF BlockHeader, AlignOrField, StoredSize, Tables, EndOfBlock, Running, Token
    <3> QED BY <2>2, <3>1 DEF Wrong
  <2>3. CASE t.kind = "tables"
    <3>1. IF inflator.counter = t.sizes /\ t.good THEN Resume(inflator) ELSE Leave(inflator, "FAILED")
      BY <2>3 DEF BlockHeader, AlignOrField, StoredSize, Tables, EndOfBlock, Running, Token
    <3> QED BY <1>2, <2>3, <3>1 DEF Wrong
  <2>4. CASE t.kind \in {"align", "field", "end"}
    <3>1. Resume(inflator)
      BY <2>4 DEF BlockHeader, AlignOrField, StoredSize, Tables, EndOfBlock, Running, Token
    <3> QED BY <2>4, <3>1 DEF Wrong
  <2> QED BY <1>1, <2>1, <2>2, <2>3, <2>4
<1> HIDE DEF t, said
<1>6. CASE Wrong(said, t) /\ Leave(inflator, "FAILED")
  BY <1>1, <1>2, <1>6, WrongLeaves DEF t, said
<1>7. CASE ~Wrong(said, t) /\ Resume(inflator)
  <2>1. /\ inflator.out = OutOf(said, t) /\ inflator.counter = CounterOf(said, t)
        /\ inflator.dist = DistOf(said, t) BY <1>2, <1>4
  <2> QED BY <1>1, <1>2, <1>3, <1>7, <2>1, ResumesPlainly DEF t, said
<1> QED BY <1>5, <1>6, <1>7

LEMMA CountingTokens ==
  ASSUME NEW total \in Nat, NEW left \in Nat, DecoderNow(total, left),
         CodeLengthTable \/ CodeLengths \/ Length \/ Distance
  PROVE  DecoderThen(total, left)
<1> USE DEF DecoderNow, DecoderThen
<1> DEFINE t == Token said == Said(total)
<1>1. AtToken /\ t.kind \in {"table", "lengths", "length", "distance"}
  BY DEF CodeLengthTable, CodeLengths, Length, Distance, Running, AtToken, Token
<1>2. /\ Same(inflator) /\ inflator.out = said.out /\ inflator.counter = said.counter
      /\ inflator.dist = said.dist /\ Len(inflator.out) <= inflator.capacity
      /\ DOMAIN inflator = Decoder BY <1>1, KnownIs
<1>3. Enough
  <2>1. CASE t.kind = "table" BY <1>1, <2>1, NothingWanted
  <2>2. CASE t.kind # "table"
    BY <2>2 DEF CodeLengthTable, CodeLengths, Length, Distance, Running, Token
  <2> QED BY <2>1, <2>2
<1>4. OutOf(said, t) = said.out BY <1>1 DEF OutOf
<1>5. \/ Wrong(said, t) /\ Leave(inflator, "FAILED")
      \/ /\ ~Wrong(said, t) /\ t.kind # "distance"
         /\ Resume([inflator EXCEPT !.counter = CounterOf(said, t)])
      \/ ~Wrong(said, t) /\ t.kind = "distance" /\ Resume([inflator EXCEPT !.dist = DistOf(said, t)])
  <2>1. CASE t.kind = "table"
    <3>1. IF t.good THEN Resume([inflator EXCEPT !.counter = 0]) ELSE Leave(inflator, "FAILED")
      BY <2>1 DEF CodeLengthTable, CodeLengths, Length, Distance, Running, Token
    <3>2. CounterOf(said, t) = 0 BY <2>1 DEF CounterOf
    <3>3. Wrong(said, t) <=> ~t.good BY <2>1 DEF Wrong
    <3> QED BY <2>1, <3>1, <3>2, <3>3
  <2>2. CASE t.kind = "lengths"
    <3>1. IF t.again /\ inflator.counter = 0 THEN Leave(inflator, "FAILED")
          ELSE Resume([inflator EXCEPT !.counter = @ + t.count])
      BY <2>2 DEF CodeLengthTable, CodeLengths, Length, Distance, Running, Token
    <3>2. CounterOf(said, t) = inflator.counter + t.count BY <1>2, <2>2 DEF CounterOf
    <3>3. Wrong(said, t) <=> t.again /\ inflator.counter = 0 BY <1>2, <2>2 DEF Wrong
    <3> QED BY <2>2, <3>1, <3>2, <3>3
  <2>3. CASE t.kind = "length"
    <3>1. Resume([inflator EXCEPT !.counter = t.count])
      BY <2>3 DEF CodeLengthTable, CodeLengths, Length, Distance, Running, Token
    <3>2. CounterOf(said, t) = t.count /\ ~Wrong(said, t) BY <2>3 DEF CounterOf, Wrong
    <3> QED BY <2>3, <3>1, <3>2
  <2>4. CASE t.kind = "distance"
    <3>1. Resume([inflator EXCEPT !.dist = t.back])
      BY <2>4 DEF CodeLengthTable, CodeLengths, Length, Distance, Running, Token
    <3>2. DistOf(said, t) = t.back /\ ~Wrong(said, t) BY <2>4 DEF DistOf, Wrong
    <3> QED BY <2>4, <3>1, <3>2
  <2> QED BY <1>1, <2>1, <2>2, <2>3, <2>4
<1> HIDE DEF t, said
<1>6. CASE Wrong(said, t) /\ Leave(inflator, "FAILED")
  BY <1>1, <1>2, <1>6, WrongLeaves DEF t, said
<1>7. CASE /\ ~Wrong(said, t) /\ t.kind # "distance"
           /\ Resume([inflator EXCEPT !.counter = CounterOf(said, t)])
  <2> DEFINE d == [inflator EXCEPT !.counter = CounterOf(said, t)]
  <2>1. /\ Same(d) /\ d.out = inflator.out /\ d.counter = CounterOf(said, t)
        /\ d.dist = inflator.dist BY <1>2, ChangedIs
  <2>2. DistOf(said, t) = said.dist BY <1>7 DEF DistOf
  <2>3. Resume(d) /\ ~Wrong(said, t) BY <1>7
  <2> HIDE DEF d
  <2>4. /\ d.out = OutOf(said, t) /\ d.dist = DistOf(said, t) /\ Len(d.out) <= inflator.capacity
    BY <1>2, <1>4, <2>1, <2>2
  <2> QED BY <1>1, <1>3, <2>1, <2>3, <2>4, ResumesPlainly DEF t, said
<1>8. CASE ~Wrong(said, t) /\ t.kind = "distance" /\ Resume([inflator EXCEPT !.dist = DistOf(said, t)])
  <2> DEFINE d == [inflator EXCEPT !.dist = DistOf(said, t)]
  <2>1. /\ Same(d) /\ d.out = inflator.out /\ d.counter = inflator.counter
        /\ d.dist = DistOf(said, t) BY <1>2, ChangedIs
  <2>2. CounterOf(said, t) = said.counter BY <1>8 DEF CounterOf
  <2>3. Resume(d) /\ ~Wrong(said, t) BY <1>8
  <2> HIDE DEF d
  <2>4. /\ d.out = OutOf(said, t) /\ d.counter = CounterOf(said, t) /\ Len(d.out) <= inflator.capacity
    BY <1>2, <1>4, <2>1, <2>2
  <2> QED BY <1>1, <1>3, <2>1, <2>3, <2>4, ResumesPlainly DEF t, said
<1> QED BY <1>5, <1>6, <1>7, <1>8

-----------------------------------------------------------------------------
(* A byte or a literal is written if there is room for it.                 *)
LEMMA OneMore ==
  ASSUME NEW total \in Nat, NEW left \in Nat, DecoderNow(total, left), AtToken,
         Token.kind \in {"raw", "literal"}
  PROVE  /\ OutOf(Said(total), Token) = Append(inflator.out, Token.value)
         /\ Len(OutOf(Said(total), Token)) = Len(inflator.out) + 1
         /\ Room(inflator) = 0 => Len(OutOf(Said(total), Token)) > inflator.capacity
         /\ Room(inflator) # 0 => Len(OutOf(Said(total), Token)) <= inflator.capacity
         /\ CounterOf(Said(total), Token) = inflator.counter
         /\ DistOf(Said(total), Token) = inflator.dist /\ ~Wrong(Said(total), Token)
<1> USE DEF DecoderNow
<1> DEFINE out == OutOf(Said(total), Token) n == Len(inflator.out) room == Room(inflator)
           capacity == inflator.capacity
<1>1. /\ inflator.out = Said(total).out /\ inflator.counter = Said(total).counter
      /\ inflator.dist = Said(total).dist /\ IsSequence(inflator.out) /\ n \in Nat
      /\ capacity \in Nat /\ n <= capacity /\ room = capacity - n BY KnownIs
<1>2. out = Append(inflator.out, Token.value) BY <1>1 DEF OutOf
<1>3. Len(out) = n + 1 BY <1>1, <1>2, AppendIsSequence
<1>4. /\ CounterOf(Said(total), Token) = inflator.counter
      /\ DistOf(Said(total), Token) = inflator.dist /\ ~Wrong(Said(total), Token)
  BY <1>1 DEF CounterOf, DistOf, Wrong
<1> HIDE DEF out, n, room, capacity
<1>5. /\ room = 0 => Len(out) > capacity
      /\ room # 0 => Len(out) <= capacity BY <1>1, <1>3
<1> QED BY <1>2, <1>3, <1>4, <1>5 DEF out, n, room, capacity

LEMMA RawBytes ==
  ASSUME NEW total \in Nat, NEW left \in Nat, DecoderNow(total, left), RawByte
  PROVE  DecoderThen(total, left)
<1> USE DEF DecoderNow, DecoderThen
<1> DEFINE d == [inflator EXCEPT !.out = Append(@, Token.value)]
<1>1. AtToken /\ Token.kind = "raw" BY DEF RawByte, Running, AtToken, Token
<1>2. Same(inflator) /\ DOMAIN inflator = Decoder /\ Room(inflator) \in Nat BY <1>1, KnownIs
<1>3. /\ OutOf(Said(total), Token) = Append(inflator.out, Token.value)
      /\ Room(inflator) = 0 => Len(OutOf(Said(total), Token)) > inflator.capacity
      /\ Room(inflator) # 0 => Len(OutOf(Said(total), Token)) <= inflator.capacity
      /\ CounterOf(Said(total), Token) = inflator.counter
      /\ DistOf(Said(total), Token) = inflator.dist /\ ~Wrong(Said(total), Token)
  BY <1>1, OneMore
<1>4. CASE /\ Room(inflator) = 0 /\ status' = "HAS_MORE_OUTPUT"
           /\ \E bits, taken, avail : PutBack(inflator, bits, taken, avail)
  BY <1>1, <1>2, <1>3, <1>4, FullLeaves
<1>5. CASE Enough /\ Room(inflator) > 0 /\ Resume(d)
  <2>1. /\ Same(d) /\ d.out = Append(inflator.out, Token.value) /\ d.counter = inflator.counter
        /\ d.dist = inflator.dist BY <1>2, ChangedIs
  <2>2. Room(inflator) # 0 BY <1>2, <1>5
  <2>3. Enough /\ Resume(d) BY <1>5
  <2> HIDE DEF d
  <2> QED BY <1>1, <1>3, <2>1, <2>2, <2>3, ResumesPlainly
<1> QED BY <1>4, <1>5 DEF RawByte, Leave

LEMMA Literals ==
  ASSUME NEW total \in Nat, NEW left \in Nat, DecoderNow(total, left), Literal
  PROVE  DecoderThen(total, left)
<1> USE DEF DecoderNow, DecoderThen
<1> DEFINE d == [inflator EXCEPT !.out = Append(@, Token.value)]
           path == IF Fast /\ inflator.path = "new" THEN "second" ELSE "new"
<1>1. AtToken /\ Token.kind = "literal" /\ Enough BY DEF Literal, Running, AtToken, Token
<1>2. /\ Same(inflator) /\ DOMAIN inflator = Decoder /\ input.avail \in Nat /\ inflator.bits \in Nat
      /\ IsToken(Token) BY <1>1, KnownIs, TokenIs
<1>3. /\ OutOf(Said(total), Token) = Append(inflator.out, Token.value)
      /\ Room(inflator) = 0 => Len(OutOf(Said(total), Token)) > inflator.capacity
      /\ Room(inflator) # 0 => Len(OutOf(Said(total), Token)) <= inflator.capacity
      /\ CounterOf(Said(total), Token) = inflator.counter
      /\ DistOf(Said(total), Token) = inflator.dist /\ ~Wrong(Said(total), Token)
  BY <1>1, OneMore
<1>4. CASE Room(inflator) = 0
  <2>1. /\ status' = "HAS_MORE_OUTPUT"
        /\ \E bits, taken, avail : PutBack(inflator, bits, taken, avail)
    BY <1>4 DEF Literal, Leave
  <2> QED BY <1>1, <1>2, <1>3, <1>4, <2>1, FullLeaves
<1>5. CASE Room(inflator) # 0
  <2>1. /\ Same(d) /\ d.out = Append(inflator.out, Token.value) /\ d.counter = inflator.counter
        /\ d.dist = inflator.dist BY <1>2, ChangedIs
  <2>2. ResumeOn(path, d) BY <1>5 DEF Literal
  <2> DEFINE ready == \/ Rest >= 15
                      \/ ~inflator.wide /\ input.avail - Wanted(inflator, Token, input.avail) >= 2
  <2>3. path = "second" => ready
    <3>1. ASSUME Fast, inflator.path = "new" PROVE ready
      BY <1>1, <1>2, <3>1, FastIs DEF Fast, Rest
    <3> HIDE DEF ready
    <3> QED BY <3>1
  <2>4. path \in {"new", "second"} OBVIOUS
  <2> HIDE DEF d, path
  <2> QED BY <1>1, <1>3, <1>5, <2>1, <2>2, <2>3, <2>4, Resumes
<1> QED BY <1>4, <1>5

LEMMA Matches ==
  ASSUME NEW total \in Nat, NEW left \in Nat, DecoderNow(total, left), Match
  PROVE  DecoderThen(total, left)
<1> USE DEF DecoderNow, DecoderThen
<1> DEFINE out == OutOf(Said(total), Token) n == Len(inflator.out) room == Room(inflator)
           capacity == inflator.capacity count == inflator.counter
<1>1. AtToken /\ Token.kind = "match" BY DEF Match, Running, AtToken, Token
<1>2. /\ Same(inflator) /\ DOMAIN inflator = Decoder
      /\ inflator.out = Said(total).out /\ count = Said(total).counter
      /\ inflator.dist = Said(total).dist /\ IsSequence(inflator.out) /\ n \in Nat
      /\ capacity \in Nat /\ n <= capacity /\ room = capacity - n /\ count \in Nat
      /\ inflator.dist \in Nat BY <1>1, KnownIs
<1>3. out = Copied(inflator.out, inflator.dist, count) BY <1>1, <1>2 DEF OutOf
<1>4. Len(out) = n + count BY <1>2, <1>3, CopiedIsSequence
<1>5. CounterOf(Said(total), Token) = count /\ DistOf(Said(total), Token) = inflator.dist
  BY <1>1, <1>2 DEF CounterOf, DistOf
<1>6. Wrong(Said(total), Token) <=> inflator.dist = 0 \/ inflator.dist > n
  <2>1. Wrong(Said(total), Token) <=> inflator.dist \notin 1 .. n BY <1>1, <1>2 DEF Wrong
  <2> QED BY <1>2, <2>1
<1>7. CASE Wrong(Said(total), Token)
  <2>1. Leave(inflator, "FAILED") BY <1>6, <1>7 DEF Match
  <2> QED BY <1>1, <1>2, <1>7, <2>1, WrongLeaves
<1>8. CASE ~Wrong(Said(total), Token) /\ count > room
  <2> DEFINE d == [inflator EXCEPT !.out = Copied(@, inflator.dist, room)]
  <2>1. Leave(d, "HAS_MORE_OUTPUT") BY <1>6, <1>8 DEF Match
  <2>2. Same(d) BY <1>2, ChangedIs
  <2>3. Len(out) > capacity
    <3> HIDE DEF out, n, room, capacity, count
    <3> QED BY <1>2, <1>4, <1>8
  <2> HIDE DEF d
  <2>4. status' = "HAS_MORE_OUTPUT" /\ \E bits, taken, avail : PutBack(d, bits, taken, avail)
    BY <2>1 DEF Leave
  <2> QED BY <1>1, <2>2, <2>3, <2>4, FullLeaves
<1>9. CASE ~Wrong(Said(total), Token) /\ ~(count > room)
  <2> DEFINE d == [inflator EXCEPT !.out = Copied(@, inflator.dist, count)]
  <2>1. Resume(d) BY <1>6, <1>9 DEF Match
  <2>2. /\ Same(d) /\ d.out = Copied(inflator.out, inflator.dist, count)
        /\ d.counter = count /\ d.dist = inflator.dist BY <1>2, ChangedIs
  <2>3. Len(out) <= capacity
    <3> HIDE DEF out, n, room, capacity, count
    <3> QED BY <1>2, <1>4, <1>9
  <2>4. Enough BY <1>1, NothingWanted
  <2> HIDE DEF d
  <2> QED BY <1>1, <1>3, <1>5, <1>9, <2>1, <2>2, <2>3, <2>4, ResumesPlainly
<1> QED BY <1>7, <1>8, <1>9

-----------------------------------------------------------------------------
(* The end of the final block: what was read ahead goes back.              *)
LEMMA Finishes ==
  ASSUME NEW total \in Nat, NEW left \in Nat, DecoderNow(total, left), Finish
  PROVE  DecoderThen(total, left)
<1> USE DEF DecoderNow, DecoderThen
<1> DEFINE bits == inflator.bits avail == input.avail taken == input.taken stream == inflator.stream
           whole == bits - (bits % 8) back == Least(taken, whole \div 8) m == Meaning(stream, total)
           given == total - left - avail
<1>1. /\ Working(inflator, input, total, left) /\ IsStream(stream) /\ inflator.capacity \in Nat
  BY DEF DecoderOk, Finish, Reads
<1>2. Len(stream) \in Nat BY <1>1, SequenceHas DEF IsStream
<1>3. inflator.at = Len(stream) + 1 /\ inflator.at - 1 = Len(stream)
  <2>1. inflator.at \in 1 .. Len(stream) + 1 BY <1>1 DEF Working
  <2> QED BY <1>2, <2>1 DEF Finish
<1>4. /\ DOMAIN inflator = Decoder /\ DOMAIN input = {"avail", "taken", "more"}
      /\ bits \in Nat /\ avail \in Nat /\ taken \in Nat /\ Agrees(inflator, m, given)
  BY <1>1, <1>3 DEF Working, Meaning
<1>5. bits <= 8 * taken
  <2>1. ~Middle(inflator, bits - 8 * taken) BY <1>2, <1>3 DEF Middle
  <2> QED BY <1>1, <2>1 DEF Working
<1>6. /\ inflator' = [inflator EXCEPT !.bits = whole - 8 * back]
      /\ input' = [input EXCEPT !.avail = avail + back, !.taken = taken - back] /\ status' = "DONE"
  BY DEF Finish, PutBack
<1>7. ~m.failed /\ inflator.out = m.out /\ m.pos = 8 * given - bits BY <1>4 DEF Agrees
<1> DEFINE q == bits \div 8 r == bits % 8
<1> HIDE DEF bits
<1>8. bits = 8 * q + r /\ r \in 0 .. 7 /\ q \in Nat BY <1>4
<1>9. back = q /\ whole = 8 * q
  <2>1. whole = bits - r OBVIOUS
  <2> HIDE DEF q, r, taken, whole
  <2>2. whole = 8 * q BY <1>4, <1>8, <2>1
  <2>3. whole \div 8 = q BY <1>8, <2>2
  <2>4. q <= taken BY <1>4, <1>5, <1>8
  <2>5. q \in Nat /\ taken \in Nat BY <1>4, <1>8 DEF taken
  <2> QED BY <2>2, <2>3, <2>4, <2>5 DEF Least
<1> HIDE DEF bits, avail, taken, whole, back, m, given, q, r
<1>10. /\ inflator'.stream = stream /\ inflator'.capacity = inflator.capacity
       /\ inflator'.out = inflator.out /\ inflator'.bits = whole - 8 * back
  BY <1>4, <1>6 DEF Decoder
<1>11. input'.avail = avail + back BY <1>4, <1>6
<1>12. total - left - input'.avail = given - q BY <1>4, <1>9, <1>8, <1>11 DEF given
<1>13. Bytes(m.pos) = given - q
  <2>1. given \in Int BY <1>4 DEF given
  <2>2. m.pos + 7 = 8 * (given - q) + (7 - r) /\ 7 - r \in 0 .. 7 /\ given - q \in Int BY <1>4, <1>7, <1>8, <2>1
  <2>3. (m.pos + 7) \div 8 = given - q BY <2>2
  <2> QED BY <2>3 DEF Bytes
<1>14. inflator'.bits = 0 BY <1>8, <1>9, <1>10
<1>15. Ended(inflator', m, total - left - input'.avail)
  BY <1>7, <1>10, <1>12, <1>13, <1>14 DEF Ended
<1>16. input'.avail \in Nat BY <1>4, <1>8, <1>9, <1>11
<1> QED BY <1>1, <1>6, <1>10, <1>15, <1>16 DEF DecoderOk, Reads, m

(* Whatever the coroutine does, its stream, the size of its output and     *)
(* whether there is more input stay as they are.                           *)
LEMMA ResumeKeeps ==
  ASSUME DOMAIN input = {"avail", "taken", "more"}, NEW d, Same(d), NEW path, ResumeOn(path, d)
  PROVE  /\ inflator'.stream = inflator.stream /\ inflator'.capacity = inflator.capacity
         /\ input'.more = input.more
<1> DEFINE w == Wanted(inflator, Token, input.avail) r == Rest
<1>1. inflator' = [d EXCEPT !.at = @ + 1, !.bits = r, !.path = path] BY DEF ResumeOn
<1>2. input' = [input EXCEPT !.avail = @ - w, !.taken = @ + w] BY DEF ResumeOn, Take
<1> HIDE DEF w, r
<1> QED BY <1>1, <1>2 DEF Same, Decoder

LEMMA PutBackKeeps ==
  ASSUME DOMAIN input = {"avail", "taken", "more"}, NEW d, Same(d), NEW bits, NEW taken, NEW avail,
         PutBack(d, bits, taken, avail)
  PROVE  /\ inflator'.stream = inflator.stream /\ inflator'.capacity = inflator.capacity
         /\ input'.more = input.more
BY DEF PutBack, Same, Decoder

LEMMA InflateKeeps ==
  ASSUME DOMAIN inflator = Decoder, DOMAIN input = {"avail", "taken", "more"}, Inflate
  PROVE  /\ inflator'.stream = inflator.stream /\ inflator'.capacity = inflator.capacity
         /\ input'.more = input.more
<1> DEFINE Kept == /\ inflator'.stream = inflator.stream /\ inflator'.capacity = inflator.capacity
                   /\ input'.more = input.more
<1> SUFFICES Kept OBVIOUS
<1>1. \A d : Same(d) /\ (\E path : ResumeOn(path, d)) => Kept BY ResumeKeeps
<1>2. \A d : Same(d) /\ (\E bits, taken, avail : PutBack(d, bits, taken, avail)) => Kept BY PutBackKeeps
<1>3. \A d : Same(d) /\ Resume(d) => Kept
  <2>1. \A d : Resume(d) <=> ResumeOn("new", d) BY DEF Resume
  <2> HIDE DEF Kept
  <2> QED BY <1>1, <2>1
<1>4. \A d : Same(d) /\ (\E result : Leave(d, result)) => Kept
  <2>1. \A d : (\E result : Leave(d, result)) => \E bits, taken, avail : PutBack(d, bits, taken, avail)
    BY DEF Leave
  <2> HIDE DEF Kept
  <2> QED BY <1>2, <2>1
<1>5. Same(inflator) BY DEF Same
<1>6. \A v : /\ Same([inflator EXCEPT !.out = v]) /\ Same([inflator EXCEPT !.counter = v])
             /\ Same([inflator EXCEPT !.dist = v]) BY ChangedIs
<1>7. CASE Starve
  <2>1. /\ inflator' = [inflator EXCEPT !.bits = @ + 8 * input.avail,
                                        !.path = IF Token.kind \in Codes THEN "slow" ELSE "new"]
        /\ input' = [input EXCEPT !.avail = @ - input.avail, !.taken = @ + input.avail]
    BY <1>7 DEF Starve, Take
  <2> QED BY <2>1 DEF Decoder
<1> HIDE DEF Kept
<1>8. CASE BlockHeader \/ AlignOrField \/ StoredSize \/ Tables \/ EndOfBlock
  BY <1>3, <1>4, <1>5, <1>8 DEF BlockHeader, AlignOrField, StoredSize, Tables, EndOfBlock
<1>9. CASE RawByte BY <1>2, <1>3, <1>4, <1>5, <1>6, <1>9 DEF RawByte
<1>10. CASE CodeLengthTable \/ CodeLengths \/ Length \/ Distance
  BY <1>3, <1>4, <1>5, <1>6, <1>10 DEF CodeLengthTable, CodeLengths, Length, Distance
<1>11. CASE Literal
  <2>1. Leave(inflator, "HAS_MORE_OUTPUT")
        \/ ResumeOn(IF Fast /\ inflator.path = "new" THEN "second" ELSE "new",
                    [inflator EXCEPT !.out = Append(@, Token.value)])
    BY <1>11 DEF Literal
  <2> QED BY <1>1, <1>4, <1>5, <1>6, <2>1
<1>12. CASE Match BY <1>3, <1>4, <1>5, <1>6, <1>12 DEF Match
<1>13. CASE Finish BY <1>2, <1>5, <1>13 DEF Finish
<1> QED BY <1>7, <1>8, <1>9, <1>10, <1>11, <1>12, <1>13 DEF Inflate

(* Every step of the coroutine keeps it in step with the reading.          *)
LEMMA InflateStep ==
  ASSUME NEW total \in Nat, NEW left \in Nat, DecoderNow(total, left), input.more <=> left > 0, Inflate
  PROVE  /\ DecoderThen(total, left)
         /\ inflator'.stream = inflator.stream /\ inflator'.capacity = inflator.capacity
         /\ input'.more = input.more
<1>1. status = "running"
  BY DEF Inflate, Starve, Starving, BlockHeader, AlignOrField, StoredSize, RawByte, CodeLengthTable,
     CodeLengths, Tables, Literal, Length, Distance, EndOfBlock, Match, Finish, Running
<1>2. DOMAIN inflator = Decoder /\ DOMAIN input = {"avail", "taken", "more"}
  BY <1>1 DEF DecoderNow, DecoderOk, Working, Reads
<1>3. /\ inflator'.stream = inflator.stream /\ inflator'.capacity = inflator.capacity
      /\ input'.more = input.more BY <1>2, InflateKeeps
<1>4. DecoderThen(total, left)
  <2>1. CASE Starve
    <3>1. DecoderOk(inflator', input', status', total, left)
      BY <2>1, Starves DEF DecoderNow
    <3> QED BY <3>1 DEF DecoderThen
  <2> QED BY <2>1, QuietTokens, CountingTokens, RawBytes, Literals, Matches, Finishes DEF Inflate
<1> QED BY <1>3, <1>4

-----------------------------------------------------------------------------
(* Where the archive begins and ends: while it is looked for, and once it  *)
(* has been found; and the records that the index leads to are there,      *)
(* whether the block of the directory is or not.                           *)
Finding == {"locate", "end_record", "locator", "near", "there", "check_64", "check_end"}
Found == {"directory", "offsets", "read_directory", "records", "open", "extract", "local", "stored",
          "buffer", "fill", "inflate", "release"}
Leads(ofs) == Abs(dir.end.ofs + ofs) \in DOMAIN archive.headers
PlaceInv ==
  /\ \A i \in DOMAIN index : Leads(index[i])
  /\ at \in Finding \cup {"closed", "init"} => zip.start = 0
  /\ at \in Finding \cup {"init"} => zip.size = archive.size
  /\ at \in Finding \ {"locate"} => dir.eocd \in DOMAIN archive.ends /\ dir.eocd <= zip.size
  /\ at \in Finding \ {"locate", "end_record"} => {dir.end.ofs, dir.end.csize, dir.end.total} \subseteq Nat
  /\ at \in Found => zip.start \in Nat /\ zip.size \in Nat /\ zip.start + zip.size = archive.size

LEMMA ArchiveIs ==
  ASSUME IndexInv
  PROVE  /\ IsArchive(archive) /\ archive.size \in Nat /\ archive.size < Word
         /\ archive.size < Word \div 2 /\ Word \in Nat /\ Word > 0 /\ Word \div 2 \in Nat
<1>1. Word \in Nat /\ Word > 0 BY BudgetAssumption
<1>2. IsArchive(archive) BY ReaderAssumption DEF IndexInv
<1>3. archive.size \in 0 .. Word \div 2 - 1 BY <1>2 DEF IsArchive
<1>4. Word \div 2 \in Nat /\ Word \div 2 <= Word BY <1>1
<1> QED BY <1>1, <1>2, <1>3, <1>4

(* Steps that leave the archive where it is                                *)
StaysPut ==
  /\ UNCHANGED <<archive, dir, index>> /\ DOMAIN zip' = DOMAIN zip
  /\ zip'.start = zip.start /\ zip'.size = zip.size

LEMMA SetStays ==
  ASSUME IndexInv, UNCHANGED <<archive, dir, index>>, NEW error, zip' = zip \/ zip' = Set(error)
  PROVE  StaysPut
BY DEF IndexInv, Set, StaysPut

LEMMA PlaceQuietly ==
  ASSUME PlaceInv, StaysPut, at' \in Found => at \in Found,
         at' \notin Finding \cup {"closed", "init"} \/ at' = at
  PROVE  PlaceInv'
<1>1. \A ofs : Leads(ofs)' <=> Leads(ofs) BY DEF Leads, Abs, Sum, StaysPut
<1> QED BY <1>1 DEF PlaceInv, StaysPut

LEMMA GreatestIs ==
  ASSUME NEW S, S \subseteq Nat, S # {}, NEW n \in Nat, \A s \in S : s <= n
  PROVE  Greatest(S) \in S
<1> DEFINE Gaps == {n - s : s \in S}
<1>1. Gaps \subseteq Nat /\ Gaps # {}
  <2>1. \A s \in S : n - s \in Nat OBVIOUS
  <2> QED BY <2>1
<1>2. PICK g \in Gaps : \A h \in Gaps : g <= h
  <2> HIDE DEF Gaps
  <2> QED BY <1>1, LeastNatural
<1>3. PICK s \in S : g = n - s BY <1>2
<1>4. \A t \in S : n - s <= n - t BY <1>2, <1>3
<1>5. \A t \in S : t <= s BY <1>4
<1> QED BY <1>3, <1>5 DEF Greatest

(* The index is empty until the directory is read.                         *)
LEMMA LeadsEarly ==
  ASSUME IndexInv, at \in Unread, UNCHANGED index
  PROVE  \A i \in DOMAIN index' : Leads(index[i])'
<1>1. index' = <<>> BY DEF IndexInv
<1> QED BY <1>1

LEMMA PlaceLocating ==
  ASSUME IndexInv, PlaceInv, Locate \/ ReadEnd \/ ReadLocator
  PROVE  PlaceInv'
<1> USE DEF Finding, Found
<1>1. UNCHANGED <<archive, index>>
  BY DEF Locate, ReadEnd, ReadLocator, Reject, setting
<1>2. at \in {"locate", "end_record", "locator"} BY DEF Locate, ReadEnd, ReadLocator, Goto
<1>3. \A i \in DOMAIN index' : Leads(index[i])' BY <1>1, <1>2, LeadsEarly DEF Unread
<1>4. zip.size = archive.size /\ zip.start = 0 BY <1>2 DEF PlaceInv
<1>5. CASE at' = "end_directory" BY <1>3, <1>5 DEF PlaceInv
<1>6. CASE Locate /\ at' # "end_directory"
  <2>1. /\ at' = "end_record" /\ Ends(Windows) # {}
        /\ dir' = [dir EXCEPT !.eocd = Greatest(Ends(Windows))] /\ UNCHANGED zip
    BY <1>6 DEF Locate, Reject
  <2> DEFINE S == Ends(Windows)
  <2>2. S \subseteq DOMAIN archive.ends /\ \A s \in S : s + EndSize <= zip.size BY DEF Ends
  <2>3. S \subseteq Nat BY <2>2, ArchiveIs DEF IsArchive
  <2>4. zip.size \in Nat BY <1>4, ArchiveIs
  <2> HIDE DEF S
  <2>5. \A s \in S : s <= zip.size BY <2>2, <2>3, <2>4 DEF EndSize
  <2>6. Greatest(S) \in S BY <2>1, <2>3, <2>4, <2>5, GreatestIs DEF S
  <2>7. dir'.eocd = Greatest(S) BY <2>1 DEF IndexInv, S
  <2>8. dir'.eocd \in DOMAIN archive.ends /\ dir'.eocd <= zip.size BY <2>2, <2>5, <2>6, <2>7
  <2> QED BY <1>1, <1>3, <1>4, <2>1, <2>8 DEF PlaceInv
<1>7. CASE ReadEnd /\ at' # "end_directory"
  <2>1. at' = "locator" /\ dir' = [dir EXCEPT !.end = archive.ends[dir.eocd]] /\ UNCHANGED zip
    BY <1>7 DEF ReadEnd, Reject
  <2>2. at = "end_record" BY <1>7 DEF ReadEnd
  <2>3. dir.eocd \in DOMAIN archive.ends /\ dir.eocd <= zip.size BY <2>2 DEF PlaceInv
  <2> DEFINE e == archive.ends[dir.eocd]
  <2>4. {e.ofs, e.csize, e.total} \subseteq Nat
    BY <2>3, ArchiveIs DEF IsArchive
  <2>5. dir'.eocd = dir.eocd /\ dir'.end = archive.ends[dir.eocd] BY <2>1 DEF IndexInv
  <2> QED BY <1>1, <1>3, <1>4, <2>1, <2>3, <2>4, <2>5 DEF PlaceInv
<1>8. CASE ReadLocator
  <2>1. at' \in {"near", "check_end"} /\ UNCHANGED dir BY <1>8 DEF ReadLocator, Goto
  <2>2. zip' = zip \/ zip' = [zip EXCEPT !.zip64 = TRUE] BY <1>8 DEF ReadLocator, Goto
  <2>3. zip'.size = zip.size /\ zip'.start = zip.start BY <2>2 DEF IndexInv
  <2>4. at = "locator" BY <1>8 DEF ReadLocator, Goto
  <2> QED BY <1>1, <1>3, <1>4, <2>1, <2>3, <2>4 DEF PlaceInv
<1> QED BY <1>5, <1>6, <1>7, <1>8

LEMMA PlaceChecking ==
  ASSUME IndexInv, PlaceInv, ReadNear \/ ReadThere \/ Check64
  PROVE  PlaceInv'
<1> USE DEF Finding, Found
<1>1. UNCHANGED <<archive, index>>
  BY DEF ReadNear, ReadThere, ReadEnd64, Check64, Reject, setting
<1>2. at \in {"near", "there", "check_64"} BY DEF ReadNear, ReadThere, Check64
<1>3. \A i \in DOMAIN index' : Leads(index[i])' BY <1>1, <1>2, LeadsEarly DEF Unread
<1>4. /\ zip.size = archive.size /\ zip.start = 0
      /\ dir.eocd \in DOMAIN archive.ends /\ dir.eocd <= zip.size
      /\ {dir.end.ofs, dir.end.csize, dir.end.total} \subseteq Nat BY <1>2 DEF PlaceInv
<1>5. CASE at' = "end_directory" BY <1>3, <1>5 DEF PlaceInv
<1>6. CASE at' # "end_directory"
  <2>1. /\ UNCHANGED zip /\ at' \in {"there", "check_64", "check_end"}
        /\ \/ UNCHANGED dir
           \/ \E ofs \in DOMAIN archive.ends64 : dir' = [dir EXCEPT !.end = archive.ends64[ofs]]
    BY <1>6 DEF ReadNear, ReadThere, ReadEnd64, Check64, Reject
  <2>2. dir'.eocd = dir.eocd /\ {dir'.end.ofs, dir'.end.csize, dir'.end.total} \subseteq Nat
    <3>1. CASE UNCHANGED dir BY <1>4, <3>1
    <3>2. ASSUME NEW ofs \in DOMAIN archive.ends64, dir' = [dir EXCEPT !.end = archive.ends64[ofs]]
          PROVE  dir'.eocd = dir.eocd /\ {dir'.end.ofs, dir'.end.csize, dir'.end.total} \subseteq Nat
      <4> DEFINE e == archive.ends64[ofs]
      <4>1. {e.ofs, e.csize, e.total} \subseteq Nat
        BY ArchiveIs DEF IsArchive
      <4> QED BY <3>2, <4>1 DEF IndexInv
    <3> QED BY <2>1, <3>1, <3>2
  <2> QED BY <1>1, <1>3, <1>4, <2>1, <2>2 DEF PlaceInv
<1> QED BY <1>5, <1>6

(* The bytes before the archive: where its end is said to be and where it  *)
(* is found.                                                               *)
LEMMA PlaceFound ==
  ASSUME IndexInv, PlaceInv, CheckEnd PROVE PlaceInv'
<1> USE DEF Finding, Found
<1>1. UNCHANGED <<archive, dir, index>> BY DEF CheckEnd, Reject, setting
<1>2. at = "check_end" BY DEF CheckEnd
<1>3. \A i \in DOMAIN index' : Leads(index[i])' BY <1>1, <1>2, LeadsEarly DEF Unread
<1>4. CASE at' = "end_directory" BY <1>3, <1>4 DEF PlaceInv
<1>5. CASE at' # "end_directory"
  <2> DEFINE e == dir.end sum == Sum(e.ofs, e.csize) eocd == dir.eocd between == Between
             before == IF kind = "memory" THEN 0 ELSE eocd - sum - between
  <2>1. /\ Failing(EndChecks(e)) = {} /\ at' \in {"open", "directory"}
        /\ zip' = [zip EXCEPT !.start = before, !.size = @ - before, !.total = e.total]
    BY <1>5 DEF CheckEnd, Reject
  <2>2. zip.size = archive.size /\ eocd \in DOMAIN archive.ends /\ eocd <= zip.size
        /\ e.ofs \in Nat /\ e.csize \in Nat BY <1>2 DEF PlaceInv
  <2>3. eocd \in Nat /\ zip.size \in Nat BY <2>2, ArchiveIs DEF IsArchive
  <2>4. sum \in Nat
    <3>1. Word \in Nat /\ Word > 0 BY BudgetAssumption
    <3> HIDE DEF e
    <3>2. e.ofs + e.csize \in Nat BY <2>2
    <3>3. \A n \in Nat : n % Word \in Nat BY <3>1
    <3> QED BY <3>2, <3>3 DEF Sum
  <2>5. between \in Nat BY DEF Between, End64Size, LocatorSize
  <2>6. ~(eocd < sum) /\ ~(eocd - sum < between)
    <3>1. /\ 5 \in DOMAIN EndChecks(e) /\ EndChecks(e)[5][1] = (eocd < sum)
          /\ 6 \in DOMAIN EndChecks(e) /\ EndChecks(e)[6][1] = (eocd - sum < between)
      BY DEF EndChecks
    <3> QED BY <2>1, <3>1 DEF Failing
  <2> HIDE DEF e, sum, between, eocd
  <2>7. before \in Nat /\ before <= zip.size BY <2>2, <2>3, <2>4, <2>5, <2>6
  <2> HIDE DEF before
  <2>8. zip'.start = before /\ zip'.size = zip.size - before BY <2>1 DEF IndexInv
  <2>9. zip'.start \in Nat /\ zip'.size \in Nat /\ zip'.start + zip'.size = archive.size
    BY <2>2, <2>3, <2>7, <2>8
  <2> QED BY <1>1, <1>3, <2>1, <2>9 DEF PlaceInv
<1> QED BY <1>4, <1>5

LEMMA PlaceRecords ==
  ASSUME IndexInv, PlaceInv, CheckRecord PROVE PlaceInv'
<1> USE DEF Finding, Found
<1> DEFINE place == Abs(dir.end.ofs + dir.p) h == archive.headers[place]
<1>1. UNCHANGED archive /\ at = "records" BY DEF CheckRecord, setting
<1>2. \/ /\ at' = "end_directory" /\ UNCHANGED <<dir, index>> /\ \E error : zip' = Set(error)
      \/ /\ place \in DOMAIN archive.headers /\ at' \in {"open", "records"}
         /\ index' = Append(index, dir.p)
         /\ zip' = [zip EXCEPT !.zip64 = @ \/ Look(h) = "zip64", !.ext = @ \/ Look(h) = "zip64"]
         /\ dir' = [dir EXCEPT !.p = @ + HeaderSize(h)]
  BY DEF CheckRecord, Reject
<1>3. CASE at' = "end_directory" /\ UNCHANGED <<dir, index>> /\ \E error : zip' = Set(error)
  <2>1. StaysPut BY <1>1, <1>3, SetStays
  <2> QED BY <1>3, <2>1, PlaceQuietly
<1>4. CASE /\ place \in DOMAIN archive.headers /\ at' \in {"open", "records"}
           /\ index' = Append(index, dir.p)
           /\ zip' = [zip EXCEPT !.zip64 = @ \/ Look(h) = "zip64", !.ext = @ \/ Look(h) = "zip64"]
           /\ dir' = [dir EXCEPT !.p = @ + HeaderSize(h)]
  <2>1. zip'.start = zip.start /\ zip'.size = zip.size BY <1>4 DEF IndexInv
  <2> DEFINE size == HeaderSize(h)
  <2>1a. dir' = [dir EXCEPT !.p = @ + size] BY <1>4
  <2> HIDE DEF size
  <2>2. dir'.end = dir.end BY <2>1a DEF IndexInv
  <2>3. index \in Seq(Nat) /\ dir.p \in Nat BY DEF IndexInv
  <2>4. \A i \in DOMAIN index' : (i \in DOMAIN index /\ index'[i] = index[i]) \/ index'[i] = dir.p
    BY <1>4, <2>3
  <2>5. \A i \in DOMAIN index' : Leads(index'[i])
    <3>1. Leads(dir.p) BY <1>4 DEF Leads
    <3> QED BY <2>4, <3>1 DEF PlaceInv
  <2>6. ASSUME NEW i \in DOMAIN index' PROVE Leads(index[i])'
    <3>1. Leads(index[i])' <=> Leads(index'[i]) BY <1>1, <2>1, <2>2 DEF Leads, Abs, Sum
    <3> QED BY <2>5, <2>6, <3>1
  <2>7. zip.start \in Nat /\ zip.size \in Nat /\ zip.start + zip.size = archive.size
    BY <1>1 DEF PlaceInv
  <2> QED BY <1>1, <1>4, <2>1, <2>6, <2>7 DEF PlaceInv
<1> QED BY <1>2, <1>3, <1>4

LEMMA PlaceStep ==
  ASSUME IndexInv, PlaceInv, [ReaderNext]_reader_vars PROVE PlaceInv'
<1> USE DEF Finding, Found
<1>1. CASE UNCHANGED reader_vars
  <2>1. StaysPut /\ at' = at BY <1>1 DEF reader_vars, setting, StaysPut
  <2> QED BY <2>1, PlaceQuietly
<1>2. CASE Open
  <2>1. UNCHANGED <<archive, dir, index>> /\ at = "closed" BY <1>2 DEF Open, setting
  <2>2. \/ at' = "failed"
        \/ at' = "init" /\ zip' = [zip EXCEPT !.size = archive.size]
    BY <1>2 DEF Open
  <2>3. \A i \in DOMAIN index' : Leads(index[i])' BY <2>1, LeadsEarly DEF Unread
  <2>4. CASE at' = "failed" BY <2>3, <2>4 DEF PlaceInv
  <2>5. CASE at' = "init" /\ zip' = [zip EXCEPT !.size = archive.size]
    <3>1. zip'.size = archive.size /\ zip'.start = zip.start BY <2>5 DEF IndexInv
    <3> QED BY <2>1, <2>3, <2>5, <3>1 DEF PlaceInv
  <2> QED BY <2>2, <2>4, <2>5
<1>3. CASE InitInternal
  <2>1. /\ UNCHANGED <<archive, dir, index>> /\ at = "init" /\ at' \in {"locate", "failed"}
        /\ (zip' = zip \/ zip' = Set("ALLOC_FAILED"))
    BY <1>3 DEF InitInternal, setting
  <2>2. StaysPut BY <2>1, SetStays
  <2>3. \A i \in DOMAIN index' : Leads(index[i])' BY <2>1, LeadsEarly DEF Unread
  <2> QED BY <2>1, <2>2, <2>3 DEF PlaceInv, StaysPut
<1>4. CASE GetDirectory \/ GetOffsets \/ ReadDirectory
  <2>1. /\ UNCHANGED <<archive, dir, index>> /\ at \in {"directory", "offsets", "read_directory"}
        /\ at' \in {"offsets", "read_directory", "records", "end_directory"}
        /\ \E error : zip' = zip \/ zip' = Set(error)
    BY <1>4 DEF GetDirectory, GetOffsets, ReadDirectory, Block, Reject, setting
  <2>2. StaysPut BY <2>1, SetStays
  <2> QED BY <2>1, <2>2, PlaceQuietly
<1>5. CASE Stat \/ Extraction
  <2>1. UNCHANGED <<archive, dir, index>>
    BY <1>5 DEF Stat, Extraction, BeginExtraction, ReadLocal, ReadStored, GetBuffer, Fill, Decompress,
       Continue, CheckResult, Release, setting
  <2>2. \E error : zip' = zip \/ zip' = Set(error)
    BY <1>5 DEF Stat, Extraction, BeginExtraction, ReadLocal, ReadStored, GetBuffer, Fill, Decompress,
       Continue, CheckResult, Release, Fails, Returns
  <2>3. at \in Found /\ at' \in Found
    BY <1>5 DEF Stat, Extraction, BeginExtraction, ReadLocal, ReadStored, GetBuffer, Fill, Decompress,
       Continue, CheckResult, Release, Fails, Returns, Goto
  <2>4. StaysPut BY <2>1, <2>2, SetStays
  <2> QED BY <2>3, <2>4, PlaceQuietly
<1>6. CASE Close \/ EndInternal
  <2>1. UNCHANGED <<archive, dir, index, zip>>
    BY <1>6 DEF Close, EndInternal, EndDirectory, EndOffsets, EndState, ScopeEnds, setting
  <2>2. at' \in {"end_directory", "end_offsets", "end_state", "failed", "over"}
    BY <1>6 DEF Close, EndInternal, EndDirectory, EndOffsets, EndState, ScopeEnds, Goto
  <2>3. StaysPut BY <2>1 DEF StaysPut
  <2> QED BY <2>2, <2>3, PlaceQuietly
<1> QED BY <1>1, <1>2, <1>3, <1>4, <1>5, <1>6, PlaceLocating, PlaceChecking, PlaceFound, PlaceRecords
        DEF ReaderNext, Client, Program, Opening

-----------------------------------------------------------------------------
(* The entry that is extracted, what its record says of it, and where its  *)
(* data begin: as the code adds it up, modulo Word.                        *)
Ofs == Field(Entry, "ofs")
Comp == Field(Entry, "comp")
Uncomp == Field(Entry, "uncomp")
Local == archive.locals[Abs(Ofs)]
Data == Sum(Ofs, LocalSize + Local.name + Local.extra)
Lies == Abs(Ofs) \in DOMAIN archive.locals /\ ~(Sum(Data, Comp) > zip.size)
Chosen == job.i \in DOMAIN index /\ Wants(Entry)
Located == Chosen /\ Comp # 0 /\ Lies

LEMMA EntryStays ==
  ASSUME StaysPut, job'.i = job.i
  PROVE  /\ Entry' = Entry /\ Ofs' = Ofs /\ Comp' = Comp /\ Uncomp' = Uncomp
         /\ Data' = Data /\ Lies' = Lies /\ DataAt(Data)' = DataAt(Data)
         /\ Chosen' = Chosen /\ Located' = Located
         /\ Unwrapped(Entry)' = Unwrapped(Entry) /\ Sound(job.i)' = Sound(job.i)
<1>1. Entry' = Entry BY DEF Entry, Record, Abs, Sum, StaysPut
<1>2. Ofs' = Ofs /\ Comp' = Comp /\ Uncomp' = Uncomp BY <1>1 DEF Ofs, Comp, Uncomp, Field
<1>3. \A n : Abs(n)' = Abs(n) BY DEF Abs, Sum, StaysPut
<1>4. Abs(Ofs)' = Abs(Ofs) BY <1>2, <1>3 DEF Abs
<1>5. Local' = Local BY <1>4 DEF Local, StaysPut
<1>6. Data' = Data BY <1>2, <1>5 DEF Data, Sum
<1>7. Lies' = Lies BY <1>2, <1>4, <1>6 DEF Lies, Sum, StaysPut
<1>8. \A n : DataAt(n)' = DataAt(n) BY <1>3 DEF DataAt, StaysPut
<1>9. Wants(Entry)' = Wants(Entry) BY <1>1 DEF Wants, StatOk, Supported, Field
<1>10. Chosen' = Chosen BY <1>9 DEF Chosen, StaysPut
<1>11. Located' = Located BY <1>2, <1>7, <1>10 DEF Located
<1>12. Unwrapped(Entry)' = Unwrapped(Entry) BY <1>1 DEF Unwrapped, Field
<1>13. DataAt(Data)' = DataAt(Data) BY <1>6, <1>8 DEF DataAt
<1>14. Sound(job.i)' = Sound(job.i)
  BY SMTT(20) DEF Sound, Record, Abs, Sum, DataAt, Field, StaysPut
<1> QED BY <1>1, <1>2, <1>6, <1>7, <1>10, <1>11, <1>12, <1>13, <1>14

LEMMA EntryIs ==
  ASSUME IndexInv, PlaceInv, Chosen
  PROVE  /\ Ofs \in 0 .. Word - 1 /\ Comp \in 0 .. Word - 1 /\ Uncomp \in 0 .. Word - 1
         /\ Uncomp > 0
<1>1. Leads(index[job.i]) BY DEF PlaceInv, Chosen
<1>2. IsRecord(Entry) BY <1>1, ArchiveIs DEF IsArchive, Entry, Record, Leads
<1>3. Word \in Nat /\ U32 \in 0 .. Word - 1 BY ReaderAssumption, BudgetAssumption
<1>4. Entry.comp \in 0 .. Word - 1 /\ Entry.uncomp \in 0 .. Word - 1 /\ Entry.ofs \in 0 .. Word - 1
  BY <1>2, <1>3 DEF IsRecord
<1>5. /\ Entry.big.comp \in 0 .. Word - 1 /\ Entry.big.uncomp \in 0 .. Word - 1
      /\ Entry.big.ofs \in 0 .. Word - 1
  BY <1>2 DEF IsRecord
<1>6. Entry["comp"] = Entry.comp /\ Entry["uncomp"] = Entry.uncomp /\ Entry["ofs"] = Entry.ofs OBVIOUS
<1>7. Uncomp > 0 BY DEF Chosen, Wants, Uncomp
<1> QED BY <1>4, <1>5, <1>7 DEF Ofs, Comp, Uncomp, Field

(* What is extracted is a stream, whatever there is.                       *)
LEMMA DataIsStream ==
  ASSUME IndexInv, NEW ofs PROVE IsStream(DataAt(ofs).stream)
<1>1. CASE Abs(ofs) \in DOMAIN archive.data
  BY <1>1, ArchiveIs DEF IsArchive, DataAt
<1>2. CASE Abs(ofs) \notin DOMAIN archive.data
  <2> DEFINE t == [kind |-> "header", type |-> 3] s == <<t>>
  <2>1. DataAt(ofs).stream = s BY <1>2 DEF DataAt
  <2>2. DOMAIN s = 1 .. 1 /\ s[1] = t /\ s \in Seq({t}) OBVIOUS
  <2>3. IsToken(t) BY DEF IsToken, Codes
  <2> HIDE DEF s, t
  <2>4. {s[i] : i \in DOMAIN s} = {t} BY <2>2
  <2>5. IsStream(s) BY <2>2, <2>3, <2>4 DEF IsStream, IsSequence
  <2> QED BY <2>1, <2>5
<1> QED BY <1>1, <1>2

(* A decoder that has been given nothing, or the first bytes, agrees with  *)
(* the reading before its first token.                                     *)
LEMMA FreshDecoder ==
  ASSUME NEW stream, IsStream(stream), NEW capacity \in Nat, NEW w, NEW total \in Nat, NEW n \in {0, total},
         NEW d, d = tinfl_init(stream, capacity, w),
         NEW in, in = [avail |-> n, taken |-> 0, more |-> FALSE]
  PROVE  /\ DecoderOk(d, in, "running", total, total - n)
         /\ d.stream = stream /\ d.capacity = capacity
         /\ n = 0 => Waiting(d, in)
<1>1. /\ DOMAIN d = Decoder /\ d.stream = stream /\ d.at = 1 /\ d.bits = 0 /\ d.path = "new"
      /\ d.counter = 0 /\ d.dist = 0 /\ d.out = <<>> /\ d.capacity = capacity
  BY DEF tinfl_init, Decoder
<1>2. /\ DOMAIN in = {"avail", "taken", "more"} /\ in.avail = n /\ in.taken = 0 OBVIOUS
<1>3. n \in Nat /\ total - (total - n) - n = 0 OBVIOUS
<1>4. Len(stream) \in Nat BY SequenceHas DEF IsStream
<1>5. d.at \in 1 .. Len(d.stream) + 1 BY <1>1, <1>4
<1>6. Reading(stream, total)[0] = Begin BY ReadingReads
<1>7. d.at - 1 = 0 BY <1>1
<1>8. Reading(d.stream, total)[d.at - 1] = Begin BY <1>1, <1>6, <1>7
<1>9. Agrees(d, Begin, total - (total - n) - in.avail)
  <2>1. /\ Begin.pos = 0 /\ Begin.out = <<>> /\ Begin.counter = 0 /\ Begin.dist = 0 /\ Begin.failed = FALSE
    BY DEF Begin
  <2>2. total - (total - n) - in.avail = 0 BY <1>2, <1>3
  <2>3. Len(d.out) <= d.capacity BY <1>1
  <2> QED BY <1>1, <2>1, <2>2, <2>3 DEF Agrees
<1>10. Paced(d, in.avail) BY <1>1 DEF Paced
<1>11. d.bits <= 8 * in.taken /\ d.bits \in Nat /\ in.avail \in Nat /\ in.taken \in Nat BY <1>1, <1>2, <1>3
<1>12. Working(d, in, total, total - n) BY <1>1, <1>2, <1>5, <1>8, <1>9, <1>10, <1>11 DEF Working
<1>13. DecoderOk(d, in, "running", total, total - n) BY <1>1, <1>12 DEF DecoderOk, Reads
<1>14. n = 0 => Waiting(d, in) BY <1>1, <1>2 DEF Waiting
<1> QED BY <1>1, <1>13, <1>14

(* Where the archive lies, and reads inside of it                          *)
LEMMA PlaceIs ==
  ASSUME IndexInv, PlaceInv, at \in Found
  PROVE  /\ zip.start \in Nat /\ zip.size \in Nat /\ zip.start + zip.size = archive.size
         /\ archive.size \in Nat /\ archive.size < Word \div 2 /\ archive.size < Word
BY ArchiveIs DEF PlaceInv

LEMMA ReadableIs ==
  ASSUME IndexInv, PlaceInv, at \in Found, NEW ofs \in Nat, NEW n \in Nat, ofs <= zip.size, n > 0
  PROVE  Readable(ofs, n) <=> ofs + n <= zip.size
<1> DEFINE start == zip.start size == zip.size all == archive.size half == Word \div 2
<1>1. start \in Nat /\ size \in Nat /\ start + size = all /\ all \in Nat /\ all < half /\ all < Word
  BY PlaceIs
<1>2. Word \in Nat /\ Word > 0 /\ half \in Nat BY ArchiveIs
<1>3. Abs(ofs) = (ofs + start) % Word BY DEF Abs, Sum
<1>4. Readable(ofs, n) <=> (IF kind = "memory" THEN n = 0 \/ ofs + n <= size
                            ELSE Abs(ofs) < half /\ (n = 0 \/ Abs(ofs) + n <= all)) BY DEF Readable
<1> HIDE DEF start, size, all, half
<1>5. ofs + start \in Nat /\ ofs + start < Word BY <1>1, <1>2 DEF size
<1>6. (ofs + start) % Word = ofs + start BY <1>2, <1>5
<1>7. Abs(ofs) = ofs + start BY <1>3, <1>6
<1>8. Abs(ofs) < half BY <1>1, <1>2, <1>7 DEF size
<1>9. Abs(ofs) + n <= all <=> ofs + n <= size BY <1>1, <1>7
<1> QED BY <1>4, <1>8, <1>9 DEF size

(* Of an entry whose place and size do not wrap around, the code adds up   *)
(* what there is.                                                          *)
LEMMA DataIs ==
  ASSUME IndexInv, PlaceInv, at \in Found, Chosen, Unwrapped(Entry), Abs(Ofs) \in DOMAIN archive.locals
  PROVE  /\ Data = Ofs + LocalSize + Local.name + Local.extra
         /\ Sum(Data, Comp) = Data + Comp
         /\ Data \in Nat /\ Data >= Ofs + LocalSize
<1> DEFINE ofs == Ofs comp == Comp name == Local.name extra == Local.extra
<1>1. ofs \in Nat /\ comp \in Nat
  <2>1. Word \in Nat BY BudgetAssumption
  <2> QED BY <2>1, EntryIs
<1>2. name \in 0 .. U16 /\ extra \in 0 .. U16 BY ArchiveIs DEF IsArchive, Local
<1>3. U16 \in Nat /\ Word \in Nat /\ Word > 0 BY ReaderAssumption, BudgetAssumption
<1>4. name \in Nat /\ extra \in Nat /\ name <= U16 /\ extra <= U16 BY <1>2, <1>3
<1>5. ofs + LocalSize + 2 * U16 + comp < Word BY DEF Unwrapped, Ofs, Comp
<1>6. Data = (ofs + (LocalSize + name + extra)) % Word BY DEF Data, Sum
<1>7. \A n : Sum(n, comp) = (n + comp) % Word BY DEF Sum
<1>8. Sum(Data, Comp) = (Data + comp) % Word BY <1>7
<1> HIDE DEF ofs, comp, name, extra
<1> USE DEF LocalSize
<1> DEFINE data == ofs + (LocalSize + name + extra)
<1>9. data \in Nat /\ data < Word /\ data + comp \in Nat /\ data + comp < Word
  BY <1>1, <1>3, <1>4, <1>5
<1>10. data = ofs + LocalSize + name + extra /\ data >= ofs + LocalSize BY <1>1, <1>4
<1> HIDE DEF data
<1>11. data % Word = data /\ (data + comp) % Word = data + comp BY <1>3, <1>9
<1>12. Data = data BY <1>6, <1>11 DEF data
<1>13. Sum(Data, Comp) = data + comp BY <1>8, <1>11, <1>12
<1> QED BY <1>9, <1>10, <1>12, <1>13 DEF ofs, comp, name, extra

(* What should come out, in the words of the code                          *)
SaysStored == Readable(Data, Uncomp) /\ DataAt(Data).plain = Entry.crc /\ Len(Entry.crc) = Uncomp
SaysPacked ==
  LET m == Meaning(DataAt(Data).stream, Comp)
  IN  ~m.failed /\ m.out = Entry.crc /\ Len(m.out) = Uncomp

(* The parts of Sound                                                      *)
SoundData == Ofs + LocalSize + Local.name + Local.extra
SoundPlain ==
  IF Entry.method = 0 THEN DataAt(SoundData).plain ELSE Meaning(DataAt(SoundData).stream, Comp).out
LEMMA SoundSays ==
  Sound(job.i) <=>
    \/ Comp = 0
    \/ /\ Abs(Ofs) \in DOMAIN archive.locals
       /\ SoundData + Comp <= zip.size /\ (Entry.method = 0 => SoundData + Len(SoundPlain) <= zip.size)
       /\ Entry.method = 0 \/ ~Meaning(DataAt(SoundData).stream, Comp).failed
       /\ SoundPlain = Entry.crc /\ Len(SoundPlain) = Uncomp
BY Zenon DEF Sound, Entry, Ofs, Comp, Uncomp, SoundData, SoundPlain, Local

LEMMA SoundIsLocal ==
  ASSUME IndexInv, PlaceInv, at \in Found, Chosen, Comp # 0, Unwrapped(Entry), Sound(job.i)
  PROVE  Readable(Ofs, LocalSize) /\ Lies
<1>1. /\ Abs(Ofs) \in DOMAIN archive.locals /\ SoundData + Comp <= zip.size BY SoundSays
<1>2. /\ Data = SoundData /\ Sum(Data, Comp) = Data + Comp
      /\ Data \in Nat /\ Data >= Ofs + LocalSize BY <1>1, DataIs DEF SoundData
<1>3. Word \in Nat BY BudgetAssumption
<1>4. zip.size \in Nat /\ Ofs \in Nat /\ Comp \in Nat BY <1>3, EntryIs, PlaceIs
<1>5. Ofs + LocalSize <= zip.size
  <2> DEFINE ofs == Ofs comp == Comp data == Data size == zip.size
  <2>1. data + comp <= size /\ data >= ofs + LocalSize /\ data \in Nat BY <1>1, <1>2
  <2>2. size \in Nat /\ ofs \in Nat /\ comp \in Nat BY <1>4
  <2> HIDE DEF ofs, comp, data, size
  <2>3. ofs + LocalSize <= size BY <2>1, <2>2 DEF LocalSize
  <2> QED BY <2>3 DEF ofs, size
<1>6. Readable(Ofs, LocalSize)
  <2>1. LocalSize \in Nat /\ LocalSize > 0 BY DEF LocalSize
  <2>2. Ofs <= zip.size BY <1>4, <1>5, <2>1
  <2> QED BY <1>4, <1>5, <2>1, <2>2, ReadableIs
<1>7. ~(Sum(Data, Comp) > zip.size)
  <2> DEFINE data == Data
  <2>1. data \in Nat /\ data + Comp <= zip.size /\ Sum(data, Comp) = data + Comp BY <1>1, <1>2
  <2> HIDE DEF data
  <2>2. ~(Sum(data, Comp) > zip.size) BY <1>4, <2>1
  <2> QED BY <2>2 DEF data
<1> QED BY <1>1, <1>6, <1>7 DEF Lies

LEMMA SoundIsData ==
  ASSUME IndexInv, PlaceInv, at \in Found, Located, Unwrapped(Entry)
  PROVE  /\ Entry.method = 0 => (Sound(job.i) <=> SaysStored)
         /\ Entry.method # 0 => (Sound(job.i) <=> SaysPacked)
<1>1. Chosen /\ Comp # 0 /\ Abs(Ofs) \in DOMAIN archive.locals /\ ~(Sum(Data, Comp) > zip.size)
  BY DEF Located, Lies
<1>2. Data = SoundData /\ Sum(Data, Comp) = Data + Comp /\ Data \in Nat BY <1>1, DataIs DEF SoundData
<1>3. Word \in Nat BY BudgetAssumption
<1>4. zip.size \in Nat /\ Comp \in Nat /\ Uncomp \in Nat /\ Uncomp > 0 BY <1>1, <1>3, EntryIs, PlaceIs
<1>5. SoundData + Comp <= zip.size /\ Data <= zip.size
  <2> DEFINE data == Data comp == Comp size == zip.size
  <2>1. data \in Nat /\ comp \in Nat /\ size \in Nat /\ ~(data + comp > size) BY <1>1, <1>2, <1>4
  <2> HIDE DEF data, comp, size
  <2>2. data + comp <= size /\ data <= size BY <2>1
  <2> QED BY <1>2, <2>2 DEF data, comp, size
<1>6. ASSUME Entry.method = 0 PROVE Sound(job.i) <=> SaysStored
  <2>1. SoundPlain = DataAt(Data).plain BY <1>2, <1>6 DEF SoundPlain
  <2>2. Sound(job.i) <=> /\ Data + Len(SoundPlain) <= zip.size
                         /\ SoundPlain = Entry.crc /\ Len(SoundPlain) = Uncomp
    BY <1>1, <1>2, <1>5, <1>6, SoundSays
  <2>3. Readable(Data, Uncomp) <=> Data + Uncomp <= zip.size
    BY <1>2, <1>4, <1>5, ReadableIs
  <2> QED BY <2>1, <2>2, <2>3 DEF SaysStored
<1>7. ASSUME Entry.method # 0 PROVE Sound(job.i) <=> SaysPacked
  <2>1. SoundPlain = Meaning(DataAt(Data).stream, Comp).out BY <1>2, <1>7 DEF SoundPlain
  <2> QED BY <1>1, <1>2, <1>5, <1>7, <2>1, SoundSays DEF SaysPacked
<1> QED BY <1>6, <1>7

-----------------------------------------------------------------------------
(* An extraction: what has been looked up, what has been found, and the    *)
(* decoder in step with its reading; in the end, what came out.            *)
Inflating == {"buffer", "fill", "inflate"}
Outcome == Wants(Entry) /\ Unwrapped(Entry) /\ job.clean => job.returned = Sound(job.i)
Typed == /\ DOMAIN job = {"i", "ofs", "remaining", "clean", "returned"}
         /\ faults \in Nat /\ io_size \in IoSizes
Decoding ==
  /\ Located /\ Entry.method # 0
  /\ inflator.stream = DataAt(Data).stream /\ inflator.capacity = Uncomp
  /\ job.remaining \in Nat /\ DecoderNow(Comp, job.remaining)
Resting == kind # "memory" /\ status \in Reads /\ Waiting(inflator, input) /\ job.remaining # 0
Fed == (input.more <=> job.remaining > 0) /\ (kind = "memory" => job.remaining = 0)
JobInv ==
  /\ Typed
  /\ at \in Unread \cup {"records"} => job.i = 0
  /\ at \in {"extract", "local"} => Chosen /\ job.ofs = Ofs /\ job.remaining = Comp
  /\ at = "local" => Comp # 0
  /\ at = "stored" => Located /\ Entry.method = 0 /\ job.ofs = Data
  /\ at \in Inflating => Decoding
  /\ at \in {"buffer", "fill"} => Resting
  /\ at = "inflate" => Fed
  /\ at = "release" \/ (at = "open" /\ job.i # 0) => Outcome

(* A fault is counted, so that an extraction that met one is not clean.    *)
LEMMA FaultCounts ==
  ASSUME faults \in Nat
  PROVE  /\ \A ofs, n, got : Read(ofs, n, got) => faults' \in Nat /\ (faults' = faults => got = Readable(ofs, n))
         /\ \A b, items, size, got : Get(b, items, size, got) => faults' \in Nat
         /\ faults' = faults => faults' \in Nat
<1>1. faults + 1 \in Nat /\ faults + 1 # faults OBVIOUS
<1> QED BY <1>1 DEF Read, Get

(* What an extraction leaves behind                                        *)
LEMMA ReturnsOutcome ==
  ASSUME Typed, StaysPut, NEW result, NEW error, Returns(result, error),
         Wants(Entry) /\ Unwrapped(Entry) /\ job.clean /\ faults' = faults => result = Sound(job.i)
  PROVE  Outcome'
<1>1. /\ job'.i = job.i /\ job'.returned = result /\ job'.clean = (job.clean /\ faults' = faults)
  BY DEF Returns, Typed
<1>2. /\ Entry' = Entry /\ Unwrapped(Entry)' = Unwrapped(Entry) /\ Sound(job.i)' = Sound(job.i)
  BY <1>1, EntryStays
<1>3. Wants(Entry)' = Wants(Entry) BY <1>2 DEF Wants, StatOk, Supported, Field
<1> QED BY <1>1, <1>2, <1>3 DEF Outcome

LEMMA ReturnsTyped ==
  ASSUME Typed, faults' \in Nat, UNCHANGED io_size, NEW result, NEW error, Returns(result, error)
  PROVE  Typed' /\ job'.i = job.i
BY DEF Typed, Returns

(* Where there is no extraction, nothing is claimed of one.                *)
Idling == {"end_directory", "end_offsets", "end_state", "failed", "over"}
LEMMA JobOutside ==
  ASSUME JobInv, UNCHANGED <<job, io_size>>, faults' \in Nat,
         \/ at' \in Idling
         \/ at \in Unread \cup {"records"} /\ at' \in Unread \cup {"records", "open"}
  PROVE  JobInv'
<1>1. Typed' BY DEF JobInv, Typed
<1>2. CASE at' \in Idling BY <1>1, <1>2 DEF JobInv, Idling, Unread, Inflating
<1>3. CASE at \in Unread \cup {"records"} /\ at' \in Unread \cup {"records", "open"}
  <2>1. job'.i = 0 BY <1>3 DEF JobInv
  <2> QED BY <1>1, <1>3, <2>1 DEF JobInv, Unread, Inflating
<1> QED BY <1>2, <1>3

LEMMA JobOpening ==
  ASSUME JobInv, Open \/ Opening PROVE JobInv'
<1>1. UNCHANGED <<job, io_size>>
  BY DEF Open, Opening, InitInternal, Locate, ReadEnd, ReadLocator, ReadNear, ReadThere, Check64,
     CheckEnd, GetDirectory, GetOffsets, Block, ReadDirectory, CheckRecord, setting
<1>2. faults' \in Nat
  <2>1. faults \in Nat BY DEF JobInv, Typed
  <2> QED
    BY <2>1, FaultCounts
    DEF Open, Opening, InitInternal, Locate, ReadEnd, ReadLocator, ReadNear, ReadThere, ReadEnd64, Check64,
        CheckEnd, GetDirectory, GetOffsets, Block, ReadDirectory, CheckRecord
<1>3. at \in Unread \cup {"records"} /\ (at' \in Unread \cup {"records", "open"} \/ at' \in Idling)
  BY DEF Open, Opening, InitInternal, Locate, ReadEnd, ReadLocator, ReadNear, ReadThere, ReadEnd64, Check64,
     CheckEnd, GetDirectory, GetOffsets, Block, ReadDirectory, CheckRecord, Reject, Goto, Unread, Idling
<1> QED BY <1>1, <1>2, <1>3, JobOutside

LEMMA JobEnding ==
  ASSUME JobInv, Close \/ EndInternal PROVE JobInv'
<1>1. UNCHANGED <<job, io_size, faults>>
  BY DEF Close, EndInternal, EndDirectory, EndOffsets, EndState, ScopeEnds, setting
<1>2. at' \in Idling BY DEF Close, EndInternal, EndDirectory, EndOffsets, EndState, ScopeEnds, Goto, Idling
<1>3. faults' \in Nat BY <1>1 DEF JobInv, Typed
<1> QED BY <1>1, <1>2, <1>3, JobOutside

LEMMA ExtractionStays ==
  ASSUME IndexInv, Stat \/ Extraction PROVE StaysPut /\ UNCHANGED <<kind, io_size>>
<1>1. UNCHANGED <<archive, dir, index, kind, io_size>>
  BY DEF Stat, Extraction, BeginExtraction, ReadLocal, ReadStored, GetBuffer, Fill, Decompress,
     Continue, CheckResult, Release, setting
<1>2. \E error : zip' = zip \/ zip' = Set(error)
  BY DEF Stat, Extraction, BeginExtraction, ReadLocal, ReadStored, GetBuffer, Fill, Decompress,
     Continue, CheckResult, Release, Fails, Returns
<1> QED BY <1>1, <1>2, SetStays

LEMMA JobStat ==
  ASSUME IndexInv, JobInv, Stat PROVE JobInv'
<1>1. StaysPut /\ UNCHANGED <<kind, io_size>> BY ExtractionStays
<1>2. PICK i \in DOMAIN index :
        /\ at' = IF Wants(Record(i)) THEN "extract" ELSE "open"
        /\ job' = [i |-> i, ofs |-> Field(Record(i), "ofs"), remaining |-> Field(Record(i), "comp"),
                   clean |-> TRUE, returned |-> FALSE]
  BY DEF Stat
<1>3. UNCHANGED <<index, archive, dir, faults>> BY DEF Stat, setting
<1>4. job'.i = i /\ job'.ofs = Field(Record(i), "ofs") /\ job'.remaining = Field(Record(i), "comp")
      /\ DOMAIN job' = {"i", "ofs", "remaining", "clean", "returned"}
  BY <1>2
<1>5. Entry' = Record(i) BY <1>1, <1>4 DEF Entry, Record, Abs, Sum, StaysPut
<1>6. Typed' BY <1>1, <1>3, <1>4 DEF JobInv, Typed
<1>7. Wants(Entry)' = Wants(Record(i)) BY <1>5 DEF Wants, StatOk, Supported, Field
<1>8. CASE Wants(Record(i))
  <2>1. Chosen' BY <1>3, <1>4, <1>7, <1>8 DEF Chosen
  <2>2. job'.ofs = Ofs' /\ job'.remaining = Comp' BY <1>4, <1>5 DEF Ofs, Comp, Field
  <2>3. at' = "extract" BY <1>2, <1>8
  <2> QED BY <1>6, <2>1, <2>2, <2>3 DEF JobInv, Inflating, Unread
<1>9. CASE ~Wants(Record(i))
  <2>1. at' = "open" BY <1>2, <1>9
  <2>2. Outcome' BY <1>7, <1>9 DEF Outcome
  <2> QED BY <1>6, <2>1, <2>2 DEF JobInv, Inflating, Unread
<1> QED BY <1>8, <1>9

LEMMA JobBegins ==
  ASSUME IndexInv, JobInv, BeginExtraction PROVE JobInv'
<1> USE DEF Inflating, Unread
<1>1. StaysPut /\ UNCHANGED <<kind, io_size>> BY ExtractionStays DEF Extraction
<1>2. at = "extract" /\ UNCHANGED faults BY DEF BeginExtraction
<1>3. Chosen /\ job.ofs = Ofs /\ job.remaining = Comp /\ Typed BY <1>2 DEF JobInv
<1>4. faults' \in Nat BY <1>2, <1>3 DEF Typed
<1>5. CASE job.remaining = 0
  <2>1. Returns(TRUE, zip.error) BY <1>5 DEF BeginExtraction
  <2>2. Sound(job.i) = TRUE BY <1>3, <1>5, SoundSays DEF Sound
  <2>3. Outcome' BY <1>1, <1>3, <2>1, <2>2, ReturnsOutcome
  <2>4. Typed' BY <1>1, <1>3, <1>4, <2>1, ReturnsTyped
  <2>5. at' = "open" BY <2>1 DEF Returns
  <2> QED BY <2>3, <2>4, <2>5 DEF JobInv
<1>6. CASE job.remaining # 0
  <2>1. at' = "local" /\ UNCHANGED job BY <1>6 DEF BeginExtraction
  <2>2. Chosen' /\ Ofs' = Ofs /\ Comp' = Comp
    <3>1. job'.i = job.i BY <2>1
    <3> QED BY <1>1, <1>3, <3>1, EntryStays
  <2>3. Typed' BY <1>1, <1>3, <1>4, <2>1 DEF Typed
  <2>4. job'.ofs = Ofs' /\ job'.remaining = Comp' /\ Comp' # 0 BY <1>3, <1>6, <2>1, <2>2
  <2> QED BY <2>1, <2>2, <2>3, <2>4 DEF JobInv
<1> QED BY <1>5, <1>6

LEMMA JobLocates ==
  ASSUME IndexInv, PlaceInv, JobInv, ReadLocal PROVE JobInv'
<1> USE DEF Inflating, Unread
<1>1. StaysPut /\ UNCHANGED <<kind, io_size>> BY ExtractionStays DEF Extraction
<1>2. PICK got \in BOOLEAN :
        /\ Read(job.ofs, LocalSize, got)
        /\ IF ~got THEN Fails("FILE_READ_FAILED") /\ UNCHANGED inflate_vars
           ELSE IF Abs(job.ofs) \notin DOMAIN archive.locals \/ Sum(DataOfs, job.remaining) > zip.size
           THEN Fails("INVALID_HEADER") /\ UNCHANGED inflate_vars
           ELSE /\ at' = IF Entry.method = 0 THEN "stored"
                         ELSE IF kind = "memory" THEN "inflate" ELSE "buffer"
                /\ inflator' = tinfl_init(DataAt(DataOfs).stream, Field(Entry, "uncomp"), wide)
                /\ job' = [job EXCEPT !.ofs = DataOfs, !.remaining = IF kind = "memory" THEN 0 ELSE @]
                /\ Feed(IF kind = "memory" THEN job.remaining ELSE 0, FALSE)
                /\ UNCHANGED zip
  BY DEF ReadLocal
<1>3. /\ at = "local" /\ Chosen /\ Comp # 0 /\ job.ofs = Ofs /\ job.remaining = Comp /\ Typed
  BY DEF ReadLocal, JobInv
<1>4. at \in Found BY <1>3 DEF Found
<1>5. faults' \in Nat /\ (faults' = faults => got = Readable(job.ofs, LocalSize))
  BY <1>2, <1>3, FaultCounts DEF Typed
<1>6. DataOfs = Data BY <1>3 DEF DataOfs, Data, Local
<1>7. (Abs(job.ofs) \notin DOMAIN archive.locals \/ Sum(DataOfs, job.remaining) > zip.size) <=> ~Lies
  BY <1>3, <1>6 DEF Lies
<1>8. CASE ~got \/ ~Lies
  <2>1. \E error : Returns(FALSE, error) BY <1>2, <1>7, <1>8 DEF Fails
  <2>2. Unwrapped(Entry) /\ faults' = faults => ~Sound(job.i)
    BY <1>3, <1>4, <1>5, <1>8, SoundIsLocal
  <2>2a. Sound(job.i) \in BOOLEAN BY DEF Sound
  <2>2b. Unwrapped(Entry) /\ faults' = faults => FALSE = Sound(job.i) BY <2>2, <2>2a
  <2>3. Outcome' BY <1>1, <1>3, <2>1, <2>2b, ReturnsOutcome
  <2>4. Typed' BY <1>1, <1>3, <1>5, <2>1, ReturnsTyped
  <2>5. at' = "open" BY <2>1 DEF Returns
  <2> QED BY <2>3, <2>4, <2>5 DEF JobInv
<1>9. CASE got /\ Lies
  <2> DEFINE n == IF kind = "memory" THEN Comp ELSE 0 left == IF kind = "memory" THEN 0 ELSE Comp
             stream == DataAt(Data).stream
  <2>1. /\ at' = IF Entry.method = 0 THEN "stored" ELSE IF kind = "memory" THEN "inflate" ELSE "buffer"
        /\ inflator' = tinfl_init(stream, Uncomp, wide)
        /\ job' = [job EXCEPT !.ofs = Data, !.remaining = IF kind = "memory" THEN 0 ELSE @]
        /\ input' = [avail |-> n, taken |-> 0, more |-> FALSE] /\ status' = "running"
    BY <1>2, <1>3, <1>6, <1>7, <1>9 DEF Feed, Uncomp
  <2>2. /\ DOMAIN job' = DOMAIN job /\ job'.i = job.i /\ job'.ofs = Data /\ job'.remaining = left
    BY <1>3, <2>1 DEF Typed
  <2>3. /\ Entry' = Entry /\ Comp' = Comp /\ Uncomp' = Uncomp /\ Data' = Data /\ Located' = Located
        /\ DataAt(Data)' = DataAt(Data) BY <1>1, <2>2, EntryStays
  <2>4. Located BY <1>3, <1>9 DEF Located
  <2>5. Comp \in Nat /\ Uncomp \in Nat
    <3>1. Word \in Nat BY BudgetAssumption
    <3> QED BY <1>3, <3>1, EntryIs
  <2>6. IsStream(stream) BY DataIsStream
  <2>7. n \in {0, Comp} /\ left = Comp - n /\ left \in Nat BY <2>5
  <2> HIDE DEF stream, n, left
  <2>8. /\ DecoderOk(inflator', input', status', Comp, left)
        /\ inflator'.stream = stream /\ inflator'.capacity = Uncomp
        /\ n = 0 => Waiting(inflator', input')
    <3> DEFINE d == tinfl_init(stream, Uncomp, wide) in == [avail |-> n, taken |-> 0, more |-> FALSE]
               total == Comp cap == Uncomp
    <3>1. inflator' = d /\ input' = in /\ status' = "running" BY <2>1
    <3>2. total \in Nat /\ cap \in Nat /\ n \in {0, total} /\ left = total - n BY <2>5, <2>7
    <3>3. d = tinfl_init(stream, cap, wide) /\ in = [avail |-> n, taken |-> 0, more |-> FALSE] OBVIOUS
    <3> HIDE DEF d, in, total, cap
    <3>4. /\ DecoderOk(d, in, "running", total, total - n)
          /\ d.stream = stream /\ d.capacity = cap /\ (n = 0 => Waiting(d, in))
      BY <2>6, <3>2, <3>3, FreshDecoder
    <3> QED BY <3>1, <3>2, <3>4 DEF total, cap
  <2>9. Typed' BY <1>1, <1>3, <1>5, <2>2 DEF Typed
  <2>10. CASE Entry.method = 0
    <3>1. at' = "stored" /\ Located' /\ Entry'.method = 0 /\ job'.ofs = Data'
      BY <2>1, <2>2, <2>3, <2>4, <2>10
    <3> QED BY <2>9, <3>1 DEF JobInv
  <2>11. CASE Entry.method # 0
    <3>1. Located' /\ Entry'.method # 0 /\ inflator'.stream = DataAt(Data)'.stream
          /\ inflator'.capacity = Uncomp' /\ job'.remaining \in Nat
      BY <2>2, <2>3, <2>4, <2>7, <2>8, <2>11 DEF stream
    <3>2. DecoderNow(Comp, job.remaining)' BY <2>2, <2>3, <2>8 DEF DecoderNow
    <3>3. Decoding' BY <3>1, <3>2 DEF Decoding
    <3>4. CASE kind = "memory"
      <4>1. at' = "inflate" /\ job'.remaining = 0 /\ input'.more = FALSE
        BY <2>1, <2>2, <2>11, <3>4 DEF left
      <4>2. Fed' BY <4>1 DEF Fed
      <4> QED BY <2>9, <3>3, <4>1, <4>2 DEF JobInv
    <3>5. CASE kind # "memory"
      <4>1. at' = "buffer" /\ n = 0 /\ kind' = kind /\ job'.remaining # 0
        BY <1>1, <1>3, <2>1, <2>2, <2>11, <3>5 DEF n, left
      <4>2. Resting' BY <2>1, <2>8, <3>5, <4>1 DEF Resting, Reads
      <4> QED BY <2>9, <3>3, <4>1, <4>2 DEF JobInv
    <3> QED BY <3>4, <3>5
  <2> QED BY <2>10, <2>11
<1> QED BY <1>8, <1>9

LEMMA JobStored ==
  ASSUME IndexInv, PlaceInv, JobInv, ReadStored PROVE JobInv'
<1> USE DEF Inflating, Unread
<1>1. StaysPut /\ UNCHANGED <<kind, io_size>> BY ExtractionStays DEF Extraction
<1>2. PICK got \in BOOLEAN :
        /\ Read(job.ofs, Uncomp, got)
        /\ IF ~got THEN Fails("FILE_READ_FAILED")
           ELSE IF DataAt(job.ofs).plain # Entry.crc \/ Len(Entry.crc) # Uncomp
           THEN Fails("CRC_CHECK_FAILED") ELSE Returns(TRUE, zip.error)
  BY DEF ReadStored, Uncomp
<1>3. at = "stored" /\ Located /\ Entry.method = 0 /\ job.ofs = Data /\ Typed BY DEF ReadStored, JobInv
<1>4. at \in Found BY <1>3 DEF Found
<1>5. faults' \in Nat /\ (faults' = faults => got = Readable(job.ofs, Uncomp))
  BY <1>2, <1>3, FaultCounts DEF Typed
<1>6. Unwrapped(Entry) => (Sound(job.i) <=> SaysStored) BY <1>3, <1>4, SoundIsData
<1>7. Unwrapped(Entry) => Sound(job.i) \in BOOLEAN BY DEF Sound
<1> DEFINE right == DataAt(job.ofs).plain = Entry.crc /\ Len(Entry.crc) = Uncomp
           result == got /\ right
<1>8. SaysStored <=> Readable(job.ofs, Uncomp) /\ right BY <1>3 DEF SaysStored
<1>9. \E error : Returns(result, error)
  <2>1. CASE result BY <1>2, <2>1
  <2>2. CASE ~result
    <3>1. Returns(FALSE, "FILE_READ_FAILED") \/ Returns(FALSE, "CRC_CHECK_FAILED")
      BY <1>2, <2>2 DEF Fails
    <3>2. result = FALSE BY <2>2
    <3> QED BY <3>1, <3>2
  <2> QED BY <2>1, <2>2
<1> HIDE DEF right
<1>10. Unwrapped(Entry) /\ faults' = faults => result = Sound(job.i)
  BY <1>5, <1>6, <1>7, <1>8
<1> HIDE DEF result
<1>11. Outcome' BY <1>1, <1>3, <1>9, <1>10, ReturnsOutcome
<1>12. Typed' BY <1>1, <1>3, <1>5, <1>9, ReturnsTyped
<1>13. at' = "open" BY <1>9 DEF Returns
<1> QED BY <1>11, <1>12, <1>13 DEF JobInv

(* An extraction that did not get what it asked for                        *)
LEMMA Unclean ==
  ASSUME Typed, faults' \in Nat, UNCHANGED io_size, job' = [job EXCEPT !.clean = FALSE]
  PROVE  Typed' /\ Outcome'
<1>1. DOMAIN job' = DOMAIN job /\ job'.clean = FALSE BY DEF Typed
<1> QED BY <1>1 DEF Typed, Outcome

(* A decoder that stays as it is                                           *)
LEMMA DecodingStays ==
  ASSUME Decoding, StaysPut, job'.i = job.i, job'.remaining \in Nat,
         DecoderOk(inflator', input', status', Comp, job'.remaining),
         inflator'.stream = inflator.stream, inflator'.capacity = inflator.capacity
  PROVE  Decoding'
<1>1. /\ Entry' = Entry /\ Comp' = Comp /\ Uncomp' = Uncomp /\ Located' = Located
      /\ DataAt(Data)' = DataAt(Data) BY EntryStays
<1>2. DecoderNow(Comp, job.remaining)' BY <1>1 DEF DecoderNow
<1> QED BY <1>1, <1>2 DEF Decoding

LEMMA JobBuffers ==
  ASSUME IndexInv, JobInv, GetBuffer PROVE JobInv'
<1> USE DEF Inflating, Unread
<1>1. StaysPut /\ UNCHANGED <<kind, io_size>> BY ExtractionStays DEF Extraction
<1>2. PICK got \in BOOLEAN :
        /\ Get("buffer", 1, ReadBufSize, got)
        /\ IF got THEN at' = "fill" /\ UNCHANGED <<zip, job>>
           ELSE /\ at' = "open" /\ zip' = Set("ALLOC_FAILED")
                /\ job' = [job EXCEPT !.clean = FALSE]
  BY DEF GetBuffer
<1>3. at = "buffer" /\ Decoding /\ Resting /\ Typed /\ UNCHANGED inflate_vars BY DEF GetBuffer, JobInv
<1>4. faults' \in Nat BY <1>2, <1>3, FaultCounts DEF Typed
<1>5. CASE got
  <2>1. at' = "fill" /\ UNCHANGED job BY <1>2, <1>5
  <2>2. UNCHANGED <<inflator, input, status>> BY <1>3 DEF inflate_vars
  <2>3. Typed' BY <1>1, <1>3, <1>4, <2>1 DEF Typed
  <2>4. Resting' BY <1>1, <1>3, <2>1, <2>2 DEF Resting, Waiting, Middle, Width
  <2>5. Decoding'
    <3>1. DecoderOk(inflator', input', status', Comp, job'.remaining) BY <1>3, <2>1, <2>2 DEF Decoding, DecoderNow
    <3>2. job'.i = job.i /\ job'.remaining \in Nat BY <1>3, <2>1 DEF Decoding
    <3> QED BY <1>1, <1>3, <2>2, <3>1, <3>2, DecodingStays
  <2> QED BY <2>1, <2>3, <2>4, <2>5 DEF JobInv
<1>6. CASE ~got
  <2>1. at' = "open" /\ job' = [job EXCEPT !.clean = FALSE] BY <1>2, <1>6
  <2>2. Typed' /\ Outcome' BY <1>1, <1>3, <1>4, <2>1, Unclean
  <2> QED BY <2>1, <2>2 DEF JobInv
<1> QED BY <1>5, <1>6

LEMMA JobFills ==
  ASSUME IndexInv, PlaceInv, JobInv, Fill PROVE JobInv'
<1> USE DEF Inflating, Unread
<1>1. StaysPut /\ UNCHANGED <<kind, io_size>> BY ExtractionStays DEF Extraction
<1> DEFINE n == Least(ReadBufSize, job.remaining)
<1>2. PICK got \in BOOLEAN :
        /\ Read(job.ofs, n, got)
        /\ IF got
           THEN /\ at' = "inflate"
                /\ job' = [job EXCEPT !.ofs = @ + n, !.remaining = @ - n]
                /\ Feed(n, job.remaining > n)
                /\ UNCHANGED <<zip, inflator>>
           ELSE /\ at' = "release" /\ zip' = Set("DECOMPRESSION_FAILED")
                /\ job' = [job EXCEPT !.clean = FALSE]
                /\ UNCHANGED inflate_vars
  BY DEF Fill
<1>3. at = "fill" /\ Decoding /\ Resting /\ Typed BY DEF Fill, JobInv
<1>4. faults' \in Nat BY <1>2, <1>3, FaultCounts DEF Typed
<1>5. CASE got
  <2> DEFINE left == job.remaining total == Comp ofs == job.ofs
  <2>1. left \in Nat BY <1>3 DEF Decoding
  <2>2. Comp \in Nat /\ io_size \in Nat
    <3>1. Word \in Nat /\ IoSizes \subseteq Nat BY BudgetAssumption, ReaderAssumption
    <3>2. Chosen BY <1>3 DEF Decoding, Located
    <3> QED BY <1>1, <1>3, <3>1, <3>2, EntryIs DEF Typed
  <2>3. ReadBufSize = Least(Comp, io_size) BY DEF ReadBufSize, Comp
  <2>4. ReadBufSize \in Nat BY <2>2, <2>3 DEF Least
  <2>5. n \in Nat /\ n <= left BY <2>1, <2>4 DEF Least
  <2> HIDE DEF n
  <2>6. /\ at' = "inflate" /\ inflator' = inflator /\ status' = "running"
        /\ input' = [avail |-> n, taken |-> 0, more |-> left > n]
        /\ job' = [job EXCEPT !.ofs = ofs + n, !.remaining = left - n]
    BY <1>2, <1>5 DEF Feed
  <2>7. /\ DOMAIN job' = DOMAIN job /\ job'.i = job.i /\ job'.remaining = left - n
    BY <1>3, <2>6 DEF Typed
  <2> HIDE DEF left, total, ofs
  <2>8. left - n \in Nat /\ (left > n <=> left - n > 0) BY <2>1, <2>5
  <2>9. DecoderOk(inflator', input', status', Comp, job'.remaining)
    <3> DEFINE d == inflator in == input in_ == input' said == Reading(d.stream, total)[d.at - 1]
    <3>1. DecoderOk(d, in, status, total, left) /\ status \in Reads /\ Waiting(d, in)
      BY <1>3 DEF Decoding, Resting, DecoderNow, left, total
    <3>2. Working(d, in, total, left) /\ IsStream(d.stream) /\ d.capacity \in Nat BY <3>1 DEF DecoderOk
    <3>3. /\ DOMAIN in_ = {"avail", "taken", "more"} /\ in_.avail = n /\ in_.taken = 0 BY <2>6
    <3>4. in.avail = 0 /\ d.path # "second" /\ (d.bits = 0 \/ Middle(d, d.bits)) BY <3>1 DEF Waiting
    <3>5. total \in Nat BY <2>2 DEF total
    <3> HIDE DEF d, in, in_, said
    <3>6. total - left - in.avail = total - (left - n) - in_.avail BY <2>1, <2>5, <3>3, <3>4, <3>5
    <3>7. d.bits \in Nat /\ d.path \in {"new", "second", "slow"} BY <3>2 DEF Working, Paced
    <3>8. d.bits <= 8 * in_.taken \/ Middle(d, d.bits - 8 * in_.taken)
      <4>1. 8 * in_.taken = 0 /\ d.bits - 8 * in_.taken = d.bits BY <3>3, <3>7
      <4>2. CASE d.bits = 0 BY <4>1, <4>2
      <4>3. CASE Middle(d, d.bits) BY <4>1, <4>3
      <4> QED BY <3>4, <4>2, <4>3
    <3>9. Paced(d, in_.avail) BY <3>4, <3>7 DEF Paced
    <3>10. Working(d, in_, total, left - n)
      BY <2>5, <3>2, <3>3, <3>6, <3>8, <3>9 DEF Working
    <3>11. DecoderOk(d, in_, "running", total, left - n) BY <3>2, <3>10 DEF DecoderOk, Reads
    <3> QED BY <2>6, <2>7, <3>11 DEF d, in_, total
  <2>10. Decoding'
    <3>1. job'.remaining \in Nat /\ inflator'.stream = inflator.stream /\ inflator'.capacity = inflator.capacity
      BY <2>6, <2>7, <2>8
    <3> QED BY <1>1, <1>3, <2>7, <2>9, <3>1, DecodingStays
  <2>11. Typed' BY <1>1, <1>3, <1>4, <2>7 DEF Typed
  <2>12. Fed'
    <3>1. input'.more = (left > n) BY <2>6
    <3> QED BY <1>1, <1>3, <2>7, <2>8, <3>1 DEF Fed, Resting
  <2> QED BY <2>6, <2>10, <2>11, <2>12 DEF JobInv
<1>6. CASE ~got
  <2>1. at' = "release" /\ job' = [job EXCEPT !.clean = FALSE] BY <1>2, <1>6
  <2>2. Typed' /\ Outcome' BY <1>1, <1>3, <1>4, <2>1, Unclean
  <2> QED BY <2>1, <2>2 DEF JobInv
<1> QED BY <1>5, <1>6

LEMMA JobInflates ==
  ASSUME IndexInv, PlaceInv, JobInv, Decompress PROVE JobInv'
<1> USE DEF Inflating, Unread
<1>1. StaysPut /\ UNCHANGED <<kind, io_size>> BY ExtractionStays DEF Extraction
<1>2. at = "inflate" /\ Decoding /\ Fed /\ Typed BY DEF Decompress, JobInv
<1>3. Inflate /\ at' = at /\ job' = job /\ faults' = faults BY DEF Decompress
<1>4. Comp \in Nat /\ job.remaining \in Nat
  <2>1. Word \in Nat BY BudgetAssumption
  <2>2. Chosen BY <1>2 DEF Decoding, Located
  <2> QED BY <1>2, <2>1, <2>2, EntryIs DEF Decoding
<1>5. /\ DecoderThen(Comp, job.remaining)
      /\ inflator'.stream = inflator.stream /\ inflator'.capacity = inflator.capacity
      /\ input'.more = input.more
  <2> DEFINE total == Comp left == job.remaining
  <2>1. total \in Nat /\ left \in Nat /\ DecoderNow(total, left) /\ (input.more <=> left > 0)
    BY <1>2, <1>4 DEF Decoding, Fed
  <2> HIDE DEF total, left
  <2>2. /\ DecoderThen(total, left)
        /\ inflator'.stream = inflator.stream /\ inflator'.capacity = inflator.capacity
        /\ input'.more = input.more
    BY <1>3, <2>1, InflateStep
  <2> QED BY <2>2 DEF total, left
<1>6. Decoding'
  <2>1. DecoderOk(inflator', input', status', Comp, job'.remaining) BY <1>3, <1>5 DEF DecoderThen
  <2>2. job'.i = job.i /\ job'.remaining \in Nat BY <1>3, <1>4
  <2> QED BY <1>1, <1>2, <1>5, <2>1, <2>2, DecodingStays
<1>7. Fed' BY <1>1, <1>2, <1>3, <1>5 DEF Fed
<1>8. Typed' BY <1>1, <1>2, <1>3 DEF Typed
<1> QED BY <1>2, <1>3, <1>6, <1>7, <1>8 DEF JobInv

(* The decoder asks for more only when its piece is used up and another    *)
(* one follows: no piece is given to it twice.                             *)
LEMMA JobContinues ==
  ASSUME IndexInv, PlaceInv, JobInv, Continue PROVE JobInv'
<1> USE DEF Inflating, Unread
<1>1. StaysPut /\ UNCHANGED <<kind, io_size>> BY ExtractionStays DEF Extraction
<1>2. at = "inflate" /\ Decoding /\ Fed /\ Typed /\ status = "NEEDS_MORE_INPUT" BY DEF Continue, JobInv
<1>3. job' = job /\ faults' = faults BY DEF Continue
<1>4. DecoderOk(inflator, input, status, Comp, job.remaining) /\ job.remaining \in Nat
  BY <1>2 DEF Decoding, DecoderNow
<1>5. input.more /\ Waiting(inflator, input) BY <1>2, <1>4 DEF DecoderOk
<1>6. input.avail = 0 BY <1>5 DEF Waiting
<1>7. kind # "memory" BY <1>2, <1>5 DEF Fed
<1>8. at' = "fill" /\ UNCHANGED <<inflator, input, status>> BY <1>6, <1>7 DEF Continue, inflate_vars
<1>9. Resting'
  <2>1. Waiting(inflator, input)' BY <1>5, <1>8 DEF Waiting, Middle, Width
  <2>2. job.remaining # 0 BY <1>2, <1>4, <1>5 DEF Fed
  <2> QED BY <1>1, <1>2, <1>3, <1>7, <1>8, <2>1, <2>2 DEF Resting, Reads
<1>10. Decoding'
  <2>1. DecoderOk(inflator', input', status', Comp, job'.remaining) BY <1>3, <1>4, <1>8
  <2>2. job'.i = job.i /\ job'.remaining \in Nat BY <1>3, <1>4
  <2> QED BY <1>1, <1>2, <1>8, <2>1, <2>2, DecodingStays
<1>11. Typed' BY <1>1, <1>2, <1>3 DEF Typed
<1> QED BY <1>8, <1>9, <1>10, <1>11 DEF JobInv

(* Done, and with what should come out; or it could not have come out.     *)
LEMMA JobChecks ==
  ASSUME IndexInv, PlaceInv, JobInv, CheckResult PROVE JobInv'
<1> USE DEF Inflating, Unread
<1>1. StaysPut /\ UNCHANGED <<kind, io_size>> BY ExtractionStays DEF Extraction
<1> DEFINE result == status = "DONE" /\ Len(inflator.out) = Field(Entry, "uncomp") /\ inflator.out = Entry.crc
<1>2. at = "inflate" /\ Decoding /\ Typed /\ status \notin Reads /\ at' = "release"
      /\ job' = [job EXCEPT !.returned = result] /\ faults' = faults
  BY DEF CheckResult, JobInv, Reads
<1>3. at \in Found BY <1>2 DEF Found
<1>4. Located /\ Entry.method # 0 /\ inflator.stream = DataAt(Data).stream /\ inflator.capacity = Uncomp
  BY <1>2 DEF Decoding
<1>5. DecoderOk(inflator, input, status, Comp, job.remaining) BY <1>2 DEF Decoding, DecoderNow
<1> DEFINE m == Meaning(DataAt(Data).stream, Comp)
<1>6. /\ status = "DONE" => ~m.failed /\ inflator.out = m.out
      /\ status # "DONE" => m.failed \/ Len(m.out) > Uncomp
  BY <1>2, <1>4, <1>5 DEF DecoderOk, Ended, Doomed
<1>7. SaysPacked <=> ~m.failed /\ m.out = Entry.crc /\ Len(m.out) = Uncomp BY DEF SaysPacked
<1>8. ~(Len(m.out) > Uncomp /\ Len(m.out) = Uncomp)
  <2>1. Uncomp \in Nat
    <3>1. Word \in Nat BY BudgetAssumption
    <3>2. Chosen BY <1>4 DEF Located
    <3> QED BY <3>1, <3>2, EntryIs
  <2> HIDE DEF m
  <2> QED BY <2>1
<1>9. result <=> SaysPacked
  <2>1. result <=> status = "DONE" /\ Len(inflator.out) = Uncomp /\ inflator.out = Entry.crc
    BY DEF Uncomp
  <2> HIDE DEF m, result
  <2>2. CASE status = "DONE" BY <1>6, <1>7, <2>1, <2>2
  <2>3. CASE status # "DONE" BY <1>6, <1>7, <1>8, <2>1, <2>3
  <2> QED BY <2>2, <2>3
<1>10. result \in BOOLEAN /\ Sound(job.i) \in BOOLEAN BY DEF Sound
<1> HIDE DEF result
<1>11. Unwrapped(Entry) => result = Sound(job.i)
  BY <1>3, <1>4, <1>9, <1>10, SoundIsData
<1>12. DOMAIN job' = DOMAIN job /\ job'.i = job.i /\ job'.returned = result /\ job'.clean = job.clean
  BY <1>2 DEF Typed
<1>13. /\ Unwrapped(Entry)' = Unwrapped(Entry) /\ Sound(job.i)' = Sound(job.i) BY <1>1, <1>12, EntryStays
<1>14. Outcome' BY <1>11, <1>12, <1>13 DEF Outcome
<1>15. Typed' BY <1>1, <1>2, <1>12 DEF Typed
<1> QED BY <1>2, <1>14, <1>15 DEF JobInv

LEMMA JobReleases ==
  ASSUME IndexInv, JobInv, Release PROVE JobInv'
<1> USE DEF Inflating, Unread
<1>1. StaysPut /\ UNCHANGED <<kind, io_size>> BY ExtractionStays DEF Extraction
<1>2. at = "release" /\ at' = "open" /\ job' = job /\ faults' = faults BY DEF Release, Goto
<1>3. Outcome /\ Typed BY <1>2 DEF JobInv
<1>4. /\ Entry' = Entry /\ Unwrapped(Entry)' = Unwrapped(Entry) /\ Sound(job.i)' = Sound(job.i)
  BY <1>1, <1>2, EntryStays
<1>5. Wants(Entry)' = Wants(Entry) BY <1>4 DEF Wants, StatOk, Supported, Field
<1>6. Outcome' BY <1>2, <1>3, <1>4, <1>5 DEF Outcome
<1>7. Typed' BY <1>1, <1>2, <1>3 DEF Typed
<1> QED BY <1>2, <1>6, <1>7 DEF JobInv

LEMMA JobUnchanged ==
  ASSUME IndexInv, JobInv, UNCHANGED reader_vars PROVE JobInv'
<1>1. StaysPut /\ UNCHANGED <<kind, io_size, at, job, faults, inflator, input, status>>
  BY DEF reader_vars, inflate_vars, setting, StaysPut
<1>2. /\ Entry' = Entry /\ Ofs' = Ofs /\ Comp' = Comp /\ Uncomp' = Uncomp /\ Data' = Data
      /\ Chosen' = Chosen /\ Located' = Located
      /\ Unwrapped(Entry)' = Unwrapped(Entry) /\ Sound(job.i)' = Sound(job.i)
  BY <1>1, EntryStays
<1>3. Wants(Entry)' = Wants(Entry) BY <1>2 DEF Wants, StatOk, Supported, Field
<1>4. Outcome' = Outcome BY <1>1, <1>2, <1>3 DEF Outcome
<1>5. Typed' = Typed /\ Fed' = Fed BY <1>1 DEF Typed, Fed
<1>6. Resting => Resting' BY <1>1 DEF Resting, Waiting, Middle, Width
<1>7. Decoding => Decoding'
  <2>1. Decoding => DecoderOk(inflator', input', status', Comp, job'.remaining) /\ job'.remaining \in Nat
    BY <1>1 DEF Decoding, DecoderNow
  <2> QED BY <1>1, <2>1, DecodingStays
<1> QED BY <1>1, <1>2, <1>4, <1>5, <1>6, <1>7 DEF JobInv

LEMMA JobStep ==
  ASSUME IndexInv, PlaceInv, JobInv, [ReaderNext]_reader_vars PROVE JobInv'
BY JobUnchanged, JobOpening, JobEnding, JobStat, JobBegins, JobLocates, JobStored, JobBuffers, JobFills,
   JobInflates, JobContinues, JobChecks, JobReleases DEF ReaderNext, Client, Program, Extraction

LEMMA JobSound == ASSUME IndexInv, PlaceInv, JobInv PROVE EntriesExact
<1>1. ExtractExact BY DEF JobInv, Outcome, ExtractExact, Entry
<1>2. LookaheadReturned
  <2>1. SUFFICES ASSUME at = "inflate", status = "DONE"
                 PROVE  /\ inflator.bits = 0
                        /\ input.avail + job.remaining
                             = Comp - Bytes(Meaning(inflator.stream, Comp).pos)
    BY DEF LookaheadReturned, Comp
  <2> DEFINE total == Comp left == job.remaining avail == input.avail
             bytes == Bytes(Meaning(inflator.stream, total).pos)
  <2>2. Decoding BY <2>1 DEF JobInv, Inflating
  <2>3. inflator.bits = 0 /\ total - left - avail = bytes /\ avail \in Nat /\ left \in Nat
    BY <2>1, <2>2 DEF Decoding, DecoderNow, DecoderOk, Ended
  <2>4. total \in Nat
    <3>1. Word \in Nat BY BudgetAssumption
    <3>2. Chosen BY <2>2 DEF Decoding, Located
    <3> QED BY <3>1, <3>2, EntryIs
  <2> HIDE DEF total, left, avail, bytes
  <2>5. bytes \in Int BY <2>3, <2>4
  <2>6. avail + left = total - bytes BY <2>3, <2>4, <2>5
  <2> QED BY <2>3, <2>6 DEF total, left, avail, bytes
<1> QED BY <1>1, <1>2 DEF EntriesExact

(* EntriesExact: for every archive and every stream, cut into pieces of    *)
(* whatever size and however far the decoder looks ahead, what comes out   *)
(* of an entry is what its data say, and no byte behind them is lost.      *)
THEOREM EntriesComeOutExactly == ReaderSpec => []EntriesExact
<1>1. ReaderInit => IndexInv /\ PlaceInv /\ JobInv
  <2>1. DOMAIN <<>> = {} /\ <<>> \in Seq(Nat) OBVIOUS
  <2>2. ReaderInit => IndexInv BY <2>1 DEF ReaderInit, Init, IndexInv, Live
  <2>3. ReaderInit => PlaceInv BY <2>1 DEF ReaderInit, PlaceInv, Finding, Found
  <2>4. ReaderInit => JobInv BY DEF ReaderInit, JobInv, Typed, Inflating, Unread
  <2> QED BY <2>2, <2>3, <2>4
<1>2. BInv /\ HeldInv /\ IndexInv /\ PlaceInv /\ JobInv /\ [ReaderNext]_reader_vars
        => (IndexInv /\ PlaceInv /\ JobInv)'
  BY IndexStep, PlaceStep, JobStep
<1>3. IndexInv /\ PlaceInv /\ JobInv => EntriesExact BY JobSound
<1> QED BY <1>1, <1>2, <1>3, HeldAlways, ReaderUsesAllocator, BudgetInvariant, PTL DEF ReaderSpec

-----------------------------------------------------------------------------
(* The coroutine leaves, or is one token further.                          *)
LEMMA ResumeAdvances ==
  ASSUME NEW d, Same(d), NEW path, ResumeOn(path, d)
  PROVE  inflator'.at = inflator.at + 1 /\ inflator'.stream = inflator.stream
<1> DEFINE r == Rest
<1>1. inflator' = [d EXCEPT !.at = @ + 1, !.bits = r, !.path = path] BY DEF ResumeOn
<1> HIDE DEF r
<1> QED BY <1>1 DEF Same, Decoder

LEMMA InflateAdvances ==
  ASSUME DOMAIN inflator = Decoder, Inflate
  PROVE  \/ status' # "running"
         \/ /\ inflator.at <= Len(inflator.stream) /\ inflator'.at = inflator.at + 1
            /\ inflator'.stream = inflator.stream
<1> DEFINE Advances == inflator'.at = inflator.at + 1 /\ inflator'.stream = inflator.stream
<1>1. \A d : Same(d) /\ (\E path : ResumeOn(path, d)) => Advances BY ResumeAdvances
<1>2. \A d : Same(d) /\ Resume(d) => Advances
  <2>1. \A d : Resume(d) <=> ResumeOn("new", d) BY DEF Resume
  <2> HIDE DEF Advances
  <2> QED BY <1>1, <2>1
<1>3. \A d, result : Leave(d, result) => status' = result BY DEF Leave
<1>4. Same(inflator) BY DEF Same
<1>5. \A v : /\ Same([inflator EXCEPT !.out = v]) /\ Same([inflator EXCEPT !.counter = v])
             /\ Same([inflator EXCEPT !.dist = v]) BY ChangedIs
<1> HIDE DEF Advances
<1>6. status' # "running" \/ Advances
  <2>1. CASE Starve \/ Finish BY <2>1 DEF Starve, Finish, Stuck
  <2>2. CASE BlockHeader \/ AlignOrField \/ StoredSize \/ Tables \/ EndOfBlock
    BY <1>2, <1>3, <1>4, <2>2 DEF BlockHeader, AlignOrField, StoredSize, Tables, EndOfBlock
  <2>3. CASE RawByte BY <1>2, <1>3, <1>5, <2>3 DEF RawByte
  <2>4. CASE CodeLengthTable \/ CodeLengths \/ Length \/ Distance
    BY <1>2, <1>3, <1>5, <2>4 DEF CodeLengthTable, CodeLengths, Length, Distance
  <2>5. CASE Literal
    <3>1. Leave(inflator, "HAS_MORE_OUTPUT")
          \/ ResumeOn(IF Fast /\ inflator.path = "new" THEN "second" ELSE "new",
                      [inflator EXCEPT !.out = Append(@, Token.value)])
      BY <2>5 DEF Literal
    <3> QED BY <1>1, <1>3, <1>5, <3>1
  <2>6. CASE Match BY <1>2, <1>3, <1>5, <2>6 DEF Match
  <2> QED BY <2>1, <2>2, <2>3, <2>4, <2>5, <2>6 DEF Inflate
<1>7. status' # "running" \/ inflator.at <= Len(inflator.stream)
  <2>1. CASE Finish BY <2>1 DEF Finish
  <2> QED BY <2>1 DEF Inflate, Starve, Starving, BlockHeader, AlignOrField, StoredSize, RawByte, CodeLengthTable,
       CodeLengths, Tables, Literal, Length, Distance, EndOfBlock, Match, Running
<1> QED BY <1>6, <1>7 DEF Advances

-----------------------------------------------------------------------------
(* While the directory is read, a record is still to come.                 *)
Counted == zip.total \in Nat /\ Len(index) < zip.total
CountInv == at \in {"directory", "offsets", "read_directory", "records"} => Counted

LEMMA CountStep ==
  ASSUME IndexInv, PlaceInv, CountInv, [ReaderNext]_reader_vars PROVE CountInv'
<1>1. CASE at' \notin {"directory", "offsets", "read_directory", "records"} BY <1>1 DEF CountInv
<1>2. CASE UNCHANGED reader_vars BY <1>2 DEF reader_vars, CountInv, Counted
<1>3. CASE CheckEnd /\ at' = "directory"
  <2> DEFINE total == dir.end.total
  <2>1. at = "check_end" /\ total # 0 /\ UNCHANGED index
        /\ \E before : zip' = [zip EXCEPT !.start = before, !.size = @ - before, !.total = total]
    BY <1>3 DEF CheckEnd, Reject
  <2>2. {dir.end.ofs, dir.end.csize, total} \subseteq Nat BY <2>1 DEF PlaceInv, Finding
  <2>3. index = <<>> BY <2>1 DEF IndexInv, Unread
  <2> HIDE DEF total
  <2>4. zip'.total = total BY <2>1 DEF IndexInv
  <2>5. Len(index') = 0 BY <2>1, <2>3
  <2>6. total \in Nat /\ 0 < total BY <2>1, <2>2
  <2> QED BY <2>4, <2>5, <2>6 DEF CountInv, Counted
<1>4. CASE GetDirectory \/ GetOffsets \/ ReadDirectory
  <2>1. /\ UNCHANGED index /\ at \in {"directory", "offsets", "read_directory"}
        /\ \E error : zip' = zip \/ zip' = Set(error)
    BY <1>4 DEF GetDirectory, GetOffsets, ReadDirectory, Block, Reject
  <2>2. zip'.total = zip.total BY <2>1 DEF Set, IndexInv
  <2> QED BY <2>1, <2>2 DEF CountInv, Counted
<1>5. CASE CheckRecord /\ at' = "records"
  <2> DEFINE place == Abs(dir.end.ofs + dir.p) h == archive.headers[place]
  <2>1. at = "records" /\ Len(index) + 1 # zip.total /\ index' = Append(index, dir.p)
        /\ zip' = [zip EXCEPT !.zip64 = @ \/ Look(h) = "zip64", !.ext = @ \/ Look(h) = "zip64"]
    BY <1>5 DEF CheckRecord, Reject
  <2>2. zip'.total = zip.total BY <2>1 DEF IndexInv
  <2>3. index \in Seq(Nat) /\ dir.p \in Nat BY DEF IndexInv
  <2>4. Len(index') = Len(index) + 1 /\ Len(index) \in Nat BY <2>1, <2>3
  <2>5. Counted BY <2>1 DEF CountInv
  <2> DEFINE n == Len(index) total == zip.total
  <2>6. n \in Nat /\ total \in Nat /\ n < total /\ n + 1 # total BY <2>1, <2>4, <2>5 DEF Counted
  <2> HIDE DEF n, total
  <2>7. n + 1 < total BY <2>6
  <2>8. Len(index') < total BY <2>4, <2>7 DEF n
  <2> QED BY <2>2, <2>6, <2>8 DEF CountInv, Counted, total
<1>6. CASE CheckRecord \/ CheckEnd
  <2>1. CheckRecord => at' \in {"open", "records", "end_directory"} BY DEF CheckRecord, Reject
  <2>2. CheckEnd => at' \in {"open", "directory", "end_directory"} BY DEF CheckEnd, Reject
  <2> QED BY <1>1, <1>3, <1>5, <1>6, <2>1, <2>2
<1>7. CASE \/ Client \/ Extraction \/ EndInternal \/ InitInternal \/ Locate \/ ReadEnd \/ ReadLocator
           \/ ReadNear \/ ReadThere \/ Check64
  <2>1. at' \notin {"directory", "offsets", "read_directory", "records"}
    BY <1>7 DEF Client, Open, Stat, Close, Extraction, BeginExtraction, ReadLocal, ReadStored, GetBuffer, Fill,
       Decompress, Continue, CheckResult, Release, EndInternal, EndDirectory, EndOffsets, EndState, ScopeEnds,
       InitInternal, Locate, ReadEnd, ReadLocator, ReadNear, ReadThere, ReadEnd64, Check64, Reject, Goto, Fails,
       Returns
  <2> QED BY <1>1, <2>1
<1> QED BY <1>2, <1>4, <1>6, <1>7 DEF ReaderNext, Program, Opening

-----------------------------------------------------------------------------
(* From one place to a later one                                           *)
LEMMA FurtherOn ==
  ASSUME Course[at] \in Nat, Course'[at'] \in Nat, Course'[at'] < Course[at], Remaining' \in Nat, Tokens' \in Nat
  PROVE  Rank' \in Nat \X Nat \X Nat /\ Below(Rank', Rank)
BY DEF Rank, Below

(* What is left is a number.                                               *)
LEMMA RankIsNatural ==
  ASSUME IndexInv', CountInv', JobInv'
  PROVE  Remaining' \in Nat /\ Tokens' \in Nat
<1>1. ASSUME at' = "records" PROVE (zip.total - Len(index))' \in Nat
  <2> DEFINE n == Len(index') total == zip'.total
  <2>1. n \in Nat /\ total \in Nat /\ n < total BY <1>1 DEF CountInv, Counted, IndexInv
  <2> HIDE DEF n, total
  <2>2. total - n \in Nat BY <2>1
  <2> QED BY <2>2 DEF n, total
<1>2. at' \in {"fill", "inflate"} => Decoding' BY DEF JobInv, Inflating
<1>3. at' \in {"fill", "inflate"} => job'.remaining \in Nat BY <1>2 DEF Decoding
<1>4. ASSUME at' = "inflate", status' = "running"
      PROVE  Len(inflator'.stream) - inflator'.at + 3 \in Nat
  <2> DEFINE n == Len(inflator'.stream) i == inflator'.at
  <2>1. DecoderOk(inflator', input', status', Comp', job'.remaining) BY <1>2, <1>4 DEF Decoding, DecoderNow
  <2>2. i \in 1 .. n + 1 /\ IsStream(inflator'.stream) BY <1>4, <2>1 DEF DecoderOk, Working, Reads
  <2>3. n \in Nat BY <2>2, SequenceHas DEF IsStream
  <2> HIDE DEF n, i
  <2>4. n - i + 3 \in Nat BY <2>2, <2>3
  <2> QED BY <2>4 DEF n, i
<1> QED BY <1>1, <1>3, <1>4 DEF Remaining, Tokens

(* The steps that go around a loop: over records, pieces and symbols       *)
LEMMA RecordIsUsed ==
  ASSUME IndexInv, CountInv, IndexInv', CountInv', CheckRecord, at' = "records"
  PROVE  Remaining' < Remaining
<1> DEFINE place == Abs(dir.end.ofs + dir.p) h == archive.headers[place]
<1>1. at = "records" /\ index' = Append(index, dir.p)
      /\ zip' = [zip EXCEPT !.zip64 = @ \/ Look(h) = "zip64", !.ext = @ \/ Look(h) = "zip64"]
  BY DEF CheckRecord, Reject
<1>2. zip'.total = zip.total BY <1>1 DEF IndexInv
<1>3. Len(index') = Len(index) + 1 /\ Len(index) \in Nat BY <1>1 DEF IndexInv
<1>4. zip.total \in Nat BY <1>1 DEF CountInv, Counted
<1> DEFINE n == Len(index) total == zip.total
<1>5. Remaining = total - n /\ Remaining' = total - (n + 1) BY <1>1, <1>2, <1>3 DEF Remaining
<1> HIDE DEF n, total
<1> QED BY <1>3, <1>4, <1>5 DEF n, total

LEMMA PieceIsUsed ==
  ASSUME IndexInv, PlaceInv, JobInv, Fill, at' = "inflate"
  PROVE  Remaining' < Remaining
<1> DEFINE n == Least(ReadBufSize, job.remaining)
<1>1. at = "fill" /\ job' = [job EXCEPT !.ofs = @ + n, !.remaining = @ - n] BY DEF Fill
<1>2. Decoding /\ Resting /\ Typed BY <1>1 DEF JobInv, Inflating
<1>3. Comp \in Nat /\ Comp # 0 /\ io_size \in Nat /\ io_size # 0
  <2>1. Word \in Nat /\ IoSizes \subseteq Nat \ {0} BY BudgetAssumption, ReaderAssumption
  <2>2. Chosen /\ Comp # 0 BY <1>2 DEF Decoding, Located
  <2> QED BY <1>2, <2>1, <2>2, EntryIs DEF Typed
<1>4. ReadBufSize = Least(Comp, io_size) BY DEF ReadBufSize, Comp
<1>5. ReadBufSize \in Nat /\ ReadBufSize # 0 BY <1>3, <1>4 DEF Least
<1> DEFINE left == job.remaining
<1>6. left \in Nat /\ left # 0 BY <1>2 DEF Decoding, Resting
<1>7. n \in Nat /\ n > 0 BY <1>5, <1>6 DEF Least
<1> HIDE DEF n
<1>8. Remaining = left /\ Remaining' = left - n BY <1>1, <1>2 DEF Remaining, Typed
<1> HIDE DEF left
<1> QED BY <1>6, <1>7, <1>8

LEMMA TokenIsUsed ==
  ASSUME JobInv, JobInv', Decompress
  PROVE  at' = at /\ Remaining' = Remaining /\ Tokens' < Tokens
<1>1. at = "inflate" /\ at' = at /\ job' = job /\ Inflate BY DEF Decompress
<1>2. Decoding BY <1>1 DEF JobInv, Inflating
<1>3. status = "running"
  BY <1>1 DEF Inflate, Starve, Starving, BlockHeader, AlignOrField, StoredSize, RawByte, CodeLengthTable,
     CodeLengths, Tables, Literal, Length, Distance, EndOfBlock, Match, Finish, Running
<1> DEFINE n == Len(inflator.stream) i == inflator.at
<1>4. DecoderOk(inflator, input, status, Comp, job.remaining) BY <1>2 DEF Decoding, DecoderNow
<1>5. DOMAIN inflator = Decoder /\ i \in 1 .. n + 1 /\ IsStream(inflator.stream)
  BY <1>3, <1>4 DEF DecoderOk, Working, Reads
<1>6. n \in Nat BY <1>5, SequenceHas DEF IsStream
<1>7. Tokens = n - i + 3 BY <1>1, <1>3 DEF Tokens
<1>8. \/ Tokens' = 1
      \/ i <= n /\ Tokens' = n - (i + 1) + 3
  <2>1. CASE status' # "running" BY <1>1, <2>1 DEF Tokens
  <2>2. CASE status' = "running"
    <3>1. i <= n /\ inflator'.at = i + 1 /\ inflator'.stream = inflator.stream BY <1>1, <1>5, <2>2, InflateAdvances
    <3> QED BY <1>1, <2>2, <3>1 DEF Tokens
  <2> QED BY <2>1, <2>2
<1> HIDE DEF n, i
<1>9. Tokens' < Tokens BY <1>5, <1>6, <1>7, <1>8
<1> QED BY <1>1, <1>9 DEF Remaining

(* When it asks for more, it goes back for the next piece.                 *)
LEMMA MoreIsFetched ==
  ASSUME JobInv, Continue
  PROVE  at = "inflate" /\ at' = "fill" /\ Remaining' = Remaining /\ Tokens' < Tokens
<1>1. at = "inflate" /\ status = "NEEDS_MORE_INPUT" /\ job' = job BY DEF Continue
<1>2. Decoding /\ Fed BY <1>1 DEF JobInv, Inflating
<1>3. input.more /\ input.avail = 0
  BY <1>1, <1>2 DEF Decoding, DecoderNow, DecoderOk, Waiting
<1>4. job.remaining \in Nat BY <1>2 DEF Decoding
<1>5. kind # "memory" BY <1>2, <1>3, <1>4 DEF Fed
<1>6. at' = "fill" BY <1>3, <1>5 DEF Continue
<1>7. Tokens = 1 /\ Tokens' = 0 BY <1>1, <1>6 DEF Tokens
<1> QED BY <1>1, <1>6, <1>7 DEF Remaining

(* All others go from one place to a later one.                            *)
LEMMA OthersGoOn ==
  ASSUME Program, ~(CheckRecord /\ at' = "records"), ~(Fill /\ at' = "inflate"), ~Decompress, ~Continue
  PROVE  Course[at] \in Nat /\ Course[at'] \in Nat /\ Course[at'] < Course[at]
<1> USE DEF Course
<1>1. CASE \/ InitInternal \/ Locate \/ ReadEnd \/ ReadLocator \/ ReadNear \/ ReadThere
  BY <1>1 DEF InitInternal, Locate, ReadEnd, ReadLocator, ReadNear, ReadThere, ReadEnd64, Reject, Goto
<1>2. CASE \/ Check64 \/ CheckEnd \/ GetDirectory \/ GetOffsets \/ ReadDirectory
  BY <1>2 DEF Check64, CheckEnd, GetDirectory, GetOffsets, ReadDirectory, Block, Reject
<1>3. CASE CheckRecord
  <2>1. at = "records" /\ at' \in {"open", "end_directory"} BY <1>3 DEF CheckRecord, Reject
  <2> QED BY <2>1
<1>4. CASE BeginExtraction \/ ReadLocal \/ ReadStored \/ GetBuffer \/ CheckResult \/ Release
  <2>1. BeginExtraction => at = "extract" /\ at' \in {"open", "local"} BY DEF BeginExtraction, Returns
  <2>2. ReadLocal => at = "local" /\ at' \in {"open", "stored", "inflate", "buffer"} BY DEF ReadLocal, Fails, Returns
  <2>3. ReadStored => at = "stored" /\ at' = "open" BY DEF ReadStored, Fails, Returns
  <2>4. GetBuffer => at = "buffer" /\ at' \in {"fill", "open"} BY DEF GetBuffer
  <2>5. CheckResult => at = "inflate" /\ at' = "release" BY DEF CheckResult
  <2>6. Release => at = "release" /\ at' = "open" BY DEF Release, Goto
  <2> QED BY <1>4, <2>1, <2>2, <2>3, <2>4, <2>5, <2>6
<1>5. CASE Fill
  <2>1. at = "fill" /\ at' = "release" BY <1>5 DEF Fill
  <2> QED BY <2>1
<1>6. CASE EndInternal
  BY <1>6 DEF EndInternal, EndDirectory, EndOffsets, EndState, ScopeEnds, Goto
<1> QED BY <1>1, <1>2, <1>3, <1>4, <1>5, <1>6 DEF Program, Opening, Extraction

LEMMA RankFalls ==
  ASSUME IndexInv, PlaceInv, CountInv, JobInv, IndexInv', CountInv', JobInv', Program
  PROVE  Rank' \in Nat \X Nat \X Nat /\ Below(Rank', Rank)
<1>1. Remaining' \in Nat /\ Tokens' \in Nat BY RankIsNatural
<1>2. ASSUME Course[at'] \in Nat, Course[at'] = Course[at],
             \/ Remaining' < Remaining
             \/ Remaining' = Remaining /\ Tokens' < Tokens
      PROVE  Rank' \in Nat \X Nat \X Nat /\ Below(Rank', Rank)
  BY <1>1, <1>2 DEF Rank, Below
<1>3. CASE CheckRecord /\ at' = "records"
  <2>1. at = "records" BY <1>3 DEF CheckRecord
  <2>2. Remaining' < Remaining BY <1>3, RecordIsUsed
  <2>3. Course[at'] \in Nat /\ Course[at'] = Course[at] BY <1>3, <2>1 DEF Course
  <2> QED BY <1>2, <2>2, <2>3
<1>4. CASE Fill /\ at' = "inflate"
  <2>1. at = "fill" BY <1>4 DEF Fill
  <2>2. Remaining' < Remaining BY <1>4, PieceIsUsed
  <2>3. Course[at'] \in Nat /\ Course[at'] = Course[at] BY <1>4, <2>1 DEF Course
  <2> QED BY <1>2, <2>2, <2>3
<1>5. CASE Decompress
  <2>1. at = "inflate" BY <1>5 DEF Decompress
  <2>2. at' = at /\ Remaining' = Remaining /\ Tokens' < Tokens BY <1>5, TokenIsUsed
  <2>3. Course[at'] \in Nat /\ Course[at'] = Course[at] BY <2>1, <2>2 DEF Course
  <2> QED BY <1>2, <2>2, <2>3
<1>6. CASE Continue
  <2>1. at = "inflate" /\ at' = "fill" /\ Remaining' = Remaining /\ Tokens' < Tokens BY <1>6, MoreIsFetched
  <2>2. Course[at'] \in Nat /\ Course[at'] = Course[at] BY <2>1 DEF Course
  <2> QED BY <1>2, <2>1, <2>2
<1>7. CASE ~(CheckRecord /\ at' = "records") /\ ~(Fill /\ at' = "inflate") /\ ~Decompress /\ ~Continue
  <2>1. Course[at] \in Nat /\ Course[at'] \in Nat /\ Course[at'] < Course[at] BY <1>7, OthersGoOn
  <2> QED BY <1>1, <2>1, FurtherOn
<1> QED BY <1>3, <1>4, <1>5, <1>6, <1>7

(* CallsAreFinite: every archive, however damaged, is opened, read or      *)
(* given up in finitely many steps, and a call that has begun goes down to *)
(* its end with each of them: no loop of the library turns on the spot.    *)
THEOREM EveryCallIsFinite == ReaderSpec => CallsAreFinite
<1>1. ReaderInit => IndexInv /\ PlaceInv /\ JobInv /\ CountInv
  <2>1. DOMAIN <<>> = {} /\ <<>> \in Seq(Nat) OBVIOUS
  <2>2. ReaderInit => IndexInv BY <2>1 DEF ReaderInit, Init, IndexInv, Live
  <2>3. ReaderInit => PlaceInv BY <2>1 DEF ReaderInit, PlaceInv, Finding, Found
  <2>4. ReaderInit => JobInv BY DEF ReaderInit, JobInv, Typed, Inflating, Unread
  <2>5. ReaderInit => CountInv BY DEF ReaderInit, CountInv
  <2> QED BY <2>2, <2>3, <2>4, <2>5
<1>2. BInv /\ HeldInv /\ IndexInv /\ PlaceInv /\ JobInv /\ CountInv /\ [ReaderNext]_reader_vars
        => (IndexInv /\ PlaceInv /\ JobInv /\ CountInv)'
  BY IndexStep, PlaceStep, JobStep, CountStep
<1>3. ASSUME IndexInv, PlaceInv, JobInv, CountInv, (IndexInv /\ PlaceInv /\ JobInv /\ CountInv)'
      PROVE  Program => Rank' \in Nat \X Nat \X Nat /\ Below(Rank', Rank)
  <2>1. IndexInv' /\ CountInv' /\ JobInv' BY <1>3
  <2> QED BY <1>3, <2>1, RankFalls
<1> QED BY <1>1, <1>2, <1>3, HeldAlways, ReaderUsesAllocator, BudgetInvariant, PTL DEF ReaderSpec, CallsAreFinite
=============================================================================
