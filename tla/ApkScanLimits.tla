---------------------------- MODULE ApkScanLimits ----------------------------
(***************************************************************************)
(* The size policy of apk_scan_limits.cpp: what a ZIP entry may declare    *)
(* before the scanner inflates it, and the arithmetic of its budgets, in   *)
(* unsigned integers that wrap above MaxU64.                               *)
(***************************************************************************)
EXTENDS Integers

CONSTANTS
  MaxU64,       \* the largest uint64_t
  MaxRatio,     \* kMaxCompressionRatio
  RatioFloor    \* kCompressionRatioFloorBytes

ASSUME LimitsAssumption == MaxU64 \in Nat /\ MaxRatio \in 1 .. MaxU64 /\ RatioFloor \in 1 .. MaxU64

U64 == 0 .. MaxU64
Wrap(n) == n % (MaxU64 + 1)

(* What the central directory declares of an entry. *)
ZipPayloadMetadata ==
  [compressed_bytes : U64, uncompressed_bytes : U64, encrypted : BOOLEAN, supported : BOOLEAN]

(* The ratio test, by division, so that no product can wrap. *)
ExtremeRatio(m) ==
  \/ m.compressed_bytes = 0
  \/ LET quotient  == m.uncompressed_bytes \div m.compressed_bytes
         remainder == m.uncompressed_bytes % m.compressed_bytes
     IN  quotient > MaxRatio \/ (quotient = MaxRatio /\ remainder # 0)

evaluate_zip_payload(m, max_uncompressed_bytes) ==
  CASE m.uncompressed_bytes = 0 -> "empty"
    [] m.uncompressed_bytes > 0 /\ m.encrypted -> "encrypted"
    [] m.uncompressed_bytes > 0 /\ ~m.encrypted /\ ~m.supported -> "unsupported"
    [] OTHER -> IF m.uncompressed_bytes > max_uncompressed_bytes THEN "too large"
                ELSE IF m.uncompressed_bytes >= RatioFloor /\ ExtremeRatio(m)
                THEN "extreme ratio" ELSE "allow"

fits_cumulative_budget(already, candidate, maximum) ==
  already <= maximum /\ candidate <= Wrap(maximum - already)

saturating_add_u64(lhs, rhs) ==
  IF rhs > Wrap(MaxU64 - lhs) THEN MaxU64 ELSE Wrap(lhs + rhs)

-----------------------------------------------------------------------------
(* What the three compute, over integers that do not wrap. *)
AllowIsExact(m, limit) ==
  evaluate_zip_payload(m, limit) = "allow" <=>
    /\ m.uncompressed_bytes \in 1 .. limit /\ ~m.encrypted /\ m.supported
    /\ \/ m.uncompressed_bytes < RatioFloor
       \/ m.uncompressed_bytes <= MaxRatio * m.compressed_bytes

FitIsExact(already, candidate, maximum) ==
  fits_cumulative_budget(already, candidate, maximum) <=> already + candidate <= maximum

SaturatingIsExact(lhs, rhs) ==
  saturating_add_u64(lhs, rhs) = IF lhs + rhs <= MaxU64 THEN lhs + rhs ELSE MaxU64
=============================================================================
