------------------------------ MODULE VmpRegions ------------------------------
(***************************************************************************)
(* analyze_vmp_regions of vmp_detector.cpp: which parts of the executable  *)
(* regions of a library are decoded, under one budget for all of them.     *)
(* A first pass finds the sites (indirect transfers and near backward      *)
(* branches), a sample of them is taken, windows around the sampled sites  *)
(* are merged into spans, and each span is decoded if the budget allows.   *)
(* Offsets, sizes and budgets are in instruction words of 4 bytes.         *)
(***************************************************************************)
EXTENDS Integers, SequencesExt

CONSTANTS
  RegionLists,     \* the lists of regions a library may have
  MaxSites,        \* kMaxCandidateSites, of one region
  MaxDecoded,      \* kMaxDecodedBytes
  MaxSpan,         \* kMaxDecodeSpanBytes
  Lookback, Lookahead

Sites == [at : Nat, kind : {"transfer", "loop"}, excluded : BOOLEAN]
Regions == [words : Nat, overflows : BOOLEAN, sites : Seq(Sites)]

ASSUME LimitsAssumption == {MaxSites, MaxDecoded, MaxSpan, Lookback, Lookahead} \subseteq Nat
ASSUME RegionsAssumption ==
  \A list \in RegionLists :
    /\ list \in Seq(Regions)
    /\ \A r \in DOMAIN list : \A i \in DOMAIN list[r].sites : list[r].sites[i].at < list[r].words

VARIABLES
  regions,         \* the input
  at,              \* the next region
  remaining_regions, decoded_budget, total_sites, processed_sites, truncated,
  sites, spans,                          \* of the region at hand: yet to be windowed, decoded
  budget, region_decoded,                \* its share
  evaluated        \* history: how often each site was looked at, as a bag

counters == <<total_sites, processed_sites, truncated>>
spending == <<decoded_budget, budget, region_decoded, evaluated>>
vars == <<regions, at, remaining_regions, sites, spans, counters, spending>>

-----------------------------------------------------------------------------
Scannable(region) == region.words > 0
InScope(region) == {i \in DOMAIN region.sites : ~region.sites[i].excluded}
SiteCount(region) == Cardinality(InScope(region))
OfKind(region, kind) == {i \in InScope(region) : region.sites[i].kind = kind}
AtMost(m, n) == IF m <= n THEN m ELSE n

TransferQuota(region) == AtMost(Cardinality(OfKind(region, "transfer")), MaxSites)
LoopQuota(region) ==
  AtMost(Cardinality(OfKind(region, "loop")), MaxSites - TransferQuota(region))
Quota(region, kind) == IF kind = "transfer" THEN TransferQuota(region) ELSE LoopQuota(region)

(* One pass over the sites: of the count that are of a kind, every         *)
(* so-manyth is taken, until there are quota.                              *)
Eager(p, i, quota, count) ==                                       \* mutant
  [seen |-> p.seen + 1, taken |-> IF Len(p.taken) < quota THEN Append(p.taken, i) ELSE p.taken]
Passing(p, i, quota, count) ==
  [seen |-> p.seen + 1,
   taken |-> IF Len(p.taken) < quota /\ p.seen = (Len(p.taken) * count) \div quota
             THEN Append(p.taken, i) ELSE p.taken]
Sampling(S, quota, last) ==
  LET pass[i \in 0 .. last] ==
        IF i = 0 THEN [seen |-> 0, taken |-> <<>>]
        ELSE IF i \in S THEN Passing(pass[i - 1], i, quota, Cardinality(S)) ELSE pass[i - 1]
  IN pass
Sample(region, kind) ==
  Sampling(OfKind(region, kind), Quota(region, kind), Len(region.sites))[Len(region.sites)].taken

Sampled(region) == ToSet(Sample(region, "transfer")) \cup ToSet(Sample(region, "loop"))

(* The words from begin to end - 1 around a site. *)
Window(region, s) ==
  [begin |-> IF s.at > Lookback THEN s.at - Lookback ELSE 0,
   end |-> AtMost(region.words, s.at + Lookahead + 1), site_count |-> 1]

MergeLimit(share) == LET limit == AtMost(MaxSpan, share) IN IF limit < 1 THEN 1 ELSE limit

(* A window is merged into the span before it when they touch and the      *)
(* result is not too large.                                                *)
Touching(span, window) == window.begin <= span.end
MergedEnd(span, window) == IF span.end > window.end THEN span.end ELSE window.end
MergeFits(span, window, share) ==
  MergedEnd(span, window) - span.begin <= MergeLimit(share)
NeverMerged(merged, window, share) == Append(merged, window)       \* mutant
Merged(merged, window, share) ==
  IF merged # <<>> /\ Touching(Last(merged), window) /\ MergeFits(Last(merged), window, share)
  THEN [merged EXCEPT ![Len(merged)] =
          [begin |-> @.begin, end |-> MergedEnd(@, window), site_count |-> @.site_count + 1]]
  ELSE Append(merged, window)

-----------------------------------------------------------------------------
ScannableFrom(first) == {r \in first .. Len(regions) : Scannable(regions[r])}

Init ==
  /\ regions \in RegionLists
  /\ at = 1
  /\ remaining_regions = Cardinality(ScannableFrom(1))
  /\ decoded_budget = 0 /\ total_sites = 0 /\ processed_sites = 0 /\ truncated = FALSE
  /\ budget = MaxDecoded /\ region_decoded = 0 /\ sites = {} /\ spans = <<>>
  /\ evaluated = EmptyBag

(* The next region is taken up when all spans of the last are dealt with. *)
AtRegion == sites = {} /\ spans = <<>> /\ at <= Len(regions)
This == regions[at]

SkipEmpty ==
  /\ AtRegion /\ ~Scannable(This)
  /\ at' = at + 1
  /\ UNCHANGED <<regions, remaining_regions, sites, spans, counters, spending>>

(* The addresses of the region would wrap. *)
SkipOverflowing ==
  /\ AtRegion /\ Scannable(This) /\ This.overflows
  /\ at' = at + 1 /\ truncated' = TRUE
  /\ remaining_regions' = IF remaining_regions > 0 THEN remaining_regions - 1 ELSE 0
  /\ UNCHANGED <<regions, sites, spans, total_sites, processed_sites, spending>>

(* What a region may decode: an equal share of what is left is reserved    *)
(* for each region still to come.                                          *)
Unspent == IF decoded_budget < MaxDecoded THEN MaxDecoded - decoded_budget ELSE 0
AllOfIt == Unspent                                                 \* mutant
Share == IF remaining_regions > 0 THEN Unspent \div remaining_regions ELSE Unspent

SelectSites ==
  /\ AtRegion /\ Scannable(This) /\ ~This.overflows
  /\ at' = at + 1
  /\ budget' = Share /\ region_decoded' = 0
  /\ remaining_regions' = IF remaining_regions > 0 THEN remaining_regions - 1 ELSE 0
  /\ total_sites' = total_sites + SiteCount(This)
  /\ truncated' = (truncated \/ SiteCount(This) > MaxSites)
  /\ sites' = Sampled(This)
  /\ UNCHANGED <<regions, spans, processed_sites, decoded_budget, evaluated>>

(* The sampled sites become spans in the order of their addresses.         *)
MergeSite ==
  \E i \in sites :
    /\ \A j \in sites : regions[at - 1].sites[i].at <= regions[at - 1].sites[j].at
    /\ sites' = sites \ {i}
    /\ spans' = Merged(spans, Window(regions[at - 1], regions[at - 1].sites[i]), budget)
    /\ UNCHANGED <<regions, at, remaining_regions, counters, spending>>

Size(span) == span.end - span.begin
Affordable(span) ==
  region_decoded + Size(span) <= budget /\ decoded_budget + Size(span) <= MaxDecoded

(* collect_from_stream looks at every site within the span. *)
Seen(region, span) ==
  {i \in 1 .. Len(region.sites) :
     region.sites[i].at \in span.begin .. span.end - 1 /\ ~region.sites[i].excluded}

DecodeSpan ==
  /\ sites = {} /\ spans # <<>> /\ Affordable(Head(spans))
  /\ spans' = Tail(spans)
  /\ region_decoded' = region_decoded + Size(Head(spans))
  /\ decoded_budget' = decoded_budget + Size(Head(spans))
  /\ processed_sites' = processed_sites + Head(spans).site_count
  /\ evaluated' = evaluated (+) SetToBag({at - 1} \X Seen(regions[at - 1], Head(spans)))
  /\ UNCHANGED <<regions, at, remaining_regions, sites, total_sites, truncated, budget>>

(* The span is dropped; a later, smaller one may still fit. *)
Kept == truncated                                                  \* mutant
Cut == TRUE
DropSpan ==
  /\ sites = {} /\ spans # <<>> /\ ~Affordable(Head(spans))
  /\ spans' = Tail(spans) /\ truncated' = Cut
  /\ UNCHANGED <<regions, at, remaining_regions, sites, total_sites, processed_sites, spending>>

Next == SkipEmpty \/ SkipOverflowing \/ SelectSites \/ MergeSite \/ DecodeSpan \/ DropSpan

Spec == Init /\ [][Next]_vars

-----------------------------------------------------------------------------
Finished == at > Len(regions) /\ sites = {} /\ spans = <<>>
Scanned == Cardinality(ScannableFrom(1))

(* Every variable keeps its type, and a span lies within its region: no    *)
(* word behind it is read.                                                 *)
RegionsTypeOK ==
  /\ at \in 1 .. Len(regions) + 1 /\ remaining_regions \in 0 .. Len(regions)
  /\ {decoded_budget, total_sites, processed_sites, budget, region_decoded} \subseteq Nat
  /\ truncated \in BOOLEAN
  /\ \A i \in sites : i \in DOMAIN regions[at - 1].sites
  /\ \A i \in DOMAIN spans :
       /\ spans[i] \in [begin : Nat, end : Nat, site_count : Nat \ {0}]
       /\ spans[i].begin < spans[i].end /\ spans[i].end <= regions[at - 1].words

(* All regions together decode no more than the budget, and the region at  *)
(* hand no more than its share.                                            *)
WithinBudget == decoded_budget <= MaxDecoded /\ region_decoded <= budget

(* vmp_detector.cpp:1194: a huge first segment cannot starve a smaller one near *)
(* the end.  No region ever gets less than its equal share of the whole.   *)
FairShare == Scanned > 0 => budget >= MaxDecoded \div Scanned

(* A region that fits into its equal share, into a span and into the site  *)
(* quota is looked at completely, whatever the other regions are.          *)
SmallRegionsWhole ==
  Finished =>
    \A r \in DOMAIN regions :
      LET region == regions[r]
      IN  /\ Scannable(region) /\ ~region.overflows
          /\ region.words <= AtMost(MaxSpan, MaxDecoded \div Scanned)
          /\ SiteCount(region) <= MaxSites
          => \A i \in DOMAIN region.sites :
               region.sites[i].excluded \/ <<r, i>> \in DOMAIN evaluated

(* A scan that is not called truncated has looked at every site, and the   *)
(* coverage it reports is whole; so a negative verdict is a full negative. *)
HonestCoverage ==
  Finished /\ ~truncated =>
    /\ processed_sites = total_sites
    /\ \A r \in DOMAIN regions : \A i \in DOMAIN regions[r].sites :
         ~regions[r].sites[i].excluded => <<r, i>> \in DOMAIN evaluated

(* A region with too many sites is sampled up to the quota, over its whole *)
(* length: two neighbours of the sample are equally far apart, but for one.*)
Before(S, taken, k) ==
  IF k > Len(taken) THEN Cardinality(S) ELSE Cardinality({i \in S : i < taken[k]})
Gap(S, taken, k) == Before(S, taken, k + 1) - Before(S, taken, k)
SampledEvenly ==
  \A r \in DOMAIN regions : \A kind \in {"transfer", "loop"} :
    LET S == OfKind(regions[r], kind)
        taken == Sample(regions[r], kind)
    IN  /\ Len(taken) = Quota(regions[r], kind)
        /\ \A j, k \in DOMAIN taken : Gap(S, taken, j) - Gap(S, taken, k) \in -1 .. 1

(* What a scan says of its own coverage is true, it is whole where that is *)
(* affordable, and spread over the region where it is not.                 *)
SoundCoverage == HonestCoverage /\ SmallRegionsWhole /\ SampledEvenly
=============================================================================
