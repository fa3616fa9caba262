------------------------- MODULE VmpDetectorProofs --------------------------
(***************************************************************************)
(* What vmp_detector.cpp sees of a library, and what it makes of that.     *)
(*                                                                         *)
(* For every library, site quota and budget: the decoder stays within its  *)
(* budget and its regions, no region gets less than its equal share, and   *)
(* what the scan says of its own coverage is true.                         *)
(*                                                                         *)
(* The argument is one of reservation.  At any time the budget that is     *)
(* neither spent nor set aside for the region at hand covers an equal      *)
(* share for each of the regions still to come.                            *)
(*                                                                         *)
(* For whatever sites were collected, in any number, and in every context: *)
(* rules of the verdict that rest on its cascade of outcomes, on the       *)
(* weights of the signs of protection and on the order of the gates. And   *)
(* two bags of sites compared: what is tallied, scored and gated grows with *)
(* the sites, and the penalties fall wherever there is a verdict to lose.   *)
(***************************************************************************)
EXTENDS VmpRegions, VmpVerdict, FiniteSetTheorems, WellFoundedInduction, TLAPS

SpanRecords == [begin : Nat, end : Nat, site_count : Nat \ {0}]

(* A span holds at least one word and lies within its region. *)
Inside(span, region) == span \in SpanRecords /\ span.begin < span.end /\ span.end <= region.words

Idle == sites = {} /\ spans = <<>>

Types ==
  /\ regions \in RegionLists
  /\ at \in 1 .. Len(regions) + 1
  /\ decoded_budget \in Nat /\ total_sites \in Nat /\ processed_sites \in Nat
  /\ budget \in Nat /\ region_decoded \in Nat
  /\ truncated \in BOOLEAN
  /\ spans \in Seq(SpanRecords)
  /\ ~Idle => at > 1
  /\ \A i \in sites : i \in DOMAIN regions[at - 1].sites
  /\ \A i \in DOMAIN spans : Inside(spans[i], regions[at - 1])

EqualShare == MaxDecoded \div Scanned

Committed == IF Idle THEN decoded_budget ELSE decoded_budget + (budget - region_decoded)

Reserved ==
  /\ remaining_regions = Cardinality(ScannableFrom(at))
  /\ region_decoded <= budget
  /\ Committed <= MaxDecoded
  /\ Scanned > 0 => remaining_regions * EqualShare <= MaxDecoded - Committed

Inv == Types /\ Reserved /\ FairShare

-----------------------------------------------------------------------------
(* Taking an m-th of what covers m shares leaves enough for m - 1.         *)
LEMMA ShareLeavesEnough ==
  ASSUME NEW R \in Nat, NEW m \in Nat \ {0}, NEW q \in Nat, m * q <= R
  PROVE  /\ R \div m \in Nat /\ R \div m <= R
         /\ q <= R \div m
         /\ (m - 1) * q <= R - R \div m
<1> DEFINE s == R \div m
<1>1. s \in Nat /\ m * s <= R /\ R < m * (s + 1) OBVIOUS
<1>2. q <= s
  <2>1. SUFFICES ASSUME q >= s + 1 PROVE FALSE BY <1>1
  <2>2. m * (s + 1) <= m * q BY <1>1, <2>1
  <2> QED BY <1>1, <2>2
<1>3. (m - 1) * q <= (m - 1) * s BY <1>1, <1>2
<1>4. (m - 1) * s = m * s - s BY <1>1
<1>5. s <= R
  <2>1. (m - 1) * s >= 0 BY <1>1
  <2> QED BY <1>1, <1>4, <2>1
<1>6. (m - 1) * q \in Int BY <1>1
<1>7. (m - 1) * q <= R - s BY <1>1, <1>3, <1>4, <1>6
<1> QED BY <1>1, <1>2, <1>5, <1>7

(* An equal share is a natural number, and all of them fit the budget.     *)
LEMMA EqualSharesFit ==
  ASSUME NEW n \in Nat \ {0}
  PROVE  MaxDecoded \div n \in Nat /\ n * (MaxDecoded \div n) <= MaxDecoded
BY LimitsAssumption

LEMMA ScannableIsFinite ==
  ASSUME regions \in RegionLists, NEW first \in Nat \ {0}
  PROVE  /\ IsFiniteSet(ScannableFrom(first))
         /\ Cardinality(ScannableFrom(first)) \in 0 .. Len(regions)
<1>0. Len(regions) \in Nat BY RegionsAssumption
<1>1. IsFiniteSet(1 .. Len(regions)) /\ Cardinality(1 .. Len(regions)) = Len(regions)
  BY <1>0, FS_Interval
<1>2. ScannableFrom(first) \subseteq 1 .. Len(regions) BY <1>0 DEF ScannableFrom
<1>3. IsFiniteSet(ScannableFrom(first)) /\ Cardinality(ScannableFrom(first)) <= Len(regions)
  BY <1>1, <1>2, FS_Subset
<1> QED BY <1>0, <1>3, FS_CardinalityType

(* Passing a scannable region leaves one fewer to come; passing another    *)
(* one leaves as many.                                                     *)
LEMMA PassingOne ==
  ASSUME regions \in RegionLists, NEW first \in 1 .. Len(regions)
  PROVE  Cardinality(ScannableFrom(first + 1)) =
           IF Scannable(regions[first]) THEN Cardinality(ScannableFrom(first)) - 1
                                        ELSE Cardinality(ScannableFrom(first))
<1>0. Len(regions) \in Nat BY RegionsAssumption
<1>1. ScannableFrom(first + 1) = ScannableFrom(first) \ {first}
  BY <1>0 DEF ScannableFrom
<1>2. first \in ScannableFrom(first) <=> Scannable(regions[first])
  BY <1>0 DEF ScannableFrom
<1>3. IsFiniteSet(ScannableFrom(first)) BY ScannableIsFinite
<1> QED BY <1>1, <1>2, <1>3, FS_RemoveElement

LEMMA SitesAreCounted ==
  ASSUME NEW region \in Regions PROVE SiteCount(region) \in Nat
<1> DEFINE S == InScope(region)
<1>1. region.sites \in Seq(Sites) BY DEF Regions
<1>2. DOMAIN region.sites = 1 .. Len(region.sites) /\ Len(region.sites) \in Nat BY <1>1
<1> HIDE DEF S
<1> DEFINE n == Len(region.sites)
<1>a. 1 \in Int /\ n \in Int BY <1>2
<1> HIDE DEF n
<1>b. IsFiniteSet(1 .. n) BY <1>a, FS_Interval
<1>3. IsFiniteSet(1 .. Len(region.sites)) BY <1>b DEF n
<1>4. S \subseteq 1 .. Len(region.sites) BY <1>2 DEF S, InScope
<1>5. IsFiniteSet(S) BY <1>3, <1>4, FS_Subset
<1> QED BY <1>5, FS_CardinalityType DEF SiteCount, S

(* The window of a site lies within the region and holds the site.         *)
LEMMA WindowIsInside ==
  ASSUME NEW region \in Regions, NEW s \in Sites, s.at < region.words
  PROVE  Inside(Window(region, s), region)
<1>1. s.at \in Nat /\ region.words \in Nat /\ Lookback \in Nat /\ Lookahead \in Nat
  BY LimitsAssumption DEF Sites, Regions
<1> QED BY <1>1 DEF Inside, Window, AtMost, SpanRecords

(* Merging keeps every span within the region.                             *)
LEMMA MergedIsInside ==
  ASSUME NEW region, region.words \in Nat, NEW merged \in Seq(SpanRecords),
         \A i \in DOMAIN merged : Inside(merged[i], region),
         NEW window, Inside(window, region), NEW share
  PROVE  /\ Merged(merged, window, share) \in Seq(SpanRecords)
         /\ Merged(merged, window, share) # <<>>
         /\ \A i \in DOMAIN Merged(merged, window, share) :
              Inside(Merged(merged, window, share)[i], region)
<1> DEFINE n == Len(merged)
           fits == merged # <<>> /\ Touching(Last(merged), window)
                     /\ MergeFits(Last(merged), window, share)
           last == [begin |-> merged[n].begin, end |-> MergedEnd(merged[n], window),
                    site_count |-> merged[n].site_count + 1]
<1>1. CASE fits
  <2>1. n \in 1 .. n /\ n \in Nat /\ DOMAIN merged = 1 .. n BY <1>1
  <2>2. Inside(merged[n], region) BY <2>1
  <2>3. Inside(last, region) BY <1>1, <2>2 DEF Inside, SpanRecords, MergedEnd
  <2>4. Merged(merged, window, share) = [merged EXCEPT ![n] = last]
    BY <1>1, <2>1 DEF Merged
  <2>5. last \in SpanRecords BY <2>3 DEF Inside
  <2> QED BY <2>1, <2>3, <2>4, <2>5
<1>2. CASE ~fits
  <2>1. Merged(merged, window, share) = Append(merged, window) BY <1>2 DEF Merged
  <2>2. window \in SpanRecords BY DEF Inside
  <2> QED BY <2>1, <2>2
<1> QED BY <1>1, <1>2

-----------------------------------------------------------------------------
(* The sampling of sites. A set of naturals has a least element: that is    *)
(* how the inductions over a sequence or a pass are done.                   *)
LEMMA LeastNatural ==
  ASSUME NEW T, T \subseteq Nat, T # {}
  PROVE  \E x \in T : \A y \in T : x <= y
<1> DEFINE R == {ss \in Nat \X Nat : ss[1] < ss[2]}
<1>1. IsWellFoundedOn(R, Nat) BY NatLessThanWellFounded DEF OpToRel
<1>2. \A x, y \in Nat : x < y => <<x, y>> \in R OBVIOUS
<1> HIDE DEF R
<1>3. PICK x \in T : \A y \in T : ~(<<y, x>> \in R) BY <1>1, WFMin
<1>4. \A y \in T : ~(y < x) BY <1>2, <1>3
<1> QED BY <1>4

(* f starts with z and goes from one value to the next by G. *)
Solution(f, n, A, z, G) ==
  f \in [0 .. n -> A] /\ f[0] = z /\ \A i \in 1 .. n : f[i] = G[i][f[i - 1]]

(* A recursion over 0 .. n has a solution. *)
LEMMA RecursionExists ==
  ASSUME NEW n \in Nat, NEW A, NEW z \in A, NEW G \in [1 .. n -> [A -> A]]
  PROVE  \E f : Solution(f, n, A, z, G)
<1> DEFINE Solves(f, m) == f[0] = z /\ \A i \in 1 .. m : f[i] = G[i][f[i - 1]]
           Bad == {m \in 0 .. n : ~ \E f \in [0 .. m -> A] : Solves(f, m)}
<1>1. SUFFICES ASSUME Bad # {} PROVE FALSE
  <2>1. n \in 0 .. n OBVIOUS
  <2>2. PICK f \in [0 .. n -> A] : Solves(f, n) BY <2>1
  <2>3. Solution(f, n, A, z, G) BY <2>2 DEF Solution
  <2> QED BY <2>3
<1>2. PICK m \in Bad : \A k \in Bad : m <= k
  <2>1. Bad \subseteq Nat OBVIOUS
  <2> HIDE DEF Bad
  <2> QED BY <1>1, <2>1, LeastNatural
<1>3. m # 0
  <2>1. SUFFICES ASSUME m = 0 PROVE FALSE OBVIOUS
  <2>2. [i \in 0 .. 0 |-> z] \in [0 .. 0 -> A] /\ Solves([i \in 0 .. 0 |-> z], 0) OBVIOUS
  <2> QED BY <2>1, <2>2, <1>2
<1>4. m \in 1 .. n /\ m - 1 \in 0 .. n /\ ~(m <= m - 1) BY <1>2, <1>3
<1>5. ~(m - 1 \in Bad) BY <1>2, <1>4
<1>6. PICK f \in [0 .. m - 1 -> A] : Solves(f, m - 1) BY <1>4, <1>5
<1> DEFINE g == [i \in 0 .. m |-> IF i < m THEN f[i] ELSE G[m][f[m - 1]]]
<1>7. f[m - 1] \in A /\ G[m][f[m - 1]] \in A BY <1>4, <1>6
<1>8. g \in [0 .. m -> A] BY <1>4, <1>6, <1>7
<1>8a. g[m] = G[m][f[m - 1]] /\ \A i \in 0 .. m - 1 : g[i] = f[i] BY <1>4
<1> HIDE DEF g
<1>9. g[0] = z BY <1>4, <1>6, <1>8a
<1>10. ASSUME NEW i \in 1 .. m PROVE g[i] = G[i][g[i - 1]]
  <2>1. g[i - 1] = f[i - 1] BY <1>4, <1>8a, <1>10
  <2>2. CASE i = m
    <3> QED BY <2>1, <2>2, <1>8a
  <2>3. CASE i # m
    <3>1. i \in 1 .. m - 1 /\ g[i] = f[i] BY <2>3, <1>4, <1>8a, <1>10
    <3> QED BY <2>1, <3>1, <1>6
  <2> QED BY <2>2, <2>3
<1>11. Solves(g, m) BY <1>9, <1>10
<1> QED BY <1>2, <1>8, <1>11

Samples(n) == [seen : Nat, taken : Seq(1 .. n)]

(* The recursive function of the second pass satisfies its equation. *)
LEMMA SamplingIsDefined ==
  ASSUME NEW n \in Nat, NEW S, NEW quota
  PROVE  /\ Sampling(S, quota, n)[0] = [seen |-> 0, taken |-> <<>>]
         /\ \A i \in 1 .. n :
              Sampling(S, quota, n)[i] =
                IF i \in S THEN Passing(Sampling(S, quota, n)[i - 1], i, quota, Cardinality(S))
                           ELSE Sampling(S, quota, n)[i - 1]
<1> DEFINE z == [seen |-> 0, taken |-> <<>>]
           c == Cardinality(S)
           H(f) == [i \in 0 .. n |-> IF i = 0 THEN z
                                     ELSE IF i \in S THEN Passing(f[i - 1], i, quota, c) ELSE f[i - 1]]
           A == Samples(n)
           G == [i \in 1 .. n |-> [p \in A |-> IF i \in S THEN Passing(p, i, quota, c) ELSE p]]
<1>1. z \in A BY DEF Samples
<1>2. ASSUME NEW i \in 1 .. n, NEW p \in A PROVE Passing(p, i, quota, c) \in A
  <2>1. p.seen + 1 \in Nat /\ p.taken \in Seq(1 .. n) BY <1>2 DEF Samples
  <2>2. Append(p.taken, i) \in Seq(1 .. n) BY <2>1, <1>2
  <2> QED BY <2>1, <2>2 DEF Samples, Passing
<1> HIDE DEF c
<1>3. G \in [1 .. n -> [A -> A]] BY <1>2
<1>4. PICK f \in [0 .. n -> A] : f[0] = z /\ \A i \in 1 .. n : f[i] = G[i][f[i - 1]]
  <2> HIDE DEF G, A, z
  <2>1. \E f : Solution(f, n, A, z, G) BY <1>1, <1>3, RecursionExists
  <2> QED BY <2>1 DEF Solution
<1>5. \A i \in 1 .. n : f[i] = IF i \in S THEN Passing(f[i - 1], i, quota, c) ELSE f[i - 1]
  <2>1. \A i \in 1 .. n : f[i - 1] \in A BY <1>4
  <2> HIDE DEF A
  <2> QED BY <2>1, <1>4
<1>6. f = H(f)
  <2>1. ASSUME NEW i \in 0 .. n PROVE f[i] = H(f)[i]
    <3>1. CASE i = 0 BY <3>1, <1>4
    <3>2. CASE i # 0
      <4>1. i \in 1 .. n BY <2>1, <3>2
      <4> QED BY <4>1, <3>2, <1>5
    <3> QED BY <3>1, <3>2
  <2> HIDE DEF z, A
  <2>2. f = [i \in 0 .. n |-> f[i]] BY <1>4
  <2>3. [i \in 0 .. n |-> f[i]] = [i \in 0 .. n |-> H(f)[i]] BY <2>1
  <2>4. H(f) = [i \in 0 .. n |-> H(f)[i]] OBVIOUS
  <2> QED BY <2>2, <2>3, <2>4
<1>7. Sampling(S, quota, n) = CHOOSE q : q = H(q) BY DEF Sampling, c
<1> DEFINE q == Sampling(S, quota, n)
<1>8. q = H(q)
  <2> HIDE DEF H
  <2> QED BY <1>6, <1>7
<1> HIDE DEF q
<1>9. q[0] = z BY <1>8
<1>10. ASSUME NEW i \in 1 .. n
      PROVE q[i] = IF i \in S THEN Passing(q[i - 1], i, quota, c) ELSE q[i - 1]
  <2>1. i \in 0 .. n /\ i # 0 BY <1>10
  <2>2. q[i] = H(q)[i] BY <1>8
  <2> QED BY <2>1, <2>2
<1> QED BY <1>9, <1>10 DEF q, c

-----------------------------------------------------------------------------
(* The places of a sample, and how far they are apart.                     *)
LEMMA LessByFactor ==
  ASSUME NEW q \in Nat \ {0}, NEW u \in Int, NEW v \in Int, q * u < q * v PROVE u < v
<1>1. SUFFICES ASSUME v <= u PROVE FALSE OBVIOUS
<1>2. q * v <= q * u BY <1>1
<1> QED BY <1>2

LEMMA DivBounds ==
  ASSUME NEW a \in Nat, NEW q \in Nat \ {0}
  PROVE  a \div q \in Nat /\ q * (a \div q) <= a /\ a < q * (a \div q + 1)
OBVIOUS

(* The t-th place of q places spread evenly over c. *)
Place(t, c, q) == (t * c) \div q

LEMMA PlacesApart ==
  ASSUME NEW q \in Nat \ {0}, NEW c \in Nat, NEW t \in Nat
  PROVE  /\ Place(t, c, q) \in Nat /\ Place(t + 1, c, q) \in Nat /\ c \div q \in Nat
         /\ Place(t + 1, c, q) - Place(t, c, q) \in {c \div q, c \div q + 1}
<1> DEFINE x == Place(t, c, q)
           y == Place(t + 1, c, q)
           w == c \div q
           a == t * c
<1>0. a \in Nat /\ (t + 1) * c = a + c /\ a + c \in Nat OBVIOUS
<1> HIDE DEF a
<1>1. x \in Nat /\ q * x <= a /\ a < q * (x + 1) BY <1>0, DivBounds DEF Place, a
<1>2. y \in Nat /\ q * y <= a + c /\ a + c < q * (y + 1)
  <2>1. y = (a + c) \div q BY <1>0 DEF Place
  <2> HIDE DEF y
  <2> QED BY <1>0, <2>1, DivBounds
<1>3. w \in Nat /\ q * w <= c /\ c < q * (w + 1) BY DivBounds
<1> HIDE DEF x, y, w
<1>4. q * (x + w) = q * x + q * w /\ q * ((x + 1) + (w + 1)) = q * (x + 1) + q * (w + 1)
  BY <1>1, <1>3
<1> DEFINE qx == q * x
           qw == q * w
           qx1 == q * (x + 1)
           qw1 == q * (w + 1)
           qy == q * y
           qy1 == q * (y + 1)
<1>5. qx \in Nat /\ qw \in Nat /\ qx1 \in Nat /\ qw1 \in Nat /\ qy \in Nat /\ qy1 \in Nat
  BY <1>1, <1>2, <1>3
<1>6. q * (x + w) = qx + qw /\ q * ((x + 1) + (w + 1)) = qx1 + qw1 BY <1>4
<1>7. qx <= a /\ a < qx1 /\ qy <= a + c /\ a + c < qy1 /\ qw <= c /\ c < qw1 BY <1>1, <1>2, <1>3
<1> HIDE DEF qx, qw, qx1, qw1, qy, qy1
<1>8. qx + qw < qy1 /\ qy < qx1 + qw1 BY <1>0, <1>5, <1>7
<1>9. x + w < y + 1
  <2>1. q * (x + w) < q * (y + 1) BY <1>6, <1>8 DEF qy1
  <2> QED BY <2>1, <1>1, <1>2, <1>3, LessByFactor
<1>10. y < (x + 1) + (w + 1)
  <2>1. q * y < q * ((x + 1) + (w + 1)) BY <1>6, <1>8 DEF qy
  <2> QED BY <2>1, <1>1, <1>2, <1>3, LessByFactor
<1>11. y - x \in {w, w + 1} BY <1>1, <1>2, <1>3, <1>9, <1>10
<1> QED BY <1>1, <1>2, <1>3, <1>11 DEF x, y, w

LEMMA PlacesGrow ==
  ASSUME NEW q \in Nat \ {0}, NEW c \in Nat, q <= c, NEW t \in Nat
  PROVE  Place(t, c, q) \in Nat /\ Place(t + 1, c, q) \in Nat
         /\ Place(t, c, q) + 1 <= Place(t + 1, c, q)
<1>1. c \div q >= 1
  <2>1. c < q * (c \div q + 1) /\ c \div q \in Nat BY DivBounds
  <2>2. c \div q # 0 BY <2>1
  <2> QED BY <2>1, <2>2
<1> DEFINE x == Place(t, c, q)
           y == Place(t + 1, c, q)
           w == c \div q
<1>2. x \in Nat /\ y \in Nat /\ w \in Nat /\ y - x \in {w, w + 1} BY PlacesApart
<1>3. w >= 1 BY <1>1
<1> HIDE DEF x, y, w
<1>4. x \in Nat /\ y \in Nat /\ x + 1 <= y BY <1>2, <1>3
<1> QED BY <1>4 DEF x, y

LEMMA PlacesEnd ==
  ASSUME NEW q \in Nat \ {0}, NEW c \in Nat
  PROVE  /\ Place(q, c, q) = c
         /\ \A t \in Nat : t < q /\ c > 0 => Place(t, c, q) < c
         /\ q = c => \A t \in Nat : Place(t, c, q) = t
<1>1. ASSUME NEW t \in Nat PROVE (q * t) \div q = t
  <2> DEFINE x == (q * t) \div q
  <2>0. q * t \in Nat OBVIOUS
  <2>1. x \in Nat /\ q * x <= q * t /\ q * t < q * (x + 1) BY <2>0, DivBounds
  <2> HIDE DEF x
  <2>2. t < x + 1 BY <2>1, LessByFactor
  <2>3. ~(t < x)
    <3>1. SUFFICES ASSUME t < x PROVE FALSE OBVIOUS
    <3>2. q * t < q * x BY <2>1, <3>1
    <3>3. q * t \in Nat /\ q * x \in Nat BY <2>1
    <3> QED BY <2>1, <3>2, <3>3
  <2>4. t = x BY <2>1, <2>2, <2>3
  <2> QED BY <2>4 DEF x
<1>2. ASSUME NEW t \in Nat, t < q, c > 0 PROVE Place(t, c, q) < c
  <2> DEFINE x == (t * c) \div q
  <2>0. t * c \in Nat /\ q * c \in Nat /\ t * c < q * c BY <1>2
  <2>1. x \in Nat /\ q * x <= t * c BY <2>0, DivBounds
  <2> HIDE DEF x
  <2>2. q * x \in Nat BY <2>1
  <2>3. q * x < q * c BY <2>0, <2>1, <2>2
  <2>4. x < c BY <2>1, <2>3, LessByFactor
  <2> QED BY <2>4 DEF x, Place
<1>3. \A t \in Nat : q * t = t * q OBVIOUS
<1> QED BY <1>1, <1>2, <1>3 DEF Place

-----------------------------------------------------------------------------
(* The pass over the sites, turn by turn.                                  *)
UpTo(S, i) == {j \in S : j <= i}
Below(S, x) == {j \in S : j < x}

(* What the pass over the first i sites has seen and taken.                *)
Halfway(p, S, q, i) ==
  /\ p.taken \in Seq(S)
  /\ p.seen = Cardinality(UpTo(S, i))
  /\ Len(p.taken) <= q /\ Len(p.taken) <= p.seen
  /\ Len(p.taken) < q => p.seen <= Place(Len(p.taken), Cardinality(S), q)
  /\ \A k \in 1 .. Len(p.taken) :
       Cardinality(Below(S, p.taken[k])) = Place(k - 1, Cardinality(S), q)
  /\ q = Cardinality(S) => \A j \in UpTo(S, i) : \E k \in 1 .. Len(p.taken) : p.taken[k] = j

Turn(S, i) ==
  /\ Cardinality(S) \in Nat
  /\ Cardinality(UpTo(S, i - 1)) \in Nat
  /\ i \in S => /\ UpTo(S, i) = UpTo(S, i - 1) \cup {i}
                /\ Below(S, i) = UpTo(S, i - 1)
                /\ Cardinality(UpTo(S, i)) = Cardinality(UpTo(S, i - 1)) + 1
                /\ Cardinality(UpTo(S, i - 1)) < Cardinality(S)
  /\ i \notin S => UpTo(S, i) = UpTo(S, i - 1)

LEMMA UpToNext ==
  ASSUME NEW n \in Nat, NEW S, S \subseteq 1 .. n, NEW i \in 1 .. n
  PROVE  Turn(S, i)
<1>1. IsFiniteSet(1 .. n) BY FS_Interval
<1>2. IsFiniteSet(S) BY <1>1, FS_Subset
<1>3. \A j \in S : j \in Int /\ 1 <= j /\ j <= n OBVIOUS
<1>3a. \A j \in S : /\ j <= i <=> j <= i - 1 \/ j = i
                    /\ j < i <=> j <= i - 1
                    /\ ~(j <= 0)
  BY <1>3
<1>4. UpTo(S, i - 1) \subseteq S /\ UpTo(S, i) \subseteq S BY DEF UpTo
<1>5. IsFiniteSet(UpTo(S, i - 1)) /\ IsFiniteSet(UpTo(S, i)) BY <1>2, <1>4, FS_Subset
<1>6. i \in S => UpTo(S, i) = UpTo(S, i - 1) \cup {i} /\ Below(S, i) = UpTo(S, i - 1)
  BY <1>3a DEF UpTo, Below
<1>7. i \notin S => UpTo(S, i) = UpTo(S, i - 1) BY <1>3a DEF UpTo
<1>8. i \notin UpTo(S, i - 1) BY DEF UpTo
<1>9. i \in S => Cardinality(UpTo(S, i)) = Cardinality(UpTo(S, i - 1)) + 1
  BY <1>5, <1>6, <1>8, FS_AddElement
<1>10. Cardinality(UpTo(S, i - 1)) \in Nat /\ Cardinality(S) \in Nat BY <1>2, <1>5, FS_CardinalityType
<1>11. Cardinality(UpTo(S, i)) <= Cardinality(S) BY <1>2, <1>4, FS_Subset
<1>12. i \in S => Cardinality(UpTo(S, i - 1)) < Cardinality(S) BY <1>9, <1>10, <1>11
<1> QED BY <1>6, <1>7, <1>9, <1>10, <1>12 DEF Turn

(* One turn of the pass. *)
LEMMA HalfwayStep ==
  ASSUME NEW n \in Nat, NEW S, S \subseteq 1 .. n, NEW i \in S,
         NEW q \in Nat, q <= Cardinality(S), NEW p, Halfway(p, S, q, i - 1)
  PROVE  Halfway(Passing(p, i, q, Cardinality(S)), S, q, i)
<1> DEFINE c == Cardinality(S)
           s == p.seen
           k == p.taken
           t == Len(k)
           r == Passing(p, i, q, c)
<1>0. i \in 1 .. n OBVIOUS
<1>1. /\ c \in Nat /\ s \in Nat /\ s < c /\ UpTo(S, i) = UpTo(S, i - 1) \cup {i}
      /\ Cardinality(Below(S, i)) = s /\ Cardinality(UpTo(S, i)) = s + 1
  <2>1. s = Cardinality(UpTo(S, i - 1)) BY DEF Halfway
  <2>2. /\ Cardinality(S) \in Nat /\ Cardinality(UpTo(S, i - 1)) \in Nat
        /\ UpTo(S, i) = UpTo(S, i - 1) \cup {i} /\ Below(S, i) = UpTo(S, i - 1)
        /\ Cardinality(UpTo(S, i)) = Cardinality(UpTo(S, i - 1)) + 1
        /\ Cardinality(UpTo(S, i - 1)) < Cardinality(S)
    <3>1. Turn(S, i) BY <1>0, UpToNext
    <3> QED BY <3>1 DEF Turn
  <2> QED BY <2>1, <2>2
<1>2. /\ k \in Seq(S) /\ t \in Nat /\ t <= q /\ t <= s
      /\ t < q => s <= Place(t, c, q)
      /\ \A x \in 1 .. t : Cardinality(Below(S, k[x])) = Place(x - 1, c, q)
      /\ q = c => \A j \in UpTo(S, i - 1) : \E x \in 1 .. t : k[x] = j
  <2>1. k \in Seq(S) BY DEF Halfway
  <2>2. t \in Nat BY <2>1
  <2> QED BY <2>1, <2>2, Zenon DEF Halfway
<1>3. r.seen = s + 1 /\ r.taken = IF t < q /\ s = Place(t, c, q) THEN Append(k, i) ELSE k
  BY DEF Passing, Place
<1> HIDE DEF c, s, k, r
<1>4. CASE t < q /\ s = Place(t, c, q)
  <2>1. r.taken = Append(k, i) /\ r.taken \in Seq(S) /\ Len(r.taken) = t + 1
    BY <1>2, <1>3, <1>4
  <2>2. r.taken[t + 1] = i /\ \A x \in 1 .. t : r.taken[x] = k[x] BY <1>2, <2>1
  <2>3. t + 1 <= q /\ t + 1 <= s + 1 BY <1>1, <1>2, <1>4
  <2>4. t + 1 < q => s + 1 <= Place(t + 1, c, q)
    <3>1. Place(t, c, q) + 1 <= Place(t + 1, c, q) BY <1>1, <1>2, <1>4, PlacesGrow DEF c
    <3> QED BY <3>1, <1>4
  <2>5. ASSUME NEW x \in 1 .. t + 1 PROVE Cardinality(Below(S, r.taken[x])) = Place(x - 1, c, q)
    <3>1. CASE x = t + 1
      <4>1. x - 1 = t BY <3>1, <1>2
      <4> QED BY <3>1, <4>1, <2>2, <1>1, <1>4
    <3>2. CASE x # t + 1
      <4>1. x \in 1 .. t BY <3>2, <1>2
      <4> QED BY <4>1, <2>2, <1>2
    <3> QED BY <3>1, <3>2
  <2>6. ASSUME q = c, NEW j \in UpTo(S, i) PROVE \E x \in 1 .. t + 1 : r.taken[x] = j
    <3>1. CASE j = i
      <4>1. t + 1 \in 1 .. t + 1 BY <1>2
      <4> QED BY <3>1, <4>1, <2>2
    <3>2. CASE j # i
      <4>1. PICK x \in 1 .. t : k[x] = j BY <3>2, <2>6, <1>1, <1>2
      <4>2. x \in 1 .. t + 1 BY <1>2, <4>1
      <4> QED BY <4>1, <4>2, <2>2
    <3> QED BY <3>1, <3>2
  <2> QED BY <1>1, <1>3, <2>1, <2>3, <2>4, <2>5, <2>6 DEF Halfway, r, c
<1>5. CASE ~(t < q /\ s = Place(t, c, q))
  <2>1. r.taken = k BY <1>3, <1>5
  <2>2. t < q => s + 1 <= Place(t, c, q)
    <3>1. SUFFICES ASSUME t < q PROVE s + 1 <= Place(t, c, q) OBVIOUS
    <3>2. Place(t, c, q) \in Nat BY <1>1, <1>2, <3>1, PlacesGrow DEF c
    <3> QED BY <3>1, <3>2, <1>1, <1>2, <1>5
  <2>3. q # c
    <3>1. SUFFICES ASSUME q = c PROVE FALSE OBVIOUS
    <3>2. t < q BY <3>1, <1>1, <1>2
    <3>3. Place(t, c, q) = t BY <3>1, <3>2, <1>1, <1>2, PlacesEnd
    <3> QED BY <3>2, <3>3, <1>1, <1>2, <1>5
  <2>4. t <= s + 1 BY <1>1, <1>2
  <2> QED BY <1>1, <1>2, <1>3, <2>1, <2>2, <2>3, <2>4 DEF Halfway, r, c
<1> QED BY <1>4, <1>5

LEMMA SamplingAllTheWay ==
  ASSUME NEW n \in Nat, NEW S, S \subseteq 1 .. n, NEW q \in Nat, q <= Cardinality(S)
  PROVE  Halfway(Sampling(S, q, n)[n], S, q, n)
<1> DEFINE p == Sampling(S, q, n)
           Bad == {i \in 0 .. n : ~Halfway(p[i], S, q, i)}
<1>1. SUFFICES ASSUME Bad # {} PROVE FALSE
  <2>1. n \in 0 .. n OBVIOUS
  <2> QED BY <2>1
<1>2. PICK i \in Bad : \A j \in Bad : i <= j
  <2>1. Bad \subseteq Nat OBVIOUS
  <2> HIDE DEF Bad
  <2> QED BY <1>1, <2>1, LeastNatural
<1>3. /\ p[0] = [seen |-> 0, taken |-> <<>>]
      /\ \A x \in 1 .. n : p[x] = IF x \in S THEN Passing(p[x - 1], x, q, Cardinality(S)) ELSE p[x - 1]
  BY SamplingIsDefined
<1> HIDE DEF p
<1>4. i # 0
  <2>1. SUFFICES Halfway(p[0], S, q, 0) BY <1>2
  <2>2. UpTo(S, 0) = {}
    <3>1. \A j \in S : ~(j <= 0) OBVIOUS
    <3> QED BY <3>1 DEF UpTo
  <2>3. Cardinality(S) \in Nat
    <3>1. IsFiniteSet(1 .. n) BY FS_Interval
    <3> QED BY <3>1, FS_Subset, FS_CardinalityType
  <2>4. 0 < q => Place(0, Cardinality(S), q) \in Nat BY <2>3, PlacesGrow
  <2>5. p[0].seen = 0 /\ p[0].taken = <<>> /\ Cardinality({}) = 0 BY <1>3, FS_EmptySet
  <2>6. <<>> \in Seq(S) /\ Len(<<>>) = 0 OBVIOUS
  <2>7. /\ p[0].taken \in Seq(S) /\ p[0].seen = Cardinality(UpTo(S, 0))
        /\ Len(p[0].taken) = 0 /\ 1 .. Len(p[0].taken) = {}
        /\ Len(p[0].taken) <= q /\ Len(p[0].taken) <= p[0].seen
    <3>1. Cardinality(UpTo(S, 0)) = 0 BY <2>2, <2>5
    <3>2. Len(p[0].taken) = 0 /\ p[0].taken \in Seq(S) BY <2>5, <2>6
    <3>3. \A x \in Nat : x = 0 => 1 .. x = {} /\ x <= q OBVIOUS
    <3> QED BY <2>5, <3>1, <3>2, <3>3
  <2>8. Len(p[0].taken) < q => p[0].seen <= Place(Len(p[0].taken), Cardinality(S), q)
    BY <2>4, <2>5, <2>7
  <2> QED BY <2>2, <2>7, <2>8, Zenon DEF Halfway
<1>5. i \in 1 .. n /\ i - 1 \in 0 .. n /\ ~(i <= i - 1) BY <1>2, <1>4
<1>6. Halfway(p[i - 1], S, q, i - 1) BY <1>2, <1>5
<1>7. Halfway(p[i], S, q, i)
  <2>1. CASE i \in S
    <3>1. p[i] = Passing(p[i - 1], i, q, Cardinality(S)) BY <2>1, <1>3, <1>5
    <3>2. Halfway(Passing(p[i - 1], i, q, Cardinality(S)), S, q, i) BY <2>1, <1>6, HalfwayStep
    <3> QED BY <3>1, <3>2
  <2>2. CASE i \notin S
    <3>1. p[i] = p[i - 1] BY <2>2, <1>3, <1>5
    <3>2. i \in 1 .. n BY <1>5
    <3>3. UpTo(S, i) = UpTo(S, i - 1) 
      <4>1. Turn(S, i) BY <3>2, UpToNext
      <4> QED BY <2>2, <4>1 DEF Turn
    <3> QED BY <1>6, <3>1, <3>3 DEF Halfway
  <2> QED BY <2>1, <2>2
<1> QED BY <1>2, <1>7

(* The whole pass takes as many as asked for, spread evenly, and all of them *)
(* if as many are asked for as there are.                                    *)
Spread(S, taken, q) ==
  /\ taken \in Seq(S) /\ Len(taken) = q
  /\ \A j, k \in DOMAIN taken : Gap(S, taken, j) - Gap(S, taken, k) \in -1 .. 1
  /\ q = Cardinality(S) => ToSet(taken) = S

LEMMA SamplingIsSpread ==
  ASSUME NEW n \in Nat, NEW S, S \subseteq 1 .. n, NEW q \in Nat, q <= Cardinality(S)
  PROVE  Spread(S, Sampling(S, q, n)[n].taken, q)
<1> DEFINE p == Sampling(S, q, n)[n]
           k == p.taken
           t == Len(k)
           c == Cardinality(S)
<1>1. Halfway(p, S, q, n) BY SamplingAllTheWay
<1>2. UpTo(S, n) = S
  <2>1. \A j \in S : j <= n OBVIOUS
  <2> QED BY <2>1 DEF UpTo
<1>3. c \in Nat
  <2>1. IsFiniteSet(1 .. n) BY FS_Interval
  <2> QED BY <2>1, FS_Subset, FS_CardinalityType
<1> HIDE DEF p
<1>4. k \in Seq(S) /\ t \in Nat /\ DOMAIN k = 1 .. t
  <2>1. k \in Seq(S) BY <1>1 DEF Halfway
  <2> QED BY <2>1
<1>5. /\ p.seen = c /\ t <= q
      /\ t < q => p.seen <= Place(t, c, q)
      /\ \A x \in 1 .. t : Cardinality(Below(S, k[x])) = Place(x - 1, c, q)
      /\ q = c => \A j \in S : \E x \in 1 .. t : k[x] = j
  BY <1>1, <1>2, Zenon DEF Halfway
<1>6. t = q
  <2>1. SUFFICES ASSUME t < q PROVE FALSE BY <1>4, <1>5
  <2>2. c > 0 /\ q \in Nat \ {0} BY <2>1, <1>3, <1>4
  <2>3. Place(t, c, q) < c /\ Place(t, c, q) \in Nat
    <3>1. Place(t, c, q) \in Nat BY <2>2, <1>3, <1>4, PlacesGrow
    <3> QED BY <2>1, <2>2, <3>1, <1>3, <1>4, PlacesEnd
  <2> QED BY <2>1, <2>3, <1>3, <1>5
<1>7. ASSUME NEW x \in 1 .. q PROVE Gap(S, k, x) \in Int /\ Gap(S, k, x) - c \div q \in {0, 1}
  <2>1. q \in Nat \ {0} /\ x - 1 \in Nat /\ (x - 1) + 1 = x BY <1>7
  <2>2. Before(S, k, x) = Place(x - 1, c, q)
    <3>1. ~(x > t) /\ x \in 1 .. t BY <1>4, <1>6
    <3>2. Before(S, k, x) = Cardinality(Below(S, k[x])) BY <3>1 DEF Before, Below
    <3> QED BY <3>1, <3>2, <1>5
  <2>3. Before(S, k, x + 1) = Place(x, c, q)
    <3>1. CASE x = q
      <4>1. x + 1 > t BY <3>1, <1>4, <1>6
      <4> QED BY <3>1, <4>1, <2>1, <1>3, PlacesEnd DEF Before
    <3>2. CASE x # q
      <4>1. ~(x + 1 > t) /\ x + 1 \in 1 .. t /\ (x + 1) - 1 = x BY <3>2, <1>4, <1>6
      <4>2. Before(S, k, x + 1) = Cardinality(Below(S, k[x + 1])) BY <4>1 DEF Before, Below
      <4> QED BY <4>1, <4>2, <1>5
    <3> QED BY <3>1, <3>2
  <2> DEFINE a == Place(x - 1, c, q)
             b == Place(x, c, q)
             w == c \div q
  <2>4. a \in Nat /\ b \in Nat /\ w \in Nat /\ b - a \in {w, w + 1} BY <2>1, <1>3, PlacesApart
  <2>5. Gap(S, k, x) = b - a BY <2>2, <2>3 DEF Gap
  <2> HIDE DEF a, b, w
  <2>6. Gap(S, k, x) \in Int /\ Gap(S, k, x) - w \in {0, 1} BY <2>4, <2>5
  <2> QED BY <2>6 DEF w
<1>8. ASSUME NEW x \in 1 .. q, NEW y \in 1 .. q PROVE Gap(S, k, x) - Gap(S, k, y) \in -1 .. 1
  <2> DEFINE a == Gap(S, k, x)
             b == Gap(S, k, y)
             w == c \div q
  <2>1. w \in Int BY <1>3
  <2>2. a \in Int /\ b \in Int /\ a - w \in {0, 1} /\ b - w \in {0, 1} BY <1>7
  <2> HIDE DEF a, b, w
  <2>3. a - b \in -1 .. 1 BY <2>1, <2>2
  <2> QED BY <2>3 DEF a, b
<1>9. q = c => ToSet(k) = S
  <2>1. ToSet(k) = {k[x] : x \in 1 .. t} BY <1>4 DEF ToSet
  <2>2. \A x \in 1 .. t : k[x] \in S BY <1>4
  <2> QED BY <2>1, <2>2, <1>5
<1> QED BY <1>4, <1>6, <1>8, <1>9 DEF Spread, p

Kinds == {"transfer", "loop"}

LEMMA OfKindIsFinite ==
  ASSUME NEW region \in Regions, NEW kind \in Kinds
  PROVE  /\ Len(region.sites) \in Nat /\ OfKind(region, kind) \subseteq 1 .. Len(region.sites)
         /\ IsFiniteSet(OfKind(region, kind)) /\ Cardinality(OfKind(region, kind)) \in Nat
<1>1. region.sites \in Seq(Sites) BY DEF Regions
<1>2. Len(region.sites) \in Nat /\ DOMAIN region.sites = 1 .. Len(region.sites) BY <1>1
<1>3. OfKind(region, kind) \subseteq DOMAIN region.sites BY DEF OfKind, InScope
<1>4. IsFiniteSet(1 .. Len(region.sites)) BY <1>2, FS_Interval
<1> QED BY <1>2, <1>3, <1>4, FS_Subset, FS_CardinalityType

LEMMA QuotasFit ==
  ASSUME NEW region \in Regions, NEW kind \in Kinds
  PROVE  Quota(region, kind) \in Nat /\ Quota(region, kind) <= Cardinality(OfKind(region, kind))
<1> DEFINE t == Cardinality(OfKind(region, "transfer"))
           l == Cardinality(OfKind(region, "loop"))
<1>1. t \in Nat /\ l \in Nat /\ MaxSites \in Nat BY OfKindIsFinite, LimitsAssumption DEF Kinds
<1>2. /\ Quota(region, "transfer") = AtMost(t, MaxSites)
      /\ Quota(region, "loop") = AtMost(l, MaxSites - AtMost(t, MaxSites))
  BY DEF Quota, TransferQuota, LoopQuota
<1>3. kind = "transfer" \/ kind = "loop" BY DEF Kinds
<1> HIDE DEF t, l
<1>4. /\ AtMost(t, MaxSites) \in Nat /\ AtMost(t, MaxSites) <= t /\ AtMost(t, MaxSites) <= MaxSites
  BY <1>1 DEF AtMost
<1>5. /\ AtMost(l, MaxSites - AtMost(t, MaxSites)) \in Nat
      /\ AtMost(l, MaxSites - AtMost(t, MaxSites)) <= l
  BY <1>1, <1>4 DEF AtMost
<1> QED BY <1>2, <1>3, <1>4, <1>5 DEF t, l

LEMMA SampleIsSpread ==
  ASSUME NEW region \in Regions, NEW kind \in Kinds
  PROVE  Spread(OfKind(region, kind), Sample(region, kind), Quota(region, kind))
BY OfKindIsFinite, QuotasFit, SamplingIsSpread DEF Sample

(* If the sites are no more than the limit, all of them are sampled, once.  *)
LEMMA SampledIsWhole ==
  ASSUME NEW region \in Regions, SiteCount(region) <= MaxSites
  PROVE  Sampled(region) = InScope(region)
<1> DEFINE T == OfKind(region, "transfer")
           L == OfKind(region, "loop")
           t == Cardinality(T)
           l == Cardinality(L)
<1>1. t \in Nat /\ l \in Nat /\ MaxSites \in Nat /\ IsFiniteSet(T) /\ IsFiniteSet(L)
  BY OfKindIsFinite, LimitsAssumption DEF Kinds
<1>2. InScope(region) = T \cup L /\ T \cap L = {}
  <2>1. region.sites \in Seq(Sites) BY DEF Regions
  <2>2. \A i \in DOMAIN region.sites : region.sites[i] \in Sites BY <2>1
  <2>3. \A i \in DOMAIN region.sites : region.sites[i].kind \in {"transfer", "loop"} BY <2>2 DEF Sites
  <2> QED BY <2>3 DEF OfKind, InScope
<1>3. SiteCount(region) = t + l
  <2>1. Cardinality(T \cup L) = Cardinality(T) + Cardinality(L) - Cardinality(T \cap L)
    BY <1>1, FS_Union
  <2>2. Cardinality(T \cap L) = 0 BY <1>2, FS_EmptySet
  <2> QED BY <2>1, <2>2, <1>1, <1>2 DEF SiteCount
<1>4. Quota(region, "transfer") = t /\ Quota(region, "loop") = l
  <2>1. /\ Quota(region, "transfer") = AtMost(t, MaxSites)
        /\ Quota(region, "loop") = AtMost(l, MaxSites - AtMost(t, MaxSites))
    BY DEF Quota, TransferQuota, LoopQuota
  <2> HIDE DEF t, l
  <2>2. AtMost(t, MaxSites) = t /\ AtMost(l, MaxSites - t) = l BY <1>1, <1>3 DEF AtMost
  <2> QED BY <2>1, <2>2
<1>5. /\ Spread(T, Sample(region, "transfer"), t)
      /\ Spread(L, Sample(region, "loop"), l)
  BY <1>4, SampleIsSpread DEF Kinds
<1>6. ToSet(Sample(region, "transfer")) = T /\ ToSet(Sample(region, "loop")) = L
  BY <1>5 DEF Spread
<1> QED BY <1>2, <1>6 DEF Sampled

LEMMA SampledInScope ==
  ASSUME NEW region \in Regions
  PROVE  Sampled(region) \subseteq InScope(region)
<1>1. ASSUME NEW kind \in Kinds PROVE ToSet(Sample(region, kind)) \subseteq InScope(region)
  <2>1. Sample(region, kind) \in Seq(OfKind(region, kind)) BY SampleIsSpread DEF Spread
  <2>2. \A x \in DOMAIN Sample(region, kind) : Sample(region, kind)[x] \in OfKind(region, kind) BY <2>1
  <2>3. OfKind(region, kind) \subseteq InScope(region) BY DEF OfKind
  <2> QED BY <2>2, <2>3 DEF ToSet
<1> QED BY <1>1 DEF Sampled, Kinds

-----------------------------------------------------------------------------
(* Initially every region to come has its equal share of the whole.        *)
LEMMA Start == ASSUME Init PROVE Inv
<1>0. regions \in RegionLists /\ regions \in Seq(Regions) BY RegionsAssumption DEF Init
<1>1. Types
  <2>1. Len(regions) \in Nat /\ at \in 1 .. Len(regions) + 1 BY <1>0 DEF Init
  <2>2. spans \in Seq(SpanRecords) /\ DOMAIN spans = {} /\ sites = {} BY DEF Init
  <2>3. Idle BY <2>2 DEF Idle, Init
  <2>4. budget \in Nat BY LimitsAssumption DEF Init
  <2> QED BY <1>0, <2>1, <2>2, <2>3, <2>4 DEF Init, Types
<1>2. Cardinality(ScannableFrom(1)) \in Nat BY <1>0, ScannableIsFinite
<1>3. MaxDecoded \in Nat BY LimitsAssumption
<1>4. Scanned > 0 => EqualShare \in Nat /\ Scanned * EqualShare <= MaxDecoded /\ EqualShare <= MaxDecoded
  <2>1. SUFFICES ASSUME Scanned > 0 PROVE EqualShare \in Nat /\ Scanned * EqualShare <= MaxDecoded
                                           /\ EqualShare <= MaxDecoded
    OBVIOUS
  <2>2. Scanned \in Nat \ {0} BY <1>2, <2>1 DEF Scanned
  <2>3. EqualShare \in Nat /\ Scanned * EqualShare <= MaxDecoded
    BY <2>2, EqualSharesFit DEF EqualShare
  <2>4. EqualShare <= MaxDecoded BY <2>2, <1>3 DEF EqualShare
  <2> QED BY <2>3, <2>4
<1>5. Committed = 0 BY DEF Init, Committed, Idle
<1>6. Reserved BY <1>2, <1>3, <1>4, <1>5 DEF Init, Reserved, Scanned
<1>7. FairShare BY <1>4 DEF Init, FairShare, EqualShare
<1> QED BY <1>1, <1>6, <1>7 DEF Inv

-----------------------------------------------------------------------------
(* The steps. The list of regions never changes, nor what is due to each.  *)
LEMMA SharesAreConstant ==
  ASSUME UNCHANGED regions
  PROVE  /\ \A first : ScannableFrom(first)' = ScannableFrom(first)
         /\ Scanned' = Scanned /\ EqualShare' = EqualShare
BY DEF ScannableFrom, Scanned, EqualShare, Scannable

(* What is reserved, once more with the types the arithmetic needs. *)
LEMMA Facts ==
  ASSUME Inv
  PROVE  /\ MaxDecoded \in Nat /\ decoded_budget \in Nat /\ budget \in Nat /\ region_decoded \in Nat
         /\ regions \in Seq(Regions) /\ Len(regions) \in Nat
         /\ remaining_regions \in 0 .. Len(regions)
         /\ Committed \in Nat /\ Committed <= MaxDecoded /\ decoded_budget <= Committed
         /\ Scanned \in Nat /\ (Scanned > 0 => EqualShare \in Nat)
<1>1. regions \in RegionLists /\ at \in Nat \ {0} BY RegionsAssumption DEF Inv, Types
<1>2. regions \in Seq(Regions) /\ Len(regions) \in Nat BY <1>1, RegionsAssumption
<1>3. Scanned \in Nat /\ remaining_regions \in 0 .. Len(regions)
  BY <1>1, ScannableIsFinite DEF Scanned, Inv, Reserved
<1>4. Scanned > 0 => EqualShare \in Nat BY <1>3, EqualSharesFit DEF EqualShare
<1>5. MaxDecoded \in Nat BY LimitsAssumption
<1>6. decoded_budget \in Nat /\ budget \in Nat /\ region_decoded \in Nat /\ region_decoded <= budget
  BY DEF Inv, Types, Reserved
<1>7. Committed \in Nat /\ decoded_budget <= Committed BY <1>6 DEF Committed
<1> QED BY <1>1, <1>2, <1>3, <1>4, <1>5, <1>6, <1>7 DEF Inv, Reserved

LEMMA SkipEmptyStep == ASSUME Inv, SkipEmpty PROVE Inv'
<1> USE DEF AtRegion
<1>1. Types' BY Facts DEF SkipEmpty, Inv, Types, Idle, counters, spending
<1>2. Cardinality(ScannableFrom(at + 1)) = Cardinality(ScannableFrom(at))
  BY Facts, PassingOne DEF SkipEmpty, This, Inv, Types
<1>3. Committed' = Committed BY DEF SkipEmpty, Committed, Idle, spending
<1>4. Reserved' BY <1>2, <1>3, SharesAreConstant DEF SkipEmpty, Inv, Reserved, spending
<1>5. FairShare' BY SharesAreConstant DEF SkipEmpty, Inv, FairShare, spending
<1> QED BY <1>1, <1>4, <1>5 DEF Inv

LEMMA SkipOverflowingStep == ASSUME Inv, SkipOverflowing PROVE Inv'
<1> USE DEF AtRegion
<1>1. Types' BY Facts DEF SkipOverflowing, Inv, Types, Idle, spending
<1>2. Cardinality(ScannableFrom(at + 1)) = remaining_regions - 1
  BY Facts, PassingOne DEF SkipOverflowing, This, Inv, Types, Reserved
<1>3. Cardinality(ScannableFrom(at + 1)) \in Nat
  BY Facts, ScannableIsFinite DEF Inv, Types
<1>4. remaining_regions' = remaining_regions - 1 BY <1>2, <1>3, Facts DEF SkipOverflowing
<1>5. Committed' = Committed BY DEF SkipOverflowing, Committed, Idle, spending
<1>6. Scanned > 0 => remaining_regions' * EqualShare <= remaining_regions * EqualShare
  BY <1>2, <1>3, <1>4, Facts
<1>7. Scanned > 0 => remaining_regions' * EqualShare <= MaxDecoded - Committed
  <2>1. SUFFICES ASSUME Scanned > 0 PROVE remaining_regions' * EqualShare <= MaxDecoded - Committed
    OBVIOUS
  <2>2. remaining_regions' * EqualShare \in Nat /\ remaining_regions * EqualShare \in Nat
    BY <2>1, <1>2, <1>3, <1>4, Facts
  <2> QED BY <2>1, <2>2, <1>6, Facts DEF Inv, Reserved
<1>8. Reserved'
  BY <1>2, <1>4, <1>5, <1>7, SharesAreConstant DEF SkipOverflowing, Inv, Reserved, spending
<1>9. FairShare' BY SharesAreConstant DEF SkipOverflowing, Inv, FairShare, spending
<1> QED BY <1>1, <1>8, <1>9 DEF Inv

(* The region at hand gets its share, and what is left covers the others.  *)
LEMMA SelectSitesStep == ASSUME Inv, SelectSites PROVE Inv'
<1> USE DEF AtRegion
<1>0. This \in Regions /\ (\A i \in DOMAIN This.sites : This.sites[i].at < This.words)
      /\ regions' = regions /\ at' = at + 1 /\ spans' = <<>>
  BY Facts, RegionsAssumption DEF SelectSites, This, Inv, Types
<1>1. Committed = decoded_budget /\ Unspent = MaxDecoded - decoded_budget
  BY Facts DEF SelectSites, Committed, Idle, Unspent
<1>2. Cardinality(ScannableFrom(at + 1)) = remaining_regions - 1
  BY Facts, PassingOne DEF SelectSites, This, Inv, Types, Reserved
<1>3. Cardinality(ScannableFrom(at + 1)) \in Nat
  BY Facts, ScannableIsFinite DEF Inv, Types
<1>4. remaining_regions \in Nat \ {0} /\ remaining_regions' = remaining_regions - 1
  BY <1>2, <1>3, Facts DEF SelectSites
<1>5. Scanned > 0
  <2>1. ScannableFrom(at) \subseteq ScannableFrom(1) /\ at \in ScannableFrom(at)
    BY Facts DEF ScannableFrom, SelectSites, This, Inv, Types
  <2>2. IsFiniteSet(ScannableFrom(1)) BY ScannableIsFinite DEF Inv, Types
  <2> QED BY <2>1, <2>2, FS_EmptySet, Facts DEF Scanned
<1> DEFINE R == MaxDecoded - decoded_budget
           m == remaining_regions
<1>6. R \in Nat /\ m * EqualShare <= R /\ EqualShare \in Nat
  BY <1>1, <1>5, Facts DEF Inv, Reserved
<1>7. Share = R \div m BY <1>1, <1>4 DEF Share
<1>8. /\ Share \in Nat /\ Share <= R /\ EqualShare <= Share
      /\ (m - 1) * EqualShare <= R - Share
  BY <1>4, <1>6, <1>7, ShareLeavesEnough
<1> HIDE DEF R
<1>9. \A i \in sites' : i \in DOMAIN This.sites
  BY <1>0, SampledInScope DEF SelectSites, InScope
<1>10. Types'
  <2>1. at \in 1 .. Len(regions) /\ regions'[at' - 1] = This
    BY <1>0, Facts DEF SelectSites, This, Inv, Types
  <2>2. total_sites' \in Nat BY <1>0, SitesAreCounted DEF SelectSites, Inv, Types
  <2>3. truncated' \in BOOLEAN /\ decoded_budget' \in Nat /\ processed_sites' \in Nat
    BY DEF SelectSites, Inv, Types
  <2>4. budget' \in Nat /\ region_decoded' \in Nat BY <1>8 DEF SelectSites
  <2>5. at' \in 1 .. Len(regions') + 1 /\ at' > 1 /\ regions' \in RegionLists
    BY <2>1, <1>0, Facts DEF Inv, Types
  <2>6. spans' \in Seq(SpanRecords) /\ DOMAIN spans' = {} BY <1>0
  <2> QED BY <2>1, <2>2, <2>3, <2>4, <2>5, <2>6, <1>9 DEF Types
<1>11. Committed' \in {decoded_budget, decoded_budget + Share}
  BY <1>8, Facts DEF SelectSites, Committed
<1>12. MaxDecoded - Committed' \in {R, R - Share} /\ Committed' <= MaxDecoded
  BY <1>8, <1>11, Facts DEF R
<1>13. Reserved'
  <2>1. remaining_regions' * EqualShare <= MaxDecoded - Committed'
    <3>1. remaining_regions' * EqualShare = (m - 1) * EqualShare BY <1>4
    <3>2. (m - 1) * EqualShare \in Nat BY <1>4, <1>6
    <3> QED BY <3>1, <3>2, <1>6, <1>8, <1>12
  <2>2. region_decoded' <= budget' BY <1>8 DEF SelectSites
  <2>3. remaining_regions' = Cardinality(ScannableFrom(at))'
    BY <1>0, <1>2, <1>4 DEF ScannableFrom, Scannable
  <2> QED BY <1>0, <1>12, <2>1, <2>2, <2>3, SharesAreConstant DEF Reserved
<1>14. FairShare' BY <1>0, <1>8, SharesAreConstant DEF SelectSites, FairShare, EqualShare
<1> QED BY <1>10, <1>13, <1>14 DEF Inv

LEMMA MergeSiteStep == ASSUME Inv, MergeSite PROVE Inv'
<1>1. PICK i \in sites :
        /\ sites' = sites \ {i}
        /\ spans' = Merged(spans, Window(regions[at - 1], regions[at - 1].sites[i]), budget)
        /\ UNCHANGED <<regions, at, remaining_regions, counters, spending>>
  BY DEF MergeSite
<1> DEFINE s == regions[at - 1].sites[i]
<1>2. at - 1 \in 1 .. Len(regions) /\ regions[at - 1] \in Regions /\ s \in Sites
      /\ s.at < regions[at - 1].words
  <2>1. at - 1 \in 1 .. Len(regions) /\ regions[at - 1] \in Regions
    BY <1>1, Facts DEF Inv, Types, Idle
  <2>2. i \in DOMAIN regions[at - 1].sites /\ regions \in RegionLists BY <1>1 DEF Inv, Types
  <2>3. regions[at - 1].sites \in Seq(Sites) BY <2>1 DEF Regions
  <2> QED BY <2>1, <2>2, <2>3, Facts, RegionsAssumption
<1>3. regions[at - 1].words \in Nat BY <1>2 DEF Regions
<1>4. Inside(Window(regions[at - 1], s), regions[at - 1]) BY <1>2, WindowIsInside
<1>5. /\ spans' \in Seq(SpanRecords) /\ spans' # <<>>
      /\ \A k \in DOMAIN spans' : Inside(spans'[k], regions[at - 1])
  BY <1>1, <1>3, <1>4, MergedIsInside DEF Inv, Types
<1>6. Types'
  BY <1>1, <1>2, <1>5 DEF Inv, Types, counters, spending, Inside
<1>7. ~Idle /\ ~Idle' BY <1>1, <1>5 DEF Idle
<1>8. Committed' = Committed BY <1>1, <1>7 DEF Committed, spending
<1>9. Reserved' BY <1>1, <1>8, SharesAreConstant DEF Inv, Reserved, spending
<1>10. FairShare' BY <1>1, SharesAreConstant DEF Inv, FairShare, spending
<1> QED BY <1>6, <1>9, <1>10 DEF Inv

(* Taking the first span off keeps the others within the region.           *)
LEMMA TailKeeps ==
  ASSUME Types, spans # <<>>, spans' = Tail(spans)
  PROVE  /\ Head(spans) \in SpanRecords /\ Size(Head(spans)) \in Nat
         /\ spans' \in Seq(SpanRecords)
         /\ \A i \in DOMAIN spans' : Inside(spans'[i], regions[at - 1])
<1>1. Inside(spans[1], regions[at - 1]) BY DEF Types
<1>2. Head(spans) \in SpanRecords /\ Size(Head(spans)) \in Nat
  BY <1>1 DEF Inside, SpanRecords, Size, Types
<1>3. spans' \in Seq(SpanRecords) BY DEF Types
<1>4. \A i \in DOMAIN spans' : i + 1 \in DOMAIN spans /\ spans'[i] = spans[i + 1] BY DEF Types
<1> QED BY <1>2, <1>3, <1>4 DEF Types

LEMMA DecodeSpanStep == ASSUME Inv, DecodeSpan PROVE Inv'
<1> DEFINE size == Size(Head(spans))
<1>1. /\ regions' = regions /\ at' = at /\ remaining_regions' = remaining_regions
      /\ budget' = budget /\ sites' = sites /\ spans # <<>> /\ spans' = Tail(spans)
      /\ region_decoded' = region_decoded + size /\ decoded_budget' = decoded_budget + size
      /\ region_decoded + size <= budget /\ decoded_budget + size <= MaxDecoded
  BY DEF DecodeSpan, Affordable
<1>2. /\ Head(spans) \in SpanRecords /\ size \in Nat /\ spans' \in Seq(SpanRecords)
      /\ \A i \in DOMAIN spans' : Inside(spans'[i], regions[at - 1])
  BY <1>1, TailKeeps DEF Inv
<1>3. processed_sites' \in Nat /\ total_sites' = total_sites /\ truncated' = truncated
  <2>1. Head(spans).site_count \in Nat BY <1>2 DEF SpanRecords
  <2> QED BY <2>1 DEF DecodeSpan, Inv, Types
<1>4. ~Idle BY <1>1 DEF Idle
<1> HIDE DEF size
<1>5. Types' BY <1>1, <1>2, <1>3, <1>4 DEF Inv, Types, Inside
<1>6. Committed' \in Nat /\ Committed' <= Committed
  <2>1. Committed = decoded_budget + (budget - region_decoded) BY <1>4 DEF Committed
  <2>2. Committed' \in {decoded_budget', decoded_budget' + (budget' - region_decoded')}
    BY DEF Committed
  <2>3. Committed' \in {decoded_budget + size, (decoded_budget + size) + (budget - (region_decoded + size))}
    BY <1>1, <2>2
  <2>4. /\ decoded_budget \in Nat /\ budget \in Nat /\ region_decoded \in Nat /\ size \in Nat
        /\ region_decoded + size <= budget
    BY <1>1, <1>2, Facts
  <2> QED BY <2>1, <2>3, <2>4
<1>7. Reserved'
  <2>1. Committed' <= MaxDecoded BY <1>6, Facts
  <2>2. Scanned > 0 => remaining_regions * EqualShare <= MaxDecoded - Committed'
    <3>1. SUFFICES ASSUME Scanned > 0 PROVE remaining_regions * EqualShare <= MaxDecoded - Committed'
      OBVIOUS
    <3>2. remaining_regions * EqualShare \in Nat BY <3>1, Facts
    <3> QED BY <3>1, <3>2, <1>6, Facts DEF Inv, Reserved
  <2> QED BY <1>1, <2>1, <2>2, SharesAreConstant DEF Inv, Reserved
<1>8. FairShare' BY <1>1, SharesAreConstant DEF Inv, FairShare
<1> QED BY <1>5, <1>7, <1>8 DEF Inv

LEMMA DropSpanStep == ASSUME Inv, DropSpan PROVE Inv'
<1>1. /\ regions' = regions /\ at' = at /\ remaining_regions' = remaining_regions
      /\ budget' = budget /\ sites' = sites /\ spans # <<>> /\ spans' = Tail(spans)
      /\ region_decoded' = region_decoded /\ decoded_budget' = decoded_budget
      /\ total_sites' = total_sites /\ processed_sites' = processed_sites /\ truncated' = TRUE
  BY DEF DropSpan, spending, Cut
<1>2. /\ spans' \in Seq(SpanRecords)
      /\ \A i \in DOMAIN spans' : Inside(spans'[i], regions[at - 1])
  BY <1>1, TailKeeps DEF Inv
<1>3. ~Idle BY <1>1 DEF Idle
<1>4. Types' BY <1>1, <1>2, <1>3 DEF Inv, Types, Inside
<1>5. Committed' \in Nat /\ Committed' <= Committed
  BY <1>1, <1>3, Facts DEF Committed, Inv, Reserved
<1>6. Reserved'
  <2>1. Committed' <= MaxDecoded BY <1>5, Facts
  <2>2. Scanned > 0 => remaining_regions * EqualShare <= MaxDecoded - Committed'
    <3>1. SUFFICES ASSUME Scanned > 0 PROVE remaining_regions * EqualShare <= MaxDecoded - Committed'
      OBVIOUS
    <3>2. remaining_regions * EqualShare \in Nat BY <3>1, Facts
    <3> QED BY <3>1, <3>2, <1>5, Facts DEF Inv, Reserved
  <2> QED BY <1>1, <2>1, <2>2, SharesAreConstant DEF Inv, Reserved
<1>7. FairShare' BY <1>1, SharesAreConstant DEF Inv, FairShare
<1> QED BY <1>4, <1>6, <1>7 DEF Inv

LEMMA StutterStep == ASSUME Inv, UNCHANGED vars PROVE Inv'
<1>1. Types' BY DEF vars, counters, spending, Inv, Types, Idle, Inside
<1>2. Committed' = Committed BY DEF vars, spending, Committed, Idle
<1>3. Reserved' BY <1>2, SharesAreConstant DEF vars, spending, Inv, Reserved
<1>4. FairShare' BY SharesAreConstant DEF vars, spending, Inv, FairShare
<1> QED BY <1>1, <1>3, <1>4 DEF Inv

LEMMA Invariance == Spec => []Inv
<1>1. Init => Inv BY Start
<1>2. Inv /\ [Next]_vars => Inv'
  BY SkipEmptyStep, SkipOverflowingStep, SelectSitesStep, MergeSiteStep, DecodeSpanStep,
     DropSpanStep, StutterStep DEF Next
<1> QED BY <1>1, <1>2, PTL DEF Spec

-----------------------------------------------------------------------------
(* analyze_vmp_regions never reads behind a region, whatever the sites and *)
(* however the windows are merged.                                         *)
THEOREM RegionsTypeCorrect == Spec => []RegionsTypeOK
<1>1. Inv => RegionsTypeOK
  <2>1. SUFFICES ASSUME Inv PROVE RegionsTypeOK OBVIOUS
  <2>2. \A i \in DOMAIN spans : Inside(spans[i], regions[at - 1]) BY <2>1 DEF Inv, Types
  <2> QED BY <2>1, <2>2, Facts DEF Inv, Types, RegionsTypeOK, Inside, SpanRecords
<1> QED BY <1>1, Invariance, PTL

(* However many regions and sites there are, all of the spans together     *)
(* cost no more than the budget.                                           *)
THEOREM DecodingIsBounded == Spec => []WithinBudget
<1>1. Inv => WithinBudget BY Facts DEF Inv, Reserved, WithinBudget
<1> QED BY <1>1, Invariance, PTL

(* No number and no size of earlier regions leaves a region less than its  *)
(* equal share of the budget.                                              *)
THEOREM NoRegionStarves == Spec => []FairShare
<1>1. Inv => FairShare BY DEF Inv
<1> QED BY <1>1, Invariance, PTL

-----------------------------------------------------------------------------
(* What the scan owes at any time: a site of a regular region was looked   *)
(* at, waits for its window, or lies within a span that is still there.    *)
Offset(r, i) == regions[r].sites[i].at
InSpan(x, span) == span.begin <= x /\ x < span.end

Regular(region) == Scannable(region) /\ ~region.overflows /\ SiteCount(region) <= MaxSites
Small(region) == region.words <= AtMost(MaxSpan, EqualShare)

(* Still to be decoded: in a window to come, or within a span. *)
Pending(r, i) ==
  r = at - 1 /\ (i \in sites \/ \E k \in DOMAIN spans : InSpan(Offset(r, i), spans[k]))

Looked ==
  \A r \in 1 .. at - 1 :
    Regular(regions[r]) /\ (~truncated \/ Small(regions[r])) =>
      \A i \in InScope(regions[r]) : <<r, i>> \in DOMAIN evaluated \/ Pending(r, i)

Undisturbed ==
  ~truncated => \A r \in 1 .. at - 1 : Scannable(regions[r]) => Regular(regions[r])

(* P[k] is the number of sites of the first k spans. *)
Tallied(P) ==
  /\ P \in [0 .. Len(spans) -> Nat] /\ P[0] = 0
  /\ \A k \in 1 .. Len(spans) : P[k] = P[k - 1] + spans[k].site_count
  /\ processed_sites + P[Len(spans)] + Cardinality(sites) = total_sites
AllCounted == ~truncated => \E P : Tallied(P)

Ordered == \A k \in DOMAIN spans, i \in sites : spans[k].begin <= Offset(at - 1, i)

(* What was decoded of a small region lies before what is still to come. *)
Roomy ==
  /\ sites # {} => region_decoded = 0
  /\ ~Idle /\ Small(regions[at - 1]) =>
       /\ spans # <<>> => region_decoded <= spans[1].begin
       /\ \A k \in 1 .. Len(spans) - 1 : spans[k].end < spans[k + 1].begin

Coverage == IsFiniteSet(sites) /\ Looked /\ Undisturbed /\ AllCounted /\ Ordered /\ Roomy

-----------------------------------------------------------------------------
LEMMA BagsOfLooks ==
  /\ DOMAIN EmptyBag = {}
  /\ \A A, B : DOMAIN (A (+) SetToBag(B)) = DOMAIN A \cup B
BY DEF EmptyBag, SetToBag, (+)

(* Merging joins the window to the last span or puts it behind.            *)
LEMMA MergedIsOneOfTwo ==
  ASSUME NEW merged \in Seq(SpanRecords), NEW window \in SpanRecords, NEW share
  PROVE  LET m == Merged(merged, window, share)
             n == Len(merged)
         IN \/ /\ m = Append(merged, window)
               /\ n > 0 => ~(Touching(merged[n], window) /\ MergeFits(merged[n], window, share))
            \/ /\ n > 0 /\ Touching(merged[n], window)
               /\ Len(m) = n /\ DOMAIN m = 1 .. n
               /\ \A k \in 1 .. n - 1 : m[k] = merged[k]
               /\ m[n].begin = merged[n].begin
               /\ m[n].end >= merged[n].end /\ m[n].end >= window.end
               /\ m[n].site_count = merged[n].site_count + 1
<1> DEFINE n == Len(merged)
           fits == merged # <<>> /\ Touching(Last(merged), window)
                     /\ MergeFits(Last(merged), window, share)
           last == [begin |-> merged[n].begin, end |-> MergedEnd(merged[n], window),
                    site_count |-> merged[n].site_count + 1]
<1>0. n \in Nat /\ DOMAIN merged = 1 .. n /\ (merged # <<>> <=> n > 0) /\ Last(merged) = merged[n]
  BY DEF Last
<1>1. CASE fits
  <2>1. n \in 1 .. n /\ n > 0 BY <1>0, <1>1
  <2>2. merged[n] \in SpanRecords BY <2>1, <1>0
  <2>3. Merged(merged, window, share) = [merged EXCEPT ![n] = last]
    BY <1>0, <1>1, <2>1 DEF Merged
  <2>4. last \in SpanRecords /\ last.end >= merged[n].end /\ last.end >= window.end
    BY <2>2 DEF SpanRecords, MergedEnd
  <2> QED BY <1>0, <1>1, <2>1, <2>3, <2>4
<1>2. CASE ~fits
  <2>1. Merged(merged, window, share) = Append(merged, window) BY <1>2 DEF Merged
  <2> QED BY <1>0, <1>2, <2>1
<1> QED BY <1>1, <1>2

(* The share of a region at hand that has words covers an equal share.     *)
LEMMA HandHasItsShare ==
  ASSUME Inv, ~Idle, regions[at - 1].words > 0
  PROVE  Scanned > 0 /\ EqualShare \in Nat /\ EqualShare <= budget
<1>1. at - 1 \in 1 .. Len(regions) BY Facts DEF Inv, Types
<1>2. at - 1 \in ScannableFrom(1) BY <1>1 DEF ScannableFrom, Scannable
<1>3. IsFiniteSet(ScannableFrom(1)) BY ScannableIsFinite DEF Inv, Types
<1>4. Scanned > 0 BY <1>2, <1>3, FS_EmptySet, Facts DEF Scanned
<1> QED BY <1>4, Facts DEF Inv, FairShare, EqualShare

(* A small region is decoded to its end.                                   *)
LEMMA SmallIsAffordable ==
  ASSUME Inv, Roomy, sites = {}, spans # <<>>, Small(regions[at - 1])
  PROVE  Affordable(Head(spans))
<1> DEFINE span == spans[1]
           b == span.begin
           e == span.end
           w == regions[at - 1].words
<1>0. Head(spans) = span /\ 1 \in DOMAIN spans /\ ~Idle
  <2>1. spans \in Seq(SpanRecords) BY DEF Inv, Types
  <2> QED BY <2>1 DEF Idle
<1>1. Inside(span, regions[at - 1]) BY <1>0 DEF Inv, Types
<1>2. b \in Nat /\ e \in Nat /\ b < e /\ e <= w BY <1>1 DEF Inside, SpanRecords
<1>3. w \in Nat
  <2>1. at - 1 \in 1 .. Len(regions) BY <1>0, Facts DEF Inv, Types
  <2>2. regions[at - 1] \in Regions BY <2>1, Facts
  <2> QED BY <2>2 DEF Regions
<1>4. w <= AtMost(MaxSpan, EqualShare) BY DEF Small
<1>5. region_decoded <= b BY <1>0 DEF Roomy
<1> HIDE DEF span, b, e, w
<1>6. EqualShare \in Nat /\ EqualShare <= budget BY <1>0, <1>2, <1>3, HandHasItsShare DEF w
<1>7. w <= EqualShare BY <1>3, <1>4, <1>6, LimitsAssumption DEF AtMost
<1> DEFINE d == decoded_budget
           g == region_decoded
           u == budget
           m == MaxDecoded
<1>8. d \in Nat /\ g \in Nat /\ u \in Nat /\ m \in Nat BY Facts
<1>9. d + (u - g) <= m
  <2>1. Committed = d + (u - g) BY <1>0 DEF Committed
  <2>2. Committed <= m BY Facts
  <2> QED BY <2>1, <2>2
<1>10. g <= b /\ w <= u BY <1>2, <1>3, <1>5, <1>6, <1>7, <1>8
<1>11. Size(Head(spans)) = e - b BY <1>0 DEF Size, span, b, e
<1> HIDE DEF d, g, u, m
<1>12. g + (e - b) <= u /\ d + (e - b) <= m BY <1>2, <1>3, <1>8, <1>9, <1>10
<1> QED BY <1>11, <1>12 DEF Affordable, d, g, u, m

LEMMA SitesInScopeAreFinite ==
  ASSUME NEW region \in Regions PROVE IsFiniteSet(InScope(region))
<1>1. region.sites \in Seq(Sites) BY DEF Regions
<1>2. DOMAIN region.sites = 1 .. Len(region.sites) /\ Len(region.sites) \in Nat BY <1>1
<1>3. IsFiniteSet(1 .. Len(region.sites))
  <2> DEFINE n == Len(region.sites)
  <2>1. n \in Int BY <1>2
  <2> HIDE DEF n
  <2>2. IsFiniteSet(1 .. n) BY <2>1, FS_Interval
  <2> QED BY <2>2 DEF n
<1>4. InScope(region) \subseteq 1 .. Len(region.sites) BY <1>2 DEF InScope
<1> QED BY <1>3, <1>4, FS_Subset

-----------------------------------------------------------------------------
LEMMA CoverageStart == ASSUME Init PROVE Coverage
<1>1. sites = {} /\ spans = <<>> /\ at = 1 /\ Cardinality(sites) = 0 /\ IsFiniteSet(sites)
  BY FS_EmptySet DEF Init
<1>2. Looked /\ Undisturbed BY <1>1 DEF Looked, Undisturbed
<1>3. Ordered /\ Roomy BY <1>1 DEF Ordered, Roomy, Idle
<1>4. Tallied([k \in 0 .. 0 |-> 0]) BY <1>1 DEF Init, Tallied
<1> QED BY <1>1, <1>2, <1>3, <1>4 DEF Coverage, AllCounted

(* A region without words has no sites to look at, and one that overflows  *)
(* is not regular.                                                         *)
LEMMA CoverageSkip ==
  ASSUME Inv, Coverage, SkipEmpty \/ SkipOverflowing PROVE Coverage'
<1>1. /\ AtRegion /\ (~Scannable(This) \/ This.overflows) /\ at' = at + 1
      /\ regions' = regions /\ sites' = sites /\ spans' = spans /\ evaluated' = evaluated
      /\ total_sites' = total_sites /\ processed_sites' = processed_sites
      /\ (truncated' = truncated \/ truncated' = TRUE)
      /\ Scannable(This) => truncated' = TRUE
  BY DEF SkipEmpty, SkipOverflowing, spending, counters
<1>2. sites = {} /\ spans = <<>> /\ DOMAIN spans = {} /\ Idle /\ Idle'
  BY <1>1 DEF AtRegion, Idle
<1>3. at \in Nat /\ \A r \in 1 .. at' - 1 : r \in 1 .. at - 1 \/ r = at
  BY <1>1 DEF Inv, Types
<1>4. EqualShare' = EqualShare BY <1>1, SharesAreConstant
<1>5. Looked'
  <2>1. SUFFICES ASSUME NEW r \in 1 .. at' - 1, Regular(regions[r]),
                        ~truncated' \/ Small(regions[r])', NEW i \in InScope(regions[r])
                 PROVE  <<r, i>> \in DOMAIN evaluated
    BY <1>1 DEF Looked
  <2>2. r \in 1 .. at - 1 BY <2>1, <1>1, <1>3 DEF Regular, This
  <2>3. Small(regions[r])' = Small(regions[r]) BY <1>1, <1>4 DEF Small
  <2>4. ~truncated \/ Small(regions[r]) BY <2>1, <2>3, <1>1
  <2>5. ~Pending(r, i) BY <1>2 DEF Pending
  <2> QED BY <2>1, <2>2, <2>4, <2>5 DEF Coverage, Looked
<1>6. Undisturbed'
  <2>1. SUFFICES ASSUME ~truncated', NEW r \in 1 .. at' - 1, Scannable(regions[r])
                 PROVE  Regular(regions[r])
    BY <1>1 DEF Undisturbed
  <2>2. r \in 1 .. at - 1 BY <2>1, <1>1, <1>3 DEF This
  <2> QED BY <2>1, <2>2, <1>1 DEF Coverage, Undisturbed
<1>7. AllCounted'
  <2>1. SUFFICES ASSUME ~truncated' PROVE \E P : Tallied(P)' BY DEF AllCounted
  <2>2. PICK P : Tallied(P) BY <2>1, <1>1 DEF Coverage, AllCounted
  <2>3. Tallied(P)' BY <2>2, <1>1 DEF Tallied
  <2> QED BY <2>3
<1>8. Ordered' /\ Roomy' /\ IsFiniteSet(sites') BY <1>1, <1>2 DEF Coverage, Ordered, Roomy
<1> QED BY <1>5, <1>6, <1>7, <1>8 DEF Coverage

LEMMA CoverageSelect == ASSUME Inv, Coverage, SelectSites PROVE Coverage'
<1>1. /\ AtRegion /\ Scannable(This) /\ ~This.overflows /\ at' = at + 1
      /\ regions' = regions /\ spans' = spans /\ evaluated' = evaluated
      /\ sites' = Sampled(This) /\ region_decoded' = 0
      /\ total_sites' = total_sites + SiteCount(This) /\ processed_sites' = processed_sites
      /\ truncated' = (truncated \/ SiteCount(This) > MaxSites)
  BY DEF SelectSites
<1>2. sites = {} /\ spans = <<>> /\ DOMAIN spans = {} /\ Idle
  BY <1>1 DEF AtRegion, Idle
<1>3. at \in 1 .. Len(regions) /\ at \in Nat /\ \A r \in 1 .. at' - 1 : r \in 1 .. at - 1 \/ r = at
  BY <1>1, Facts DEF Inv, Types, AtRegion
<1>4. EqualShare' = EqualShare BY <1>1, SharesAreConstant
<1>5. This \in Regions /\ regions[at] = This /\ at' - 1 = at BY <1>1, <1>3, Facts DEF This
<1>6. SiteCount(This) \in Nat /\ MaxSites \in Nat BY <1>5, SitesAreCounted, LimitsAssumption
<1>7. SiteCount(This) <= MaxSites => sites' = InScope(This) BY <1>1, <1>5, SampledIsWhole
<1>8. IsFiniteSet(sites')
  <2>1. IsFiniteSet(InScope(This)) BY <1>5, SitesInScopeAreFinite
  <2> QED BY <2>1, <1>1, <1>5, SampledInScope, FS_Subset
<1>9. Looked'
  <2>1. SUFFICES ASSUME NEW r \in 1 .. at' - 1, Regular(regions[r]),
                        ~truncated' \/ Small(regions[r])', NEW i \in InScope(regions[r])
                 PROVE  <<r, i>> \in DOMAIN evaluated \/ Pending(r, i)'
    BY <1>1 DEF Looked
  <2>2. CASE r \in 1 .. at - 1
    <3>1. Small(regions[r])' = Small(regions[r]) BY <1>1, <1>4 DEF Small
    <3>2. ~truncated \/ Small(regions[r]) BY <2>1, <3>1, <1>1
    <3>3. ~Pending(r, i) BY <1>2 DEF Pending
    <3> QED BY <2>1, <2>2, <3>2, <3>3 DEF Coverage, Looked
  <2>3. CASE r = at
    <3>1. i \in sites' BY <2>1, <2>3, <1>5, <1>7 DEF Regular
    <3> QED BY <2>3, <3>1, <1>5 DEF Pending
  <2> QED BY <2>2, <2>3, <1>3
<1>10. Undisturbed'
  <2>1. SUFFICES ASSUME ~truncated', NEW r \in 1 .. at' - 1, Scannable(regions[r])
                 PROVE  Regular(regions[r])
    BY <1>1 DEF Undisturbed
  <2>2. CASE r = at
    <3>1. ~(SiteCount(This) > MaxSites) BY <2>1, <1>1
    <3>2. SiteCount(This) <= MaxSites BY <3>1, <1>6
    <3> QED BY <2>2, <3>2, <1>1, <1>5 DEF Regular
  <2>3. CASE r \in 1 .. at - 1 BY <2>1, <2>3, <1>1 DEF Coverage, Undisturbed
  <2> QED BY <2>2, <2>3, <1>3
<1>11. AllCounted'
  <2>1. SUFFICES ASSUME ~truncated' PROVE \E P : Tallied(P)' BY DEF AllCounted
  <2>2. PICK P : Tallied(P) BY <2>1, <1>1 DEF Coverage, AllCounted
  <2>3. Cardinality(sites') = SiteCount(This)
    <3>1. ~(SiteCount(This) > MaxSites) BY <2>1, <1>1
    <3>2. SiteCount(This) <= MaxSites BY <3>1, <1>6
    <3> QED BY <3>2, <1>7 DEF SiteCount
  <2>4. Cardinality(sites) = 0 /\ Len(spans) = 0 BY <1>2, FS_EmptySet
  <2>5. P[0] = 0 /\ processed_sites + P[Len(spans)] + Cardinality(sites) = total_sites
    BY <2>2 DEF Tallied
  <2>6. processed_sites \in Nat /\ total_sites \in Nat BY DEF Inv, Types
  <2>7. processed_sites' + P[Len(spans')] + Cardinality(sites') = total_sites'
    BY <2>3, <2>4, <2>5, <2>6, <1>1, <1>6
  <2>8. Tallied(P)' BY <2>2, <2>7, <1>1 DEF Tallied
  <2> QED BY <2>8
<1>12. Ordered' /\ Roomy' BY <1>1, <1>2 DEF Ordered, Roomy
<1> QED BY <1>8, <1>9, <1>10, <1>11, <1>12 DEF Coverage

LEMMA CoverageDecode == ASSUME Inv, Coverage, DecodeSpan PROVE Coverage'
<1> DEFINE h == Head(spans)
           n == Len(spans)
           old == regions[at - 1]
<1>1. /\ sites = {} /\ spans # <<>> /\ spans' = Tail(spans) /\ sites' = sites
      /\ regions' = regions /\ at' = at /\ truncated' = truncated /\ total_sites' = total_sites
      /\ processed_sites' = processed_sites + h.site_count
      /\ region_decoded' = region_decoded + Size(h)
      /\ evaluated' = evaluated (+) SetToBag({at - 1} \X Seen(regions[at - 1], h))
  BY DEF DecodeSpan
<1>2. /\ spans \in Seq(SpanRecords) /\ n \in Nat /\ n > 0 /\ DOMAIN spans = 1 .. n
      /\ h = spans[1] /\ Len(spans') = n - 1 /\ DOMAIN spans' = 1 .. n - 1
      /\ \A k \in 1 .. n - 1 : spans'[k] = spans[k + 1]
  BY <1>1 DEF Inv, Types
<1>3. ~Idle /\ at - 1 \in 1 .. Len(regions) /\ old \in Regions
  <2>1. ~Idle BY <1>1 DEF Idle
  <2>2. at - 1 \in 1 .. Len(regions) BY <2>1, Facts DEF Inv, Types
  <2> QED BY <2>1, <2>2, Facts
<1>4. DOMAIN evaluated' = DOMAIN evaluated \cup ({at - 1} \X Seen(old, h))
  BY <1>1, BagsOfLooks
<1>5. EqualShare' = EqualShare BY <1>1, SharesAreConstant
<1> HIDE DEF h, n
<1>6. Looked'
  <2>1. SUFFICES ASSUME NEW r \in 1 .. at - 1, Regular(regions[r]),
                        ~truncated \/ Small(regions[r])', NEW i \in InScope(regions[r])
                 PROVE  <<r, i>> \in DOMAIN evaluated' \/ Pending(r, i)'
    BY <1>1 DEF Looked
  <2>2. Small(regions[r])' = Small(regions[r]) BY <1>1, <1>5 DEF Small
  <2>3. <<r, i>> \in DOMAIN evaluated \/ Pending(r, i) BY <2>1, <2>2 DEF Coverage, Looked
  <2>4. CASE <<r, i>> \in DOMAIN evaluated BY <2>4, <1>4
  <2>5. CASE Pending(r, i)
    <3>1. r = at - 1 BY <2>5 DEF Pending
    <3>2. PICK k \in 1 .. n : InSpan(Offset(r, i), spans[k]) BY <2>5, <1>1, <1>2 DEF Pending
    <3>3. CASE k = 1
      <4>1. InSpan(Offset(r, i), h) /\ i \in InScope(old) BY <3>1, <3>2, <3>3, <2>1, <1>2
      <4>2. h \in SpanRecords BY <1>2
      <4>3. old.sites \in Seq(Sites) BY <1>3 DEF Regions
      <4>4. i \in 1 .. Len(old.sites) /\ old.sites[i] \in Sites BY <4>1, <4>3 DEF InScope
      <4>5. old.sites[i].at \in h.begin .. h.end - 1
        BY <4>1, <4>2, <4>4, <3>1 DEF InSpan, Offset, SpanRecords, Sites
      <4>6. i \in Seen(old, h) BY <4>1, <4>4, <4>5 DEF Seen, InScope
      <4> QED BY <4>6, <3>1, <1>4
    <3>4. CASE k # 1
      <4>1. k - 1 \in 1 .. n - 1 /\ (k - 1) + 1 = k BY <3>2, <3>4, <1>2
      <4>2. spans'[k - 1] = spans[k] /\ k - 1 \in DOMAIN spans' BY <4>1, <1>2
      <4>3. Offset(r, i)' = Offset(r, i) BY <1>1 DEF Offset
      <4> QED BY <4>2, <4>3, <3>1, <3>2, <1>1 DEF Pending
    <3> QED BY <3>3, <3>4
  <2> QED BY <2>3, <2>4, <2>5
<1>7. Undisturbed' BY <1>1 DEF Coverage, Undisturbed
<1>8. AllCounted'
  <2>1. SUFFICES ASSUME ~truncated' PROVE \E P : Tallied(P)' BY DEF AllCounted
  <2>2. PICK P : Tallied(P) BY <2>1, <1>1 DEF Coverage, AllCounted
  <2>3. /\ P \in [0 .. n -> Nat] /\ P[0] = 0
        /\ \A k \in 1 .. n : P[k] = P[k - 1] + spans[k].site_count
        /\ processed_sites + P[n] + Cardinality(sites) = total_sites
    BY <2>2 DEF Tallied, n
  <2>4. h.site_count \in Nat /\ P[1] = h.site_count
    <3>1. 1 \in 1 .. n /\ h \in SpanRecords BY <1>2
    <3> QED BY <3>1, <2>3, <1>2 DEF SpanRecords
  <2>5. ASSUME NEW k \in 1 .. n PROVE P[k] >= h.site_count
    <3> DEFINE Bad == {x \in 1 .. n : ~(P[x] >= h.site_count)}
    <3>1. SUFFICES ASSUME Bad # {} PROVE FALSE OBVIOUS
    <3>2. Bad \subseteq Nat BY <1>2
    <3>3. PICK x \in Bad : \A y \in Bad : x <= y
      <4> HIDE DEF Bad
      <4> QED BY <3>1, <3>2, LeastNatural
    <3>4. x # 1 BY <2>4, <3>3
    <3>5. x \in 1 .. n /\ x - 1 \in 1 .. n /\ ~(x <= x - 1) BY <3>3, <3>4, <1>2
    <3>6. P[x - 1] >= h.site_count BY <3>3, <3>5
    <3>7. spans[x].site_count \in Nat /\ P[x - 1] \in Nat
      <4>1. spans[x] \in SpanRecords BY <3>5, <1>2
      <4>2. x - 1 \in 0 .. n BY <3>5, <1>2
      <4> QED BY <4>1, <4>2, <2>3 DEF SpanRecords
    <3>8. P[x] = P[x - 1] + spans[x].site_count BY <2>3, <3>5
    <3> QED BY <2>4, <3>3, <3>6, <3>7, <3>8
  <2> DEFINE Q == [k \in 0 .. n - 1 |-> P[k + 1] - h.site_count]
  <2>6. ASSUME NEW k \in 0 .. n - 1 PROVE P[k + 1] - h.site_count \in Nat /\ k + 1 \in 1 .. n
    <3>1. k + 1 \in 1 .. n /\ k + 1 \in 0 .. n BY <1>2
    <3>2. P[k + 1] >= h.site_count /\ P[k + 1] \in Nat BY <2>3, <2>5, <3>1
    <3> QED BY <2>4, <3>1, <3>2
  <2>7. Q \in [0 .. n - 1 -> Nat] BY <2>6
  <2>8. Q[0] = 0
    <3>1. 0 \in 0 .. n - 1 BY <1>2
    <3>2. Q[0] = P[1] - h.site_count BY <3>1
    <3> QED BY <2>4, <3>2
  <2>9. ASSUME NEW k \in 1 .. n - 1 PROVE Q[k] = Q[k - 1] + spans'[k].site_count
    <3>1. k \in 0 .. n - 1 /\ k - 1 \in 0 .. n - 1 /\ (k - 1) + 1 = k BY <1>2
    <3>2. Q[k] = P[k + 1] - h.site_count /\ Q[k - 1] = P[k] - h.site_count BY <3>1
    <3>3. P[k + 1] = P[k] + spans[k + 1].site_count
      <4>1. k + 1 \in 1 .. n /\ (k + 1) - 1 = k BY <1>2
      <4> QED BY <4>1, <2>3
    <3>4. P[k] \in Nat /\ spans[k + 1].site_count \in Nat
      <4>1. k \in 0 .. n /\ k + 1 \in 1 .. n BY <1>2
      <4>2. spans[k + 1] \in SpanRecords BY <4>1, <1>2
      <4> QED BY <4>1, <4>2, <2>3 DEF SpanRecords
    <3>5. spans'[k] = spans[k + 1] BY <1>2
    <3> DEFINE y == spans[k + 1].site_count
               z == h.site_count
    <3>6. y \in Nat /\ z \in Nat /\ P[k + 1] = P[k] + y BY <2>4, <3>3, <3>4
    <3> HIDE DEF Q, y, z
    <3>7. Q[k] = (P[k] + y) - z /\ Q[k - 1] = P[k] - z BY <3>2, <3>6 DEF z
    <3>8. Q[k] = Q[k - 1] + y BY <3>4, <3>6, <3>7
    <3> QED BY <3>5, <3>8 DEF y
  <2>10. processed_sites' + Q[n - 1] + Cardinality(sites') = total_sites'
    <3>1. n - 1 \in 0 .. n - 1 /\ (n - 1) + 1 = n /\ n \in 0 .. n BY <1>2
    <3>2. Q[n - 1] = P[n] - h.site_count /\ P[n] \in Nat BY <3>1, <2>3
    <3> HIDE DEF Q
    <3>3. processed_sites \in Nat /\ Cardinality(sites) = 0
      BY <1>1, FS_EmptySet DEF Inv, Types
    <3> DEFINE pn == P[n]
               z == h.site_count
               q == Q[n - 1]
    <3>4. pn \in Nat /\ z \in Nat /\ q = pn - z BY <2>4, <3>2
    <3>5. processed_sites' = processed_sites + z /\ total_sites' = total_sites
          /\ Cardinality(sites') = 0 /\ processed_sites + pn + 0 = total_sites
      BY <1>1, <2>3, <3>3
    <3> HIDE DEF pn, z, q
    <3>6. \A x \in Nat : (x + z) + q + 0 = x + pn + 0 BY <3>4
    <3>7. (processed_sites + z) + q + 0 = total_sites BY <3>3, <3>5, <3>6
    <3>8. processed_sites' + q + Cardinality(sites') = total_sites' BY <3>5, <3>7
    <3> QED BY <3>8 DEF q
  <2> HIDE DEF Q
  <2>11. PICK R : R = Q OBVIOUS
  <2>12. Tallied(R)' BY <2>7, <2>8, <2>9, <2>10, <2>11, <1>2 DEF Tallied
  <2> QED BY <2>12
<1>9. Ordered' BY <1>1 DEF Ordered
<1>10. Roomy'
  <2>1. SUFFICES ASSUME Small(regions[at - 1])', spans' # <<>>
                 PROVE  /\ region_decoded' <= spans'[1].begin
                        /\ \A k \in 1 .. Len(spans') - 1 : spans'[k].end < spans'[k + 1].begin
    BY <1>1 DEF Roomy, Idle
  <2>2. Small(old) BY <2>1, <1>1, <1>5 DEF Small
  <2>3. /\ region_decoded <= h.begin
        /\ \A k \in 1 .. n - 1 : spans[k].end < spans[k + 1].begin
    BY <2>2, <1>1, <1>2, <1>3 DEF Coverage, Roomy, n
  <2>4. n - 1 >= 1
    <3>1. spans' \in Seq(SpanRecords) BY <1>1, <1>2
    <3> QED BY <3>1, <2>1, <1>2
  <2>5. spans'[1] = spans[2] /\ h.end < spans[2].begin
    <3>1. 1 \in 1 .. n - 1 /\ 1 + 1 = 2 BY <2>4, <1>2
    <3> QED BY <3>1, <2>3, <1>2
  <2>6. region_decoded' <= spans'[1].begin
    <3> DEFINE b == h.begin
               e == h.end
               c == spans[2].begin
               g == region_decoded
    <3>1. b \in Nat /\ e \in Nat /\ b < e
      <4>1. 1 \in DOMAIN spans BY <1>2
      <4>2. Inside(h, old) BY <4>1, <1>2 DEF Inv, Types
      <4> QED BY <4>2 DEF Inside, SpanRecords
    <3>2. c \in Nat
      <4>1. 2 \in 1 .. n BY <2>4, <1>2
      <4>2. spans[2] \in SpanRecords BY <4>1, <1>2
      <4> QED BY <4>2 DEF SpanRecords
    <3>3. g \in Nat /\ g <= b /\ e < c /\ region_decoded' = g + (e - b)
      BY <2>3, <2>5, <1>1, Facts DEF Size
    <3> HIDE DEF b, e, c, g
    <3>4. region_decoded' <= c BY <3>1, <3>2, <3>3
    <3> QED BY <3>4, <2>5 DEF c
  <2>7. ASSUME NEW k \in 1 .. Len(spans') - 1 PROVE spans'[k].end < spans'[k + 1].begin
    <3>1. k \in 1 .. n - 1 /\ k + 1 \in 1 .. n - 1 BY <1>2
    <3>2. spans'[k] = spans[k + 1] /\ spans'[k + 1] = spans[(k + 1) + 1] BY <3>1, <1>2
    <3> QED BY <3>1, <3>2, <2>3
  <2> QED BY <2>6, <2>7
<1> QED BY <1>1, <1>6, <1>7, <1>8, <1>9, <1>10 DEF Coverage

LEMMA CoverageDrop == ASSUME Inv, Coverage, DropSpan PROVE Coverage'
<1> DEFINE n == Len(spans)
           old == regions[at - 1]
<1>1. /\ sites = {} /\ spans # <<>> /\ spans' = Tail(spans) /\ sites' = sites
      /\ regions' = regions /\ at' = at /\ truncated' = TRUE /\ evaluated' = evaluated
      /\ region_decoded' = region_decoded /\ ~Affordable(Head(spans))
  BY DEF DropSpan, Cut, spending
<1>2. EqualShare' = EqualShare BY <1>1, SharesAreConstant
<1>3. ~Small(old) BY <1>1, SmallIsAffordable DEF Coverage
<1>4. Looked'
  <2>1. SUFFICES ASSUME NEW r \in 1 .. at - 1, Regular(regions[r]),
                        Small(regions[r])', NEW i \in InScope(regions[r])
                 PROVE  <<r, i>> \in DOMAIN evaluated
    BY <1>1 DEF Looked
  <2>2. Small(regions[r])' = Small(regions[r]) BY <1>1, <1>2 DEF Small
  <2>3. ~Pending(r, i) BY <2>1, <2>2, <1>3 DEF Pending
  <2> QED BY <2>1, <2>2, <2>3 DEF Coverage, Looked
<1>5. Undisturbed' /\ AllCounted' BY <1>1 DEF Undisturbed, AllCounted
<1>6. Ordered' BY <1>1 DEF Ordered
<1>7. Roomy'
  <2>1. ~Small(old)' BY <1>1, <1>2, <1>3 DEF Small
  <2> QED BY <2>1, <1>1 DEF Roomy
<1> QED BY <1>1, <1>4, <1>5, <1>6, <1>7 DEF Coverage

LEMMA CoverageMerge == ASSUME Inv, Coverage, MergeSite PROVE Coverage'
<1> DEFINE old == regions[at - 1]
           n == Len(spans)
<1>1. PICK c \in sites :
        /\ \A j \in sites : old.sites[c].at <= old.sites[j].at
        /\ sites' = sites \ {c}
        /\ spans' = Merged(spans, Window(old, old.sites[c]), budget)
        /\ UNCHANGED <<regions, at, remaining_regions, counters, spending>>
  BY DEF MergeSite
<1> DEFINE s == old.sites[c]
           w == Window(old, s)
<1>2. /\ regions' = regions /\ at' = at /\ truncated' = truncated /\ total_sites' = total_sites
      /\ processed_sites' = processed_sites /\ region_decoded' = region_decoded
      /\ evaluated' = evaluated
  BY <1>1 DEF counters, spending
<1>3. ~Idle /\ at - 1 \in 1 .. Len(regions) /\ old \in Regions /\ old.words \in Nat
      /\ old.sites \in Seq(Sites) /\ s \in Sites /\ s.at < old.words
      /\ \A j \in sites : j \in DOMAIN old.sites /\ old.sites[j].at \in Nat
  <2>1. at - 1 \in 1 .. Len(regions) /\ old \in Regions /\ ~Idle
    BY <1>1, Facts DEF Inv, Types, Idle
  <2>2. old.sites \in Seq(Sites) /\ old.words \in Nat BY <2>1 DEF Regions
  <2>3. \A j \in sites : j \in DOMAIN old.sites BY DEF Inv, Types
  <2>4. \A j \in sites : old.sites[j] \in Sites BY <2>2, <2>3
  <2>5. s.at < old.words BY <2>1, <2>3, <1>1, RegionsAssumption DEF Inv, Types
  <2> QED BY <2>1, <2>2, <2>3, <2>4, <2>5, <1>1 DEF Sites
<1>4. /\ Inside(w, old) /\ w \in SpanRecords /\ w.site_count = 1
      /\ w.begin <= s.at /\ InSpan(s.at, w) /\ s.at \in Nat
  <2>1. Inside(w, old) BY <1>3, WindowIsInside
  <2>2. s.at \in Nat /\ old.words \in Nat /\ Lookback \in Nat /\ Lookahead \in Nat
    BY <1>3, LimitsAssumption DEF Sites
  <2>3. w.site_count = 1 /\ w.begin <= s.at /\ s.at < w.end BY <2>2, <1>3 DEF Window, AtMost
  <2> QED BY <2>1, <2>2, <2>3 DEF InSpan, Inside
<1>5. EqualShare' = EqualShare BY <1>2, SharesAreConstant
<1>6. spans \in Seq(SpanRecords) /\ n \in Nat /\ DOMAIN spans = 1 .. n
      /\ (\A k \in 1 .. n : spans[k] \in SpanRecords) /\ (spans # <<>> <=> n > 0)
  <2>1. spans \in Seq(SpanRecords) BY DEF Inv, Types
  <2> QED BY <2>1
<1> HIDE DEF w, n
<1>7. \/ spans' = Append(spans, w) /\ (n > 0 => ~(Touching(spans[n], w) /\ MergeFits(spans[n], w, budget)))
      \/ /\ n > 0 /\ Touching(spans[n], w)
         /\ Len(spans') = n /\ DOMAIN spans' = 1 .. n
         /\ \A k \in 1 .. n - 1 : spans'[k] = spans[k]
         /\ spans'[n].begin = spans[n].begin
         /\ spans'[n].end >= spans[n].end /\ spans'[n].end >= w.end
         /\ spans'[n].site_count = spans[n].site_count + 1
  BY <1>1, <1>4, <1>6, MergedIsOneOfTwo DEF n, w
<1> DEFINE Appended == /\ Len(spans') = n + 1 /\ DOMAIN spans' = 1 .. n + 1
                       /\ \A k \in 1 .. n : spans'[k] = spans[k]
                       /\ spans'[n + 1] = w
                       /\ n > 0 => ~(Touching(spans[n], w) /\ MergeFits(spans[n], w, budget))
           Joined == /\ n > 0 /\ Touching(spans[n], w)
                     /\ Len(spans') = n /\ DOMAIN spans' = 1 .. n
                     /\ \A k \in 1 .. n - 1 : spans'[k] = spans[k]
                     /\ spans'[n].begin = spans[n].begin
                     /\ spans'[n].end >= spans[n].end /\ spans'[n].end >= w.end
                     /\ spans'[n].site_count = spans[n].site_count + 1
<1>8. Appended \/ Joined
  <2>1. ASSUME spans' = Append(spans, w)
        PROVE  /\ Len(spans') = n + 1 /\ DOMAIN spans' = 1 .. n + 1
               /\ \A k \in 1 .. n : spans'[k] = spans[k]
               /\ spans'[n + 1] = w
    BY <2>1, <1>4, <1>6 DEF n
  <2> QED BY <2>1, <1>7
<1> HIDE DEF Appended, Joined
<1>9. ASSUME NEW k \in 1 .. n
      PROVE  /\ k \in DOMAIN spans' /\ spans'[k].begin = spans[k].begin
             /\ spans'[k].end >= spans[k].end
  <2>0. spans[k].end \in Nat /\ k \in 1 .. n + 1 BY <1>6 DEF SpanRecords
  <2>1. CASE Appended
    <3>1. spans'[k] = spans[k] /\ k \in DOMAIN spans' BY <2>0, <2>1 DEF Appended
    <3> QED BY <2>0, <3>1
  <2>2. CASE Joined
    <3>1. CASE k = n BY <2>2, <3>1 DEF Joined
    <3>2. CASE k # n
      <4>1. k \in 1 .. n - 1 BY <3>2, <1>6
      <4>2. spans'[k] = spans[k] /\ k \in DOMAIN spans' BY <4>1, <2>2 DEF Joined
      <4> QED BY <4>2, <2>0
    <3> QED BY <3>1, <3>2
  <2> QED BY <2>1, <2>2, <1>8
<1>10. \E m \in DOMAIN spans' : InSpan(s.at, spans'[m])
  <2>1. CASE Appended
    <3>1. n + 1 \in DOMAIN spans' /\ spans'[n + 1] = w BY <2>1, <1>6 DEF Appended
    <3> QED BY <3>1, <1>4
  <2>2. CASE Joined
    <3>1. n \in 1 .. n /\ n \in DOMAIN spans' BY <2>2, <1>6 DEF Joined
    <3>2. spans[n].begin <= s.at BY <3>1, <1>1, <1>6 DEF Coverage, Ordered, Offset
    <3> DEFINE e == spans'[n].end
               we == w.end
    <3>3. e >= we /\ s.at < we /\ we \in Nat BY <2>2, <1>4 DEF Joined, InSpan, SpanRecords
    <3>4. e \in Nat
      <4>1. Inv' BY MergeSiteStep
      <4>2. Inside(spans'[n], regions'[at' - 1]) BY <4>1, <3>1 DEF Inv, Types, Inside
      <4> QED BY <4>2 DEF Inside, SpanRecords
    <3> HIDE DEF e, we
    <3>5. s.at < e BY <3>3, <3>4, <1>4
    <3>6. InSpan(s.at, spans'[n]) BY <3>2, <3>5, <2>2 DEF InSpan, Joined, e
    <3> QED BY <3>1, <3>6
  <2> QED BY <2>1, <2>2, <1>8
<1>11. ASSUME NEW k \in DOMAIN spans' PROVE k \in 1 .. n \/ (Appended /\ k = n + 1 /\ spans'[k] = w)
  <2>1. CASE Appended
    <3>1. k \in 1 .. n + 1 /\ spans'[n + 1] = w BY <2>1 DEF Appended
    <3> QED BY <2>1, <3>1, <1>6
  <2>2. CASE Joined BY <2>2 DEF Joined
  <2> QED BY <2>1, <2>2, <1>8
<1>12. Looked'
  <2>1. SUFFICES ASSUME NEW r \in 1 .. at - 1, Regular(regions[r]),
                        ~truncated \/ Small(regions[r])', NEW i \in InScope(regions[r])
                 PROVE  <<r, i>> \in DOMAIN evaluated \/ Pending(r, i)'
    BY <1>2 DEF Looked
  <2>2. Small(regions[r])' = Small(regions[r]) BY <1>2, <1>5 DEF Small
  <2>3. <<r, i>> \in DOMAIN evaluated \/ Pending(r, i) BY <2>1, <2>2 DEF Coverage, Looked
  <2>4. CASE Pending(r, i)
    <3>1. r = at - 1 /\ Offset(r, i)' = Offset(r, i) BY <2>4, <1>2 DEF Pending, Offset
    <3>2. CASE i = c
      <4>1. Offset(r, i) = s.at BY <3>1, <3>2 DEF Offset
      <4> QED BY <4>1, <3>1, <1>2, <1>10 DEF Pending
    <3>3. CASE i \in sites /\ i # c BY <3>1, <3>3, <1>1, <1>2 DEF Pending
    <3>4. CASE \E k \in DOMAIN spans : InSpan(Offset(r, i), spans[k])
      <4>1. PICK k \in 1 .. n : InSpan(Offset(r, i), spans[k]) BY <3>4, <1>6
      <4>2. k \in DOMAIN spans' /\ spans'[k].begin = spans[k].begin /\ spans'[k].end >= spans[k].end
        BY <1>9
      <4>3. Offset(r, i) < spans'[k].end
        <5> DEFINE o == Offset(r, i)
                   e == spans[k].end
                   f == spans'[k].end
        <5>1. o \in Nat
          <6>1. i \in DOMAIN old.sites BY <2>1, <3>1 DEF InScope
          <6>2. old.sites[i] \in Sites BY <6>1, <1>3
          <6> QED BY <6>2, <3>1 DEF Offset, Sites
        <5>2. e \in Nat /\ o < e /\ f >= e BY <4>1, <4>2, <1>6 DEF SpanRecords, InSpan
        <5>3. f \in Nat
          <6>1. Inv' BY MergeSiteStep
          <6>2. Inside(spans'[k], regions'[at' - 1]) BY <6>1, <4>2 DEF Inv, Types, Inside
          <6> QED BY <6>2 DEF Inside, SpanRecords
        <5> HIDE DEF o, e, f
        <5>4. o < f BY <5>1, <5>2, <5>3
        <5> QED BY <5>4 DEF o, f
      <4>4. InSpan(Offset(r, i), spans'[k]) BY <4>1, <4>2, <4>3 DEF InSpan
      <4> QED BY <4>2, <4>4, <3>1, <1>2 DEF Pending
    <3> QED BY <3>2, <3>3, <3>4, <2>4 DEF Pending
  <2> QED BY <2>3, <2>4
<1>13. Undisturbed' BY <1>2 DEF Coverage, Undisturbed
<1>14. Ordered'
  <2>1. SUFFICES ASSUME NEW k \in DOMAIN spans', NEW j \in sites'
                 PROVE  spans'[k].begin <= Offset(at - 1, j)
    BY <1>2 DEF Ordered, Offset
  <2>2. j \in sites /\ s.at <= Offset(at - 1, j) /\ Offset(at - 1, j) \in Nat
    BY <2>1, <1>1, <1>3 DEF Offset
  <2>3. CASE k \in 1 .. n
    <3>1. spans[k].begin <= Offset(at - 1, j) BY <2>2, <2>3, <1>6 DEF Coverage, Ordered
    <3> QED BY <3>1, <2>3, <1>9
  <2>4. CASE spans'[k] = w
    <3> DEFINE b == w.begin
               o == Offset(at - 1, j)
               a == s.at
    <3>1. b \in Nat /\ a \in Nat /\ o \in Nat /\ b <= a /\ a <= o BY <2>2, <1>4 DEF SpanRecords
    <3> HIDE DEF b, o, a
    <3>2. b <= o BY <3>1
    <3> QED BY <3>2, <2>4 DEF b, o
  <2> QED BY <2>3, <2>4, <1>11
<1>15. IsFiniteSet(sites') /\ Cardinality(sites') = Cardinality(sites) - 1 /\ Cardinality(sites) \in Nat
  BY <1>1, FS_RemoveElement, FS_CardinalityType DEF Coverage
<1>16. AllCounted'
  <2>1. SUFFICES ASSUME ~truncated' PROVE \E P : Tallied(P)' BY DEF AllCounted
  <2>2. PICK P : Tallied(P) BY <2>1, <1>2 DEF Coverage, AllCounted
  <2>3. /\ P \in [0 .. n -> Nat] /\ P[0] = 0
        /\ \A k \in 1 .. n : P[k] = P[k - 1] + spans[k].site_count
        /\ processed_sites + P[n] + Cardinality(sites) = total_sites
    BY <2>2 DEF Tallied, n
  <2>4. P[n] \in Nat /\ n \in 0 .. n BY <2>3, <1>6
  <2>5. processed_sites' + (P[n] + 1) + Cardinality(sites') = total_sites'
    <3> DEFINE x == processed_sites
               y == P[n]
               z == Cardinality(sites)
    <3>1. x \in Nat /\ y \in Nat /\ z \in Nat BY <2>4, <1>15 DEF Inv, Types
    <3> HIDE DEF x, y, z
    <3>2. x + (y + 1) + (z - 1) = x + y + z BY <3>1
    <3> QED BY <3>2, <2>3, <1>2, <1>15 DEF x, y, z
  <2> DEFINE Q == [k \in 0 .. Len(spans') |->
                     IF k = Len(spans') THEN P[n] + 1 ELSE P[k]]
  <2>6. Len(spans') \in {n, n + 1} /\ Len(spans') > 0 /\ Len(spans') \in Nat
    <3>1. CASE Appended BY <3>1, <1>6 DEF Appended
    <3>2. CASE Joined BY <3>2, <1>6 DEF Joined
    <3> QED BY <3>1, <3>2, <1>8
  <2> DEFINE l == Len(spans')
  <2>7. l \in {n, n + 1} /\ l > 0 /\ l \in Nat BY <2>6
  <2> HIDE DEF l
  <2>8. Q = [k \in 0 .. l |-> IF k = l THEN P[n] + 1 ELSE P[k]] BY DEF l
  <2> HIDE DEF Q
  <2>9. \A k \in 0 .. l : k # l => k \in 0 .. n BY <2>7, <1>6
  <2>10. Q \in [0 .. l -> Nat] BY <2>3, <2>4, <2>8, <2>9
  <2>11. Q[0] = 0 /\ Q[l] = P[n] + 1 BY <2>3, <2>7, <2>8
  <2>12. ASSUME NEW k \in 1 .. l PROVE Q[k] = Q[k - 1] + spans'[k].site_count
    <3>1. k \in 0 .. l /\ k - 1 \in 0 .. l /\ k - 1 # l BY <2>7
    <3>2. Q[k - 1] = P[k - 1] BY <3>1, <2>8
    <3>3. CASE k # l
      <4>1. k \in 1 .. n /\ Q[k] = P[k] BY <3>1, <3>3, <2>8, <2>9
      <4>2. spans'[k] = spans[k]
        <5>1. CASE Appended BY <5>1, <4>1 DEF Appended
        <5>2. CASE Joined
          <6>1. l = n BY <5>2 DEF Joined, l
          <6>2. k \in 1 .. n - 1 BY <6>1, <3>3, <4>1, <1>6
          <6> QED BY <6>2, <5>2 DEF Joined
        <5> QED BY <5>1, <5>2, <1>8
      <4> QED BY <4>1, <4>2, <3>2, <2>3
    <3>4. CASE k = l
      <4>1. CASE Appended
        <5>1. l = n + 1 /\ spans'[k] = w /\ k - 1 = n BY <4>1, <3>4, <1>6 DEF Appended, l
        <5> QED BY <5>1, <3>2, <3>4, <2>11, <1>4
      <4>2. CASE Joined
        <5>1. l = n /\ spans'[k].site_count = spans[n].site_count + 1 /\ n \in 1 .. n
          BY <4>2, <3>4, <1>6 DEF Joined, l
        <5>2. P[n] = P[n - 1] + spans[n].site_count BY <5>1, <2>3
        <5>3. P[n - 1] \in Nat /\ spans[n].site_count \in Nat
          <6>1. n - 1 \in 0 .. n BY <5>1, <1>6
          <6> QED BY <6>1, <5>1, <2>3, <1>6 DEF SpanRecords
        <5> DEFINE a == P[n - 1]
                   b == spans[n].site_count
        <5>4. a \in Nat /\ b \in Nat /\ P[n] = a + b BY <5>2, <5>3
        <5> HIDE DEF a, b
        <5>5. P[n] + 1 = a + (b + 1) BY <5>4
        <5> QED BY <5>1, <5>5, <3>2, <3>4, <2>11 DEF a, b
      <4> QED BY <4>1, <4>2, <1>8
    <3> QED BY <3>3, <3>4
  <2>13. PICK R : R = Q OBVIOUS
  <2>14. Tallied(R)' BY <2>5, <2>10, <2>11, <2>12, <2>13 DEF Tallied, l
  <2> QED BY <2>14
<1>17. Roomy'
  <2>1. region_decoded' = 0 BY <1>1, <1>2 DEF Coverage, Roomy
  <2>2. SUFFICES ASSUME Small(old)'
                 PROVE  /\ spans' # <<>> => 0 <= spans'[1].begin
                        /\ \A k \in 1 .. Len(spans') - 1 : spans'[k].end < spans'[k + 1].begin
    BY <2>1, <1>2 DEF Roomy
  <2>3. Small(old) BY <2>2, <1>2, <1>5 DEF Small
  <2>4. spans' # <<>> => 0 <= spans'[1].begin
    <3>1. SUFFICES ASSUME spans' # <<>> PROVE 0 <= spans'[1].begin OBVIOUS
    <3>2. Inv' BY MergeSiteStep
    <3>3. spans' \in Seq(SpanRecords) BY <3>2 DEF Inv, Types
    <3>4. 1 \in DOMAIN spans' BY <3>1, <3>3
    <3>5. spans'[1] \in SpanRecords BY <3>3, <3>4
    <3> QED BY <3>5 DEF SpanRecords
  <2>5. \A k \in 1 .. n - 1 : spans[k].end < spans[k + 1].begin
    BY <2>3, <1>3 DEF Coverage, Roomy, n
  <2>6. ASSUME NEW k \in 1 .. n - 1, spans'[k] = spans[k]
        PROVE  spans'[k].end < spans'[k + 1].begin
    <3>1. k + 1 \in 1 .. n BY <1>6
    <3>2. spans'[k + 1].begin = spans[k + 1].begin BY <3>1, <1>9
    <3> QED BY <3>2, <2>5, <2>6
  <2>7. CASE Joined
    <3>1. \A k \in 1 .. n - 1 : spans'[k] = spans[k] BY <2>7 DEF Joined
    <3>2. Len(spans') = n BY <2>7 DEF Joined
    <3> QED BY <3>1, <3>2, <2>4, <2>6
  <2>8. CASE Appended
    <3>1. Len(spans') - 1 = n BY <2>8, <1>6 DEF Appended
    <3>2. ASSUME NEW k \in 1 .. n, k # n PROVE spans'[k].end < spans'[k + 1].begin
      <4>1. k \in 1 .. n - 1 BY <3>2, <1>6
      <4> QED BY <4>1, <2>6, <2>8 DEF Appended
    <3>3. ASSUME n > 0 PROVE spans'[n].end < spans'[n + 1].begin
      <4>1. n \in 1 .. n BY <3>3, <1>6
      <4>2. spans'[n] = spans[n] /\ spans'[n + 1] = w
            /\ ~(Touching(spans[n], w) /\ MergeFits(spans[n], w, budget))
        BY <4>1, <3>3, <2>8 DEF Appended
      <4>3. MergeFits(spans[n], w, budget)
        <5>1. Inside(spans[n], old) BY <4>1, <1>6 DEF Inv, Types
        <5> DEFINE m == MergedEnd(spans[n], w)
                   b == spans[n].begin
        <5>2. m \in Nat /\ m <= old.words /\ b \in Nat
          BY <5>1, <1>4 DEF Inside, SpanRecords, MergedEnd
        <5>3. old.words > 0 BY <1>3, <1>4
        <5>4. EqualShare \in Nat /\ EqualShare <= budget BY <5>3, <1>3, HandHasItsShare
        <5>5. old.words <= AtMost(MaxSpan, EqualShare) BY <2>3 DEF Small
        <5>6. budget \in Nat /\ MaxSpan \in Nat BY Facts, LimitsAssumption
        <5> HIDE DEF m, b
        <5>7. old.words <= MergeLimit(budget) /\ MergeLimit(budget) \in Nat
          BY <5>4, <5>5, <5>6, <1>3 DEF AtMost, MergeLimit
        <5>8. m - b <= MergeLimit(budget) BY <5>2, <5>7, <1>3
        <5> QED BY <5>8 DEF MergeFits, m, b
      <4>4. ~(w.begin <= spans[n].end) BY <4>2, <4>3 DEF Touching
      <4>5. w.begin \in Nat /\ spans[n].end \in Nat BY <1>4, <1>6, <4>1 DEF SpanRecords
      <4>6. spans[n].end < w.begin BY <4>4, <4>5
      <4> QED BY <4>2, <4>6
    <3> QED BY <3>1, <3>2, <3>3, <2>4, <1>6
  <2> QED BY <2>7, <2>8, <1>8
<1> QED BY <1>12, <1>13, <1>14, <1>15, <1>16, <1>17 DEF Coverage

LEMMA CoverageStutter == ASSUME Coverage, UNCHANGED vars PROVE Coverage'
<1>1. /\ regions' = regions /\ at' = at /\ sites' = sites /\ spans' = spans /\ evaluated' = evaluated
      /\ truncated' = truncated /\ total_sites' = total_sites
      /\ processed_sites' = processed_sites /\ region_decoded' = region_decoded
  BY DEF vars, counters, spending
<1>2. EqualShare' = EqualShare BY <1>1, SharesAreConstant
<1>3. Looked' BY <1>1, <1>2 DEF Coverage, Looked, Pending, Small, Offset
<1>4. Undisturbed' BY <1>1 DEF Coverage, Undisturbed
<1>5. AllCounted' BY <1>1 DEF Coverage, AllCounted, Tallied
<1>6. Ordered' BY <1>1 DEF Coverage, Ordered, Offset
<1>7. Roomy' BY <1>1, <1>2 DEF Coverage, Roomy, Small, Idle
<1> QED BY <1>1, <1>3, <1>4, <1>5, <1>6, <1>7 DEF Coverage

LEMMA CoverageHolds == Spec => [](Inv /\ Coverage)
<1>1. Init => Inv /\ Coverage BY Start, CoverageStart
<1>2. Inv /\ [Next]_vars => Inv'
  BY SkipEmptyStep, SkipOverflowingStep, SelectSitesStep, MergeSiteStep, DecodeSpanStep,
     DropSpanStep, StutterStep DEF Next
<1>3. (Inv /\ Coverage) /\ [Next]_vars => Coverage'
  BY CoverageSkip, CoverageSelect, CoverageMerge, CoverageDecode, CoverageDrop, CoverageStutter
     DEF Next
<1> QED BY <1>1, <1>2, <1>3, PTL DEF Spec

(* What a scan says of its own coverage is true: one that does not call    *)
(* itself truncated has looked at every site, a region that fits into its  *)
(* equal share is looked at completely whatever the others are, and the    *)
(* sample of a larger one is spread evenly over it.                        *)
THEOREM CoverageIsSound == Spec => []SoundCoverage
<1>1. Inv /\ Coverage => SoundCoverage
  <2>1. SUFFICES ASSUME Inv, Coverage PROVE SoundCoverage OBVIOUS
  <2>2. regions \in RegionLists /\ regions \in Seq(Regions) /\ Len(regions) \in Nat
        /\ DOMAIN regions = 1 .. Len(regions) /\ at \in 1 .. Len(regions) + 1
        /\ \A r \in DOMAIN regions : regions[r] \in Regions
    <3>1. regions \in Seq(Regions) BY <2>1, Facts
    <3> QED BY <2>1, <3>1, Facts DEF Inv, Types
  <2>3. ASSUME Finished, NEW r \in DOMAIN regions, Regular(regions[r]),
               ~truncated \/ Small(regions[r]), NEW i \in InScope(regions[r])
        PROVE  <<r, i>> \in DOMAIN evaluated
    <3>1. r \in 1 .. at - 1 BY <2>2, <2>3 DEF Finished
    <3>2. ~Pending(r, i) BY <2>3 DEF Finished, Pending
    <3> QED BY <2>1, <2>3, <3>1, <3>2 DEF Coverage, Looked
  <2>4. HonestCoverage
    <3>1. SUFFICES ASSUME Finished, ~truncated
                   PROVE  /\ processed_sites = total_sites
                          /\ \A r \in DOMAIN regions : \A i \in DOMAIN regions[r].sites :
                               ~regions[r].sites[i].excluded => <<r, i>> \in DOMAIN evaluated
      BY DEF HonestCoverage
    <3>2. processed_sites = total_sites
      <4>1. PICK P : Tallied(P) BY <2>1, <3>1 DEF Coverage, AllCounted
      <4>2. Len(spans) = 0 /\ Cardinality(sites) = 0 BY <3>1, FS_EmptySet DEF Finished
      <4>3. P[0] = 0 /\ processed_sites + P[Len(spans)] + Cardinality(sites) = total_sites
        BY <4>1 DEF Tallied
      <4>4. processed_sites \in Nat BY <2>1 DEF Inv, Types
      <4> QED BY <4>2, <4>3, <4>4
    <3>3. ASSUME NEW r \in DOMAIN regions, NEW i \in DOMAIN regions[r].sites,
                 ~regions[r].sites[i].excluded
          PROVE  <<r, i>> \in DOMAIN evaluated
      <4>1. i \in InScope(regions[r]) BY <3>3 DEF InScope
      <4>2. Scannable(regions[r])
        <5>1. regions[r].sites[i].at < regions[r].words BY <2>2, RegionsAssumption
        <5>2. regions[r].sites \in Seq(Sites) /\ regions[r].words \in Nat BY <2>2 DEF Regions
        <5>3. regions[r].sites[i] \in Sites BY <5>2
        <5>4. regions[r].sites[i].at \in Nat BY <5>3 DEF Sites
        <5> QED BY <5>1, <5>2, <5>4 DEF Scannable
      <4>3. r \in 1 .. at - 1 BY <2>2, <3>1 DEF Finished
      <4>4. Regular(regions[r]) BY <2>1, <3>1, <4>2, <4>3 DEF Coverage, Undisturbed
      <4> QED BY <3>1, <4>1, <4>4, <2>3
    <3> QED BY <3>2, <3>3
  <2>5. SmallRegionsWhole
    <3>1. SUFFICES ASSUME Finished, NEW r \in DOMAIN regions, Scannable(regions[r]),
                          ~regions[r].overflows,
                          regions[r].words <= AtMost(MaxSpan, MaxDecoded \div Scanned),
                          SiteCount(regions[r]) <= MaxSites,
                          NEW i \in DOMAIN regions[r].sites, ~regions[r].sites[i].excluded
                   PROVE  <<r, i>> \in DOMAIN evaluated
      BY DEF SmallRegionsWhole
    <3>2. Regular(regions[r]) /\ Small(regions[r]) /\ i \in InScope(regions[r])
      BY <3>1 DEF Regular, Small, EqualShare, InScope
    <3> QED BY <3>1, <3>2, <2>3
  <2>6. SampledEvenly
    <3>1. SUFFICES ASSUME NEW r \in DOMAIN regions, NEW kind \in Kinds
                   PROVE  /\ Len(Sample(regions[r], kind)) = Quota(regions[r], kind)
                          /\ \A j, k \in DOMAIN Sample(regions[r], kind) :
                               Gap(OfKind(regions[r], kind), Sample(regions[r], kind), j)
                                 - Gap(OfKind(regions[r], kind), Sample(regions[r], kind), k) \in -1 .. 1
      BY DEF SampledEvenly, Kinds
    <3>2. Spread(OfKind(regions[r], kind), Sample(regions[r], kind), Quota(regions[r], kind))
      BY <2>2, SampleIsSpread
    <3> QED BY <3>2 DEF Spread
  <2> QED BY <2>4, <2>5, <2>6 DEF SoundCoverage
<1> QED BY <1>1, CoverageHolds, PTL

-----------------------------------------------------------------------------
(* The signs of protection that analyze_so passes on never make for an     *)
(* intent of 0.45 together, unless protection metadata is among them.      *)
LEMMA IntentNeedsMetadata ==
  ASSUME NEW t, NEW x, ~x.vmp_metadata_marker
  PROVE  Intent(t, x) \in 0 .. 35
<1> DEFINE linker == When(x.custom_linker_likely, 15)
           blob == When(x.has_large_entropy_blob, 6)
           imports == When(x.few_imports_and_init_array, 4)
           structure == When(~ConfirmedRuntime(x) /\ Structure(t) >= 70, 10)
<1>1. When(x.vmp_metadata_marker, 45) = 0 BY DEF When
<1>2. linker \in {0, 15} BY DEF When
<1>3. blob \in {0, 6} BY DEF When
<1>4. imports \in {0, 4} BY DEF When
<1>5. structure \in {0, 10} BY DEF When
<1>6. Intent(t, x) = Capped(100, 0 + linker + blob + imports + structure)
  BY <1>1 DEF Intent
<1> HIDE DEF linker, blob, imports, structure
<1>7. 0 + linker + blob + imports + structure \in 0 .. 35 BY <1>2, <1>3, <1>4, <1>5
<1> QED BY <1>6, <1>7 DEF Capped

(* A likely VMP is a possible one, in whatever order the outcomes are tried. *)
LEMMA LikelyIsPossible ==
  ASSUME NEW t, NEW x, NEW cut
  PROVE  Outcome(t, x, cut) = "LIKELY_VMP" <=> Possible(t, x)
BY DEF Outcome

(* Without protection metadata no library with fewer than five sites that  *)
(* close the path to their handlers is a likely VMP, whatever else is      *)
(* found in it.                                                            *)
THEOREM FewSitesNeverSuffice == VerdictSpec => []FewSitesAreNotEnough
<1>1. FewSitesAreNotEnough
  <2>1. SUFFICES ASSUME NEW x \in Considered, NEW cut \in BOOLEAN,
                        Outcome(tallies, x, cut) = "LIKELY_VMP", ~x.vmp_metadata_marker
                 PROVE  tallies.strong >= 5
    BY DEF FewSitesAreNotEnough
  <2>2. HighPrecision(tallies, x) BY <2>1, LikelyIsPossible DEF Possible
  <2>3. ~(Intent(tallies, x) >= 45) BY <2>1, IntentNeedsMetadata
  <2> QED BY <2>1, <2>2, <2>3 DEF HighPrecision
<1> QED BY <1>1, PTL

(* A scan that was cut short, or of code that packing hides, never comes   *)
(* out negative and keeps its positive verdict; a confirmed runtime is an  *)
(* explanation or a finding, never a suspicion.                            *)
THEOREM IncompleteScansStayOpen == VerdictSpec => []IncompleteIsInconclusive
<1>1. IncompleteIsInconclusive
  <2>1. SUFFICES ASSUME NEW x \in Considered
                 PROVE
      /\ (Outcome(tallies, x, TRUE) = "LIKELY_VMP") = (Outcome(tallies, x, FALSE) = "LIKELY_VMP")
      /\ Outcome(tallies, x, TRUE) \in {"LIKELY_VMP", "PARTIAL_ANALYSIS", "INCONCLUSIVE_PACKED"}
      /\ x.code_obscured_by_packing
           => Outcome(tallies, x, FALSE) \in {"LIKELY_VMP", "INCONCLUSIVE_PACKED"}
      /\ ConfirmedRuntime(x) /\ ~Coexistence(tallies, x)
           => Outcome(tallies, x, FALSE) # "SUSPICIOUS_VM_STRUCTURE"
    BY DEF IncompleteIsInconclusive
  <2>2. (Outcome(tallies, x, TRUE) = "LIKELY_VMP") = (Outcome(tallies, x, FALSE) = "LIKELY_VMP")
    <3>1. Outcome(tallies, x, TRUE) = "LIKELY_VMP" <=> Possible(tallies, x) BY LikelyIsPossible
    <3>2. Outcome(tallies, x, FALSE) = "LIKELY_VMP" <=> Possible(tallies, x) BY LikelyIsPossible
    <3> QED BY <3>1, <3>2
  <2>3. Outcome(tallies, x, TRUE) \in {"LIKELY_VMP", "PARTIAL_ANALYSIS", "INCONCLUSIVE_PACKED"}
    BY DEF Outcome
  <2>4. x.code_obscured_by_packing
          => Outcome(tallies, x, FALSE) \in {"LIKELY_VMP", "INCONCLUSIVE_PACKED"}
    BY DEF Outcome
  <2>5. ConfirmedRuntime(x) /\ ~Coexistence(tallies, x)
          => Outcome(tallies, x, FALSE) # "SUSPICIOUS_VM_STRUCTURE"
    BY DEF Outcome
  <2> QED BY <2>2, <2>3, <2>4, <2>5
<1> QED BY <1>1, PTL

-----------------------------------------------------------------------------
(* The greatest of finitely many integers, and the steps of a ladder.      *)
LEMMA GreatestExists ==
  ASSUME NEW S, S \subseteq Int, S # {}, IsFiniteSet(S)
  PROVE  \E m \in S : \A n \in S : m >= n
<1> DEFINE Bad(T) == T \in SUBSET Int /\ T # {} /\ IsFiniteSet(T) /\ ~\E m \in T : \A n \in T : m >= n
           Sizes_ == {k \in Nat : \E T \in SUBSET Int : Bad(T) /\ Cardinality(T) = k}
<1>1. SUFFICES ASSUME Bad(S) PROVE FALSE OBVIOUS
<1>2. Cardinality(S) \in Sizes_ BY <1>1, FS_CardinalityType
<1>3. PICK k \in Sizes_ : \A j \in Sizes_ : k <= j
  <2>1. Sizes_ \subseteq Nat /\ Sizes_ # {} BY <1>2
  <2> HIDE DEF Sizes_
  <2> QED BY <2>1, LeastNatural
<1>4. PICK T \in SUBSET Int : Bad(T) /\ Cardinality(T) = k BY <1>3
<1>5. PICK x \in T : TRUE BY <1>4
<1>6. IsFiniteSet(T \ {x}) /\ Cardinality(T \ {x}) = k - 1 /\ k \in Nat
  BY <1>3, <1>4, <1>5, FS_RemoveElement
<1>7. Cardinality(T \ {x}) \in Nat BY <1>6, FS_CardinalityType
<1>8. ~Bad(T \ {x})
  <2>1. SUFFICES ASSUME Bad(T \ {x}) PROVE FALSE OBVIOUS
  <2>2. k - 1 \in Sizes_ BY <1>6, <1>7, <2>1
  <2>3. k <= k - 1 BY <1>3, <2>2
  <2> QED BY <1>6, <2>3
<1>9. CASE T \ {x} = {}
  <2>1. \A n \in T : n = x BY <1>9
  <2> QED BY <1>4, <1>5, <2>1
<1>10. CASE T \ {x} # {}
  <2>1. PICK m \in T \ {x} : \A n \in T \ {x} : m >= n BY <1>4, <1>6, <1>8, <1>10
  <2>2. x \in Int /\ m \in Int BY <1>4, <1>5
  <2>3. CASE x >= m
    <3>1. \A n \in T : n \in Int /\ (n = x \/ m >= n) BY <1>4, <2>1
    <3>2. \A n \in T : x >= n BY <2>2, <2>3, <3>1
    <3> QED BY <1>4, <1>5, <3>2
  <2>4. CASE m >= x BY <1>4, <2>1, <2>4
  <2> QED BY <2>2, <2>3, <2>4
<1> QED BY <1>9, <1>10

LEMMA MaxIsGreatest ==
  ASSUME NEW S, S \subseteq Int, S # {}, IsFiniteSet(S)
  PROVE  Max(S) \in S /\ \A n \in S : n <= Max(S)
<1>1. \E m \in S : \A n \in S : m >= n BY GreatestExists
<1>2. Max(S) \in S /\ \A n \in S : Max(S) >= n BY <1>1 DEF Max
<1>3. \A n \in S : n \in Int OBVIOUS
<1> QED BY <1>2, <1>3

LEMMA TierIsNatural ==
  ASSUME NEW value, NEW ladder \in Seq(Nat \X Nat)
  PROVE  /\ tier(value, ladder) \in Nat
         /\ \A i \in DOMAIN ladder : value >= ladder[i][1] => ladder[i][2] <= tier(value, ladder)
         /\ \/ tier(value, ladder) = 0
            \/ \E i \in DOMAIN ladder : value >= ladder[i][1] /\ tier(value, ladder) = ladder[i][2]
<1> DEFINE R == {r \in ToSet(ladder) : value >= r[1]}
           S == {0} \cup {rung[2] : rung \in R}
           f == [i \in DOMAIN ladder |-> ladder[i][2]]
           D == {i \in DOMAIN ladder : value >= ladder[i][1]}
           g == [i \in D |-> ladder[i][2]]
<1>1. IsFiniteSet(D)
  <2>1. DOMAIN ladder = 1 .. Len(ladder) /\ Len(ladder) \in Nat OBVIOUS
  <2>2. IsFiniteSet(1 .. Len(ladder)) BY <2>1, FS_Interval
  <2> QED BY <2>1, <2>2, FS_Subset
<1>2. ToSet(ladder) = {ladder[i] : i \in DOMAIN ladder} BY DEF ToSet
<1>3. {rung[2] : rung \in R} = {ladder[i][2] : i \in D} BY <1>2
<1>4. IsFiniteSet({ladder[i][2] : i \in D})
  <2>1. g \in Surjection(D, {ladder[i][2] : i \in D}) BY DEF Surjection
  <2> QED BY <1>1, <2>1, FS_Surjection
<1>5. S \subseteq Nat
  <2>1. \A i \in DOMAIN ladder : ladder[i] \in Nat \X Nat OBVIOUS
  <2>2. \A i \in DOMAIN ladder : ladder[i][2] \in Nat BY <2>1
  <2>3. {ladder[i][2] : i \in D} \subseteq Nat BY <2>2
  <2>4. {rung[2] : rung \in R} \subseteq Nat BY <1>3, <2>3
  <2> HIDE DEF R
  <2> QED BY <2>4
<1>6. IsFiniteSet(S) BY <1>3, <1>4, FS_Singleton, FS_Union
<1>7. tier(value, ladder) = Max(S) BY DEF tier
<1> HIDE DEF S
<1>8. 0 \in S /\ S \subseteq Int BY <1>5 DEF S
<1>9. Max(S) \in S /\ \A n \in S : n <= Max(S) BY <1>6, <1>8, MaxIsGreatest
<1>10. \A i \in DOMAIN ladder : value >= ladder[i][1] => ladder[i][2] \in S BY <1>3 DEF S
<1>11. \A m \in S : m = 0 \/ \E i \in DOMAIN ladder : value >= ladder[i][1] /\ m = ladder[i][2]
  BY <1>3 DEF S
<1> QED BY <1>5, <1>7, <1>9, <1>10, <1>11

LEMMA WhenIsNatural ==
  ASSUME NEW condition, NEW weight \in Nat
  PROVE  When(condition, weight) \in Nat /\ When(condition, weight) <= weight
BY DEF When

LEMMA CappedIsNatural ==
  ASSUME NEW m \in Nat, NEW n \in Nat
  PROVE  Capped(m, n) \in Nat /\ (n <= m => Capped(m, n) = n) /\ (m <= n => Capped(m, n) = m)
BY DEF Capped

-----------------------------------------------------------------------------
(* The structure score is a number, whatever the tallies are, and a        *)
(* decisive closed dispatcher makes it more than 55.                       *)
LEMMA DataflowIsNatural ==
  ASSUME NEW t
  PROVE  /\ DataflowFamily(t) \in Nat
         /\ t.strong >= 4 /\ t.table_linked >= 2 => DataflowFamily(t) >= 52
<1> DEFINE l1 == <<<<1, 13>>, <<2, 25>>, <<3, 34>>, <<4, 44>>>>
           l2 == <<<<2, 4>>, <<3, 7>>, <<5, 10>>, <<8, 12>>>>
           a == tier(t.strong, l1)
           b == tier(t.classic_medium, l2)
           c == When(t.table_linked >= 2 \/ t.direct >= 2, 8)
<1>1. a \in Nat /\ (t.strong >= 4 => 44 <= a)
  <2>1. l1 \in Seq(Nat \X Nat) /\ 4 \in DOMAIN l1 /\ l1[4][1] = 4 /\ l1[4][2] = 44 OBVIOUS
  <2> HIDE DEF l1
  <2> QED BY <2>1, TierIsNatural
<1>2. b \in Nat
  <2>1. l2 \in Seq(Nat \X Nat) OBVIOUS
  <2> HIDE DEF l2
  <2> QED BY <2>1, TierIsNatural
<1>3. c \in Nat /\ (t.table_linked >= 2 => c = 8) BY DEF When
<1>4. DataflowFamily(t) = Capped(52, a + b + c) BY DEF DataflowFamily
<1> HIDE DEF a, b, c
<1>5. a + b + c \in Nat BY <1>1, <1>2, <1>3
<1>6. t.strong >= 4 /\ t.table_linked >= 2 => a + b + c >= 52 BY <1>1, <1>2, <1>3
<1> QED BY <1>4, <1>5, <1>6 DEF Capped

LEMMA EcologyIsNatural ==
  ASSUME NEW t PROVE EcologyFamily(t) \in Nat
<1> DEFINE l1 == <<<<2, 4>>, <<3, 8>>, <<4, 11>>, <<6, 14>>>>
           l2 == <<<<2, 3>>, <<3, 6>>, <<4, 8>>, <<6, 9>>>>
           l3 == <<<<3, 3>>, <<4, 5>>, <<6, 6>>, <<10, 7>>>>
           a == tier(t.classic, l1)
           b == tier(t.vip, l2)
           c == tier(t.cluster, l3)
<1>1. l1 \in Seq(Nat \X Nat) /\ l2 \in Seq(Nat \X Nat) /\ l3 \in Seq(Nat \X Nat) OBVIOUS
<1>2. EcologyFamily(t) = Capped(25, a + b + c) BY DEF EcologyFamily
<1> HIDE DEF l1, l2, l3
<1>3. a \in Nat /\ b \in Nat /\ c \in Nat BY <1>1, TierIsNatural
<1> HIDE DEF a, b, c
<1>4. a + b + c \in Nat BY <1>3
<1> QED BY <1>2, <1>4 DEF Capped

LEMMA StateIsNatural ==
  ASSUME NEW t
  PROVE  /\ StateFamily(t) \in Nat
         /\ t.classic_shared_context >= 2 /\ t.classic_back_edges >= 2 => StateFamily(t) >= 11
<1> DEFINE l1 == <<<<1, 4>>, <<2, 6>>, <<3, 8>>, <<5, 10>>>>
           l2 == <<<<1, 3>>, <<2, 5>>, <<3, 7>>, <<5, 8>>>>
           a == tier(t.classic_shared_context, l1)
           b == tier(t.classic_back_edges, l2)
           c == When(t.classic >= 4, 4)
           d == When((t.call > 0 \/ t.ret > 0) /\ t.classic >= 3, 3)
<1>1. a \in Nat /\ (t.classic_shared_context >= 2 => 6 <= a)
  <2>1. l1 \in Seq(Nat \X Nat) /\ 2 \in DOMAIN l1 /\ l1[2][1] = 2 /\ l1[2][2] = 6 OBVIOUS
  <2> HIDE DEF l1
  <2> QED BY <2>1, TierIsNatural
<1>2. b \in Nat /\ (t.classic_back_edges >= 2 => 5 <= b)
  <2>1. l2 \in Seq(Nat \X Nat) /\ 2 \in DOMAIN l2 /\ l2[2][1] = 2 /\ l2[2][2] = 5 OBVIOUS
  <2> HIDE DEF l2
  <2> QED BY <2>1, TierIsNatural
<1>3. c \in Nat /\ d \in Nat BY DEF When
<1>4. StateFamily(t) = Capped(20, a + b + c + d) BY DEF StateFamily
<1> HIDE DEF a, b, c, d
<1>5. a + b + c + d \in Nat BY <1>1, <1>2, <1>3
<1>6. t.classic_shared_context >= 2 /\ t.classic_back_edges >= 2 => a + b + c + d >= 11
  BY <1>1, <1>2, <1>3
<1> QED BY <1>4, <1>5, <1>6 DEF Capped

LEMMA MaxOfFew ==
  ASSUME NEW a \in Nat, NEW b \in Nat, NEW c \in Nat, NEW d \in Nat
  PROVE  /\ Max({a, b, c, d}) \in Nat /\ a <= Max({a, b, c, d}) /\ d <= Max({a, b, c, d})
         /\ Max({a, b, c}) \in Nat /\ a <= Max({a, b, c})
<1>1. IsFiniteSet({a, b, c, d})
  <2>1. IsFiniteSet({a}) /\ IsFiniteSet({b}) /\ IsFiniteSet({c}) /\ IsFiniteSet({d}) BY FS_Singleton
  <2>2. IsFiniteSet({a} \cup {b}) /\ IsFiniteSet({c} \cup {d}) BY <2>1, FS_Union
  <2>3. IsFiniteSet(({a} \cup {b}) \cup ({c} \cup {d})) BY <2>2, FS_Union
  <2>4. {a, b, c, d} = ({a} \cup {b}) \cup ({c} \cup {d}) OBVIOUS
  <2> QED BY <2>3, <2>4
<1>2. IsFiniteSet({a, b, c}) BY <1>1, FS_Subset
<1>3. Max({a, b, c, d}) \in {a, b, c, d} /\ \A n \in {a, b, c, d} : n <= Max({a, b, c, d})
  BY <1>1, MaxIsGreatest
<1>4. Max({a, b, c}) \in {a, b, c} /\ \A n \in {a, b, c} : n <= Max({a, b, c})
  BY <1>2, MaxIsGreatest
<1> QED BY <1>3, <1>4

Decisive(t) ==
  /\ t.strong >= 4 /\ t.table_linked >= 2
  /\ t.classic_shared_context >= 2 /\ t.classic_back_edges >= 2
LEMMA ClassicIsNatural ==
  ASSUME NEW t
  PROVE  /\ ClassicStructure(t) \in Nat
         /\ t.closed \/ Decisive(t) => ClassicStructure(t) > 55
<1> DEFINE f == DataflowFamily(t) e == EcologyFamily(t) g == StateFamily(t)
           a == Capped(100, f + e + g)
           b == When(t.strong >= 1 /\ t.table_linked >= 1 /\ t.advanced >= 1, 56)
           c == When(t.cycle, 70)
           d == When(t.closed, 78)
<1>1. f \in Nat /\ e \in Nat /\ g \in Nat BY DataflowIsNatural, EcologyIsNatural, StateIsNatural
<1>2. Decisive(t) => f >= 52 /\ g >= 11 BY DataflowIsNatural, StateIsNatural DEF Decisive
<1>3. b \in Nat /\ c \in Nat /\ d \in Nat /\ (t.closed => d = 78) BY DEF When
<1>4. ClassicStructure(t) = Max({a, b, c, d}) BY DEF ClassicStructure
<1> HIDE DEF f, e, g, b, c, d
<1>5. a \in Nat /\ (Decisive(t) => a > 55) BY <1>1, <1>2 DEF Capped
<1> HIDE DEF a
<1> DEFINE m == Max({a, b, c, d})
<1>6. m \in Nat /\ a <= m /\ d <= m BY <1>3, <1>5, MaxOfFew
<1> HIDE DEF m
<1>7. t.closed \/ Decisive(t) => m > 55 BY <1>3, <1>5, <1>6
<1> QED BY <1>4, <1>6, <1>7 DEF m

LEMMA StructureIsNatural ==
  ASSUME NEW t
  PROVE  /\ StructureScore(t) \in Nat
         /\ t.closed \/ Decisive(t) => StructureScore(t) > 55
<1> DEFINE l1 == <<<<4, 20>>, <<8, 34>>, <<12, 43>>, <<20, 50>>>>
           l2 == <<<<1, 18>>, <<2, 28>>, <<3, 36>>, <<5, 42>>>>
           u == tier(t.trampoline, l1) v == When(t.trampoline >= 4 /\ t.cluster >= 4, 10)
           w == tier(t.conditional, l2) z == When(t.conditional >= 2 /\ t.vip >= 2, 8)
           a == ClassicStructure(t) b == TrampolineStructure(t) c == ConditionalStructure(t)
<1>1. l1 \in Seq(Nat \X Nat) /\ l2 \in Seq(Nat \X Nat) OBVIOUS
<1>2. v \in Nat /\ z \in Nat BY DEF When
<1>3. b = Capped(62, u + v) /\ c = w + z BY DEF TrampolineStructure, ConditionalStructure
<1>4. StructureScore(t) = Max({a, b, c}) BY DEF StructureScore
<1>5. a \in Nat /\ (t.closed \/ Decisive(t) => a > 55) BY ClassicIsNatural
<1> HIDE DEF l1, l2
<1>6. u \in Nat /\ w \in Nat BY <1>1, TierIsNatural
<1> HIDE DEF a, b, c, u, v, w, z
<1>7. b \in Nat /\ c \in Nat BY <1>2, <1>3, <1>6 DEF Capped
<1> DEFINE m == Max({a, b, c})
<1>8. m \in Nat /\ a <= m BY <1>5, <1>7, MaxOfFew
<1> HIDE DEF m
<1>9. t.closed \/ Decisive(t) => m > 55 BY <1>5, <1>8
<1> QED BY <1>4, <1>8, <1>9 DEF m

-----------------------------------------------------------------------------
(* The numbers of the verdict, in any context                              *)
Rest(t, x) ==
  When(x.custom_linker_likely, 15) + When(x.has_large_entropy_blob, 6)
  + When(x.few_imports_and_init_array, 4)
  + When(~ConfirmedRuntime(x) /\ Structure(t) >= 70, 10)
LEMMA IntentIsNatural ==
  ASSUME NEW t, NEW x
  PROVE  /\ Rest(t, x) \in 0 .. 35
         /\ Intent(t, x) = (IF x.vmp_metadata_marker THEN 45 ELSE 0) + Rest(t, x)
<1> DEFINE m == When(x.vmp_metadata_marker, 45)
           linker == When(x.custom_linker_likely, 15)
           blob == When(x.has_large_entropy_blob, 6)
           imports == When(x.few_imports_and_init_array, 4)
           structure == When(~ConfirmedRuntime(x) /\ Structure(t) >= 70, 10)
<1>1. m = IF x.vmp_metadata_marker THEN 45 ELSE 0 BY DEF When
<1>2. linker \in {0, 15} BY DEF When
<1>3. blob \in {0, 6} BY DEF When
<1>4. imports \in {0, 4} BY DEF When
<1>5. structure \in {0, 10} BY DEF When
<1>6. Intent(t, x) = Capped(100, m + linker + blob + imports + structure) BY DEF Intent
<1>7. Rest(t, x) = linker + blob + imports + structure BY DEF Rest
<1> HIDE DEF m, linker, blob, imports, structure
<1>8. linker + blob + imports + structure \in 0 .. 35 BY <1>2, <1>3, <1>4, <1>5
<1>9. m \in {0, 45} BY <1>1
<1>10. m + linker + blob + imports + structure = m + (linker + blob + imports + structure)
  BY <1>2, <1>3, <1>4, <1>5, <1>9
<1>11. m + (linker + blob + imports + structure) <= 100 BY <1>8, <1>9
<1> QED BY <1>1, <1>6, <1>7, <1>8, <1>10, <1>11 DEF Capped

(* A context y says at least as much for protection as x does.             *)
SaysMore(t, x, y) ==
  /\ x.vmp_metadata_marker => y.vmp_metadata_marker
  /\ x.custom_linker_likely => y.custom_linker_likely
  /\ y.known_non_vm_framework => x.known_non_vm_framework
  /\ y.code_obscured_by_packing => x.code_obscured_by_packing
  /\ y.control_flow_obfuscation_likely => x.control_flow_obfuscation_likely
  /\ y.has_large_entropy_blob = x.has_large_entropy_blob
  /\ y.few_imports_and_init_array = x.few_imports_and_init_array
  /\ y.rounds_down = x.rounds_down
  /\ y.runtime_evidence_classes \in {x.runtime_evidence_classes, 0}
  /\ {x.runtime_evidence_classes, y.runtime_evidence_classes} \subseteq 0 .. 3

LEMMA ConfirmedLess ==
  ASSUME NEW t, NEW x, NEW y, SaysMore(t, x, y)
  PROVE  /\ ConfirmedRuntime(y) => ConfirmedRuntime(x)
         /\ WeakRuntime(y) => WeakRuntime(x)
         /\ ConfirmedRuntime(y) => (Coexistence(t, x) => Coexistence(t, y))
         /\ Coexistence(t, x) => Coexistence(t, y) \/ ~ConfirmedRuntime(y)
BY DEF SaysMore, ConfirmedRuntime, WeakRuntime, Coexistence

LEMMA IntentGrows ==
  ASSUME NEW t, NEW x, NEW y, SaysMore(t, x, y)
  PROVE  /\ Intent(t, x) \in Nat /\ Intent(t, y) \in Nat /\ Intent(t, x) <= Intent(t, y)
<1> DEFINE a == When(x.custom_linker_likely, 15) a_ == When(y.custom_linker_likely, 15)
           b == When(x.has_large_entropy_blob, 6) b_ == When(y.has_large_entropy_blob, 6)
           c == When(x.few_imports_and_init_array, 4) c_ == When(y.few_imports_and_init_array, 4)
           d == When(~ConfirmedRuntime(x) /\ Structure(t) >= 70, 10)
           d_ == When(~ConfirmedRuntime(y) /\ Structure(t) >= 70, 10)
<1>1. a \in Nat /\ a_ \in Nat /\ a <= a_ BY DEF When, SaysMore
<1>2. b \in Nat /\ b_ = b BY DEF When, SaysMore
<1>3. c \in Nat /\ c_ = c BY DEF When, SaysMore
<1>4. d \in Nat /\ d_ \in Nat /\ d <= d_ BY ConfirmedLess DEF When
<1>5. Rest(t, x) = a + b + c + d /\ Rest(t, y) = a_ + b_ + c_ + d_ BY DEF Rest
<1> HIDE DEF a, b, c, d, a_, b_, c_, d_
<1> DEFINE r == Rest(t, x) r_ == Rest(t, y) i == Intent(t, x) i_ == Intent(t, y)
<1>6. r <= r_ BY <1>1, <1>2, <1>3, <1>4, <1>5
<1>7. /\ r \in 0 .. 35 /\ i = (IF x.vmp_metadata_marker THEN 45 ELSE 0) + r
      /\ r_ \in 0 .. 35 /\ i_ = (IF y.vmp_metadata_marker THEN 45 ELSE 0) + r_
  BY IntentIsNatural
<1>8. x.vmp_metadata_marker => y.vmp_metadata_marker BY DEF SaysMore
<1> HIDE DEF r, r_, i, i_
<1>9. i \in Nat /\ i_ \in Nat /\ i <= i_ BY <1>6, <1>7, <1>8
<1> QED BY <1>9 DEF i, i_

LEMMA PenaltyShrinks ==
  ASSUME NEW t, NEW x, NEW y, SaysMore(t, x, y)
  PROVE  Penalty(t, x) \in Nat /\ Penalty(t, y) \in Nat /\ Penalty(t, y) <= Penalty(t, x)
<1> DEFINE a(z) == RuntimePenalty(t, z)
           b(z) == When(t.table_linked = 0 /\ t.direct_call >= 4, IF z.vmp_metadata_marker THEN 4 ELSE 12)
           c == SwitchPenalty(t)
           d(z) == When(t.eligible = 1 /\ ~z.vmp_metadata_marker, 8)
           e(z) == When(z.control_flow_obfuscation_likely /\ t.strong <= 1 /\ ~z.vmp_metadata_marker, 22)
<1>1. a(x) \in Nat /\ a(y) \in Nat /\ a(y) <= a(x)
  <2>1. Reaches(x, Structure(t), 25) <=> Reaches(y, Structure(t), 25) BY DEF Reaches, SaysMore
  <2>2. WeakRuntime(y) => WeakRuntime(x) BY ConfirmedLess
  <2>3. ConfirmedRuntime(y) => ConfirmedRuntime(x) /\ (Coexistence(t, x) => Coexistence(t, y))
    BY ConfirmedLess
  <2>4. ~(WeakRuntime(y) /\ ConfirmedRuntime(x)) \/ ConfirmedRuntime(y)
    BY DEF SaysMore, WeakRuntime, ConfirmedRuntime
  <2> QED BY <2>1, <2>2, <2>3, <2>4 DEF RuntimePenalty, When
<1>2. b(x) \in Nat /\ b(y) \in Nat /\ b(y) <= b(x) BY DEF When, SaysMore
<1>3. c \in Nat BY DEF SwitchPenalty, When
<1>4. d(x) \in Nat /\ d(y) \in Nat /\ d(y) <= d(x) BY DEF When, SaysMore
<1>5. e(x) \in Nat /\ e(y) \in Nat /\ e(y) <= e(x) BY DEF When, SaysMore
<1>6. /\ Penalty(t, x) = Capped(45, a(x) + b(x) + c + d(x) + e(x))
      /\ Penalty(t, y) = Capped(45, a(y) + b(y) + c + d(y) + e(y))
  BY DEF Penalty
<1> DEFINE ax == a(x) ay == a(y) bx == b(x) by == b(y) dx == d(x) dy == d(y) ex == e(x) ey == e(y)
           sx == ax + bx + c + dx + ex sy == ay + by + c + dy + ey
<1>7. /\ ax \in Nat /\ ay \in Nat /\ ay <= ax /\ bx \in Nat /\ by \in Nat /\ by <= bx /\ c \in Nat
      /\ dx \in Nat /\ dy \in Nat /\ dy <= dx /\ ex \in Nat /\ ey \in Nat /\ ey <= ex
  BY <1>1, <1>2, <1>3, <1>4, <1>5
<1>8. Penalty(t, x) = Capped(45, sx) /\ Penalty(t, y) = Capped(45, sy) BY <1>6
<1> HIDE DEF ax, ay, bx, by, c, dx, dy, ex, ey
<1>9. sx \in Nat /\ sy \in Nat /\ sy <= sx BY <1>7
<1> HIDE DEF sx, sy
<1> QED BY <1>8, <1>9 DEF Capped

LEMMA ScoreGrows ==
  ASSUME NEW t, Structure(t) \in Int, NEW x, NEW y, SaysMore(t, x, y)
  PROVE  Score(t, x) \in Int /\ Score(t, y) \in Int /\ Score(t, x) <= Score(t, y)
<1> DEFINE s == Structure(t) i == Intent(t, x) i_ == Intent(t, y)
           p == Penalty(t, x) p_ == Penalty(t, y)
<1>1. i \in Nat /\ i_ \in Nat /\ i <= i_ BY IntentGrows
<1>2. p \in Nat /\ p_ \in Nat /\ p_ <= p BY PenaltyShrinks
<1>3. Score(t, x) = 82 * s + 18 * i - 100 * p /\ Score(t, y) = 82 * s + 18 * i_ - 100 * p_
  BY DEF Score
<1>4. s \in Int OBVIOUS
<1> HIDE DEF s, i, i_, p, p_
<1> QED BY <1>1, <1>2, <1>3, <1>4

LEMMA ReachesMore ==
  ASSUME NEW x, NEW y, y.rounds_down = x.rounds_down, NEW m \in Int, NEW n \in Int, m <= n,
         NEW c \in Int, NEW d \in Int, d <= c, Reaches(x, m, c)
  PROVE  Reaches(y, n, d)
BY DEF Reaches

LEMMA PossibleGrows ==
  ASSUME NEW t, Structure(t) \in Int, NEW x, NEW y, SaysMore(t, x, y), Possible(t, x)
  PROVE  Possible(t, y)
<1> DEFINE i == Intent(t, x) i_ == Intent(t, y)
<1>1. i \in Nat /\ i_ \in Nat /\ i <= i_ BY IntentGrows
<1>2. /\ i >= 15 => i_ >= 15
      /\ i >= 35 => i_ >= 35
      /\ i >= 45 => i_ >= 45
      /\ i >= 55 => i_ >= 55
  <2> HIDE DEF i, i_
  <2> QED BY <1>1
<1>3. RuntimeOverride(t, y)
  BY <1>2, ConfirmedLess DEF Possible, RuntimeOverride
<1>4. WeakRuntimeOverride(t, y) BY <1>2, ConfirmedLess DEF Possible, WeakRuntimeOverride
<1>5. PackingOverride(t, y) BY DEF Possible, PackingOverride, SaysMore
<1>6. HighPrecision(t, y) BY <1>2 DEF Possible, HighPrecision, SaysMore
<1>7. /\ MetadataGate(t, x) => MetadataGate(t, y)
      /\ MetadataThreadedGate(t, x) => MetadataThreadedGate(t, y)
  BY DEF MetadataGate, MetadataThreadedGate, SaysMore
<1>8. AnyGate(t, y) BY <1>2, <1>7 DEF Possible, AnyGate
<1>9. /\ VerdictThreshold(t, x) \in Int /\ VerdictThreshold(t, y) \in Int
      /\ VerdictThreshold(t, y) <= VerdictThreshold(t, x)
  BY <1>7 DEF VerdictThreshold
<1>10. Reaches(y, Score(t, y), VerdictThreshold(t, y))
  <2>1. Reaches(x, Score(t, x), VerdictThreshold(t, x)) BY DEF Possible
  <2>2. y.rounds_down = x.rounds_down BY DEF SaysMore
  <2> QED BY <1>9, <2>1, <2>2, ScoreGrows, ReachesMore
<1> QED BY <1>3, <1>4, <1>5, <1>6, <1>8, <1>10 DEF Possible

LEMMA SuspiciousGrows ==
  ASSUME NEW t, Structure(t) \in Int, NEW x, NEW y, SaysMore(t, x, y), Suspicious(t, x)
  PROVE  Suspicious(t, y)
<1> DEFINE i == Intent(t, x) i_ == Intent(t, y)
<1>1. i \in Nat /\ i_ \in Nat /\ i <= i_ BY IntentGrows
<1>2. i >= 45 => i_ >= 45
  <2> HIDE DEF i, i_
  <2> QED BY <1>1
<1>3. Reaches(x, Score(t, x), 5000) => Reaches(y, Score(t, y), 5000)
  <2>1. y.rounds_down = x.rounds_down BY DEF SaysMore
  <2> QED BY <2>1, ScoreGrows, ReachesMore
<1>4. Reaches(x, Structure(t), 55) => Reaches(y, Structure(t), 55) BY DEF Reaches, SaysMore
<1> QED BY <1>2, <1>3, <1>4 DEF Suspicious, SaysMore

LEMMA VerdictValues ==
  ASSUME NEW t, NEW x
  PROVE  /\ Verdict(t, x) \in 0 .. 2
         /\ Verdict(t, x) = 2 <=> Possible(t, x)
         /\ Verdict(t, x) >= 1 <=>
              \/ Possible(t, x)
              \/ /\ ~x.code_obscured_by_packing /\ ~(ConfirmedRuntime(x) /\ ~Coexistence(t, x))
                 /\ Suspicious(t, x)
BY DEF Verdict, Rank, Outcome

(* What speaks for protection in the context never lowers the verdict.     *)
LEMMA VerdictGrows ==
  ASSUME NEW t, Structure(t) \in Int, NEW x, NEW y, SaysMore(t, x, y)
  PROVE  Verdict(t, x) <= Verdict(t, y)
<1>1. Possible(t, x) => Possible(t, y) BY PossibleGrows
<1>2. Suspicious(t, x) => Suspicious(t, y) BY SuspiciousGrows
<1>3. y.code_obscured_by_packing => x.code_obscured_by_packing BY DEF SaysMore
<1>4. ConfirmedRuntime(y) /\ ~Coexistence(t, y) => ConfirmedRuntime(x) /\ ~Coexistence(t, x)
  BY ConfirmedLess
<1> DEFINE v == Verdict(t, x) v_ == Verdict(t, y)
<1>5. v \in 0 .. 2 /\ v_ \in 0 .. 2 BY VerdictValues
<1>6. v = 2 => v_ = 2 BY <1>1, VerdictValues
<1>7. v >= 1 => v_ >= 1 BY <1>1, <1>2, <1>3, <1>4, VerdictValues
<1> HIDE DEF v, v_
<1>8. v <= v_ BY <1>5, <1>6, <1>7
<1> QED BY <1>8 DEF v, v_

LEMMA ContextsSayMore ==
  ASSUME NEW t, NEW x \in Contexts
  PROVE  /\ SaysMore(t, x, [x EXCEPT !.vmp_metadata_marker = TRUE])
         /\ SaysMore(t, x, [x EXCEPT !.custom_linker_likely = TRUE])
         /\ SaysMore(t, x, [x EXCEPT !.runtime_evidence_classes = 0])
         /\ SaysMore(t, [x EXCEPT !.known_non_vm_framework = TRUE], x)
         /\ SaysMore(t, [x EXCEPT !.control_flow_obfuscation_likely = TRUE], x)
         /\ SaysMore(t, [x EXCEPT !.code_obscured_by_packing = TRUE], x)
BY DEF SaysMore, Contexts

LEMMA ContextOrdersVerdicts ==
  ASSUME Structure(tallies) \in Int PROVE ContextIsMonotone
<1>1. SUFFICES ASSUME NEW x \in Considered
      PROVE
        /\ Verdict(tallies, [x EXCEPT !.vmp_metadata_marker = TRUE]) >= Verdict(tallies, x)
        /\ Verdict(tallies, [x EXCEPT !.custom_linker_likely = TRUE]) >= Verdict(tallies, x)
        /\ Verdict(tallies, [x EXCEPT !.runtime_evidence_classes = 0]) >= Verdict(tallies, x)
        /\ Verdict(tallies, [x EXCEPT !.known_non_vm_framework = TRUE]) <= Verdict(tallies, x)
        /\ Verdict(tallies, [x EXCEPT !.control_flow_obfuscation_likely = TRUE])
             <= Verdict(tallies, x)
        /\ Verdict(tallies, [x EXCEPT !.code_obscured_by_packing = TRUE]) <= Verdict(tallies, x)
  BY Zenon DEF ContextIsMonotone
<1>2. x \in Contexts BY ContextsAssumption
<1>3. \A y, z : SaysMore(tallies, y, z) => Verdict(tallies, y) <= Verdict(tallies, z)
  BY VerdictGrows
<1>4. \A y, z : SaysMore(tallies, y, z) => Verdict(tallies, z) >= Verdict(tallies, y)
  <2>1. \A y : Verdict(tallies, y) \in Int BY VerdictValues
  <2> QED BY <1>3, <2>1
<1> QED BY <1>2, <1>3, <1>4, ContextsSayMore

-----------------------------------------------------------------------------
(* What is tallied is counted: the candidates are finitely many.           *)
CountsInv ==
  /\ IsFiniteSet(DOMAIN candidates) /\ \A c \in DOMAIN candidates : candidates[c] \in Nat
  /\ switch_like_sites \in Nat /\ vtable_sites \in Nat
  /\ tallies = Tallies(candidates, switch_like_sites, vtable_sites)

Occurrences(bag, S) == UNION {{c} \X (1 .. bag[c]) : c \in S}

LEMMA OccurrencesAreFinite ==
  ASSUME NEW bag, IsFiniteSet(DOMAIN bag), \A c \in DOMAIN bag : bag[c] \in Nat,
         NEW S, S \subseteq DOMAIN bag
  PROVE  IsFiniteSet(Occurrences(bag, S)) /\ Cardinality(Occurrences(bag, S)) \in Nat
<1> DEFINE Copies == {{c} \X (1 .. bag[c]) : c \in S}
           copies == [c \in S |-> {c} \X (1 .. bag[c])]
<1>1. IsFiniteSet(S) BY FS_Subset
<1>2. copies \in Surjection(S, Copies) BY DEF Surjection
<1> HIDE DEF copies
<1>3. IsFiniteSet(Copies) BY <1>1, <1>2, FS_Surjection
<1>4. ASSUME NEW T \in Copies PROVE IsFiniteSet(T)
  <2>1. PICK c \in S : T = {c} \X (1 .. bag[c]) BY <1>4
  <2>2. IsFiniteSet({c}) BY FS_Singleton
  <2>3. bag[c] \in Nat /\ 1 \in Int BY <2>1
  <2>4. IsFiniteSet(1 .. bag[c]) BY <2>3, FS_Interval
  <2>5. \A U, W : IsFiniteSet(U) /\ IsFiniteSet(W) => IsFiniteSet(U \X W) BY FS_Product
  <2> QED BY <2>1, <2>2, <2>4, <2>5
<1> HIDE DEF Copies
<1>5. IsFiniteSet(UNION Copies) BY <1>3, <1>4, FS_UNION
<1>6. Cardinality(UNION Copies) \in Nat BY <1>5, FS_CardinalityType
<1> QED BY <1>5, <1>6 DEF Copies, Occurrences

LEMMA TalliesAreNumbers ==
  ASSUME CountsInv
  PROVE  /\ Structure(tallies) \in Nat /\ tallies.table_linked \in Nat
         /\ DecisiveClosed(tallies) => Structure(tallies) > 55
<1> DEFINE t == Counted(candidates, switch_like_sites, vtable_sites)
           linked == {c \in BagToSet(candidates) : c.table_linked}
<1>1. tallies = [f \in DOMAIN t \cup {"structure"} |->
                   IF f = "structure" THEN StructureScore(t) ELSE t[f]]
  BY DEF CountsInv, Tallies
<1>2. "structure" \notin DOMAIN t /\ {"table_linked", "strong", "closed", "family",
        "classic_shared_context", "classic_back_edges"} \subseteq DOMAIN t
  BY DEF Counted
<1>3. t.table_linked = Count(candidates, LAMBDA c : c.table_linked) BY DEF Counted
<1>4. t.table_linked = Cardinality(Occurrences(candidates, linked))
  BY <1>3 DEF Count, Occurrences
<1>5. linked \subseteq DOMAIN candidates BY DEF BagToSet
<1> HIDE DEF t, linked
<1>6. t.table_linked \in Nat BY <1>4, <1>5, OccurrencesAreFinite DEF CountsInv
<1>7. /\ tallies.structure = StructureScore(t)
      /\ tallies.table_linked = t.table_linked /\ tallies.strong = t.strong
      /\ tallies.closed = t.closed /\ tallies.family = t.family
      /\ tallies.classic_shared_context = t.classic_shared_context
      /\ tallies.classic_back_edges = t.classic_back_edges
  BY <1>1, <1>2
<1>8. StructureScore(t) \in Nat /\ (t.closed \/ Decisive(t) => StructureScore(t) > 55)
  BY StructureIsNatural
<1>9. DecisiveClosed(tallies) => t.closed \/ Decisive(t)
  <2>1. t.table_linked >= 3 => t.table_linked >= 2 BY <1>6
  <2> QED BY <1>7, <2>1 DEF DecisiveClosed, Decisive
<1> QED BY <1>6, <1>7, <1>8, <1>9 DEF Structure

LEMMA CountsStep ==
  ASSUME CountsInv, [VerdictNext]_verdict_vars PROVE CountsInv'
<1>1. CASE VerdictNext
  <2>1. PICK s \in Catalogue, n \in Repeats : Collect(s, n) BY <1>1 DEF VerdictNext
  <2>2. n \in Nat BY CatalogueAssumption
  <2>3. /\ tallies' = Tallies(candidates', switch_like_sites', vtable_sites')
        /\ switch_like_sites' \in Nat /\ vtable_sites' \in Nat
    BY <2>1, <2>2 DEF Collect, CountsInv, When
  <2>4. CASE candidates' = candidates BY <2>3, <2>4 DEF CountsInv
  <2>5. CASE candidates' = candidates (+) [c \in {InternalCandidate(s)} |-> n]
    <3> DEFINE d == InternalCandidate(s) one == [c \in {d} |-> n]
    <3>1. DOMAIN one = {d} /\ one[d] = n OBVIOUS
    <3> HIDE DEF d, one
    <3>2. candidates' = candidates (+) one BY <2>5 DEF d, one
    <3>3. /\ DOMAIN candidates' = DOMAIN candidates \cup {d}
          /\ \A c \in DOMAIN candidates' : candidates'[c] =
               (IF c \in DOMAIN candidates THEN candidates[c] ELSE 0)
               + (IF c \in DOMAIN one THEN one[c] ELSE 0)
      BY <3>1, <3>2 DEF (+)
    <3>4. IsFiniteSet(DOMAIN candidates') BY <3>3, FS_AddElement DEF CountsInv
    <3>5. \A c \in DOMAIN candidates' : candidates'[c] \in Nat
      BY <2>2, <3>1, <3>3 DEF CountsInv
    <3> QED BY <2>3, <3>4, <3>5 DEF CountsInv
  <2> QED BY <2>1, <2>4, <2>5 DEF Collect
<1>2. CASE UNCHANGED verdict_vars BY <1>2 DEF verdict_vars, CountsInv
<1> QED BY <1>1, <1>2

LEMMA CountsAlways == VerdictSpec => []CountsInv
<1>1. VerdictInit => CountsInv
  <2>1. DOMAIN EmptyBag = {} BY DEF EmptyBag, SetToBag
  <2> QED BY <2>1, FS_EmptySet DEF VerdictInit, CountsInv
<1>2. CountsInv /\ [VerdictNext]_verdict_vars => CountsInv' BY CountsStep
<1> QED BY <1>1, <1>2, PTL DEF VerdictSpec

(* A decisive closed dispatcher together with protection metadata is never *)
(* explained away.                                                         *)
LEMMA CoexistenceIsKept ==
  ASSUME CountsInv PROVE CoexistenceKept
<1>1. SUFFICES ASSUME NEW x \in Considered, x.vmp_metadata_marker, DecisiveClosed(tallies),
                      ~x.code_obscured_by_packing
               PROVE  Verdict(tallies, x) >= 1
  BY DEF CoexistenceKept
<1>2. Structure(tallies) \in Nat /\ Structure(tallies) > 55 BY <1>1, TalliesAreNumbers
<1>3. Suspicious(tallies, x) BY <1>1, <1>2 DEF Suspicious, Reaches
<1>4. ConfirmedRuntime(x) => Coexistence(tallies, x) BY <1>1 DEF Coexistence
<1> QED BY <1>1, <1>3, <1>4, VerdictValues

(* ExplanationsHaveLimits: whatever sites were collected, a sign of        *)
(* protection never lowers the verdict, an alternative explanation never   *)
(* raises it, and none explains away a closed dispatcher with metadata.    *)
THEOREM ExplanationsStayLimited == VerdictSpec => []ExplanationsHaveLimits
<1>1. CountsInv => ExplanationsHaveLimits
  BY TalliesAreNumbers, ContextOrdersVerdicts, CoexistenceIsKept DEF ExplanationsHaveLimits
<1> QED BY <1>1, CountsAlways, PTL

-----------------------------------------------------------------------------
(* More sites. A bag that holds at least as many of each candidate         *)
IsCounted(bag) == IsFiniteSet(DOMAIN bag) /\ \A c \in DOMAIN bag : bag[c] \in Nat
Extends(bag, more) ==
  /\ IsCounted(bag) /\ IsCounted(more) /\ DOMAIN bag \subseteq DOMAIN more
  /\ \A c \in DOMAIN bag : bag[c] <= more[c]

LEMMA OccurrencesGrow ==
  ASSUME NEW bag, NEW more, Extends(bag, more),
         NEW S, S \subseteq DOMAIN bag, NEW T, T \subseteq DOMAIN more, S \subseteq T
  PROVE  /\ Cardinality(Occurrences(bag, S)) \in Nat /\ Cardinality(Occurrences(more, T)) \in Nat
         /\ Cardinality(Occurrences(bag, S)) <= Cardinality(Occurrences(more, T))
<1>1. /\ IsFiniteSet(Occurrences(bag, S)) /\ Cardinality(Occurrences(bag, S)) \in Nat
      /\ IsFiniteSet(Occurrences(more, T)) /\ Cardinality(Occurrences(more, T)) \in Nat
  BY OccurrencesAreFinite DEF Extends, IsCounted
<1>2. Occurrences(bag, S) \subseteq Occurrences(more, T)
  <2>1. SUFFICES ASSUME NEW o \in Occurrences(bag, S) PROVE o \in Occurrences(more, T) OBVIOUS
  <2>2. PICK c \in S : o \in {c} \X (1 .. bag[c]) BY DEF Occurrences
  <2>3. bag[c] \in Nat /\ more[c] \in Nat /\ bag[c] <= more[c] /\ c \in T
    BY DEF Extends, IsCounted
  <2>4. 1 .. bag[c] \subseteq 1 .. more[c] BY <2>3
  <2>5. o \in {c} \X (1 .. more[c]) BY <2>2, <2>4
  <2> QED BY <2>3, <2>5 DEF Occurrences
<1> QED BY <1>1, <1>2, FS_Subset

(* The greatest of several numbers of occurrences                          *)
Crowds(bag, D, S) == {0} \cup {Cardinality(Occurrences(bag, S[d])) : d \in D}

LEMMA CrowdsAreFinite ==
  ASSUME NEW bag, IsCounted(bag), NEW D, IsFiniteSet(D),
         NEW S \in [D -> SUBSET DOMAIN bag]
  PROVE  /\ Crowds(bag, D, S) \subseteq Nat /\ Max(Crowds(bag, D, S)) \in Crowds(bag, D, S)
         /\ \A n \in Crowds(bag, D, S) : n <= Max(Crowds(bag, D, S))
<1> DEFINE M == {Cardinality(Occurrences(bag, S[d])) : d \in D}
           sizes == [d \in D |-> Cardinality(Occurrences(bag, S[d]))]
           N == Crowds(bag, D, S)
<1>1. \A d \in D : Cardinality(Occurrences(bag, S[d])) \in Nat
  BY OccurrencesAreFinite DEF IsCounted
<1>2. sizes \in Surjection(D, M) BY DEF Surjection
<1>3. M \subseteq Nat BY <1>1
<1>4. N = {0} \cup M BY DEF Crowds
<1> HIDE DEF sizes, M, N
<1>5. IsFiniteSet(M) BY <1>2, FS_Surjection
<1>6. IsFiniteSet(N)
  <2>1. IsFiniteSet({0}) BY FS_Singleton
  <2> QED BY <1>4, <1>5, <2>1, FS_Union
<1>7. N \subseteq Nat /\ N \subseteq Int /\ N # {} BY <1>3, <1>4
<1>8. Max(N) \in N /\ \A n \in N : n <= Max(N) BY <1>6, <1>7, MaxIsGreatest
<1> QED BY <1>7, <1>8 DEF N

LEMMA CrowdsGrow ==
  ASSUME NEW bag, NEW more, Extends(bag, more),
         NEW D, D \subseteq DOMAIN bag, NEW E, E \subseteq DOMAIN more, D \subseteq E,
         NEW S \in [D -> SUBSET DOMAIN bag], NEW T \in [E -> SUBSET DOMAIN more],
         \A d \in D : S[d] \subseteq T[d]
  PROVE  /\ Max(Crowds(bag, D, S)) \in Nat /\ Max(Crowds(more, E, T)) \in Nat
         /\ Max(Crowds(bag, D, S)) <= Max(Crowds(more, E, T))
<1> DEFINE M == Crowds(bag, D, S)  N == Crowds(more, E, T)  m == Max(M)  n == Max(N)
<1>1. IsFiniteSet(D) /\ IsFiniteSet(E) /\ IsCounted(bag) /\ IsCounted(more)
  BY FS_Subset DEF Extends, IsCounted
<1>2. M \subseteq Nat /\ m \in M BY <1>1, CrowdsAreFinite
<1>3. N \subseteq Nat /\ n \in N /\ \A k \in N : k <= n BY <1>1, CrowdsAreFinite
<1>4. \A k \in M : k = 0 \/ \E d \in D : k = Cardinality(Occurrences(bag, S[d])) BY DEF Crowds
<1>5. \A d \in E : Cardinality(Occurrences(more, T[d])) \in N BY DEF Crowds
<1> HIDE DEF m, n, M, N
<1>6. m \in Nat /\ n \in Nat BY <1>2, <1>3
<1>7. CASE m = 0
  <2>1. m <= n BY <1>6, <1>7
  <2> QED BY <1>6, <2>1 DEF m, n, M, N
<1>8. CASE m # 0
  <2>1. PICK d \in D : m = Cardinality(Occurrences(bag, S[d])) BY <1>2, <1>4, <1>8
  <2>2. S[d] \subseteq DOMAIN bag /\ T[d] \subseteq DOMAIN more /\ S[d] \subseteq T[d] BY <2>1
  <2> DEFINE k == Cardinality(Occurrences(more, T[d]))
  <2>3. k \in Nat /\ m <= k BY <2>1, <2>2, OccurrencesGrow
  <2>4. k \in N BY <1>5, <2>1
  <2> HIDE DEF k
  <2>5. m <= n BY <1>3, <1>6, <2>3, <2>4
  <2> QED BY <1>6, <2>5 DEF m, n, M, N
<1> QED BY <1>7, <1>8

-----------------------------------------------------------------------------
(* The tallies, as numbers of occurrences and as greatest crowds           *)
Counters ==
  {"strong", "eligible", "classic", "classic_medium", "classic_back_edges",
   "classic_shared_context", "table_linked", "advanced", "direct", "direct_call", "trampoline",
   "call", "ret", "conditional"}
Meets(k, c) ==
  \/ k = "strong" /\ c.strong
  \/ k = "eligible" /\ (c.strong \/ c.medium \/ c.conditional)
  \/ k = "classic" /\ Classic(c)
  \/ k = "classic_medium" /\ Classic(c) /\ c.medium
  \/ k = "classic_back_edges" /\ Classic(c) /\ c.back_edge
  \/ k = "classic_shared_context" /\ Classic(c) /\ c.shared_context
  \/ k = "table_linked" /\ c.table_linked
  \/ k = "advanced" /\ c.vip_advanced
  \/ k = "direct" /\ c.direct /\ ~c.trampoline
  \/ k = "direct_call" /\ c.direct /\ c.call /\ ~c.trampoline
  \/ k = "trampoline" /\ c.trampoline
  \/ k = "call" /\ c.call
  \/ k = "ret" /\ c.ret
  \/ k = "conditional" /\ c.conditional
Chosen(bag, k) == {c \in DOMAIN bag : Meets(k, c)}

Peaks == {"vip", "strong_vip", "family", "cluster"}
Joins(k, c) ==
  \/ k = "vip" /\ Classic(c) /\ c.vip # ""
  \/ k = "strong_vip" /\ Classic(c) /\ c.vip # "" /\ c.strong
  \/ k = "family" /\ Classic(c) /\ c.strong /\ c.vip # ""
  \/ k = "cluster"
Kin(k, c, d) ==
  \/ k \in {"vip", "strong_vip"} /\ c.vip = d.vip
  \/ k = "family" /\ c.vip = d.vip /\ c.table = d.table
  \/ k = "cluster"
Within(k) == IF k = "family" THEN 1 ELSE IF k = "cluster" THEN 0 ELSE 7
Heads(bag, k) == {d \in DOMAIN bag : Joins(k, d)}
Near(bag, k) ==
  [d \in Heads(bag, k) |->
     {c \in DOMAIN bag : Joins(k, c) /\ Kin(k, c, d) /\ c.page \in d.page .. d.page + Within(k)}]

LEMMA CountersCount ==
  ASSUME NEW bag, NEW switches, NEW vtables, NEW k \in Counters
  PROVE  Counted(bag, switches, vtables)[k] = Cardinality(Occurrences(bag, Chosen(bag, k)))
<1> USE DEF Counted, Count, Occurrences, BagToSet, Chosen, Meets
<1>1. CASE k = "strong" BY <1>1
<1>2. CASE k = "eligible" BY <1>2
<1>3. CASE k = "classic" BY <1>3
<1>4. CASE k = "classic_medium" BY <1>4
<1>5. CASE k = "classic_back_edges" BY <1>5
<1>6. CASE k = "classic_shared_context" BY <1>6
<1>7. CASE k = "table_linked" BY <1>7
<1>8. CASE k = "advanced" BY <1>8
<1>9. CASE k = "direct" BY <1>9
<1>10. CASE k = "direct_call" BY <1>10
<1>11. CASE k = "trampoline" BY <1>11
<1>12. CASE k = "call" BY <1>12
<1>13. CASE k = "ret" BY <1>13
<1>14. CASE k = "conditional" BY <1>14
<1> QED
  BY <1>1, <1>2, <1>3, <1>4, <1>5, <1>6, <1>7, <1>8, <1>9, <1>10, <1>11, <1>12, <1>13, <1>14
     DEF Counters

(* The groups a greatest crowd is looked for in                            *)
Fellows(bag, k, d) ==
  {c \in DOMAIN bag : Joins(k, c) /\ Kin(k, c, d) /\ c.page \in d.page .. d.page + Within(k)}

LEMMA CrowdsByFellows ==
  ASSUME NEW bag, NEW k
  PROVE  Crowds(bag, Heads(bag, k), Near(bag, k)) =
           {0} \cup {Cardinality(Occurrences(bag, Fellows(bag, k, d))) : d \in Heads(bag, k)}
<1>1. \A d \in Heads(bag, k) : Near(bag, k)[d] = Fellows(bag, k, d) BY DEF Near, Fellows
<1> QED BY <1>1 DEF Crowds

LEMMA VipIsACrowd ==
  ASSUME NEW bag
  PROVE  max_local_vip_sites(bag, FALSE) = Max(Crowds(bag, Heads(bag, "vip"), Near(bag, "vip")))
<1> DEFINE H == {d \in BagToSet(bag) : Classic(d) /\ d.vip # "" /\ (FALSE => d.strong)}
           F(d) == {c \in BagToSet(bag) : (Classic(c) /\ c.vip # "" /\ (FALSE => c.strong))
                      /\ c.vip = d.vip /\ c.page \in d.page .. d.page + 7}
<1>1. max_local_vip_sites(bag, FALSE) = Max({0} \cup {Cardinality(Occurrences(bag, F(d))) : d \in H})
  BY DEF max_local_vip_sites, Densest, Count, Occurrences
<1>2. H = Heads(bag, "vip") BY DEF Heads, Joins, BagToSet
<1>3. \A d : F(d) = Fellows(bag, "vip", d) BY DEF Fellows, Joins, Kin, Within, BagToSet
<1> HIDE DEF H, F
<1>4. {Cardinality(Occurrences(bag, F(d))) : d \in H}
        = {Cardinality(Occurrences(bag, Fellows(bag, "vip", d))) : d \in Heads(bag, "vip")}
  BY <1>2, <1>3
<1> QED BY <1>1, <1>4, CrowdsByFellows

LEMMA StrongVipIsACrowd ==
  ASSUME NEW bag
  PROVE  max_local_vip_sites(bag, TRUE)
           = Max(Crowds(bag, Heads(bag, "strong_vip"), Near(bag, "strong_vip")))
<1> DEFINE H == {d \in BagToSet(bag) : Classic(d) /\ d.vip # "" /\ (TRUE => d.strong)}
           F(d) == {c \in BagToSet(bag) : (Classic(c) /\ c.vip # "" /\ (TRUE => c.strong))
                      /\ c.vip = d.vip /\ c.page \in d.page .. d.page + 7}
<1>1. max_local_vip_sites(bag, TRUE) = Max({0} \cup {Cardinality(Occurrences(bag, F(d))) : d \in H})
  BY DEF max_local_vip_sites, Densest, Count, Occurrences
<1>2. H = Heads(bag, "strong_vip") BY DEF Heads, Joins, BagToSet
<1>3. \A d : F(d) = Fellows(bag, "strong_vip", d) BY DEF Fellows, Joins, Kin, Within, BagToSet
<1> HIDE DEF H, F
<1>4. {Cardinality(Occurrences(bag, F(d))) : d \in H}
        = {Cardinality(Occurrences(bag, Fellows(bag, "strong_vip", d))) : d \in Heads(bag, "strong_vip")}
  BY <1>2, <1>3
<1> QED BY <1>1, <1>4, CrowdsByFellows

LEMMA FamilyIsACrowd ==
  ASSUME NEW bag
  PROVE  max_local_strong_family(bag) = Max(Crowds(bag, Heads(bag, "family"), Near(bag, "family")))
<1> DEFINE H == {d \in BagToSet(bag) : Classic(d) /\ d.strong /\ d.vip # ""}
           F(d) == {c \in BagToSet(bag) : (Classic(c) /\ c.strong /\ c.vip # "")
                      /\ <<c.vip, c.table>> = <<d.vip, d.table>> /\ c.page \in d.page .. d.page + 1}
<1>1. max_local_strong_family(bag) = Max({0} \cup {Cardinality(Occurrences(bag, F(d))) : d \in H})
  BY DEF max_local_strong_family, Densest, Count, Occurrences
<1>2. H = Heads(bag, "family") BY DEF Heads, Joins, BagToSet
<1>3. \A d : F(d) = Fellows(bag, "family", d) BY DEF Fellows, Joins, Kin, Within, BagToSet
<1> HIDE DEF H, F
<1>4. {Cardinality(Occurrences(bag, F(d))) : d \in H}
        = {Cardinality(Occurrences(bag, Fellows(bag, "family", d))) : d \in Heads(bag, "family")}
  BY <1>2, <1>3
<1> QED BY <1>1, <1>4, CrowdsByFellows

LEMMA ClusterIsACrowd ==
  ASSUME NEW bag
  PROVE  cluster_size(bag) = Max(Crowds(bag, Heads(bag, "cluster"), Near(bag, "cluster")))
<1> DEFINE H == {d \in BagToSet(bag) : TRUE}
           F(d) == {c \in BagToSet(bag) : TRUE /\ TRUE = TRUE /\ c.page \in d.page .. d.page + 0}
<1>1. cluster_size(bag) = Max({0} \cup {Cardinality(Occurrences(bag, F(d))) : d \in H})
  BY DEF cluster_size, Densest, Count, Occurrences
<1>2. H = Heads(bag, "cluster") BY DEF Heads, Joins, BagToSet
<1>3. \A d : F(d) = Fellows(bag, "cluster", d) BY DEF Fellows, Joins, Kin, Within, BagToSet
<1> HIDE DEF H, F
<1>4. {Cardinality(Occurrences(bag, F(d))) : d \in H}
        = {Cardinality(Occurrences(bag, Fellows(bag, "cluster", d))) : d \in Heads(bag, "cluster")}
  BY <1>2, <1>3
<1> QED BY <1>1, <1>4, CrowdsByFellows

LEMMA PeaksAreCrowds ==
  ASSUME NEW bag, NEW switches, NEW vtables, NEW k \in Peaks
  PROVE  Counted(bag, switches, vtables)[k] = Max(Crowds(bag, Heads(bag, k), Near(bag, k)))
<1>1. CASE k = "vip" BY <1>1, VipIsACrowd DEF Counted
<1>2. CASE k = "strong_vip" BY <1>2, StrongVipIsACrowd DEF Counted
<1>3. CASE k = "family" BY <1>3, FamilyIsACrowd DEF Counted
<1>4. CASE k = "cluster" BY <1>4, ClusterIsACrowd DEF Counted
<1> QED BY <1>1, <1>2, <1>3, <1>4 DEF Peaks

(* More sites, more of everything that is tallied of the candidates        *)
LEMMA CountsGrow ==
  ASSUME NEW bag, NEW more, Extends(bag, more), NEW n, NEW m, NEW n_, NEW m_,
         NEW k \in Counters \cup Peaks
  PROVE  /\ Counted(bag, n, m)[k] \in Nat /\ Counted(more, n_, m_)[k] \in Nat
         /\ Counted(bag, n, m)[k] <= Counted(more, n_, m_)[k]
<1>1. DOMAIN bag \subseteq DOMAIN more BY DEF Extends
<1>2. CASE k \in Counters
  <2>1. /\ Chosen(bag, k) \subseteq DOMAIN bag /\ Chosen(more, k) \subseteq DOMAIN more
        /\ Chosen(bag, k) \subseteq Chosen(more, k)
    BY <1>1 DEF Chosen
  <2>2. /\ Counted(bag, n, m)[k] = Cardinality(Occurrences(bag, Chosen(bag, k)))
        /\ Counted(more, n_, m_)[k] = Cardinality(Occurrences(more, Chosen(more, k)))
    BY <1>2, CountersCount
  <2> QED BY <2>1, <2>2, OccurrencesGrow
<1>3. CASE k \in Peaks
  <2>1. /\ Heads(bag, k) \subseteq DOMAIN bag /\ Heads(more, k) \subseteq DOMAIN more
        /\ Heads(bag, k) \subseteq Heads(more, k)
    BY <1>1 DEF Heads
  <2>2. /\ Near(bag, k) \in [Heads(bag, k) -> SUBSET DOMAIN bag]
        /\ Near(more, k) \in [Heads(more, k) -> SUBSET DOMAIN more]
    BY DEF Near
  <2>3. \A d \in Heads(bag, k) : Near(bag, k)[d] \subseteq Near(more, k)[d]
    BY <1>1, <2>1 DEF Near
  <2>4. /\ Counted(bag, n, m)[k] = Max(Crowds(bag, Heads(bag, k), Near(bag, k)))
        /\ Counted(more, n_, m_)[k] = Max(Crowds(more, Heads(more, k), Near(more, k)))
    BY <1>3, PeaksAreCrowds
  <2> QED BY <2>1, <2>2, <2>3, <2>4, CrowdsGrow
<1> QED BY <1>2, <1>3

-----------------------------------------------------------------------------
(* The structure score of more sites                                       *)
Grown(t, t_) ==
  /\ \A k \in Counters \cup Peaks : t[k] \in Nat /\ t_[k] \in Nat /\ t[k] <= t_[k]
  /\ t.cycle => t_.cycle
  /\ t.closed => t_.closed

LEMMA TierGrows ==
  ASSUME NEW m \in Nat, NEW n \in Nat, m <= n, NEW ladder \in Seq(Nat \X Nat)
  PROVE  tier(m, ladder) \in Nat /\ tier(n, ladder) \in Nat /\ tier(m, ladder) <= tier(n, ladder)
<1> DEFINE a == tier(m, ladder) b == tier(n, ladder)
<1>1. /\ a \in Nat
      /\ a = 0 \/ \E i \in DOMAIN ladder : m >= ladder[i][1] /\ a = ladder[i][2]
  BY TierIsNatural
<1>2. b \in Nat /\ \A i \in DOMAIN ladder : n >= ladder[i][1] => ladder[i][2] <= b
  BY TierIsNatural
<1> HIDE DEF a, b
<1>3. \A i \in DOMAIN ladder : ladder[i][1] \in Nat /\ ladder[i][2] \in Nat
  <2>1. \A i \in DOMAIN ladder : ladder[i] \in Nat \X Nat OBVIOUS
  <2> QED BY <2>1
<1>4. a <= b
  <2>1. CASE a = 0 BY <1>2, <2>1
  <2>2. CASE a # 0
    <3>1. PICK i \in DOMAIN ladder : m >= ladder[i][1] /\ a = ladder[i][2] BY <1>1, <2>2
    <3> DEFINE r == ladder[i][1]
    <3>2. r \in Nat /\ m >= r BY <1>3, <3>1
    <3>3. n >= r => a <= b BY <1>2, <3>1
    <3> HIDE DEF r
    <3>4. n >= r BY <3>2
    <3> QED BY <3>3, <3>4
  <2> QED BY <2>1, <2>2
<1> QED BY <1>1, <1>2, <1>4 DEF a, b

LEMMA WhenGrows ==
  ASSUME NEW P, NEW Q, P => Q, NEW weight \in Nat
  PROVE  /\ When(P, weight) \in Nat /\ When(Q, weight) \in Nat
         /\ When(P, weight) <= When(Q, weight)
BY DEF When

LEMMA CappedGrows ==
  ASSUME NEW m \in Nat, NEW n \in Nat, m <= n, NEW cap \in Nat
  PROVE  Capped(cap, m) \in Nat /\ Capped(cap, n) \in Nat /\ Capped(cap, m) <= Capped(cap, n)
BY DEF Capped

(* What a threshold tests of a tally stays reached                         *)
LEMMA ThresholdsStay ==
  ASSUME NEW t, NEW t_, Grown(t, t_), NEW k \in Counters \cup Peaks, NEW n \in Nat
  PROVE  (t[k] >= n => t_[k] >= n) /\ (t[k] > n => t_[k] > n)
<1> DEFINE a == t[k] b == t_[k]
<1>1. a \in Nat /\ b \in Nat /\ a <= b BY DEF Grown
<1> HIDE DEF a, b
<1>2. (a >= n => b >= n) /\ (a > n => b > n) BY <1>1
<1> QED BY <1>2 DEF a, b

LEMMA LaddersRise ==
  ASSUME NEW t, NEW t_, Grown(t, t_), NEW k \in Counters \cup Peaks, NEW ladder \in Seq(Nat \X Nat)
  PROVE  /\ tier(t[k], ladder) \in Nat /\ tier(t_[k], ladder) \in Nat
         /\ tier(t[k], ladder) <= tier(t_[k], ladder)
<1>1. t[k] \in Nat /\ t_[k] \in Nat /\ t[k] <= t_[k] BY DEF Grown
<1> QED BY <1>1, TierGrows

LEMMA DataflowGrows ==
  ASSUME NEW t, NEW t_, Grown(t, t_)
  PROVE  /\ DataflowFamily(t) \in Nat /\ DataflowFamily(t_) \in Nat
         /\ DataflowFamily(t) <= DataflowFamily(t_)
<1> DEFINE l1 == <<<<1, 13>>, <<2, 25>>, <<3, 34>>, <<4, 44>>>>
           l2 == <<<<2, 4>>, <<3, 7>>, <<5, 10>>, <<8, 12>>>>
           a(u) == tier(u.strong, l1)
           b(u) == tier(u.classic_medium, l2)
           c(u) == When(u.table_linked >= 2 \/ u.direct >= 2, 8)
           a1 == a(t) a2 == a(t_) b1 == b(t) b2 == b(t_) c1 == c(t) c2 == c(t_)
<1>1. l1 \in Seq(Nat \X Nat) /\ l2 \in Seq(Nat \X Nat) OBVIOUS
<1>2. DataflowFamily(t) = Capped(52, a1 + b1 + c1) /\ DataflowFamily(t_) = Capped(52, a2 + b2 + c2)
  BY DEF DataflowFamily
<1> HIDE DEF l1, l2
<1>3. a1 \in Nat /\ a2 \in Nat /\ a1 <= a2 BY <1>1, LaddersRise DEF Counters
<1>4. b1 \in Nat /\ b2 \in Nat /\ b1 <= b2 BY <1>1, LaddersRise DEF Counters
<1>5. c1 \in Nat /\ c2 \in Nat /\ c1 <= c2
  <2>1. t.table_linked >= 2 \/ t.direct >= 2 => t_.table_linked >= 2 \/ t_.direct >= 2
    BY ThresholdsStay DEF Counters
  <2> QED BY <2>1 DEF When
<1> HIDE DEF a1, a2, b1, b2, c1, c2
<1> DEFINE m == a1 + b1 + c1 n == a2 + b2 + c2
<1>6. m \in Nat /\ n \in Nat /\ m <= n BY <1>3, <1>4, <1>5
<1> HIDE DEF m, n
<1>7. DataflowFamily(t) = Capped(52, m) /\ DataflowFamily(t_) = Capped(52, n) BY <1>2 DEF m, n
<1> QED BY <1>6, <1>7, CappedGrows

LEMMA EcologyGrows ==
  ASSUME NEW t, NEW t_, Grown(t, t_)
  PROVE  /\ EcologyFamily(t) \in Nat /\ EcologyFamily(t_) \in Nat
         /\ EcologyFamily(t) <= EcologyFamily(t_)
<1> DEFINE l1 == <<<<2, 4>>, <<3, 8>>, <<4, 11>>, <<6, 14>>>>
           l2 == <<<<2, 3>>, <<3, 6>>, <<4, 8>>, <<6, 9>>>>
           l3 == <<<<3, 3>>, <<4, 5>>, <<6, 6>>, <<10, 7>>>>
           a1 == tier(t.classic, l1) a2 == tier(t_.classic, l1)
           b1 == tier(t.vip, l2) b2 == tier(t_.vip, l2)
           c1 == tier(t.cluster, l3) c2 == tier(t_.cluster, l3)
<1>1. l1 \in Seq(Nat \X Nat) /\ l2 \in Seq(Nat \X Nat) /\ l3 \in Seq(Nat \X Nat) OBVIOUS
<1>2. EcologyFamily(t) = Capped(25, a1 + b1 + c1) /\ EcologyFamily(t_) = Capped(25, a2 + b2 + c2)
  BY DEF EcologyFamily
<1> HIDE DEF l1, l2, l3
<1>3. a1 \in Nat /\ a2 \in Nat /\ a1 <= a2 BY <1>1, LaddersRise DEF Counters
<1>4. b1 \in Nat /\ b2 \in Nat /\ b1 <= b2 BY <1>1, LaddersRise DEF Peaks
<1>5. c1 \in Nat /\ c2 \in Nat /\ c1 <= c2 BY <1>1, LaddersRise DEF Peaks
<1> HIDE DEF a1, a2, b1, b2, c1, c2
<1> DEFINE m == a1 + b1 + c1 n == a2 + b2 + c2
<1>6. m \in Nat /\ n \in Nat /\ m <= n BY <1>3, <1>4, <1>5
<1> HIDE DEF m, n
<1>7. EcologyFamily(t) = Capped(25, m) /\ EcologyFamily(t_) = Capped(25, n) BY <1>2 DEF m, n
<1> QED BY <1>6, <1>7, CappedGrows

LEMMA StateGrows ==
  ASSUME NEW t, NEW t_, Grown(t, t_)
  PROVE  /\ StateFamily(t) \in Nat /\ StateFamily(t_) \in Nat
         /\ StateFamily(t) <= StateFamily(t_)
<1> DEFINE l1 == <<<<1, 4>>, <<2, 6>>, <<3, 8>>, <<5, 10>>>>
           l2 == <<<<1, 3>>, <<2, 5>>, <<3, 7>>, <<5, 8>>>>
           a1 == tier(t.classic_shared_context, l1) a2 == tier(t_.classic_shared_context, l1)
           b1 == tier(t.classic_back_edges, l2) b2 == tier(t_.classic_back_edges, l2)
           c1 == When(t.classic >= 4, 4) c2 == When(t_.classic >= 4, 4)
           d1 == When((t.call > 0 \/ t.ret > 0) /\ t.classic >= 3, 3)
           d2 == When((t_.call > 0 \/ t_.ret > 0) /\ t_.classic >= 3, 3)
<1>1. l1 \in Seq(Nat \X Nat) /\ l2 \in Seq(Nat \X Nat) OBVIOUS
<1>2. /\ StateFamily(t) = Capped(20, a1 + b1 + c1 + d1)
      /\ StateFamily(t_) = Capped(20, a2 + b2 + c2 + d2)
  BY DEF StateFamily
<1> HIDE DEF l1, l2
<1>3. a1 \in Nat /\ a2 \in Nat /\ a1 <= a2 BY <1>1, LaddersRise DEF Counters
<1>4. b1 \in Nat /\ b2 \in Nat /\ b1 <= b2 BY <1>1, LaddersRise DEF Counters
<1>5. c1 \in Nat /\ c2 \in Nat /\ c1 <= c2
  <2>1. t.classic >= 4 => t_.classic >= 4 BY ThresholdsStay DEF Counters
  <2> QED BY <2>1 DEF When
<1>6. d1 \in Nat /\ d2 \in Nat /\ d1 <= d2
  <2>1. t.classic >= 3 => t_.classic >= 3 BY ThresholdsStay DEF Counters
  <2>2. (t.call > 0 => t_.call > 0) /\ (t.ret > 0 => t_.ret > 0) BY ThresholdsStay DEF Counters
  <2> QED BY <2>1, <2>2 DEF When
<1> HIDE DEF a1, a2, b1, b2, c1, c2, d1, d2
<1> DEFINE m == a1 + b1 + c1 + d1 n == a2 + b2 + c2 + d2
<1>7. m \in Nat /\ n \in Nat /\ m <= n BY <1>3, <1>4, <1>5, <1>6
<1> HIDE DEF m, n
<1>8. StateFamily(t) = Capped(20, m) /\ StateFamily(t_) = Capped(20, n) BY <1>2 DEF m, n
<1> QED BY <1>7, <1>8, CappedGrows

LEMMA FoursGrow ==
  ASSUME NEW a \in Nat, NEW b \in Nat, NEW c \in Nat, NEW d \in Nat,
         NEW a_ \in Nat, NEW b_ \in Nat, NEW c_ \in Nat, NEW d_ \in Nat,
         a <= a_, b <= b_, c <= c_, d <= d_
  PROVE  /\ Max({a, b, c, d}) \in Nat /\ Max({a_, b_, c_, d_}) \in Nat
         /\ Max({a, b, c, d}) <= Max({a_, b_, c_, d_})
<1>1. ASSUME NEW p \in Nat, NEW q \in Nat, NEW r \in Nat, NEW s \in Nat
      PROVE  Max({p, q, r, s}) \in {p, q, r, s} /\ \A n \in {p, q, r, s} : n <= Max({p, q, r, s})
  <2>1. IsFiniteSet({p}) /\ IsFiniteSet({q}) /\ IsFiniteSet({r}) /\ IsFiniteSet({s}) BY FS_Singleton
  <2>2. IsFiniteSet({p} \cup {q}) /\ IsFiniteSet({r} \cup {s}) BY <2>1, FS_Union
  <2>3. IsFiniteSet(({p} \cup {q}) \cup ({r} \cup {s})) BY <2>2, FS_Union
  <2>4. {p, q, r, s} = ({p} \cup {q}) \cup ({r} \cup {s}) OBVIOUS
  <2>5. IsFiniteSet({p, q, r, s}) BY <2>3, <2>4
  <2> QED BY <2>5, MaxIsGreatest
<1> DEFINE m == Max({a, b, c, d}) n == Max({a_, b_, c_, d_})
<1>2. m \in {a, b, c, d} BY <1>1
<1>3. n \in {a_, b_, c_, d_} /\ a_ <= n /\ b_ <= n /\ c_ <= n /\ d_ <= n BY <1>1
<1> HIDE DEF m, n
<1>4. m \in Nat /\ n \in Nat /\ m <= n BY <1>2, <1>3
<1> QED BY <1>4 DEF m, n

LEMMA ClassicGrows ==
  ASSUME NEW t, NEW t_, Grown(t, t_)
  PROVE  /\ ClassicStructure(t) \in Nat /\ ClassicStructure(t_) \in Nat
         /\ ClassicStructure(t) <= ClassicStructure(t_)
<1> DEFINE d1 == DataflowFamily(t) d2 == DataflowFamily(t_)
           e1 == EcologyFamily(t) e2 == EcologyFamily(t_)
           s1 == StateFamily(t) s2 == StateFamily(t_)
           m == d1 + e1 + s1 n == d2 + e2 + s2
           a1 == Capped(100, m) a2 == Capped(100, n)
           b1 == When(t.strong >= 1 /\ t.table_linked >= 1 /\ t.advanced >= 1, 56)
           b2 == When(t_.strong >= 1 /\ t_.table_linked >= 1 /\ t_.advanced >= 1, 56)
           c1 == When(t.cycle, 70) c2 == When(t_.cycle, 70)
           f1 == When(t.closed, 78) f2 == When(t_.closed, 78)
<1>1. /\ ClassicStructure(t) = Max({a1, b1, c1, f1})
      /\ ClassicStructure(t_) = Max({a2, b2, c2, f2})
  BY DEF ClassicStructure
<1>2. d1 \in Nat /\ d2 \in Nat /\ d1 <= d2 BY DataflowGrows
<1>3. e1 \in Nat /\ e2 \in Nat /\ e1 <= e2 BY EcologyGrows
<1>4. s1 \in Nat /\ s2 \in Nat /\ s1 <= s2 BY StateGrows
<1>5. b1 \in Nat /\ b2 \in Nat /\ b1 <= b2
  <2>1. /\ t.strong >= 1 => t_.strong >= 1
        /\ t.table_linked >= 1 => t_.table_linked >= 1
        /\ t.advanced >= 1 => t_.advanced >= 1
    BY ThresholdsStay DEF Counters
  <2> QED BY <2>1 DEF When
<1>6. c1 \in Nat /\ c2 \in Nat /\ c1 <= c2 BY DEF When, Grown
<1>7. f1 \in Nat /\ f2 \in Nat /\ f1 <= f2 BY DEF When, Grown
<1> HIDE DEF d1, d2, e1, e2, s1, s2, b1, b2, c1, c2, f1, f2
<1>8. m \in Nat /\ n \in Nat /\ m <= n BY <1>2, <1>3, <1>4
<1> HIDE DEF m, n
<1>9. a1 \in Nat /\ a2 \in Nat /\ a1 <= a2 BY <1>8, CappedGrows
<1> HIDE DEF a1, a2
<1>10. /\ Max({a1, b1, c1, f1}) \in Nat /\ Max({a2, b2, c2, f2}) \in Nat
       /\ Max({a1, b1, c1, f1}) <= Max({a2, b2, c2, f2})
  BY <1>5, <1>6, <1>7, <1>9, FoursGrow
<1> QED BY <1>1, <1>10

LEMMA StructureGrows ==
  ASSUME NEW t, NEW t_, Grown(t, t_)
  PROVE  /\ StructureScore(t) \in Nat /\ StructureScore(t_) \in Nat
         /\ StructureScore(t) <= StructureScore(t_)
<1> DEFINE l1 == <<<<4, 20>>, <<8, 34>>, <<12, 43>>, <<20, 50>>>>
           l2 == <<<<1, 18>>, <<2, 28>>, <<3, 36>>, <<5, 42>>>>
           u1 == tier(t.trampoline, l1) u2 == tier(t_.trampoline, l1)
           v1 == When(t.trampoline >= 4 /\ t.cluster >= 4, 10)
           v2 == When(t_.trampoline >= 4 /\ t_.cluster >= 4, 10)
           w1 == tier(t.conditional, l2) w2 == tier(t_.conditional, l2)
           z1 == When(t.conditional >= 2 /\ t.vip >= 2, 8)
           z2 == When(t_.conditional >= 2 /\ t_.vip >= 2, 8)
           a1 == ClassicStructure(t) a2 == ClassicStructure(t_)
           b1 == TrampolineStructure(t) b2 == TrampolineStructure(t_)
           c1 == ConditionalStructure(t) c2 == ConditionalStructure(t_)
           m == u1 + v1 n == u2 + v2
<1>1. l1 \in Seq(Nat \X Nat) /\ l2 \in Seq(Nat \X Nat) OBVIOUS
<1>2. v1 \in Nat /\ v2 \in Nat /\ v1 <= v2
  <2>1. /\ t.trampoline >= 4 => t_.trampoline >= 4
        /\ t.cluster >= 4 => t_.cluster >= 4
    BY ThresholdsStay DEF Counters, Peaks
  <2> QED BY <2>1 DEF When
<1>3. z1 \in Nat /\ z2 \in Nat /\ z1 <= z2
  <2>1. /\ t.conditional >= 2 => t_.conditional >= 2
        /\ t.vip >= 2 => t_.vip >= 2
    BY ThresholdsStay DEF Counters, Peaks
  <2> QED BY <2>1 DEF When
<1>4. /\ b1 = Capped(62, m) /\ b2 = Capped(62, n) /\ c1 = w1 + z1 /\ c2 = w2 + z2
  BY DEF TrampolineStructure, ConditionalStructure
<1>5. StructureScore(t) = Max({a1, b1, c1}) /\ StructureScore(t_) = Max({a2, b2, c2})
  BY DEF StructureScore
<1>6. a1 \in Nat /\ a2 \in Nat /\ a1 <= a2 BY ClassicGrows
<1> HIDE DEF l1, l2
<1>7. u1 \in Nat /\ u2 \in Nat /\ u1 <= u2 BY <1>1, LaddersRise DEF Counters
<1>8. w1 \in Nat /\ w2 \in Nat /\ w1 <= w2 BY <1>1, LaddersRise DEF Counters
<1> HIDE DEF a1, a2, b1, b2, c1, c2, u1, u2, v1, v2, w1, w2, z1, z2
<1>9. m \in Nat /\ n \in Nat /\ m <= n BY <1>2, <1>7
<1> HIDE DEF m, n
<1>10. b1 \in Nat /\ b2 \in Nat /\ b1 <= b2 BY <1>4, <1>9, CappedGrows
<1>11. c1 \in Nat /\ c2 \in Nat /\ c1 <= c2 BY <1>3, <1>4, <1>8
<1>12. {a1, b1, c1} = {a1, b1, c1, c1} /\ {a2, b2, c2} = {a2, b2, c2, c2} OBVIOUS
<1>13. /\ Max({a1, b1, c1, c1}) \in Nat /\ Max({a2, b2, c2, c2}) \in Nat
       /\ Max({a1, b1, c1, c1}) <= Max({a2, b2, c2, c2})
  BY <1>6, <1>10, <1>11, FoursGrow
<1> QED BY <1>5, <1>12, <1>13

-----------------------------------------------------------------------------
(* The verdict on more dispatch sites. With the evidence some explanations *)
(* may have been counted, but none of them in these tallies.               *)
Strengthened(t, t_) ==
  /\ Grown(t, t_)
  /\ Structure(t) \in Nat /\ Structure(t_) \in Nat /\ Structure(t) <= Structure(t_)
  /\ t.strong < t_.strong /\ t_.strong <= t_.eligible
  /\ t_.switches = t.switches /\ t_.vtables = t.vtables
  /\ {t.switches, t.vtables} \subseteq Nat
  /\ t_.direct_call = t.direct_call

LEMMA DecisiveStays ==
  ASSUME NEW t, NEW t_, Grown(t, t_), NEW x
  PROVE  /\ DecisiveClosed(t) => DecisiveClosed(t_)
         /\ Coexistence(t, x) => Coexistence(t_, x)
<1>1. /\ t.strong >= 4 => t_.strong >= 4
      /\ t.table_linked >= 3 => t_.table_linked >= 3
      /\ t.family >= 3 => t_.family >= 3
      /\ t.classic_shared_context >= 2 => t_.classic_shared_context >= 2
      /\ t.classic_back_edges >= 2 => t_.classic_back_edges >= 2
  BY ThresholdsStay DEF Counters, Peaks
<1>2. t.closed => t_.closed BY DEF Grown
<1> QED BY <1>1, <1>2 DEF DecisiveClosed, Coexistence

LEMMA IntentRises ==
  ASSUME NEW t, NEW t_, Strengthened(t, t_), NEW x
  PROVE  /\ Intent(t, x) \in 0 .. 80 /\ Intent(t_, x) \in 0 .. 80 /\ Intent(t, x) <= Intent(t_, x)
         /\ Intent(t, x) >= 45 => x.vmp_metadata_marker
<1> DEFINE a == When(x.custom_linker_likely, 15)
           b == When(x.has_large_entropy_blob, 6)
           c == When(x.few_imports_and_init_array, 4)
           d == When(~ConfirmedRuntime(x) /\ Structure(t) >= 70, 10)
           d_ == When(~ConfirmedRuntime(x) /\ Structure(t_) >= 70, 10)
           r == Rest(t, x) r_ == Rest(t_, x) i == Intent(t, x) i_ == Intent(t_, x)
<1>1. Structure(t) >= 70 => Structure(t_) >= 70
  <2> DEFINE m == Structure(t) n == Structure(t_)
  <2>1. m \in Nat /\ n \in Nat /\ m <= n BY DEF Strengthened
  <2> HIDE DEF m, n
  <2>2. m >= 70 => n >= 70 BY <2>1
  <2> QED BY <2>2 DEF m, n
<1>2. a \in Nat /\ b \in Nat /\ c \in Nat /\ d \in Nat /\ d_ \in Nat /\ d <= d_ BY <1>1 DEF When
<1>3. r = a + b + c + d /\ r_ = a + b + c + d_ BY DEF Rest
<1>4. /\ r \in 0 .. 35 /\ i = (IF x.vmp_metadata_marker THEN 45 ELSE 0) + r
      /\ r_ \in 0 .. 35 /\ i_ = (IF x.vmp_metadata_marker THEN 45 ELSE 0) + r_
  BY IntentIsNatural
<1> HIDE DEF a, b, c, d, d_, r, r_, i, i_
<1>5. r <= r_ BY <1>2, <1>3
<1>6. i \in 0 .. 80 /\ i_ \in 0 .. 80 /\ i <= i_ /\ (i >= 45 => x.vmp_metadata_marker)
  BY <1>4, <1>5
<1> QED BY <1>6 DEF i, i_

(* A penalty counts against a verdict that a high structure score carries  *)
(* and that strong sites, or metadata, support.                            *)
LEMMA PenaltyFalls ==
  ASSUME NEW t, NEW t_, Strengthened(t, t_), NEW x,
         Structure(t) > 25, x.vmp_metadata_marker \/ t.strong > 0
  PROVE  Penalty(t, x) \in Nat /\ Penalty(t_, x) \in Nat /\ Penalty(t_, x) <= Penalty(t, x)
<1> DEFINE a(u) == RuntimePenalty(u, x)
           b(u) == When(u.table_linked = 0 /\ u.direct_call >= 4, IF x.vmp_metadata_marker THEN 4 ELSE 12)
           c(u) == SwitchPenalty(u)
           d(u) == When(u.eligible = 1 /\ ~x.vmp_metadata_marker, 8)
           e(u) == When(x.control_flow_obfuscation_likely /\ u.strong <= 1 /\ ~x.vmp_metadata_marker, 22)
           ax == a(t) ay == a(t_) bx == b(t) by == b(t_) cx == c(t) cy == c(t_)
           dx == d(t) dy == d(t_) ex == e(t) ey == e(t_)
           sx == ax + bx + cx + dx + ex sy == ay + by + cy + dy + ey
           strong == t.strong strong_ == t_.strong eligible == t.eligible eligible_ == t_.eligible
<1>1. Penalty(t, x) = Capped(45, sx) /\ Penalty(t_, x) = Capped(45, sy) BY DEF Penalty
<1>2. /\ strong \in Nat /\ strong_ \in Nat /\ eligible \in Nat /\ eligible_ \in Nat
      /\ strong < strong_ /\ strong_ <= eligible_ /\ eligible <= eligible_
  BY DEF Strengthened, Grown, Counters
<1>3. ax \in Nat /\ ay \in Nat /\ ay <= ax
  <2> DEFINE m == Structure(t) n == Structure(t_)
  <2>1. m \in Nat /\ n \in Nat /\ m <= n /\ m > 25 BY DEF Strengthened
  <2> HIDE DEF m, n
  <2>2. m > 25 /\ n > 25 BY <2>1
  <2>3. Reaches(x, Structure(t), 25) /\ Reaches(x, Structure(t_), 25)
    BY <2>2 DEF m, n, Reaches
  <2>4. Coexistence(t, x) => Coexistence(t_, x) BY DecisiveStays DEF Strengthened
  <2> QED BY <2>3, <2>4 DEF RuntimePenalty, When
<1>4. bx \in Nat /\ by \in Nat /\ by <= bx
  <2>1. t_.table_linked = 0 => t.table_linked = 0
    <3>1. t.table_linked \in Nat /\ t_.table_linked \in Nat /\ t.table_linked <= t_.table_linked
      BY DEF Strengthened, Grown, Counters
    <3> QED BY <3>1
  <2> QED BY <2>1 DEF When, Strengthened
<1>5. cx \in Nat /\ cy \in Nat /\ cy <= cx
  <2>1. eligible_ # 0 BY <1>2
  <2>2. cy = When(eligible_ < 3 /\ strong_ < 3 /\ (t.switches > 0 \/ t.vtables > 0), 4)
    BY <2>1 DEF SwitchPenalty, Strengthened
  <2>3. cx = IF eligible = 0 THEN When(t.switches > 0, 6) + When(t.switches >= 3, 9)
                                    + When(t.vtables > 0, 4) + When(t.vtables >= 4, 6)
             ELSE When(eligible < 3 /\ strong < 3 /\ (t.switches > 0 \/ t.vtables > 0), 4)
    BY DEF SwitchPenalty
  <2> HIDE DEF strong, strong_, eligible, eligible_, cx, cy
  <2>4. eligible_ < 3 /\ strong_ < 3 => eligible < 3 /\ strong < 3 BY <1>2
  <2> QED BY <2>2, <2>3, <2>4 DEF When
<1>6. dx \in Nat /\ dy \in Nat /\ dy <= dx
  <2>1. x.vmp_metadata_marker \/ strong > 0 OBVIOUS
  <2> HIDE DEF strong, strong_, eligible_
  <2>2. x.vmp_metadata_marker \/ eligible_ # 1 BY <1>2, <2>1
  <2>3. dy = 0 BY <2>2 DEF When, eligible_
  <2> QED BY <2>3 DEF When
<1>7. ex \in Nat /\ ey \in Nat /\ ey <= ex
  <2>1. strong_ <= 1 => strong <= 1
    <3> HIDE DEF strong, strong_
    <3> QED BY <1>2
  <2> QED BY <2>1 DEF When
<1> HIDE DEF ax, ay, bx, by, cx, cy, dx, dy, ex, ey
<1>8. sx \in Nat /\ sy \in Nat /\ sy <= sx BY <1>3, <1>4, <1>5, <1>6, <1>7
<1> HIDE DEF sx, sy
<1>9. /\ Capped(45, sy) \in Nat /\ Capped(45, sx) \in Nat /\ Capped(45, sy) <= Capped(45, sx)
  BY <1>8, CappedGrows
<1> QED BY <1>1, <1>9

(* A verdict needs structure, and strong sites or metadata                 *)
LEMMA VerdictNeedsEvidence ==
  ASSUME NEW t, NEW t_, Strengthened(t, t_), NEW x, Possible(t, x) \/ Suspicious(t, x)
  PROVE  Structure(t) > 25 /\ (x.vmp_metadata_marker \/ t.strong > 0)
<1> DEFINE s == Structure(t) i == Intent(t, x) p == Penalty(t, x) score == Score(t, x)
           strong == t.strong threshold == VerdictThreshold(t, x)
<1>1. s \in Nat BY DEF Strengthened
<1>2. i \in 0 .. 80 /\ (i >= 45 => x.vmp_metadata_marker) BY IntentRises
<1>3. p \in Nat
  <2> DEFINE a == RuntimePenalty(t, x)
             b == When(t.table_linked = 0 /\ t.direct_call >= 4, IF x.vmp_metadata_marker THEN 4 ELSE 12)
             c == SwitchPenalty(t)
             d == When(t.eligible = 1 /\ ~x.vmp_metadata_marker, 8)
             e == When(x.control_flow_obfuscation_likely /\ t.strong <= 1 /\ ~x.vmp_metadata_marker, 22)
             sum == a + b + c + d + e
  <2>1. a \in Nat /\ b \in Nat /\ c \in Nat /\ d \in Nat /\ e \in Nat
    BY DEF RuntimePenalty, SwitchPenalty, When
  <2>2. p = Capped(45, sum) BY DEF Penalty
  <2> HIDE DEF a, b, c, d, e, p
  <2>3. sum \in Nat BY <2>1
  <2> HIDE DEF sum
  <2> QED BY <2>2, <2>3 DEF Capped
<1>4. score = 82 * s + 18 * i - 100 * p BY DEF Score
<1>5. threshold \in {5600, 6000, 6700} BY DEF VerdictThreshold
<1>6. Possible(t, x) => score >= threshold
  <2> HIDE DEF s, i, p
  <2>1. score \in Int BY <1>1, <1>2, <1>3, <1>4
  <2>2. Possible(t, x) => Reaches(x, Score(t, x), VerdictThreshold(t, x)) BY DEF Possible
  <2> HIDE DEF score, threshold
  <2> QED BY <2>1, <2>2, <1>5 DEF Reaches, score, threshold
<1>7. Suspicious(t, x) => score >= 5000 \/ s >= 55
  <2>1. Suspicious(t, x) => Reaches(x, Score(t, x), 5000) \/ Reaches(x, Structure(t), 55)
    BY DEF Suspicious
  <2>2. score \in Int
    <3> HIDE DEF s, i, p
    <3> QED BY <1>1, <1>2, <1>3, <1>4
  <2> QED BY <2>1, <2>2, <1>1 DEF Reaches
<1>8. strong \in Nat BY DEF Strengthened, Grown, Counters
<1>9. x.vmp_metadata_marker \/ strong > 0
  <2>1. HighPrecision(t, x) => x.vmp_metadata_marker \/ strong >= 2
    <3>1. strong >= 5 => strong >= 2
      <4> HIDE DEF strong
      <4> QED BY <1>8
    <3> QED BY <3>1 DEF HighPrecision
  <2>2. strong >= 2 => strong > 0
    <3> HIDE DEF strong
    <3> QED BY <1>8
  <2>3. Possible(t, x) => x.vmp_metadata_marker \/ strong > 0 BY <2>1, <2>2 DEF Possible
  <2>4. Suspicious(t, x) => x.vmp_metadata_marker \/ strong > 0 BY <1>2 DEF Suspicious
  <2> QED BY <2>3, <2>4
<1> HIDE DEF s, i, p, score, strong, threshold
<1>10. score >= 5000 \/ s >= 55 BY <1>5, <1>6, <1>7, <1>1, <1>2, <1>3, <1>4
<1>11. s > 25 BY <1>1, <1>2, <1>3, <1>4, <1>10
<1> QED BY <1>9, <1>11 DEF s, strong

LEMMA ScoreRises ==
  ASSUME NEW t, NEW t_, Strengthened(t, t_), NEW x, Possible(t, x) \/ Suspicious(t, x)
  PROVE  Score(t, x) \in Int /\ Score(t_, x) \in Int /\ Score(t, x) <= Score(t_, x)
<1> DEFINE s == Structure(t) s_ == Structure(t_) i == Intent(t, x) i_ == Intent(t_, x)
           p == Penalty(t, x) p_ == Penalty(t_, x)
<1>1. s \in Nat /\ s_ \in Nat /\ s <= s_ BY DEF Strengthened
<1>2. i \in 0 .. 80 /\ i_ \in 0 .. 80 /\ i <= i_ BY IntentRises
<1>3. p \in Nat /\ p_ \in Nat /\ p_ <= p BY VerdictNeedsEvidence, PenaltyFalls
<1>4. Score(t, x) = 82 * s + 18 * i - 100 * p /\ Score(t_, x) = 82 * s_ + 18 * i_ - 100 * p_
  BY DEF Score
<1> HIDE DEF s, s_, i, i_, p, p_
<1> QED BY <1>1, <1>2, <1>3, <1>4

LEMMA IntentThresholds ==
  ASSUME NEW t, NEW t_, Strengthened(t, t_), NEW x, NEW n \in Nat
  PROVE  Intent(t, x) >= n => Intent(t_, x) >= n
<1> DEFINE i == Intent(t, x) i_ == Intent(t_, x)
<1>1. i \in 0 .. 80 /\ i_ \in 0 .. 80 /\ i <= i_ BY IntentRises
<1> HIDE DEF i, i_
<1>2. i >= n => i_ >= n BY <1>1
<1> QED BY <1>2 DEF i, i_

LEMMA GatesStayOpen ==
  ASSUME NEW t, NEW t_, Strengthened(t, t_), NEW x
  PROVE  /\ MetadataGate(t, x) => MetadataGate(t_, x)
         /\ MetadataThreadedGate(t, x) => MetadataThreadedGate(t_, x)
         /\ AnyGate(t, x) => AnyGate(t_, x)
         /\ HighPrecision(t, x) => HighPrecision(t_, x)
<1>1. \A k \in Counters \cup Peaks : \A n \in Nat : t[k] >= n => t_[k] >= n
  BY ThresholdsStay DEF Strengthened
<1>2. /\ t.strong >= 2 => t_.strong >= 2
      /\ t.strong >= 3 => t_.strong >= 3
      /\ t.strong >= 4 => t_.strong >= 4
      /\ t.strong >= 5 => t_.strong >= 5
  BY <1>1 DEF Counters
<1>3. /\ t.table_linked >= 2 => t_.table_linked >= 2
      /\ t.classic_shared_context >= 1 => t_.classic_shared_context >= 1
      /\ t.classic_shared_context >= 3 => t_.classic_shared_context >= 3
      /\ t.classic_back_edges >= 1 => t_.classic_back_edges >= 1
      /\ t.classic_back_edges >= 3 => t_.classic_back_edges >= 3
  BY <1>1 DEF Counters
<1>4. /\ t.direct >= 3 => t_.direct >= 3
      /\ t.direct >= 8 => t_.direct >= 8
      /\ t.trampoline >= 8 => t_.trampoline >= 8
      /\ t.conditional >= 2 => t_.conditional >= 2
  BY <1>1 DEF Counters
<1>5. /\ t.family >= 2 => t_.family >= 2
      /\ t.family >= 3 => t_.family >= 3
      /\ t.vip >= 2 => t_.vip >= 2
      /\ t.vip >= 4 => t_.vip >= 4
      /\ t.vip >= 8 => t_.vip >= 8
      /\ t.cluster >= 6 => t_.cluster >= 6
      /\ t.strong_vip >= 2 => t_.strong_vip >= 2
  BY <1>1 DEF Peaks
<1>6. (t.cycle => t_.cycle) /\ (t.closed => t_.closed) BY DEF Strengthened, Grown
<1>7. /\ Intent(t, x) >= 35 => Intent(t_, x) >= 35
      /\ Intent(t, x) >= 45 => Intent(t_, x) >= 45
  BY IntentThresholds
<1>8. MetadataGate(t, x) => MetadataGate(t_, x) BY <1>2, <1>5 DEF MetadataGate
<1>9. MetadataThreadedGate(t, x) => MetadataThreadedGate(t_, x)
  BY <1>3, <1>4, <1>5 DEF MetadataThreadedGate
<1>10. ClassicGate(t) => ClassicGate(t_) BY <1>2, <1>3, <1>5 DEF ClassicGate
<1>11. AnyGate(t, x) => AnyGate(t_, x)
  BY <1>2, <1>4, <1>5, <1>6, <1>7, <1>8, <1>9, <1>10 DEF AnyGate
<1>12. HighPrecision(t, x) => HighPrecision(t_, x) BY <1>2, <1>5, <1>6, <1>7 DEF HighPrecision
<1> QED BY <1>8, <1>9, <1>11, <1>12

LEMMA PossibleStays ==
  ASSUME NEW t, NEW t_, Strengthened(t, t_), NEW x, Possible(t, x)
  PROVE  Possible(t_, x)
<1>1. /\ Intent(t, x) >= 15 => Intent(t_, x) >= 15
      /\ Intent(t, x) >= 55 => Intent(t_, x) >= 55
  BY IntentThresholds
<1>2. (DecisiveClosed(t) => DecisiveClosed(t_)) /\ (Coexistence(t, x) => Coexistence(t_, x))
  BY DecisiveStays DEF Strengthened
<1>3. RuntimeOverride(t_, x) BY <1>1, <1>2 DEF Possible, RuntimeOverride
<1>4. WeakRuntimeOverride(t_, x) BY <1>1, <1>2 DEF Possible, WeakRuntimeOverride
<1>5. PackingOverride(t_, x)
  <2> DEFINE m == Structure(t) n == Structure(t_)
  <2>1. m \in Nat /\ n \in Nat /\ m <= n BY DEF Strengthened
  <2>2. m >= 70 => n >= 70
    <3> HIDE DEF m, n
    <3> QED BY <2>1
  <2> QED BY <2>2 DEF Possible, PackingOverride
<1>6. HighPrecision(t_, x) /\ AnyGate(t_, x) BY GatesStayOpen DEF Possible
<1>7. /\ VerdictThreshold(t, x) \in Int /\ VerdictThreshold(t_, x) \in Int
      /\ VerdictThreshold(t_, x) <= VerdictThreshold(t, x)
  BY GatesStayOpen DEF VerdictThreshold
<1>8. Reaches(x, Score(t_, x), VerdictThreshold(t_, x))
  <2>1. Reaches(x, Score(t, x), VerdictThreshold(t, x)) BY DEF Possible
  <2> QED BY <1>7, <2>1, ScoreRises, ReachesMore
<1> QED BY <1>3, <1>4, <1>5, <1>6, <1>8 DEF Possible

LEMMA SuspiciousStays ==
  ASSUME NEW t, NEW t_, Strengthened(t, t_), NEW x, Suspicious(t, x)
  PROVE  Suspicious(t_, x)
<1> DEFINE strong == t.strong strong_ == t_.strong m == Structure(t) n == Structure(t_)
<1>1. strong \in Nat /\ strong_ \in Nat /\ strong < strong_ BY DEF Strengthened, Grown, Counters
<1>2. strong_ > 0 /\ (strong_ <= 1 => strong <= 1)
  <2> HIDE DEF strong, strong_
  <2> QED BY <1>1
<1>3. m \in Nat /\ n \in Nat /\ m <= n BY DEF Strengthened
<1>4. Reaches(x, Structure(t), 55) => Reaches(x, Structure(t_), 55)
  <2>1. 55 \in Int /\ 55 <= 55 /\ m \in Int /\ n \in Int BY <1>3
  <2> QED BY <1>3, <2>1, ReachesMore
<1>5. Reaches(x, Score(t, x), 5000) => Reaches(x, Score(t_, x), 5000)
  <2>1. 5000 \in Int /\ 5000 <= 5000 OBVIOUS
  <2> QED BY <2>1, ScoreRises, ReachesMore
<1> QED BY <1>2, <1>4, <1>5 DEF Suspicious

LEMMA VerdictStays ==
  ASSUME NEW t, NEW t_, Strengthened(t, t_), NEW x
  PROVE  Verdict(t, x) <= Verdict(t_, x)
<1>1. Possible(t, x) => Possible(t_, x) BY PossibleStays
<1>2. Suspicious(t, x) => Suspicious(t_, x) BY SuspiciousStays
<1>3. Coexistence(t, x) => Coexistence(t_, x) BY DecisiveStays DEF Strengthened
<1> DEFINE v == Verdict(t, x) v_ == Verdict(t_, x)
<1>4. v \in 0 .. 2 /\ v_ \in 0 .. 2 BY VerdictValues
<1>5. v = 2 => v_ = 2 BY <1>1, VerdictValues
<1>6. v >= 1 => v_ >= 1 BY <1>1, <1>2, <1>3, VerdictValues
<1> HIDE DEF v, v_
<1>7. v <= v_ BY <1>4, <1>5, <1>6
<1> QED BY <1>7 DEF v, v_

-----------------------------------------------------------------------------
(* A step that adds to the strong candidates                               *)
Flags == {"cycle", "closed"}
LEMMA TalliesHoldCounts ==
  ASSUME NEW bag, NEW n, NEW m
  PROVE  /\ \A k \in Counters \cup Peaks \cup Flags :
              Tallies(bag, n, m)[k] = Counted(bag, n, m)[k]
         /\ Tallies(bag, n, m).switches = n /\ Tallies(bag, n, m).vtables = m
         /\ Structure(Tallies(bag, n, m)) = StructureScore(Counted(bag, n, m))
<1> DEFINE t == Counted(bag, n, m)
           names == Counters \cup Peaks \cup Flags \cup {"switches", "vtables"}
<1>1. names \subseteq DOMAIN t /\ "structure" \notin DOMAIN t /\ "structure" \notin names
  BY DEF Counted, Counters, Peaks, Flags
<1>2. t.switches = n /\ t.vtables = m BY DEF Counted
<1>3. Tallies(bag, n, m) =
        [f \in DOMAIN t \cup {"structure"} |-> IF f = "structure" THEN StructureScore(t) ELSE t[f]]
  BY DEF Tallies
<1>4. \A k \in names : Tallies(bag, n, m)[k] = t[k]
  <2> HIDE DEF t, names
  <2> QED BY <1>1, <1>3
<1>5. Tallies(bag, n, m).structure = StructureScore(t)
  <2> HIDE DEF t
  <2> QED BY <1>3
<1> QED BY <1>2, <1>4, <1>5 DEF Structure

(* A new candidate that is not chosen leaves the number of the chosen.     *)
Joined(bag, d, more) ==
  /\ DOMAIN more = DOMAIN bag \cup {d}
  /\ \A c \in DOMAIN bag \ {d} : more[c] = bag[c]

LEMMA UnchosenDoNotCount ==
  ASSUME NEW bag, NEW d, NEW more, Joined(bag, d, more), NEW k \in Counters, ~Meets(k, d),
         NEW n, NEW m, NEW n_, NEW m_
  PROVE  Counted(more, n_, m_)[k] = Counted(bag, n, m)[k]
<1>1. Chosen(more, k) = Chosen(bag, k) BY DEF Chosen, Joined
<1>2. \A c \in Chosen(bag, k) : more[c] = bag[c] BY DEF Chosen, Joined
<1>3. Occurrences(more, Chosen(more, k)) = Occurrences(bag, Chosen(bag, k))
  <2> DEFINE S == Chosen(bag, k)
  <2>1. \A c \in S : {c} \X (1 .. more[c]) = {c} \X (1 .. bag[c]) BY <1>2
  <2> HIDE DEF S
  <2>2. {{c} \X (1 .. more[c]) : c \in S} = {{c} \X (1 .. bag[c]) : c \in S} BY <2>1
  <2>3. Occurrences(more, S) = Occurrences(bag, S) BY <2>2 DEF Occurrences
  <2> QED BY <1>1, <2>3 DEF S
<1> QED BY <1>3, CountersCount

(* A strong site is dispatched to, and is no call through an advanced      *)
(* pointer.                                                                *)
LEMMA StrongSites ==
  ASSUME NEW s, InternalCandidate(s).strong, ConditionalDispatch(s) \/ Dispatch(s)
  PROVE  /\ Dispatch(s) /\ s.branch # "loop" /\ ~SwitchLike(s) /\ ~Vtable(s)
         /\ ~Meets("direct_call", InternalCandidate(s))
<1>1. s.branch # "loop" BY DEF InternalCandidate
<1>2. Dispatch(s) /\ ~SwitchLike(s) /\ ~Vtable(s) BY <1>1 DEF ConditionalDispatch, Dispatch
<1>3. Strong(s) BY <1>1 DEF InternalCandidate
<1>4. /\ InternalCandidate(s).direct = DirectFetch(s)
      /\ InternalCandidate(s).call = (s.branch = "blr")
  BY <1>1 DEF InternalCandidate
<1>5. ~DirectFetch(s) \/ s.branch # "blr" BY <1>3 DEF Strong, TableLinked, TaintReaches
<1> QED BY <1>1, <1>2, <1>4, <1>5 DEF Meets

LEMMA MoreCandidates ==
  ASSUME CountsInv, CountsInv', NEW d, NEW n \in Nat,
         candidates' = candidates (+) [c \in {d} |-> n]
  PROVE  Extends(candidates, candidates') /\ Joined(candidates, d, candidates')
<1> DEFINE one == [c \in {d} |-> n]
<1>1. DOMAIN one = {d} /\ one[d] = n OBVIOUS
<1> HIDE DEF one
<1>2. candidates' = candidates (+) one BY DEF one
<1>3. /\ DOMAIN candidates' = DOMAIN candidates \cup {d}
      /\ \A c \in DOMAIN candidates' : candidates'[c] =
           (IF c \in DOMAIN candidates THEN candidates[c] ELSE 0)
           + (IF c \in DOMAIN one THEN one[c] ELSE 0)
  BY <1>1, <1>2 DEF (+)
<1>4. IsCounted(candidates) /\ IsCounted(candidates') BY DEF IsCounted, CountsInv
<1>5. \A c \in DOMAIN candidates : candidates[c] \in Nat BY DEF CountsInv
<1>6. \A c \in DOMAIN candidates : candidates[c] <= candidates'[c] BY <1>1, <1>3, <1>5
<1>7. \A c \in DOMAIN candidates \ {d} : candidates'[c] = candidates[c] BY <1>1, <1>3, <1>5
<1> QED BY <1>3, <1>4, <1>6, <1>7 DEF Extends, Joined

LEMMA StrongStepStrengthens ==
  ASSUME CountsInv, CountsInv', VerdictNext, tallies'.strong > tallies.strong
  PROVE  Strengthened(tallies, tallies')
<1> DEFINE bag == candidates more == candidates'
           t == Counted(candidates, switch_like_sites, vtable_sites)
           t_ == Counted(candidates', switch_like_sites', vtable_sites')
<1>1. PICK s \in Catalogue, n \in Repeats : Collect(s, n) BY DEF VerdictNext
<1> DEFINE d == InternalCandidate(s)
<1>2. n \in Nat BY <1>1, CatalogueAssumption
<1>3. /\ tallies = Tallies(candidates, switch_like_sites, vtable_sites)
      /\ tallies' = Tallies(candidates', switch_like_sites', vtable_sites')
  BY DEF CountsInv
<1> DEFINE T == Tallies(candidates, switch_like_sites, vtable_sites)
           T_ == Tallies(candidates', switch_like_sites', vtable_sites')
<1>4. \A k \in Counters \cup Peaks \cup Flags : T[k] = t[k] BY TalliesHoldCounts
<1>5. \A k \in Counters \cup Peaks \cup Flags : T_[k] = t_[k] BY TalliesHoldCounts
<1>6. Structure(T) = StructureScore(t) /\ Structure(T_) = StructureScore(t_)
  BY TalliesHoldCounts
<1>7. tallies = T /\ tallies' = T_ BY <1>3
<1>8. \A k \in Counters \cup Peaks \cup Flags : tallies[k] = t[k] /\ tallies'[k] = t_[k]
  <2> HIDE DEF T, T_, t, t_
  <2> QED BY <1>4, <1>5, <1>7
<1>9. tallies.strong = t.strong /\ tallies'.strong = t_.strong BY <1>8 DEF Counters
<1>10. /\ t.strong \in Nat /\ t_.strong \in Nat
       /\ more = bag => t_.strong = t.strong
  <2>1. "strong" \in Counters BY DEF Counters
  <2>2. /\ t.strong = Cardinality(Occurrences(bag, Chosen(bag, "strong")))
        /\ t_.strong = Cardinality(Occurrences(more, Chosen(more, "strong")))
    BY <2>1, CountersCount
  <2>3. /\ Chosen(bag, "strong") \subseteq DOMAIN bag /\ Chosen(more, "strong") \subseteq DOMAIN more
    BY DEF Chosen
  <2> HIDE DEF t, t_
  <2> QED BY <2>2, <2>3, OccurrencesAreFinite DEF CountsInv
<1> DEFINE a == t.strong b == t_.strong
<1>11. a \in Nat /\ b \in Nat /\ b > a
  <2> HIDE DEF t, t_
  <2> QED BY <1>9, <1>10
<1>12. more # bag
  <2>1. more = bag => b = a
    <3> HIDE DEF t, t_
    <3> QED BY <1>10
  <2> HIDE DEF a, b
  <2> QED BY <1>11, <2>1
<1>13. (ConditionalDispatch(s) \/ Dispatch(s)) /\ more = bag (+) [c \in {d} |-> n]
  BY <1>1, <1>12 DEF Collect
<1>14. Extends(bag, more) /\ Joined(bag, d, more) BY <1>2, <1>13, MoreCandidates
<1>15. d.strong
  <2>1. Meets("strong", d) <=> d.strong BY DEF Meets
  <2>2. ~Meets("strong", d) => b = a BY <1>14, UnchosenDoNotCount DEF Counters
  <2> HIDE DEF a, b, d
  <2> QED BY <2>1, <2>2, <1>11
<1>16. s.branch # "loop" /\ ~SwitchLike(s) /\ ~Vtable(s) /\ ~Meets("direct_call", d)
  BY <1>13, <1>15, StrongSites
<1>17. switch_like_sites' = switch_like_sites /\ vtable_sites' = vtable_sites
  BY <1>1, <1>16 DEF Collect, When, CountsInv
<1>18. /\ tallies.switches = switch_like_sites /\ tallies'.switches = switch_like_sites'
       /\ tallies.vtables = vtable_sites /\ tallies'.vtables = vtable_sites'
  BY <1>3, TalliesHoldCounts
<1>19. Grown(t, t_)
  <2>1. \A k \in Counters \cup Peaks : t[k] \in Nat /\ t_[k] \in Nat /\ t[k] <= t_[k]
    BY <1>14, CountsGrow
  <2>2. DOMAIN bag \subseteq DOMAIN more BY <1>14 DEF Extends
  <2>3. (t.cycle => t_.cycle) /\ (t.closed => t_.closed) BY <2>2 DEF Counted, BagToSet
  <2> HIDE DEF t, t_
  <2> QED BY <2>1, <2>3 DEF Grown
<1>20. Grown(tallies, tallies')
  <2>1. \A k \in Counters \cup Peaks :
          tallies[k] \in Nat /\ tallies'[k] \in Nat /\ tallies[k] <= tallies'[k]
    BY <1>8, <1>19 DEF Grown
  <2>2. /\ tallies.cycle = t.cycle /\ tallies'.cycle = t_.cycle
        /\ tallies.closed = t.closed /\ tallies'.closed = t_.closed
    BY <1>8 DEF Flags
  <2> QED BY <1>19, <2>1, <2>2 DEF Grown
<1>21. /\ Structure(tallies) \in Nat /\ Structure(tallies') \in Nat
       /\ Structure(tallies) <= Structure(tallies')
  <2> HIDE DEF T, T_, t, t_
  <2>1. Structure(tallies) = StructureScore(t) /\ Structure(tallies') = StructureScore(t_)
    BY <1>7, <1>6
  <2> QED BY <1>19, <2>1, StructureGrows
<1>22. tallies'.direct_call = tallies.direct_call
  <2>1. t_.direct_call = t.direct_call BY <1>14, <1>16, UnchosenDoNotCount DEF Counters
  <2> QED BY <2>1, <1>8 DEF Counters
<1>23. tallies'.strong <= tallies'.eligible
  <2>1. "strong" \in Counters /\ "eligible" \in Counters BY DEF Counters
  <2>2. /\ t_.strong = Cardinality(Occurrences(more, Chosen(more, "strong")))
        /\ t_.eligible = Cardinality(Occurrences(more, Chosen(more, "eligible")))
    BY <2>1, CountersCount
  <2>3. /\ Chosen(more, "strong") \subseteq Chosen(more, "eligible")
        /\ Chosen(more, "strong") \subseteq DOMAIN more
        /\ Chosen(more, "eligible") \subseteq DOMAIN more
    BY DEF Chosen, Meets
  <2>4. Extends(more, more) BY DEF CountsInv, IsCounted, Extends
  <2>5. tallies'.strong = t_.strong /\ tallies'.eligible = t_.eligible BY <1>8, <2>1
  <2> HIDE DEF t_, t
  <2> QED BY <2>2, <2>3, <2>4, <2>5, OccurrencesGrow
<1>24. tallies.strong < tallies'.strong
  <2>1. a < b
    <3> HIDE DEF a, b
    <3> QED BY <1>11
  <2> HIDE DEF t, t_
  <2> QED BY <2>1, <1>9
<1>25. {tallies.switches, tallies.vtables} \subseteq Nat BY <1>18 DEF CountsInv
<1> QED BY <1>17, <1>18, <1>20, <1>21, <1>22, <1>23, <1>24, <1>25 DEF Strengthened

(* EvidenceNeverExonerates: whatever kinds of site there are and in        *)
(* whatever numbers they come, no further site that closes the path to its *)
(* handler lowers the verdict, in any context.                             *)
THEOREM MoreSitesNeverExonerate == VerdictSpec => EvidenceNeverExonerates
<1> DEFINE Never == tallies'.strong > tallies.strong =>
                      \A x \in Considered : Verdict(tallies', x) >= Verdict(tallies, x)
<1>1. ASSUME CountsInv, CountsInv', [VerdictNext]_verdict_vars PROVE [Never]_verdict_vars
  <2>1. CASE UNCHANGED verdict_vars BY <2>1
  <2>2. CASE VerdictNext
    <3>1. ASSUME tallies'.strong > tallies.strong, NEW x \in Considered
          PROVE  Verdict(tallies', x) >= Verdict(tallies, x)
      <4>1. Strengthened(tallies, tallies') BY <2>2, <3>1, <1>1, StrongStepStrengthens
      <4> DEFINE v == Verdict(tallies, x) v_ == Verdict(tallies', x)
      <4>2. v <= v_ BY <4>1, VerdictStays
      <4>3. v \in 0 .. 2 /\ v_ \in 0 .. 2 BY VerdictValues
      <4> HIDE DEF v, v_
      <4>4. v_ >= v BY <4>2, <4>3
      <4> QED BY <4>4 DEF v, v_
    <3> QED BY <3>1
  <2> QED BY <2>1, <2>2, <1>1
<1>2. VerdictSpec => [][VerdictNext]_verdict_vars BY DEF VerdictSpec
<1> QED BY <1>1, <1>2, CountsAlways, PTL DEF EvidenceNeverExonerates
=============================================================================
