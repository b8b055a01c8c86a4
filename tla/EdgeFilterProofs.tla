-------------------------- MODULE EdgeFilterProofs --------------------------
(***************************************************************************)
(* FilterInv is inductive, for images of any size, any thresholds and any  *)
(* magnitudes and directions.                                              *)
(***************************************************************************)
EXTENDS EdgeFilter, TLAPS

\* The byte kept of a magnitude is a natural number.
LEMMA ByteIsNat == \A m \in Nat : Byte(m) \in Nat
BY SMT DEF Byte

\* An input is what InputAssumption says of it.
LEMMA InputType ==
    ASSUME FilterTypeOK
    PROVE  \A p \in Pixels : input.m_magnitude[p] \in Nat
BY InputAssumption DEF FilterTypeOK

\* What the suppression leaves of a pixel is a natural number, and nothing on the border.
LEMMA ThinType ==
    ASSUME FilterTypeOK
    PROVE  \A p \in Pixels : Thin(p) \in Nat /\ (p \notin Interior => Thin(p) = 0)
BY InputType, ByteIsNat DEF Thin

\* A pixel with a weak edge has the neighbour the recursion goes on to, above and to the left.
LEMMA AroundIsInside ==
    ASSUME NEW p \in Interior
    PROVE  <<p[1] - 1, p[2] - 1>> \in Pixels
BY SizeAssumption, SMT DEF Interior, Pixels

\* The loops of checkContours reach that neighbour at most.
LEMMA AroundIsOne ==
    ASSUME NEW p \in Pixels, NEW prev \in Pixels, NEW s \in Around(p, prev)
    PROVE  s = <<p[1] - 1, p[2] - 1>>
<1>1. s \in {p[1] - 1, p[1]} \X {p[2] - 1, p[2]} /\ s[1] # p[1] /\ s[2] # p[2]
  BY DEF Around
<1> QED BY <1>1

----------------------------------------------------------------------------
\* The filter starts in FilterInv.
LEMMA FilterStart == FilterInit => FilterInv
<1> SUFFICES ASSUME FilterInit PROVE FilterInv
  OBVIOUS
<1>1. m_cannyEdges \in [Pixels -> Nat]
  BY InputAssumption DEF FilterInit
<1>2. <<0, 0>> \in Pixels
  BY SizeAssumption, SMT DEF Pixels
<1> QED BY <1>1, <1>2 DEF FilterInit, FilterInv, FilterTypeOK, Thinned, Linked, StaysInside

\* Nothing in FilterInv changes when nothing in the filter does.
LEMMA FilterRests == FilterInv /\ UNCHANGED filterVars => FilterInv'
BY DEF FilterInv, filterVars, FilterTypeOK, Thinned, Linked, StaysInside, Thin, Maximum,
       Ahead, Behind, Settled, Passed

\* As long as the input is the same, so is what the suppression makes of it.
LEMMA ThinRests == input' = input => \A p \in Pixels : Thin(p)' = Thin(p)
BY DEF Thin, Maximum, Ahead, Behind

\* The threads.
LEMMA SuppressKeeps ==
    ASSUME FilterInv, NEW p \in Interior, Suppress(p)
    PROVE  FilterInv'
<1> USE DEF FilterInv, Suppress
<1>1. p \in Pixels
  BY SizeAssumption, SMT DEF Interior, Pixels
<1>2. Thin(p) = IF Maximum(p) THEN Byte(input.m_magnitude[p]) ELSE 0
  BY DEF Thin
<1>3. m_cannyEdges' = [m_cannyEdges EXCEPT ![p] = Thin(p)]
  BY <1>2
<1>4. FilterTypeOK'
  BY <1>1, <1>3, ThinType DEF FilterTypeOK
<1>5. Thinned'
  BY <1>1, <1>3, ThinRests, SizeAssumption DEF Thinned, FilterTypeOK, Interior, Pixels
<1>6. Linked' /\ StaysInside'
  BY DEF Linked, StaysInside, Passed
<1> QED BY <1>4, <1>5, <1>6

LEMMA ClearBorderKeeps == FilterInv /\ ClearBorder => FilterInv'
<1> SUFFICES ASSUME FilterInv, ClearBorder PROVE FilterInv'
  OBVIOUS
<1> USE DEF FilterInv, ClearBorder
<1>1. FilterTypeOK'
  BY DEF FilterTypeOK
<1>2. \A p \in Pixels : m_cannyEdges'[p] = Thin(p)
  BY ThinType DEF Thinned, FilterTypeOK
<1>3. Thinned'
  BY <1>2, ThinRests DEF Thinned
<1>4. Linked' /\ StaysInside'
  BY DEF Linked, StaysInside
<1> QED BY <1>1, <1>3, <1>4

\* At the start of the linking no pixel is settled.
LEMMA ClassifyKeeps == FilterInv /\ Classify => FilterInv'
<1> SUFFICES ASSUME FilterInv, Classify PROVE FilterInv'
  OBVIOUS
<1> USE DEF FilterInv, Classify
<1>1. FilterTypeOK'
  BY SizeAssumption, SMT DEF FilterTypeOK, Pixels
<1>2. \A p \in Pixels : m_cannyEdges[p] = Thin(p) /\ Thin(p) \in Nat /\ Thin(p)' = Thin(p)
  BY ThinType, ThinRests DEF Thinned
<1>3. \A p \in Pixels : ~Passed(p)'
  BY SMT DEF Passed, Pixels
<1>4. /\ weakEdges' = {p \in Pixels : Thin(p)' >= m_lowThreshold}
      /\ strongEdges' \subseteq weakEdges'
  BY <1>2, ThresholdAssumption
<1>5. Linked'
  BY <1>2, <1>3, <1>4 DEF Linked, Settled
<1> QED BY <1>1, <1>5 DEF Thinned, Linked, StaysInside

----------------------------------------------------------------------------
\* The scan.

\* Going on by one pixel passes that pixel and no other.
LEMMA ScanPasses ==
    ASSUME FilterTypeOK, Scan
    PROVE  /\ at' \in Pixels \cup {<<Rows, 0>>}
           /\ \A p \in Pixels : Passed(p)' <=> (Passed(p) \/ p = at)
BY SizeAssumption, SMT DEF FilterTypeOK, Scan, Passed, Pixels

LEMMA ScanKeeps == FilterInv /\ Scan => FilterInv'
<1> SUFFICES ASSUME FilterInv, Scan PROVE FilterInv'
  OBVIOUS
<1> USE DEF FilterInv, Scan
<1>1. calls' \subseteq {<<at, at>>} /\ (at \notin strongEdges => calls' = {<<at, at>>})
  OBVIOUS
<1>2. FilterTypeOK'
  BY <1>1, ScanPasses DEF FilterTypeOK, Pixels
<1>3. \A p \in Pixels : Settled(p)' => Settled(p) \/ p \in strongEdges
  BY <1>1, ScanPasses DEF Settled
<1>4. Linked'
  BY <1>3, ThinRests DEF Linked
<1>5. StaysInside'
  BY <1>1, ScanPasses DEF StaysInside
<1> QED BY <1>2, <1>4, <1>5 DEF Thinned

----------------------------------------------------------------------------
\* The calls of checkContours.

\* There is one call at most, so when it returns, its pixel is the only one that settles.
LEMMA ReturnSettles ==
    ASSUME FilterInv, NEW p, NEW prev, <<p, prev>> \in calls, calls' = {}, UNCHANGED at
    PROVE  \A q \in Pixels : Settled(q)' => Settled(q) \/ q = p
BY DEF FilterInv, StaysInside, Settled, Passed

LEMMA OneCall ==
    ASSUME FilterInv, NEW p, NEW prev, <<p, prev>> \in calls
    PROVE  calls = {<<p, prev>>} /\ p \in Pixels /\ prev \in Pixels /\ Passed(p)
<1>1. \A one, two \in calls : one = two
  BY DEF FilterInv, StaysInside
<1>2. <<p, prev>>[1] \in Pixels /\ Passed(<<p, prev>>[1])
  BY DEF FilterInv, StaysInside
<1>3. <<p, prev>> \in (Int \X Int) \X Pixels
  BY DEF FilterInv, FilterTypeOK
<1> QED BY <1>1, <1>2, <1>3

LEMMA MeetStrongKeeps ==
    ASSUME FilterInv, NEW p, NEW prev, MeetStrong(p, prev)
    PROVE  FilterInv'
<1> USE DEF FilterInv, MeetStrong
<1>1. calls = {<<p, prev>>} /\ p \in Pixels
  BY OneCall
<1>2. calls' = {}
  BY <1>1
<1>3. \A q \in Pixels : Settled(q)' => Settled(q) \/ q = p
  BY <1>2, ReturnSettles
<1>4. FilterTypeOK'
  BY <1>2 DEF FilterTypeOK
<1>5. pass \in {"link", "saved"} /\ pass # "saved"
  BY <1>1 DEF Linked, FilterTypeOK
<1>6. Linked'
  BY <1>2, <1>3, <1>5, ThinRests DEF Linked
<1> QED BY <1>2, <1>4, <1>5, <1>6 DEF Thinned, StaysInside

LEMMA MeetNothingKeeps ==
    ASSUME FilterInv, NEW p, NEW prev, MeetNothing(p, prev)
    PROVE  FilterInv'
<1> USE DEF FilterInv, MeetNothing
<1>1. calls = {<<p, prev>>} /\ p \in Pixels
  BY OneCall
<1>2. calls' = {}
  BY <1>1
<1>3. \A q \in Pixels : Settled(q)' => Settled(q) \/ q = p
  BY <1>2, ReturnSettles
<1>4. FilterTypeOK'
  BY <1>1, <1>2 DEF FilterTypeOK
<1>5. pass = "link"
  BY <1>1 DEF Linked, FilterTypeOK
<1>6. \A q \in Pixels : m_cannyEdges'[q] = IF q = p THEN 0 ELSE m_cannyEdges[q]
  BY <1>1 DEF FilterTypeOK
<1>7. Linked'
  BY <1>1, <1>2, <1>3, <1>5, <1>6, ThinRests DEF Linked
<1> QED BY <1>2, <1>4, <1>5, <1>7 DEF Thinned, StaysInside

\* A weak pixel that is not strong is the one the scan has come to, so the neighbour the
\* recursion goes on to is settled.
LEMMA MeetWeakKeeps ==
    ASSUME FilterInv, NEW p, NEW prev, MeetWeak(p, prev)
    PROVE  FilterInv'
<1> USE DEF FilterInv, MeetWeak
<1> DEFINE s == <<p[1] - 1, p[2] - 1>>
<1>1. calls = {<<p, prev>>} /\ p \in Pixels /\ prev \in Pixels /\ Passed(p)
  BY OneCall
<1>2. pass = "link"
  BY <1>1 DEF Linked, FilterTypeOK
<1>3. s \in Pixels
  <2>1. Thin(p) >= m_lowThreshold /\ Thin(p) \in Nat
    BY <1>1, <1>2, ThinType DEF Linked
  <2>2. p \in Interior
    BY <1>1, <2>1, ThinType, ThresholdAssumption, SMT
  <2> QED BY <2>2, AroundIsInside
<1>4. calls' \subseteq {<<s, p>>}
  BY <1>1, AroundIsOne
<1>5. s # p /\ Passed(s) /\ Passed(s)'
  <2>1. p[1] \in Int /\ p[2] \in Int /\ s[1] = p[1] - 1 /\ s[2] = p[2] - 1
    BY <1>1 DEF Pixels
  <2>2. at[1] \in Int /\ at[2] \in Int /\ at' = at
    BY SizeAssumption DEF FilterTypeOK, Pixels
  <2>3. s # p
    BY <2>1, SMT
  <2>4. Passed(s)
    BY <1>1, <2>1, <2>2, SMT DEF Passed
  <2> QED BY <2>2, <2>3, <2>4 DEF Passed
<1>6. Settled(s)
  BY <1>1, <1>5 DEF Settled
<1>7. s \in weakEdges => s \in strongEdges
  <2>1. s \in weakEdges => m_cannyEdges[s] = Thin(s) /\ Thin(s) >= m_lowThreshold /\ Thin(s) \in Nat
    BY <1>2, <1>3, ThinType DEF Linked
  <2>2. s \in strongEdges \/ m_cannyEdges[s] = 0
    BY <1>2, <1>3, <1>6 DEF Linked
  <2> QED BY <2>1, <2>2, ThresholdAssumption, SMT
<1>8. FilterTypeOK'
  BY <1>1, <1>3, <1>4 DEF FilterTypeOK, Pixels
<1>9. StaysInside'
  <2>1. p \in strongEdges' /\ (s \in weakEdges' => s \in strongEdges')
    BY <1>7
  <2>2. ASSUME NEW call \in calls'
        PROVE  call[1] = s /\ call[2] = p
    BY <1>4
  <2> QED BY <1>3, <1>4, <1>5, <2>1, <2>2 DEF StaysInside
<1>10. \A q \in Pixels : Settled(q)' => Settled(q) \/ q = p
  BY <1>1 DEF Settled, Passed
<1>11. Linked'
  BY <1>1, <1>2, <1>10, ThinRests DEF Linked
<1> QED BY <1>2, <1>8, <1>9, <1>11 DEF Thinned

LEMMA SaveImageKeeps == FilterInv /\ SaveImage => FilterInv'
<1> SUFFICES ASSUME FilterInv, SaveImage PROVE FilterInv'
  OBVIOUS
<1> USE DEF FilterInv, SaveImage
<1>1. FilterTypeOK'
  BY DEF FilterTypeOK
<1>2. Linked'
  BY ThinRests DEF Linked, FilterTypeOK, Settled, Passed
<1> QED BY <1>1, <1>2 DEF Thinned, StaysInside, Passed

----------------------------------------------------------------------------
LEMMA FilterStep == FilterInv /\ [FilterNext]_filterVars => FilterInv'
<1> SUFFICES ASSUME FilterInv, [FilterNext]_filterVars PROVE FilterInv'
  OBVIOUS
<1>1. CASE \E p \in Interior : Suppress(p)
  BY <1>1, SuppressKeeps
<1>2. CASE ClearBorder
  BY <1>2, ClearBorderKeeps
<1>3. CASE Classify
  BY <1>3, ClassifyKeeps
<1>4. CASE Scan
  BY <1>4, ScanKeeps
<1>5. CASE Meet
  BY <1>5, MeetStrongKeeps, MeetNothingKeeps, MeetWeakKeeps DEF Meet
<1>6. CASE SaveImage
  BY <1>6, SaveImageKeeps
<1>7. CASE UNCHANGED filterVars
  BY <1>7, FilterRests
<1> QED BY <1>1, <1>2, <1>3, <1>4, <1>5, <1>6, <1>7 DEF FilterNext

\* When the scan is through, every pixel is settled: a weak one was marked and kept its value,
\* and what is below the low threshold was cleared.
LEMMA SavedIsEdges == FilterInv => EdgesAreMaxima
<1> SUFFICES ASSUME FilterInv PROVE EdgesAreMaxima
  OBVIOUS
<1>1. pass = "classify" => \A p \in Pixels : m_cannyEdges[p] = Thin(p)
  BY DEF FilterInv, Thinned
<1>2. ASSUME pass = "saved", NEW p \in Pixels
      PROVE  MayBecome(p, m_cannyEdges[p])
  <2>1. calls = {} /\ at = <<Rows, 0>>
    BY <1>2 DEF FilterInv, Linked
  <2>2. p[1] \in Int /\ p[1] < Rows /\ at[1] = Rows
    BY <2>1, SizeAssumption, SMT DEF Pixels
  <2>3. Settled(p)
    BY <2>1, <2>2 DEF Settled, Passed
  <2>4. Thin(p) \in Nat
    BY ThinType DEF FilterInv
  <2>5. m_cannyEdges[p] = IF Thin(p) >= m_lowThreshold THEN Thin(p) ELSE 0
    BY <1>2, <2>3, <2>4 DEF FilterInv, Linked
  <2> QED BY <2>4, <2>5, ThresholdAssumption, SMT DEF MayBecome
<1> QED BY <1>1, <1>2 DEF EdgesAreMaxima

\* The image that is saved has every strong local maximum and nothing that is no maximum,
\* whatever the order of the threads, for images of any size (nonMaximumSuppression,
\* applyLinkingAndHysteresis).
THEOREM EdgesComeFromMaxima == FilterSpec => []EdgesAreMaxima
<1>1. FilterInv /\ [FilterNext]_filterVars => FilterInv'
  BY FilterStep
<1> QED BY <1>1, FilterStart, SavedIsEdges, PTL DEF FilterSpec

\* checkContours never leaves the image, and its recursion returns at the first neighbour.
THEOREM RecursionStaysInside == FilterSpec => []StaysInside
<1>1. FilterInv /\ [FilterNext]_filterVars => FilterInv'
  BY FilterStep
<1>2. FilterInv => StaysInside
  BY DEF FilterInv
<1> QED BY <1>1, <1>2, FilterStart, PTL DEF FilterSpec
=============================================================================
