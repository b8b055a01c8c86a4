----------------------------- MODULE EdgeFilter -----------------------------
(***************************************************************************)
(* The last two passes of the canny edge filter: non-maximum suppression,  *)
(* whose pixels four OpenMP threads handle in any order, and the linking   *)
(* of weak edges by a recursion over neighbours.  What the blur and the    *)
(* Sobel operator leave behind (the blurred image in m_cannyEdges, the     *)
(* magnitudes, the directions) is the input.  Fractions of magnitudes are  *)
(* left out; a pixel of the result is a byte.                              *)
(***************************************************************************)
EXTENDS Integers, FiniteSets

CONSTANTS
    Rows, Cols,                        \* the size of the image
    m_lowThreshold, m_highThreshold,   \* 50 and 150
    Inputs                             \* what Sobel's operator may deliver

Pixels   == (0 .. Rows - 1) \X (0 .. Cols - 1)
Interior == (1 .. Rows - 2) \X (1 .. Cols - 2)
Angles   == {0, 45, 90, 135}

ASSUME SizeAssumption == Rows \in Nat \ {0} /\ Cols \in Nat \ {0}
ASSUME ThresholdAssumption == /\ m_lowThreshold \in Nat \ {0} /\ m_highThreshold \in Nat
                              /\ m_lowThreshold <= m_highThreshold
ASSUME InputAssumption ==
    Inputs \subseteq [blurred : [Pixels -> 0 .. 255], m_magnitude : [Pixels -> Nat],
                      m_direction : [Interior -> Angles]]

VARIABLES
    pass,          \* "suppress", "classify", "link" or "saved"
    input,         \* blurred image, magnitudes and directions
    suppressed,    \* the pixels the threads have handled
    m_cannyEdges,  \* the image in work
    strongEdges,   \* the pixels marked as strong
    weakEdges,     \* the pixels marked as weak or strong
    at,            \* the pixel the scan of the linking comes to
    calls          \* the calls of checkContours that have not returned: pixel, previous pixel

filterVars == <<pass, input, suppressed, m_cannyEdges, strongEdges, weakEdges, at, calls>>

----------------------------------------------------------------------------
\* The conversion from float to uint8_t: undefined above 255, where the x86 build keeps the
\* low byte of the integer part.
Byte(m) == m % 256

\* The two neighbours along the gradient lie on opposite sides of the pixel.
Along(angle) == IF angle = 0 THEN <<0, 1>> ELSE IF angle = 45 THEN <<1, -1>>
                ELSE IF angle = 90 THEN <<1, 0>> ELSE <<1, 1>>
Ahead(p)     == <<p[1] + Along(input.m_direction[p])[1], p[2] + Along(input.m_direction[p])[2]>>
Behind(p)    == <<p[1] - Along(input.m_direction[p])[1], p[2] - Along(input.m_direction[p])[2]>>
Maximum(p)   == /\ input.m_magnitude[p] >= input.m_magnitude[Ahead(p)]
                /\ input.m_magnitude[p] >= input.m_magnitude[Behind(p)]

\* Mutant: the result is written to the matrix that the other threads still read.
SuppressInPlace(p) ==
    /\ pass = "suppress" /\ p \in Interior \ suppressed
    /\ LET At(q) == IF q \in suppressed THEN m_cannyEdges[q] ELSE input.m_magnitude[q]
       IN  m_cannyEdges' = [m_cannyEdges EXCEPT ![p] =
               IF At(p) >= At(Ahead(p)) /\ At(p) >= At(Behind(p)) THEN Byte(At(p)) ELSE 0]
    /\ suppressed' = suppressed \cup {p}
    /\ UNCHANGED <<pass, input, strongEdges, weakEdges, at, calls>>

\* nonMaximumSuppression: some thread handles pixel p.
Suppress(p) ==
    /\ pass = "suppress" /\ p \in Interior \ suppressed
    /\ m_cannyEdges' = [m_cannyEdges EXCEPT ![p] = IF Maximum(p) THEN Byte(input.m_magnitude[p]) ELSE 0]
    /\ suppressed' = suppressed \cup {p}
    /\ UNCHANGED <<pass, input, strongEdges, weakEdges, at, calls>>

\* Mutant: the border keeps what the blur left there.
LeaveBorder ==
    /\ pass = "suppress" /\ suppressed = Interior
    /\ pass' = "classify"
    /\ UNCHANGED <<input, suppressed, m_cannyEdges, strongEdges, weakEdges, at, calls>>

ClearBorder ==
    /\ pass = "suppress" /\ suppressed = Interior
    /\ m_cannyEdges' = [p \in Pixels |-> IF p \in Interior THEN m_cannyEdges[p] ELSE 0]
    /\ pass' = "classify"
    /\ UNCHANGED <<input, suppressed, strongEdges, weakEdges, at, calls>>

\* The first loop of applyLinkingAndHysteresis.
Classify ==
    /\ pass = "classify"
    /\ strongEdges' = {p \in Pixels : m_cannyEdges[p] >= m_highThreshold}
    /\ weakEdges' = {p \in Pixels : m_cannyEdges[p] >= m_lowThreshold}
    /\ pass' = "link" /\ at' = <<0, 0>>
    /\ UNCHANGED <<input, suppressed, m_cannyEdges, calls>>

\* The second loop, row by row, calls checkContours for every pixel that is not strong.
Scan ==
    /\ pass = "link" /\ calls = {} /\ at \in Pixels
    /\ calls' = IF at \in strongEdges THEN {} ELSE {<<at, at>>}
    /\ at' = IF at[2] + 1 < Cols THEN <<at[1], at[2] + 1>> ELSE <<at[1] + 1, 0>>
    /\ UNCHANGED <<pass, input, suppressed, m_cannyEdges, strongEdges, weakEdges>>

\* checkContours returns at once from a strong pixel ...
MeetStrong(p, prev) ==
    /\ <<p, prev>> \in calls /\ p \in strongEdges
    /\ calls' = calls \ {<<p, prev>>}
    /\ UNCHANGED <<pass, input, suppressed, m_cannyEdges, strongEdges, weakEdges, at>>

\* ... clears a pixel that is not even weak ...
MeetNothing(p, prev) ==
    /\ <<p, prev>> \in calls /\ p \notin strongEdges /\ p \notin weakEdges
    /\ m_cannyEdges' = [m_cannyEdges EXCEPT ![p] = 0]
    /\ calls' = calls \ {<<p, prev>>}
    /\ UNCHANGED <<pass, input, suppressed, strongEdges, weakEdges, at>>

\* The loops over the neighbours run below the pixel only (< row + 1, < col + 1).
Around(p, prev) ==
    {s \in {p[1] - 1, p[1]} \X {p[2] - 1, p[2]} :
        s[1] # p[1] /\ s[2] # p[2] /\ s[1] # prev[1] /\ s[2] # prev[2]}

\* ... and marks a weak pixel as strong and goes on to its neighbours.
MeetWeak(p, prev) ==
    /\ <<p, prev>> \in calls /\ p \notin strongEdges /\ p \in weakEdges
    /\ strongEdges' = strongEdges \cup {p}
    /\ calls' = (calls \ {<<p, prev>>}) \cup {<<s, p>> : s \in Around(p, prev)}
    /\ UNCHANGED <<pass, input, suppressed, m_cannyEdges, weakEdges, at>>

SaveImage ==
    /\ pass = "link" /\ calls = {} /\ at \notin Pixels
    /\ pass' = "saved"
    /\ UNCHANGED <<input, suppressed, m_cannyEdges, strongEdges, weakEdges, at, calls>>

----------------------------------------------------------------------------
FilterInit ==
    /\ pass = "suppress" /\ input \in Inputs /\ suppressed = {}
    /\ m_cannyEdges = input.blurred
    /\ strongEdges = {} /\ weakEdges = {}
    /\ at = <<0, 0>> /\ calls = {}

Meet == \E call \in calls :
    MeetStrong(call[1], call[2]) \/ MeetNothing(call[1], call[2]) \/ MeetWeak(call[1], call[2])

FilterNext == \/ \E p \in Interior : Suppress(p)
              \/ ClearBorder \/ Classify \/ Scan \/ Meet \/ SaveImage

FilterSpec == FilterInit /\ [][FilterNext]_filterVars

----------------------------------------------------------------------------
(* Properties *)

\* What is left of a pixel by the suppression, as a function of the input alone.
Thin(p) == IF p \in Interior /\ Maximum(p) THEN Byte(input.m_magnitude[p]) ELSE 0

\* The scan has passed the pixel, and no call is working on it.
Passed(p)  == p[1] < at[1] \/ (p[1] = at[1] /\ p[2] < at[2])
Settled(p) == Passed(p) /\ \A call \in calls : call[1] # p

FilterTypeOK ==
    /\ pass \in {"suppress", "classify", "link", "saved"}
    /\ input \in Inputs /\ suppressed \subseteq Interior
    /\ m_cannyEdges \in [Pixels -> Nat]
    /\ strongEdges \subseteq Pixels /\ weakEdges \subseteq Pixels
    /\ at \in Pixels \cup {<<Rows, 0>>}
    /\ calls \subseteq (Int \X Int) \X Pixels

\* Whatever the order of the threads, every pixel they have handled has its final value.
Thinned ==
    /\ pass = "suppress" => \A p \in suppressed : m_cannyEdges[p] = Thin(p)
    /\ pass = "classify" => \A p \in Pixels : m_cannyEdges[p] = Thin(p)

\* Where the linking has been, a pixel is strong or cleared; nowhere is a weak one lost.
Linked ==
    /\ pass \notin {"link", "saved"} => calls = {}
    /\ pass \in {"link", "saved"} =>
        /\ weakEdges = {p \in Pixels : Thin(p) >= m_lowThreshold} /\ strongEdges \subseteq weakEdges
        /\ \A p \in Pixels : m_cannyEdges[p] = Thin(p) \/ (p \notin weakEdges /\ m_cannyEdges[p] = 0)
        /\ \A p \in Pixels : Settled(p) => p \in strongEdges \/ m_cannyEdges[p] = 0
    /\ pass = "saved" => calls = {} /\ at = <<Rows, 0>>

\* What both thresholds leave open for a pixel: a local maximum of at least the high one is
\* kept, what is none of at least the low one is cleared, and the others are kept or cleared.
MayBecome(p, v) ==
    \/ v = Thin(p) /\ v >= m_lowThreshold
    \/ v = 0 /\ Thin(p) < m_highThreshold

\* Whatever the order of the threads, the suppression keeps exactly the local maxima of the
\* magnitudes; and whatever the recursion, no strong one of them is lost in the linking, and
\* no pixel is saved that is no maximum or has another value.
EdgesAreMaxima ==
    /\ pass = "classify" => \A p \in Pixels : m_cannyEdges[p] = Thin(p)
    /\ pass = "saved" => \A p \in Pixels : MayBecome(p, m_cannyEdges[p])

\* checkContours looks at neighbours without a test of the bounds.  It stays inside the image
\* because the border has no weak pixels, and it is never more than two calls deep, because
\* the scan has settled the pixel above and to the left of a weak one before it comes there.
StaysInside ==
    /\ \A one, two \in calls : one = two
    /\ \A call \in calls :
        /\ call[1] \in Pixels /\ Passed(call[1])
        /\ call[1] # call[2] =>
               call[2] \in strongEdges /\ (call[1] \in weakEdges => call[1] \in strongEdges)

FilterInv == FilterTypeOK /\ Thinned /\ Linked /\ StaysInside

\* lib/cannyEdgeFilter/README.md: the hysteresis "includes weak edges only if they are
\* connected to strong edges": no set of weak pixels in the saved image is without a
\* neighbour in the rest of it.
Kept == {p \in Pixels : m_cannyEdges[p] > 0}
Weak == {p \in Kept : m_cannyEdges[p] < m_highThreshold}
Touch(p, q) == p[1] - q[1] \in -1 .. 1 /\ p[2] - q[2] \in -1 .. 1

WeakEdgesConnected ==
    pass = "saved" =>
        \A island \in SUBSET Weak \ {{}} : \E p \in island, q \in Kept \ island : Touch(p, q)
=============================================================================
