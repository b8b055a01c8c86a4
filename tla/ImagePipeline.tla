--------------------------- MODULE ImagePipeline ---------------------------
(***************************************************************************)
(* The satellite image from the edge filter to the client: main of the     *)
(* refuge server filters it, saves and compresses it, and only then enters *)
(* the loop that accepts clients, while a client may already be connected  *)
(* in the queue of the listening socket and have asked for it.             *)
(***************************************************************************)
EXTENDS EdgeFilter, ImageTransfer

pipelineVars == <<filterVars, transferVars>>

Init == FilterInit /\ TransferInit

\* start_canny_edge_detection: the filter, then compress_image.
Filter == FilterNext /\ UNCHANGED transferVars

\* Mutant: the filter runs in a thread of its own, and main does not wait for it.
ZipEarly == Compress /\ UNCHANGED filterVars

Zip == pass = "saved" /\ Compress /\ UNCHANGED filterVars

Next == Filter \/ Zip \/ (TransferNext /\ UNCHANGED filterVars)

Spec     == Init /\ [][Next]_pipelineVars
FairSpec == Spec /\ TransferFairness

----------------------------------------------------------------------------
(* Properties *)

\* What gzread() makes of the received file: the image, if every byte is there.
Unpacked(p) == IF file = Whole THEN m_cannyEdges[p] ELSE -1

\* A client whose file was compressed without errors and whose end was found with nothing
\* mixed in unpacks edges of the finished filter, although it may have asked for them before
\* the filter began: every strong local maximum of Sobel's magnitudes, and nothing that is
\* no maximum.
EdgesDelivered ==
    clean /\ zip.state = "fresh" /\ ending = "marker" /\ ~MarkerInside =>
        \A p \in Pixels : MayBecome(p, Unpacked(p))
=============================================================================
