------------------------ MODULE ImagePipelineProofs ------------------------
(***************************************************************************)
(* The filter and the transfer keep their invariants side by side, and the *)
(* transfer begins when the image has been saved: so what the client       *)
(* unpacks are edges of the finished filter.                               *)
(***************************************************************************)
EXTENDS ImagePipeline, EdgeFilterProofs, ImageTransferProofs

\* main accepts no client before the image has been saved.
SavedFirst == spc # "starting" => pass = "saved"

PipelineInv == FilterInv /\ TransferInv /\ SavedFirst

LEMMA PipelineStart == Init => PipelineInv
BY FilterStart, TransferStart DEF Init, TransferInit, PipelineInv, SavedFirst

LEMMA PipelineStep == PipelineInv /\ [Next]_pipelineVars => PipelineInv'
<1> SUFFICES ASSUME PipelineInv, [Next]_pipelineVars PROVE PipelineInv'
  OBVIOUS
<1>1. FilterInv'
  BY FilterStep DEF PipelineInv, Next, Filter, Zip, pipelineVars
<1>2. TransferInv'
  <2>1. Compress \/ TransferNext \/ UNCHANGED transferVars
    BY DEF Next, Filter, Zip, pipelineVars
  <2> QED BY <2>1, TransferStep DEF PipelineInv
<1>3. SavedFirst'
  <2>1. CASE Filter
    <3>1. pass # "saved"
      BY <2>1 DEF Filter, FilterNext, Suppress, ClearBorder, Classify, Scan, Meet, MeetStrong,
                  MeetNothing, MeetWeak, SaveImage, PipelineInv, FilterInv, Linked
    <3>2. spc' = "starting"
      BY <2>1, <3>1 DEF Filter, PipelineInv, SavedFirst, transferVars, serverVars
    <3> QED BY <3>2 DEF SavedFirst
  <2>2. CASE Zip
    BY <2>2 DEF Zip, SavedFirst, filterVars
  <2>3. CASE TransferNext /\ UNCHANGED filterVars
    <3>1. spc = "starting" => spc' = "starting"
      BY <2>3 DEF TransferNext, SendAlert, Disconnect, Reply, TakeAnswer, Quit, ThreadEnds, Sends,
                  StartSending, BeginWrite, Write, Sent, Receives, Receive, ReceiveMarker,
                  ReceiveGuess, ReceiveEnd, FileFails, Loops, ConnectionLost, ShowText, Type,
                  AskInVain, AskImage, serverVars
    <3> QED BY <2>3, <3>1 DEF PipelineInv, SavedFirst, filterVars
  <2>4. CASE UNCHANGED pipelineVars
    BY <2>4 DEF PipelineInv, SavedFirst, pipelineVars, filterVars, transferVars, serverVars
  <2> QED BY <2>1, <2>2, <2>3, <2>4 DEF Next
<1> QED BY <1>1, <1>2, <1>3 DEF PipelineInv

\* A file that ends in a marker was received from a server that had saved the image.
LEMMA WholeIsImage == PipelineInv => EdgesDelivered
<1> SUFFICES ASSUME PipelineInv, clean, ending = "marker", ~MarkerInside, NEW p \in Pixels
             PROVE  MayBecome(p, Unpacked(p))
  BY DEF EdgesDelivered
<1>1. file = Whole
  BY DEF PipelineInv, TransferInv, ImageExact
<1>2. pass = "saved"
  BY DEF PipelineInv, SavedFirst, TransferInv, NotBefore
<1>3. MayBecome(p, m_cannyEdges[p])
  BY <1>2, SavedIsEdges DEF PipelineInv, EdgesAreMaxima
<1> QED BY <1>1, <1>3 DEF Unpacked

\* With what other texts do to a file that is not clean.
LEMMA MixedPipelineStart == Init => PipelineInv /\ MixedInv
BY PipelineStart, MixedStart DEF Init

LEMMA MixedPipelineStep ==
    PipelineInv /\ MixedInv /\ [Next]_pipelineVars => PipelineInv' /\ MixedInv'
<1> SUFFICES ASSUME PipelineInv, MixedInv, [Next]_pipelineVars PROVE PipelineInv' /\ MixedInv'
  OBVIOUS
<1>1. Compress \/ TransferNext \/ UNCHANGED transferVars
  BY DEF Next, Filter, Zip, pipelineVars
<1>2. MixedInv'
  BY <1>1, MixedStep DEF PipelineInv
<1> QED BY <1>2, PipelineStep

----------------------------------------------------------------------------
\* The inductive invariant of filter and transfer together.
THEOREM PipelineIsSound == Spec => []PipelineInv
<1>1. PipelineInv /\ [Next]_pipelineVars => PipelineInv'
  BY PipelineStep
<1> QED BY <1>1, PipelineStart, PTL DEF Spec

\* Of a file that nothing is mixed into the client has a beginning, wherever the stream is cut
\* and wherever it ends (send_zip_file, receive_compressed_file).
THEOREM FileIsInOrder == Spec => []ReceivedInOrder
<1>1. PipelineInv => ReceivedInOrder
  BY DEF PipelineInv, TransferInv
<1> QED BY <1>1, PipelineIsSound, PTL

\* Alerts, replies, an "exit" and a second "get_image" during the transfer put other bytes
\* between those of the file, and displace none of them (send_zip_file beside handle_alerts
\* and disconnect_all_clients, receive_compressed_file).
THEOREM FileKeepsItsBytes == Spec => []NoByteLost
<1>1. PipelineInv /\ MixedInv /\ [Next]_pipelineVars => PipelineInv' /\ MixedInv'
  BY MixedPipelineStep
<1>2. MixedInv => NoByteLost
  BY DEF MixedInv
<1> QED BY <1>1, <1>2, MixedPipelineStart, PTL DEF Spec

\* A file whose end was found, with nothing mixed in and no marker inside, is complete.
THEOREM FileIsExact == Spec => []ImageExact
<1>1. PipelineInv => ImageExact
  BY DEF PipelineInv, TransferInv
<1> QED BY <1>1, PipelineIsSound, PTL

\* Then the client has every strong local maximum of the image and nothing that is none, for
\* images of any size, any order of the filter's threads and any pieces of the stream.
THEOREM EdgesAreDelivered == Spec => []EdgesDelivered
<1>1. PipelineInv => EdgesDelivered
  BY WholeIsImage
<1> QED BY <1>1, PipelineIsSound, PTL
=============================================================================
