------------------------ MODULE ImageTransferProofs ------------------------
(***************************************************************************)
(* TransferInv is inductive, for files of any size and content, buffers of *)
(* any size and any pieces the stream is cut into.                         *)
(***************************************************************************)
EXTENDS ImageTransfer, SequenceTheorems, TLAPS

\* The size of the zip file.
LEMMA SizeType ==
    ASSUME TransferTypeOK
    PROVE  Size \in Nat /\ zip.look \in Seq(Letters)
<1>1. zip.look \in Looks \cup {<<>>}
  BY DEF TransferTypeOK
<1>2. zip.look \in Seq(Letters)
  BY <1>1, LookAssumption, EmptySeq
<1>3. Size \in Nat
  BY <1>2 DEF Size
<1> QED BY <1>2, <1>3

\* One byte more on its way.
LEMMA AppendByte ==
    ASSUME line \in Seq(Int), NEW b \in Int, line' = Append(line, b)
    PROVE  /\ line' \in Seq(Int) /\ Len(line') = Len(line) + 1
           /\ \A i \in 1 .. Len(line) : line'[i] = line[i]
           /\ line'[Len(line) + 1] = b
BY AppendProperties

----------------------------------------------------------------------------
LEMMA TransferStart == TransferInit => TransferInv
<1> SUFFICES ASSUME TransferInit PROVE TransferInv
  OBVIOUS
<1>1. TransferTypeOK
  BY EmptySeq DEF TransferInit, TransferTypeOK
<1> QED BY <1>1 DEF TransferInit, TransferInv, NotBefore, InTransit, ReceivedInOrder, ImageExact

LEMMA TransferRests == TransferInv /\ UNCHANGED transferVars => TransferInv'
BY DEF TransferInv, transferVars, serverVars, clientVars, TransferTypeOK, NotBefore, InTransit,
       ReceivedInOrder, ImageExact, MarkerInside, Whole, Size

\* The zip file is made before anything is asked, so no file has been received yet.
LEMMA CompressKeeps == TransferInv /\ Compress => TransferInv'
<1> SUFFICES ASSUME TransferInv, Compress PROVE TransferInv'
  OBVIOUS
<1>1. TransferTypeOK'
  BY DEF TransferInv, Compress, TransferTypeOK, clientVars
<1>2. file' = <<>> /\ ending' = "none" /\ sent' = 0 /\ line' = <<>>
  BY DEF TransferInv, Compress, NotBefore, clientVars
<1>3. InTransit'
  BY <1>2 DEF TransferInv, Compress, InTransit, clientVars
<1> QED BY <1>1, <1>2, <1>3 DEF Compress, TransferInv, NotBefore, ReceivedInOrder, ImageExact

\* A file into which something is mixed is not clean any more.
LEMMA MixedKeeps ==
    ASSUME TransferInv, TransferTypeOK', clean' = FALSE, spc' # "starting",
           spc' # "sending" => sent' = 0
    PROVE  TransferInv'
BY DEF TransferInv, NotBefore, InTransit, ReceivedInOrder, ImageExact

LEMMA AlertKeeps == TransferInv /\ (SendAlert \/ Disconnect) => TransferInv'
<1> SUFFICES ASSUME TransferInv, SendAlert \/ Disconnect PROVE TransferInv'
  OBVIOUS
<1>1. line' \in Seq(Int)
  BY AppendByte DEF TransferInv, SendAlert, Disconnect, TransferTypeOK, Alert, ExitText
<1>2. alerts' \in Nat
  BY DEF TransferInv, SendAlert, Disconnect, TransferTypeOK
<1>3. TransferTypeOK'
  BY <1>1, <1>2 DEF TransferInv, SendAlert, Disconnect, TransferTypeOK, serverVars, clientVars
<1> QED BY <1>3, MixedKeeps DEF TransferInv, NotBefore, SendAlert, Disconnect, serverVars

LEMMA AnswerKeeps == TransferInv /\ (Reply \/ TakeAnswer) => TransferInv'
<1> SUFFICES ASSUME TransferInv, Reply \/ TakeAnswer PROVE TransferInv'
  OBVIOUS
<1>1. line' \in Seq(Int)
  BY AppendByte DEF TransferInv, Reply, TakeAnswer, TransferTypeOK, Alert
<1>2. TransferTypeOK'
  BY <1>1 DEF TransferInv, Reply, TakeAnswer, TransferTypeOK, clientVars
<1> QED BY <1>2, MixedKeeps DEF TransferInv, NotBefore, Reply, TakeAnswer

----------------------------------------------------------------------------
\* The thread that sends.

LEMMA ThreadKeeps == TransferInv /\ (Quit \/ ThreadEnds \/ StartSending \/ BeginWrite \/ Sent)
                         => TransferInv'
<1> SUFFICES ASSUME TransferInv, Quit \/ ThreadEnds \/ StartSending \/ BeginWrite \/ Sent
             PROVE  TransferInv'
  OBVIOUS
<1>1. upto' \in Nat
  BY SizeType, BufferAssumption
  DEF TransferInv, Quit, ThreadEnds, StartSending, BeginWrite, Sent, TransferTypeOK
<1>3. UNCHANGED <<zip, clientVars, line, clean, alerts>>
  BY DEF Quit, ThreadEnds, StartSending, BeginWrite, Sent
<1>2. TransferTypeOK' /\ NotBefore'
  <2>1. /\ spc' \in {"idle", "prompting", "sending", "ended"}
        /\ sent' \in Nat /\ request' \in {"none", "get_image", "other"} /\ closed' \in BOOLEAN
        /\ spc' # "sending" => sent' = 0
    <3>1. CASE Quit \/ StartSending
      BY <3>1 DEF TransferInv, Quit, StartSending, TransferTypeOK, NotBefore
    <3>2. CASE ThreadEnds
      BY <3>2 DEF ThreadEnds
    <3>3. CASE BeginWrite \/ Sent
      BY <3>3 DEF TransferInv, BeginWrite, Sent, TransferTypeOK, NotBefore
    <3> QED BY <3>1, <3>2, <3>3
  <2> QED BY <1>1, <1>3, <2>1 DEF TransferInv, TransferTypeOK, NotBefore, clientVars
<1>4. InTransit'
  <2> SUFFICES ASSUME cpc = "receiving", clean PROVE InTransit'
    BY <1>3 DEF InTransit, clientVars
  <2>1. CASE Quit
    BY <2>1 DEF TransferInv, InTransit, Quit
  <2>2. CASE ThreadEnds
    BY <1>3, <2>2 DEF TransferInv, InTransit, ThreadEnds, clientVars
  <2>3. CASE StartSending
    BY <1>3, <2>3 DEF TransferInv, InTransit, StartSending, clientVars
  <2>4. CASE BeginWrite
    BY <1>3, <2>4 DEF TransferInv, InTransit, BeginWrite, clientVars
  <2>5. CASE Sent
    BY <1>3, <2>5 DEF TransferInv, InTransit, Sent, clientVars
  <2> QED BY <2>1, <2>2, <2>3, <2>4, <2>5
<1> QED BY <1>2, <1>3, <1>4
    DEF TransferInv, clientVars, ReceivedInOrder, ImageExact, MarkerInside, Whole, Size

\* The next byte goes behind those on their way.
LEMMA WriteKeeps == TransferInv /\ Write => TransferInv'
<1> SUFFICES ASSUME TransferInv, Write PROVE TransferInv'
  OBVIOUS
<1>1. /\ line' \in Seq(Int) /\ Len(line') = Len(line) + 1
      /\ \A i \in 1 .. Len(line) : line'[i] = line[i]
      /\ line'[Len(line) + 1] = sent + 1
  BY AppendByte DEF TransferInv, Write, TransferTypeOK
<1>2. TransferTypeOK' /\ NotBefore'
  BY <1>1 DEF TransferInv, Write, TransferTypeOK, NotBefore, clientVars
<1>3. InTransit'
  <2> SUFFICES ASSUME cpc = "receiving", clean PROVE InTransit'
    BY DEF InTransit, Write, clientVars
  <2>1. sent = Len(file) + Len(line) /\ request = "none"
    BY DEF TransferInv, InTransit, Write
  <2>2. Len(file) \in Nat /\ Len(line) \in Nat
    BY DEF TransferInv, TransferTypeOK
  <2>3. sent' = Len(file) + Len(line')
    BY <1>1, <2>1, <2>2 DEF Write
  <2>4. \A i \in 1 .. Len(line') : line'[i] = Len(file) + i
    BY <1>1, <2>1, <2>2 DEF TransferInv, InTransit
  <2> QED BY <2>1, <2>3, <2>4 DEF TransferInv, InTransit, Write, clientVars
<1> QED BY <1>2, <1>3
    DEF TransferInv, Write, clientVars, ReceivedInOrder, ImageExact, MarkerInside, Whole, Size

----------------------------------------------------------------------------
\* The client.

\* What is left on its way when n bytes have been taken.
LEMMA TakeLeaves ==
    ASSUME line \in Seq(Int), NEW n \in 0 .. Len(line), Take(n)
    PROVE  /\ line' \in Seq(Int) /\ Len(line') = Len(line) - n
           /\ \A i \in 1 .. Len(line') : line'[i] = line[n + i]
<1>1. Len(line) \in Nat /\ \A i \in 1 .. Len(line) : line[i] \in Int
  BY LenProperties, ElementOfSeq
<1>2. n + 1 \in Int /\ \A i \in n + 1 .. Len(line) : line[i] \in Int
  BY <1>1
<1>3. /\ SubSeq(line, n + 1, Len(line)) \in Seq(Int)
      /\ Len(SubSeq(line, n + 1, Len(line))) =
             IF n + 1 <= Len(line) THEN Len(line) - (n + 1) + 1 ELSE 0
      /\ \A i \in 1 .. Len(line) - (n + 1) + 1 :
             SubSeq(line, n + 1, Len(line))[i] = line[(n + 1) + i - 1]
  BY <1>1, <1>2, SubSeqProperties
<1> QED BY <1>1, <1>3 DEF Take

\* The file when the first m bytes of the line have gone into it.
LEMMA FileGrows ==
    ASSUME line \in Seq(Int), file \in Seq(Int), NEW m \in 0 .. Len(line),
           file' = file \o SubSeq(line, 1, m)
    PROVE  /\ file' \in Seq(Int) /\ Len(file') = Len(file) + m
           /\ \A i \in 1 .. Len(file) : file'[i] = file[i]
           /\ \A i \in 1 .. m : file'[Len(file) + i] = line[i]
<1> DEFINE more == SubSeq(line, 1, m)
<1>1. Len(line) \in Nat /\ \A i \in 1 .. m : line[i] \in Int
  BY LenProperties, ElementOfSeq
<1>2. /\ more \in Seq(Int) /\ Len(more) = IF 1 <= m THEN m - 1 + 1 ELSE 0
      /\ \A i \in 1 .. m - 1 + 1 : more[i] = line[1 + i - 1]
  BY <1>1, SubSeqProperties
<1>3. Len(more) = m /\ \A i \in 1 .. m : more[i] = line[i]
  BY <1>1, <1>2
<1>4. /\ file' \in Seq(Int) /\ Len(file') = Len(file) + Len(more)
      /\ \A i \in 1 .. Len(file) + Len(more) :
             file'[i] = IF i <= Len(file) THEN file[i] ELSE more[i - Len(file)]
  BY <1>2, ConcatProperties
<1>5. Len(file) \in Nat
  BY LenProperties
<1> QED BY <1>1, <1>3, <1>4, <1>5

\* Its loop does not touch the file, and nothing is received there.
LEMMA LoopKeeps ==
    ASSUME TransferInv, NEW n \in 0 .. Len(line),
           ConnectionLost \/ ShowText(n) \/ Type(n) \/ AskInVain(n)
    PROVE  TransferInv'
<1>1. cpc' \in {"loop", "ended"}
  BY DEF ConnectionLost, ShowText, Type, AskInVain, Round, Submit
<1>2. UNCHANGED <<zip, spc, sent, upto, closed, hungUp, valread, file, ending, clean, alerts>>
  BY DEF ConnectionLost, ShowText, Type, AskInVain, serverVars
<1>3. line' = line \/ Take(n)
  BY DEF ConnectionLost, ShowText, Type, AskInVain
<1>4. line \in Seq(Int)
  BY DEF TransferInv, TransferTypeOK
<1>5. line' \in Seq(Int) /\ (line = <<>> => line' = <<>>)
  BY <1>3, <1>4, TakeLeaves, EmptySeq
<1>6. typed' \in Nat /\ request' \in {"none", "get_image", "other"}
  BY DEF TransferInv, TransferTypeOK, ConnectionLost, ShowText, Type, AskInVain, Submit, serverVars
<1>7. TransferTypeOK' /\ NotBefore'
  BY <1>1, <1>2, <1>5, <1>6 DEF TransferInv, TransferTypeOK, NotBefore
<1> QED BY <1>1, <1>2, <1>7
    DEF TransferInv, InTransit, ReceivedInOrder, ImageExact, MarkerInside, Whole, Size

\* When the file is asked for on a quiet connection, nothing is on its way.
LEMMA AskImageKeeps ==
    ASSUME TransferInv, NEW n \in 0 .. Len(line), AskImage(n)
    PROVE  TransferInv'
<1>1. line \in Seq(Int)
  BY DEF TransferInv, TransferTypeOK
<1>2. line' \in Seq(Int) /\ Len(line') = Len(line) - n
  BY <1>1, TakeLeaves DEF AskImage
<1>3. (line = <<>> => line' = <<>>) /\ (n = Len(line) => line' = <<>>)
  BY <1>1, <1>2, EmptySeq
<1>4. TransferTypeOK'
  BY <1>2, EmptySeq DEF TransferInv, TransferTypeOK, AskImage, Submit, Seen
<1>5. NotBefore'
  BY <1>3 DEF TransferInv, NotBefore, AskImage
<1>6. InTransit'
  <2>1. CASE clean'
    <3>1. n = Len(line) /\ request = "none" /\ spc \in {"starting", "idle"}
      BY <2>1 DEF AskImage
    <3>2. request' = "get_image" /\ spc' = spc /\ sent' = 0
      BY <3>1 DEF TransferInv, NotBefore, AskImage, Submit
    <3>3. line' = <<>> /\ file' = <<>> /\ ending' = "none" /\ Len(line') = 0
      BY <1>3, <3>1, EmptySeq DEF AskImage
    <3> QED BY <3>1, <3>2, <3>3 DEF InTransit
  <2>2. CASE ~clean'
    BY <2>2 DEF InTransit
  <2> QED BY <2>1, <2>2
<1>7. ReceivedInOrder' /\ ImageExact'
  BY EmptySeq DEF AskImage, ReceivedInOrder, ImageExact
<1> QED BY <1>4, <1>5, <1>6, <1>7 DEF TransferInv

\* More of the file.
LEMMA ReceiveKeeps ==
    ASSUME TransferInv, NEW n \in 1 .. Len(line), Receive(n)
    PROVE  TransferInv'
<1>1. line \in Seq(Int) /\ file \in Seq(Int) /\ Len(line) \in Nat /\ Len(file) \in Nat
  BY LenProperties DEF TransferInv, TransferTypeOK
<1>2. /\ line' \in Seq(Int) /\ Len(line') = Len(line) - n
      /\ \A i \in 1 .. Len(line') : line'[i] = line[n + i]
  BY <1>1, TakeLeaves DEF Receive
<1>3. /\ file' \in Seq(Int) /\ Len(file') = Len(file) + n
      /\ \A i \in 1 .. Len(file) : file'[i] = file[i]
      /\ \A i \in 1 .. n : file'[Len(file) + i] = line[i]
  BY <1>1, FileGrows DEF Receive
<1>4. TransferTypeOK' /\ NotBefore'
  BY <1>1, <1>2, <1>3, EmptySeq DEF TransferInv, TransferTypeOK, NotBefore, Receive, serverVars
<1>5. ASSUME clean
      PROVE  /\ \A i \in 1 .. Len(file') : file'[i] = i
             /\ \A i \in 1 .. Len(line') : line'[i] = Len(file') + i
  <2>1. /\ \A i \in 1 .. Len(file) : file[i] = i
        /\ \A i \in 1 .. Len(line) : line[i] = Len(file) + i
    BY <1>5 DEF TransferInv, InTransit, ReceivedInOrder, Receive
  <2>2. ASSUME NEW i \in 1 .. Len(file')
        PROVE  file'[i] = i
    <3>1. CASE i <= Len(file)
      <4>1. i \in 1 .. Len(file)
        BY <1>1, <1>3, <3>1
      <4> QED BY <1>3, <2>1, <4>1
    <3>2. CASE i > Len(file)
      <4>1. i - Len(file) \in 1 .. n /\ i = Len(file) + (i - Len(file))
        BY <1>1, <1>3, <3>2
      <4>2. file'[i] = line[i - Len(file)]
        BY <1>3, <4>1
      <4> QED BY <1>1, <2>1, <4>1, <4>2
    <3> QED BY <1>1, <1>3, <3>1, <3>2
  <2>3. \A i \in 1 .. Len(line') : line'[i] = Len(file') + i
    BY <1>1, <1>2, <1>3, <2>1
  <2> QED BY <2>2, <2>3
<1>6. InTransit'
  <2> SUFFICES ASSUME clean PROVE InTransit'
    BY DEF InTransit, Receive
  <2>1. ending = "none" /\ request = "none"
    BY <1>1 DEF TransferInv, InTransit, Receive
  <2>2. \/ spc = "sending" /\ sent = Len(file') + Len(line')
        \/ spc \in {"idle", "ended"}
    BY <1>1, <1>2, <1>3 DEF TransferInv, InTransit, Receive
  <2> QED BY <1>5, <2>1, <2>2 DEF InTransit, Receive, serverVars
<1>7. ReceivedInOrder'
  BY <1>5 DEF ReceivedInOrder, Receive
<1>8. ImageExact'
  BY DEF TransferInv, InTransit, ImageExact, Receive
<1> QED BY <1>4, <1>6, <1>7, <1>8 DEF TransferInv

\* In a clean file that has no marker inside, the marker is found behind the last byte only:
\* it cannot begin in the file and end in the marker, nor begin in the marker.
LEMMA MarkerIsBehind ==
    ASSUME TransferInv, NEW n \in 1 .. Len(line), MarkerSeen(n), cpc = "receiving", clean,
           ~MarkerInside
    PROVE  Len(file) + n - 3 = Size
<1> DEFINE b == Len(file) + n - 2
<1>1. Len(file) \in Nat /\ Len(line) \in Nat /\ Size \in Nat
  BY SizeType, LenProperties DEF TransferInv, TransferTypeOK
<1>2. n >= 3 /\ b \in Nat /\ b >= 1
  BY <1>1 DEF MarkerSeen
<1>3. line[n - 2] = b /\ line[n - 1] = b + 1 /\ line[n] = b + 2
  BY <1>1, <1>2 DEF TransferInv, InTransit
<1>4. Letter(b) = "E" /\ Letter(b + 1) = "O" /\ Letter(b + 2) = "F"
  BY <1>2, <1>3 DEF MarkerSeen, EndsAt, Marker
<1>5. CASE b + 2 <= Size
  <2>1. zip.look[b] = "E" /\ zip.look[b + 1] = "O" /\ zip.look[b + 2] = "F"
    BY <1>1, <1>2, <1>4, <1>5 DEF Letter
  <2>2. \A k \in 1 .. 3 : zip.look[b + k - 1] = Marker[k]
    BY <1>2, <2>1 DEF Marker
  <2> QED BY <1>1, <1>2, <1>5, <2>2 DEF MarkerInside
<1>6. CASE b + 1 = Size
  BY <1>1, <1>2, <1>4, <1>6 DEF Letter, Marker
<1>7. CASE b = Size
  BY <1>1, <1>2, <1>4, <1>7 DEF Letter, Marker
<1>8. CASE b = Size + 1
  BY <1>1, <1>8
<1>9. CASE b = Size + 2
  BY <1>1, <1>2, <1>4, <1>9 DEF Letter, Marker
<1>10. CASE b = Size + 3
  BY <1>1, <1>2, <1>4, <1>10 DEF Letter, Marker
<1>11. CASE b > Size + 3
  BY <1>1, <1>2, <1>4, <1>11 DEF Letter
<1> QED BY <1>1, <1>2, <1>5, <1>6, <1>7, <1>8, <1>9, <1>10, <1>11

LEMMA ReceiveMarkerKeeps ==
    ASSUME TransferInv, NEW n \in 1 .. Len(line), ReceiveMarker(n)
    PROVE  TransferInv'
<1>1. line \in Seq(Int) /\ file \in Seq(Int) /\ Len(line) \in Nat /\ Len(file) \in Nat
  BY LenProperties DEF TransferInv, TransferTypeOK
<1>2. line' \in Seq(Int)
  <2>1. n \in 0 .. Len(line)
    BY <1>1
  <2> QED BY <1>1, <2>1, TakeLeaves DEF ReceiveMarker
<1>3. n - 3 \in 0 .. Len(line)
  BY <1>1 DEF ReceiveMarker, MarkerSeen
<1>4. /\ file' \in Seq(Int) /\ Len(file') = Len(file) + (n - 3)
      /\ \A i \in 1 .. Len(file) : file'[i] = file[i]
      /\ \A i \in 1 .. n - 3 : file'[Len(file) + i] = line[i]
  BY <1>1, <1>3, FileGrows DEF ReceiveMarker
<1>5. cpc' \in {"loop", "ended"} /\ valread' = "nothing"
  BY DEF ReceiveMarker, Resume, Round
<1>6. TransferTypeOK'
  BY <1>2, <1>4, <1>5 DEF TransferInv, TransferTypeOK, ReceiveMarker, serverVars
<1>7. NotBefore'
  BY <1>1, EmptySeq DEF TransferInv, NotBefore, ReceiveMarker, serverVars
<1>8. ASSUME clean
      PROVE  \A i \in 1 .. Len(file') : file'[i] = i
  <2>1. /\ \A i \in 1 .. Len(file) : file[i] = i
        /\ \A i \in 1 .. Len(line) : line[i] = Len(file) + i
    BY <1>8 DEF TransferInv, InTransit, ReceivedInOrder, ReceiveMarker
  <2> SUFFICES ASSUME NEW i \in 1 .. Len(file') PROVE file'[i] = i
    OBVIOUS
  <2>2. CASE i <= Len(file)
    <3>1. i \in 1 .. Len(file)
      BY <1>1, <1>3, <1>4, <2>2
    <3> QED BY <1>4, <2>1, <3>1
  <2>3. CASE i > Len(file)
    <3>1. i - Len(file) \in 1 .. n - 3 /\ i = Len(file) + (i - Len(file))
      BY <1>1, <1>3, <1>4, <2>3
    <3>2. file'[Len(file) + (i - Len(file))] = line[i - Len(file)]
      BY <1>4, <3>1
    <3>3. i - Len(file) \in 1 .. Len(line)
      BY <1>1, <1>3, <3>1
    <3> QED BY <1>1, <2>1, <3>1, <3>2, <3>3
  <2> QED BY <1>1, <1>3, <1>4, <2>2, <2>3
<1>9. ImageExact'
  <2> SUFFICES ASSUME clean, ~MarkerInside PROVE file' = Whole
    BY DEF ImageExact, ReceiveMarker, MarkerInside, Whole, Size, serverVars
  <2>1. Len(file') = Size /\ Size \in Nat
    BY <1>1, <1>4, MarkerIsBehind, SizeType DEF ReceiveMarker, TransferInv
  <2>2. file' = [i \in 1 .. Len(file') |-> file'[i]]
    BY <1>4, LenProperties
  <2> QED BY <1>8, <2>1, <2>2 DEF Whole
<1> QED BY <1>5, <1>6, <1>7, <1>8, <1>9
    DEF TransferInv, InTransit, ReceivedInOrder, ReceiveMarker

\* The receipt is over without a marker.
LEMMA EndKeeps ==
    ASSUME TransferInv, NEW n \in 0 .. Len(line),
           ReceiveEnd \/ ReceiveGuess(n) \/ FileFails(n)
    PROVE  TransferInv'
<1>1. cpc' \in {"loop", "ended"} /\ valread' = "nothing"
  BY DEF ReceiveEnd, ReceiveGuess, FileFails, Resume, Round
<1>2. UNCHANGED <<serverVars, closed, file, typed, clean, alerts>>
  BY DEF ReceiveEnd, ReceiveGuess, FileFails
<1>3. ending' \in {"end", "guess", "failed"} /\ hungUp' \in BOOLEAN
  BY DEF ReceiveEnd, ReceiveGuess, FileFails, TransferInv, TransferTypeOK
<1>4. line \in Seq(Int)
  BY DEF TransferInv, TransferTypeOK
<1>5. line' \in Seq(Int)
  BY <1>4, TakeLeaves DEF ReceiveEnd, ReceiveGuess, FileFails
<1>6. TransferTypeOK'
  BY <1>1, <1>2, <1>3, <1>5 DEF TransferInv, TransferTypeOK, serverVars
<1>7. spc # "starting"
  <2>1. Len(<<>>) = 0
    BY EmptySeq
  <2>2. CASE ReceiveEnd
    BY <2>2 DEF TransferInv, NotBefore, ReceiveEnd
  <2>3. CASE ReceiveGuess(n) \/ FileFails(n)
    <3>1. n > 0
      BY <2>3 DEF ReceiveGuess, FileFails
    <3>2. line # <<>>
      BY <2>1, <3>1
    <3> QED BY <3>2 DEF TransferInv, NotBefore
  <2> QED BY <2>2, <2>3
<1> QED BY <1>1, <1>2, <1>3, <1>6, <1>7
    DEF TransferInv, NotBefore, InTransit, ReceivedInOrder, ImageExact, serverVars

----------------------------------------------------------------------------
LEMMA TransferStep ==
    TransferInv /\ (Compress \/ TransferNext \/ UNCHANGED transferVars) => TransferInv'
<1> SUFFICES ASSUME TransferInv, Compress \/ TransferNext \/ UNCHANGED transferVars
             PROVE  TransferInv'
  OBVIOUS
<1>1. CASE Compress
  BY <1>1, CompressKeeps
<1>2. CASE SendAlert \/ Disconnect \/ Reply \/ TakeAnswer
  BY <1>2, AlertKeeps, AnswerKeeps
<1>3. CASE Quit \/ ThreadEnds \/ Sends
  BY <1>3, ThreadKeeps, WriteKeeps DEF Sends
<1>4. CASE Receives
  <2>1. CASE ReceiveEnd
    <3>1. 0 \in 0 .. Len(line)
      BY LenProperties DEF TransferInv, TransferTypeOK
    <3> QED BY <2>1, <3>1, EndKeeps
  <2>2. ASSUME NEW n \in 1 .. Len(line),
               Receive(n) \/ ReceiveMarker(n) \/ ReceiveGuess(n) \/ FileFails(n)
        PROVE  TransferInv'
    <3>1. n \in 0 .. Len(line)
      BY LenProperties DEF TransferInv, TransferTypeOK
    <3> QED BY <2>2, <3>1, ReceiveKeeps, ReceiveMarkerKeeps, EndKeeps
  <2> QED BY <1>4, <2>1, <2>2 DEF Receives
<1>5. CASE Loops
  <2>1. 0 \in 0 .. Len(line)
    BY LenProperties DEF TransferInv, TransferTypeOK
  <2> QED BY <1>5, <2>1, LoopKeeps, AskImageKeeps DEF Loops
<1>6. CASE UNCHANGED transferVars
  BY <1>6, TransferRests
<1> QED BY <1>1, <1>2, <1>3, <1>4, <1>5, <1>6 DEF TransferNext

----------------------------------------------------------------------------
\* What is mixed into a file does not displace its bytes.

\* A sequence that is a piece of another one.
PieceOf(t, s, m) == m + Len(t) <= Len(s) /\ \A i \in 1 .. Len(t) : t[i] = s[m + i]

LEMMA PieceInOrder ==
    ASSUME NEW s \in Seq(Int), NEW t \in Seq(Int), NEW m \in Nat, PieceOf(t, s, m), InOrder(s)
    PROVE  InOrder(t)
<1>1. Len(s) \in Nat /\ Len(t) \in Nat
  BY LenProperties
<1>2. ASSUME NEW i \in 1 .. Len(t), NEW j \in 1 .. Len(t), i < j, t[i] > 0, t[j] > 0,
             \A k \in i + 1 .. j - 1 : t[k] <= 0
      PROVE  Follows(t[i], t[j])
  <2>1. m + i \in 1 .. Len(s) /\ m + j \in 1 .. Len(s) /\ m + i < m + j
    <3>1. m + Len(t) <= Len(s)
      BY DEF PieceOf
    <3> QED BY <1>1, <1>2, <3>1
  <2>2. s[m + i] = t[i] /\ s[m + j] = t[j]
    BY DEF PieceOf
  <2>3. ASSUME NEW k \in m + i + 1 .. m + j - 1
        PROVE  s[k] <= 0
    <3>1. k - m \in i + 1 .. j - 1 /\ k - m \in 1 .. Len(t) /\ m + (k - m) = k
      BY <1>1
    <3> QED BY <1>2, <3>1 DEF PieceOf
  <2>4. s[m + i] > 0 /\ s[m + j] > 0
    BY <1>2, <2>2
  <2>5. Follows(s[m + i], s[m + j])
    BY <2>1, <2>3, <2>4 DEF InOrder
  <2> QED BY <2>2, <2>5
<1> QED BY <1>2 DEF InOrder

LEMMA EndUpToSent ==
    ASSUME NEW s \in Seq(Int), NEW t \in Seq(Int), NEW m \in Nat, PieceOf(t, s, m),
           m + Len(t) = Len(s), UpToSent(s)
    PROVE  UpToSent(t)
<1>1. Len(s) \in Nat /\ Len(t) \in Nat
  BY LenProperties
<1>2. ASSUME NEW i \in 1 .. Len(t), t[i] > 0, \A k \in i + 1 .. Len(t) : t[k] <= 0
      PROVE  t[i] = IF sent > 0 THEN sent ELSE Size + 3
  <2>1. m + i \in 1 .. Len(s) /\ s[m + i] = t[i]
    BY <1>1 DEF PieceOf
  <2>2. ASSUME NEW k \in m + i + 1 .. Len(s)
        PROVE  s[k] <= 0
    <3>1. k - m \in i + 1 .. Len(t) /\ k - m \in 1 .. Len(t) /\ m + (k - m) = k
      BY <1>1
    <3> QED BY <1>2, <3>1 DEF PieceOf
  <2> QED BY <1>2, <2>1, <2>2 DEF UpToSent
<1> QED BY <1>2 DEF UpToSent

\* t is s with b behind it.
Longer(t, s, b) == /\ Len(t) = Len(s) + 1 /\ t[Len(s) + 1] = b
                   /\ \A i \in 1 .. Len(s) : t[i] = s[i]

LEMMA TextInOrder ==
    ASSUME NEW s \in Seq(Int), NEW t \in Seq(Int), NEW b \in Int, b <= 0, Longer(t, s, b)
    PROVE  (InOrder(s) => InOrder(t)) /\ (UpToSent(s) => UpToSent(t))
<1>1. Len(s) \in Nat /\ Len(t) \in Nat
  BY LenProperties
<1>2. ASSUME InOrder(s), NEW i \in 1 .. Len(t), NEW j \in 1 .. Len(t), i < j, t[i] > 0, t[j] > 0,
             \A k \in i + 1 .. j - 1 : t[k] <= 0
      PROVE  Follows(t[i], t[j])
  <2>1. j # Len(s) + 1
    BY <1>2 DEF Longer
  <2>2. i \in 1 .. Len(s) /\ j \in 1 .. Len(s)
    BY <1>1, <1>2, <2>1 DEF Longer
  <2>3. t[i] = s[i] /\ t[j] = s[j]
    BY <2>2 DEF Longer
  <2>4. ASSUME NEW k \in i + 1 .. j - 1
        PROVE  s[k] <= 0
    <3>1. k \in 1 .. Len(s)
      BY <1>1, <2>2
    <3>2. t[k] = s[k] /\ t[k] <= 0
      BY <1>2, <3>1 DEF Longer
    <3> QED BY <3>2
  <2> QED BY <1>2, <2>2, <2>3, <2>4 DEF InOrder
<1>3. ASSUME UpToSent(s), NEW i \in 1 .. Len(t), t[i] > 0, \A k \in i + 1 .. Len(t) : t[k] <= 0
      PROVE  t[i] = IF sent > 0 THEN sent ELSE Size + 3
  <2>1. i \in 1 .. Len(s)
    BY <1>1, <1>3 DEF Longer
  <2>2. t[i] = s[i] /\ \A k \in i + 1 .. Len(s) : t[k] = s[k] /\ k \in i + 1 .. Len(t)
    BY <1>1, <2>1 DEF Longer
  <2> QED BY <1>3, <2>1, <2>2 DEF UpToSent
<1> QED BY <1>2, <1>3 DEF InOrder, UpToSent

LEMMA ByteInOrder ==
    ASSUME NEW s \in Seq(Int), NEW t \in Seq(Int), sent \in Nat, Longer(t, s, sent + 1),
           InOrder(s), UpToSent(s)
    PROVE  /\ InOrder(t)
           /\ \A i \in 1 .. Len(t) :
                  t[i] > 0 /\ (\A k \in i + 1 .. Len(t) : t[k] <= 0) => t[i] = sent + 1
<1>1. Len(s) \in Nat /\ Len(t) \in Nat /\ \A i \in 1 .. Len(s) : s[i] \in Int
  BY LenProperties, ElementOfSeq
<1>2. ASSUME NEW i \in 1 .. Len(t), NEW j \in 1 .. Len(t), i < j, t[i] > 0, t[j] > 0,
             \A k \in i + 1 .. j - 1 : t[k] <= 0
      PROVE  Follows(t[i], t[j])
  <2>1. i \in 1 .. Len(s) /\ t[i] = s[i] /\ \A k \in i + 1 .. j - 1 : k \in 1 .. Len(s) /\ t[k] = s[k]
    BY <1>1, <1>2 DEF Longer
  <2>2. CASE j \in 1 .. Len(s)
    <3>1. t[j] = s[j]
      BY <2>2 DEF Longer
    <3> QED BY <1>2, <2>1, <2>2, <3>1 DEF InOrder
  <2>3. CASE j = Len(s) + 1
    <3>1. t[j] = sent + 1
      BY <2>3 DEF Longer
    <3>2. s[i] = IF sent > 0 THEN sent ELSE Size + 3
      <4>1. \A k \in i + 1 .. Len(s) : k \in i + 1 .. j - 1
        BY <1>1, <2>3
      <4>2. s[i] > 0 /\ \A k \in i + 1 .. Len(s) : s[k] <= 0
        BY <1>2, <2>1, <4>1
      <4> QED BY <2>1, <4>2 DEF UpToSent
    <3> QED BY <2>1, <3>1, <3>2 DEF Follows
  <2> QED BY <1>1, <2>2, <2>3 DEF Longer
<1>3. ASSUME NEW i \in 1 .. Len(t), t[i] > 0, \A k \in i + 1 .. Len(t) : t[k] <= 0
      PROVE  t[i] = sent + 1
  <2>1. CASE i = Len(s) + 1
    BY <2>1 DEF Longer
  <2>2. CASE i \in 1 .. Len(s)
    <3>1. Len(s) + 1 \in i + 1 .. Len(t)
      BY <1>1, <2>2 DEF Longer
    <3>2. sent + 1 <= 0
      BY <1>3, <3>1 DEF Longer
    <3> QED BY <3>2
  <2> QED BY <1>1, <2>1, <2>2 DEF Longer
<1> QED BY <1>2, <1>3 DEF InOrder

\* The bytes that have arrived, and those on their way behind them.
LEMMA Joined ==
    ASSUME NEW f \in Seq(Int), NEW l \in Seq(Int)
    PROVE  /\ f \o l \in Seq(Int) /\ Len(f \o l) = Len(f) + Len(l)
           /\ PieceOf(f, f \o l, 0) /\ PieceOf(l, f \o l, Len(f))
<1>1. Len(f) \in Nat /\ Len(l) \in Nat
  BY LenProperties
<1>2. /\ f \o l \in Seq(Int) /\ Len(f \o l) = Len(f) + Len(l)
      /\ \A i \in 1 .. Len(f) + Len(l) :
             (f \o l)[i] = IF i <= Len(f) THEN f[i] ELSE l[i - Len(f)]
  BY ConcatProperties
<1>3. PieceOf(f, f \o l, 0)
  BY <1>1, <1>2 DEF PieceOf
<1>4. PieceOf(l, f \o l, Len(f))
  <2>1. ASSUME NEW i \in 1 .. Len(l)
        PROVE  (f \o l)[Len(f) + i] = l[i]
    <3>1. Len(f) + i \in 1 .. Len(f) + Len(l) /\ ~(Len(f) + i <= Len(f)) /\ Len(f) + i - Len(f) = i
      BY <1>1
    <3> QED BY <1>2, <3>1
  <2> QED BY <1>1, <1>2, <2>1 DEF PieceOf
<1> QED BY <1>2, <1>3, <1>4

LEMMA JoinedLonger ==
    ASSUME NEW f \in Seq(Int), NEW l \in Seq(Int), NEW b \in Int
    PROVE  Longer(Append(l, b), l, b) /\ Longer(f \o Append(l, b), f \o l, b)
<1> DEFINE more == Append(l, b)
<1>1. Len(f) \in Nat /\ Len(l) \in Nat
  BY LenProperties
<1>2. more \in Seq(Int) /\ Longer(more, l, b)
  BY AppendProperties DEF Longer
<1>3. Len(f \o more) = Len(f \o l) + 1 /\ Len(f \o l) = Len(f) + Len(l)
  <2>1. Len(more) = Len(l) + 1
    BY <1>2 DEF Longer
  <2>2. Len(f \o more) = Len(f) + Len(more) /\ Len(f \o l) = Len(f) + Len(l)
    BY <1>2, Joined
  <2> QED BY <1>1, <2>1, <2>2
<1>4. (f \o more)[Len(f \o l) + 1] = b
  <2>1. PieceOf(more, f \o more, Len(f))
    BY <1>2, Joined
  <2>2. Len(l) + 1 \in 1 .. Len(more)
    BY <1>1, <1>2 DEF Longer
  <2>3. (f \o more)[Len(f) + (Len(l) + 1)] = b
    BY <1>2, <2>1, <2>2 DEF PieceOf, Longer
  <2> QED BY <1>1, <1>3, <2>3
<1>5. ASSUME NEW i \in 1 .. Len(f \o l)
      PROVE  (f \o more)[i] = (f \o l)[i]
  <2>1. CASE i \in 1 .. Len(f)
    <3>1. (f \o l)[0 + i] = f[i] /\ (f \o more)[0 + i] = f[i]
      BY <1>2, <2>1, Joined DEF PieceOf
    <3> QED BY <2>1, <3>1
  <2>2. CASE i \notin 1 .. Len(f)
    <3> DEFINE k == i - Len(f)
    <3>1. k \in 1 .. Len(l) /\ k \in 1 .. Len(more) /\ Len(f) + k = i
      BY <1>1, <1>2, <1>3, <2>2 DEF Longer
    <3>2. (f \o l)[Len(f) + k] = l[k] /\ (f \o more)[Len(f) + k] = more[k]
      BY <1>2, <3>1, Joined DEF PieceOf
    <3> QED BY <1>2, <3>1, <3>2 DEF Longer
  <2> QED BY <2>1, <2>2
<1> QED BY <1>2, <1>3, <1>4, <1>5 DEF Longer

LEMMA UnderwayType ==
    (TransferTypeOK => Underway \in Seq(Int)) /\ (TransferTypeOK' => Underway' \in Seq(Int))
BY Joined DEF TransferTypeOK, Underway

LEMMA MixedStart == TransferInit => MixedInv
<1> SUFFICES ASSUME TransferInit PROVE MixedInv
  OBVIOUS
<1>1. file = <<>> /\ Underway = <<>> /\ Len(<<>>) = 0
  BY EmptySeq DEF TransferInit, Underway
<1> QED BY <1>1 DEF MixedInv, NoByteLost, InOrder, UpToSent

LEMMA MixedRests ==
    ASSUME MixedInv, UNCHANGED <<zip, file, line, cpc>>,
           spc' # "ended" => spc # "ended" /\ (sent' = sent \/ (sent = Size + 3 /\ sent' = 0)),
           Size \in Nat
    PROVE  MixedInv'
<1>1. Underway' = Underway /\ Size' = Size
  BY DEF Underway, Size
<1>2. UpToSent(Underway) /\ spc' # "ended" => UpToSent(Underway)'
  BY <1>1 DEF UpToSent
<1> QED BY <1>1, <1>2 DEF MixedInv, NoByteLost, InOrder, Follows

\* A text comes between the bytes, or nothing does.
LEMMA TextMixes ==
    ASSUME TransferInv, TransferTypeOK', MixedInv, UNCHANGED <<zip, file, cpc, sent>>,
           NEW b \in Int, b <= 0, line' = Append(line, b), spc' # "ended" => spc # "ended"
    PROVE  MixedInv'
<1>1. line \in Seq(Int) /\ file \in Seq(Int) /\ Underway \in Seq(Int) /\ Underway' \in Seq(Int)
  BY UnderwayType DEF TransferInv, TransferTypeOK
<1>2. Longer(Underway', Underway, b)
  BY <1>1, JoinedLonger DEF Underway
<1> DEFINE u == Underway'
<1>3. InOrder(u) /\ (UpToSent(Underway) => UpToSent(u))
  BY <1>1, <1>2, TextInOrder DEF MixedInv
<1>4. Size' = Size
  BY DEF Size
<1>5. InOrder(Underway)' /\ InOrder(file)'
  BY <1>3, <1>4 DEF MixedInv, NoByteLost, InOrder, Follows
<1>6. UpToSent(u) => UpToSent(Underway)'
  BY <1>4 DEF UpToSent
<1> QED BY <1>3, <1>5, <1>6 DEF MixedInv, NoByteLost

LEMMA WriteMixes == TransferInv /\ TransferTypeOK' /\ MixedInv /\ Write => MixedInv'
<1> SUFFICES ASSUME TransferInv, TransferTypeOK', MixedInv, Write PROVE MixedInv'
  OBVIOUS
<1>1. line \in Seq(Int) /\ file \in Seq(Int) /\ Underway \in Seq(Int) /\ Underway' \in Seq(Int)
  BY UnderwayType DEF TransferInv, TransferTypeOK
<1>2. sent \in Nat /\ UNCHANGED <<zip, file, cpc, spc>> /\ spc # "ended" /\ sent' = sent + 1
  BY DEF TransferInv, TransferTypeOK, Write, clientVars
<1>3. Longer(Underway', Underway, sent + 1)
  <2>1. line' = Append(line, sent + 1)
    BY DEF Write
  <2> QED BY <1>1, <1>2, <2>1, JoinedLonger DEF Underway
<1> DEFINE u == Underway'
<1>4. /\ InOrder(u)
      /\ \A i \in 1 .. Len(u) : u[i] > 0 /\ (\A k \in i + 1 .. Len(u) : u[k] <= 0) => u[i] = sent + 1
  BY <1>1, <1>2, <1>3, ByteInOrder DEF MixedInv
<1>5. Size' = Size
  BY <1>2 DEF Size
<1>6. InOrder(Underway)' /\ InOrder(file)'
  BY <1>2, <1>4, <1>5 DEF MixedInv, NoByteLost, InOrder, Follows
<1>7. UpToSent(Underway)'
  BY <1>2, <1>4 DEF UpToSent
<1> QED BY <1>6, <1>7 DEF MixedInv, NoByteLost

\* The client takes from the front: what is left is the end of what was underway.
LEMMA RestMixes ==
    ASSUME TransferInv, TransferTypeOK', MixedInv, UNCHANGED <<zip, spc, sent>>, InOrder(file'),
           NEW m \in Nat, PieceOf(Underway', Underway, m), m + Len(Underway') = Len(Underway)
    PROVE  MixedInv'
<1> DEFINE u == Underway'
<1>1. Underway \in Seq(Int) /\ u \in Seq(Int)
  BY UnderwayType DEF TransferInv
<1>2. InOrder(u) /\ (UpToSent(Underway) => UpToSent(u))
  BY <1>1, PieceInOrder, EndUpToSent DEF MixedInv
<1>3. Size' = Size
  BY DEF Size
<1>4. InOrder(Underway)' /\ InOrder(file)'
  BY <1>2, <1>3 DEF InOrder, Follows
<1>5. UpToSent(u) => UpToSent(Underway)'
  BY <1>3 DEF UpToSent
<1> QED BY <1>2, <1>4, <1>5 DEF MixedInv, NoByteLost

\* The line from which n bytes have been taken, in what was underway.
LEMMA LineMixes ==
    ASSUME TransferInv, TransferTypeOK', MixedInv, UNCHANGED <<zip, spc, sent>>, InOrder(file'),
           cpc \in {"loop", "receiving"}, NEW n \in 0 .. Len(line), Take(n),
           Underway' = line'
    PROVE  MixedInv'
<1>1. line \in Seq(Int) /\ file \in Seq(Int) /\ line' \in Seq(Int)
  BY DEF TransferInv, TransferTypeOK
<1>2. Len(line) \in Nat /\ Len(file) \in Nat /\ n \in Nat
  BY <1>1, LenProperties
<1>3. Len(line') = Len(line) - n /\ \A i \in 1 .. Len(line') : line'[i] = line[n + i]
  BY <1>1, TakeLeaves
<1>4. CASE cpc = "loop"
  <2>1. Underway = line
    BY <1>4 DEF Underway
  <2>2. PieceOf(line', line, n) /\ n + Len(line') = Len(line)
    BY <1>2, <1>3 DEF PieceOf
  <2> QED BY <1>2, <2>1, <2>2, RestMixes
<1>5. CASE cpc = "receiving"
  <2> DEFINE m == Len(file) + n
  <2>1. /\ Underway = file \o line /\ Len(file \o line) = Len(file) + Len(line)
        /\ PieceOf(line, file \o line, Len(file))
    BY <1>1, <1>5, Joined DEF Underway
  <2>2. m \in Nat /\ m + Len(line') = Len(file \o line)
    BY <1>2, <1>3, <2>1
  <2>3. ASSUME NEW i \in 1 .. Len(line')
        PROVE  line'[i] = (file \o line)[m + i]
    <3>1. n + i \in 1 .. Len(line) /\ Len(file) + (n + i) = m + i
      BY <1>2, <1>3
    <3>2. (file \o line)[Len(file) + (n + i)] = line[n + i]
      BY <2>1, <3>1 DEF PieceOf
    <3> QED BY <1>3, <3>1, <3>2
  <2>4. PieceOf(line', file \o line, m)
    BY <2>2, <2>3, <1>2, <1>3, <2>1 DEF PieceOf
  <2> QED BY <2>1, <2>2, <2>4, RestMixes
<1> QED BY <1>4, <1>5

\* The first bytes of the line go into the file, which stays a beginning of what was underway.
LEMMA FileMixes ==
    ASSUME TransferInv, TransferTypeOK', MixedInv, cpc = "receiving", NEW m \in 0 .. Len(line),
           file' = file \o SubSeq(line, 1, m)
    PROVE  InOrder(file')
<1>1. line \in Seq(Int) /\ file \in Seq(Int) /\ file' \in Seq(Int)
  BY DEF TransferInv, TransferTypeOK
<1>2. Len(line) \in Nat /\ Len(file) \in Nat
  BY <1>1, LenProperties
<1>3. /\ Len(file') = Len(file) + m
      /\ \A i \in 1 .. Len(file) : file'[i] = file[i]
      /\ \A i \in 1 .. m : file'[Len(file) + i] = line[i]
  BY <1>1, FileGrows
<1>4. /\ file \o line \in Seq(Int) /\ Len(file \o line) = Len(file) + Len(line)
      /\ PieceOf(file, file \o line, 0) /\ PieceOf(line, file \o line, Len(file))
  BY <1>1, Joined
<1>5. ASSUME NEW i \in 1 .. Len(file')
      PROVE  file'[i] = (file \o line)[0 + i]
  <2>1. CASE i \in 1 .. Len(file)
    BY <1>3, <1>4, <2>1 DEF PieceOf
  <2>2. CASE i \notin 1 .. Len(file)
    <3> DEFINE k == i - Len(file)
    <3>1. k \in 1 .. m /\ k \in 1 .. Len(line) /\ Len(file) + k = i /\ 0 + i = i
      BY <1>2, <1>3, <2>2
    <3>2. file'[Len(file) + k] = line[k] /\ (file \o line)[Len(file) + k] = line[k]
      BY <1>3, <1>4, <3>1 DEF PieceOf
    <3> QED BY <3>1, <3>2
  <2> QED BY <2>1, <2>2
<1>6. PieceOf(file', file \o line, 0)
  BY <1>2, <1>3, <1>4, <1>5 DEF PieceOf
<1>7. InOrder(file \o line)
  BY DEF MixedInv, Underway
<1> QED BY <1>1, <1>4, <1>6, <1>7, PieceInOrder

LEMMA LoopMixes ==
    ASSUME TransferInv, TransferTypeOK', MixedInv, NEW n \in 0 .. Len(line),
           ConnectionLost \/ ShowText(n) \/ Type(n) \/ AskInVain(n) \/ AskImage(n)
    PROVE  MixedInv'
<1>1. cpc = "loop" /\ UNCHANGED <<zip, spc, sent>>
  BY DEF ConnectionLost, ShowText, Type, AskInVain, AskImage, Submit, serverVars
<1>2. CASE ConnectionLost
  <2>1. Underway' = line' /\ Underway = line /\ line' = line /\ file' = file
    BY <1>2 DEF ConnectionLost, Underway
  <2>2. Len(line) \in Nat
    BY LenProperties DEF TransferInv, TransferTypeOK
  <2>3. PieceOf(line, line, 0) /\ 0 + Len(line) = Len(line)
    BY <2>2 DEF PieceOf
  <2> QED BY <1>1, <2>1, <2>3, RestMixes DEF MixedInv, NoByteLost
<1>3. CASE ShowText(n) \/ Type(n) \/ AskInVain(n)
  <2>1. cpc' # "receiving" /\ file' = file /\ Take(n)
    BY <1>3 DEF ShowText, Type, AskInVain, Round
  <2> QED BY <1>1, <2>1, LineMixes DEF Underway, MixedInv, NoByteLost
<1>4. CASE AskImage(n)
  <2>1. file' = <<>> /\ Take(n) /\ line' \in Seq(Int) /\ cpc' = "receiving"
    BY <1>4 DEF AskImage, TransferTypeOK
  <2>2. InOrder(file')
    BY <2>1, EmptySeq DEF InOrder
  <2>3. Underway' = line'
    BY <2>1, ConcatEmptySeq DEF Underway
  <2> QED BY <1>1, <2>1, <2>2, <2>3, LineMixes
<1> QED BY <1>2, <1>3, <1>4

LEMMA ReceiveMixes ==
    ASSUME TransferInv, TransferTypeOK', MixedInv, NEW n \in 0 .. Len(line),
           ReceiveEnd \/ Receive(n) \/ ReceiveMarker(n) \/ ReceiveGuess(n) \/ FileFails(n)
    PROVE  MixedInv'
<1>1. cpc = "receiving" /\ UNCHANGED <<zip, spc, sent>>
  BY DEF ReceiveEnd, Receive, ReceiveMarker, ReceiveGuess, FileFails, serverVars
<1>2. line \in Seq(Int) /\ file \in Seq(Int) /\ line' \in Seq(Int) /\ file' \in Seq(Int)
  BY DEF TransferInv, TransferTypeOK
<1>3. Len(line) \in Nat /\ Len(file) \in Nat
  BY <1>2, LenProperties
<1>4. CASE ReceiveEnd
  <2>1. cpc' # "receiving" /\ file' = file /\ line' = line
    BY <1>4 DEF ReceiveEnd, Resume, Round
  <2>2. PieceOf(line, file \o line, Len(file)) /\ Len(file) + Len(line) = Len(file \o line)
    BY <1>2, Joined
  <2>3. Underway = file \o line /\ Underway' = line
    BY <1>1, <2>1 DEF Underway
  <2> QED BY <1>1, <1>3, <2>1, <2>2, <2>3, RestMixes DEF MixedInv, NoByteLost
<1>5. CASE ReceiveGuess(n) \/ FileFails(n)
  <2>1. cpc' # "receiving" /\ file' = file /\ Take(n)
    BY <1>5 DEF ReceiveGuess, FileFails, Resume, Round
  <2> QED BY <1>1, <2>1, LineMixes DEF Underway, MixedInv, NoByteLost
<1>6. CASE ReceiveMarker(n)
  <2>1. cpc' # "receiving" /\ Take(n) /\ n - 3 \in 0 .. Len(line)
    BY <1>3, <1>6 DEF ReceiveMarker, MarkerSeen, Resume, Round
  <2>2. InOrder(file')
    BY <1>1, <1>6, <2>1, FileMixes DEF ReceiveMarker
  <2> QED BY <1>1, <2>1, <2>2, LineMixes DEF Underway
<1>7. CASE Receive(n)
  <2>1. file' = file \o SubSeq(line, 1, n) /\ Take(n) /\ cpc' = "receiving"
    BY <1>1, <1>7 DEF Receive
  <2>2. InOrder(file')
    BY <1>1, <2>1, FileMixes
  <2>3. Len(line') = Len(line) - n /\ \A i \in 1 .. Len(line') : line'[i] = line[n + i]
    BY <1>2, <2>1, TakeLeaves
  <2>4. /\ Len(file') = Len(file) + n
        /\ \A i \in 1 .. Len(file) : file'[i] = file[i]
        /\ \A i \in 1 .. n : file'[Len(file) + i] = line[i]
    BY <1>2, <2>1, FileGrows
  <2> DEFINE old == file \o line
             new == file' \o line'
  <2>5. /\ Len(old) = Len(file) + Len(line)
        /\ PieceOf(file, old, 0) /\ PieceOf(line, old, Len(file))
        /\ Len(new) = Len(file') + Len(line')
        /\ PieceOf(file', new, 0) /\ PieceOf(line', new, Len(file'))
    BY <1>2, Joined
  <2>6. n \in Nat /\ Len(new) = Len(old)
    BY <1>3, <2>3, <2>4, <2>5
  <2>7. ASSUME NEW i \in 1 .. Len(new)
        PROVE  new[i] = old[0 + i]
    <3>1. CASE i \in 1 .. Len(file)
      <4>1. i \in 1 .. Len(file') /\ 0 + i = i
        BY <1>3, <2>4, <2>6, <3>1
      <4> QED BY <2>4, <2>5, <3>1, <4>1 DEF PieceOf
    <3>2. CASE i \in Len(file) + 1 .. Len(file) + n
      <4> DEFINE k == i - Len(file)
      <4>1. /\ k \in 1 .. n /\ k \in 1 .. Len(line) /\ Len(file) + k = i
            /\ i \in 1 .. Len(file') /\ 0 + i = i
        BY <1>3, <2>4, <2>6, <3>2
      <4>2. new[i] = file'[i]
        BY <2>5, <4>1 DEF PieceOf
      <4>3. file'[Len(file) + k] = line[k] /\ old[Len(file) + k] = line[k]
        BY <2>4, <2>5, <4>1 DEF PieceOf
      <4> QED BY <4>1, <4>2, <4>3
    <3>3. CASE i \in Len(file) + n + 1 .. Len(new)
      <4> DEFINE k == i - Len(file')
      <4>1. /\ k \in 1 .. Len(line') /\ Len(file') + k = i /\ 0 + i = i
            /\ n + k \in 1 .. Len(line) /\ Len(file) + (n + k) = i
        BY <1>3, <2>3, <2>4, <2>5, <2>6, <3>3
      <4>2. new[Len(file') + k] = line'[k] /\ old[Len(file) + (n + k)] = line[n + k]
        BY <2>5, <4>1 DEF PieceOf
      <4>3. line'[k] = line[n + k]
        BY <2>3, <4>1
      <4> QED BY <4>1, <4>2, <4>3
    <3> QED BY <1>3, <2>6, <3>1, <3>2, <3>3
  <2>8. PieceOf(new, old, 0) /\ 0 + Len(new) = Len(old)
    BY <1>3, <2>5, <2>6, <2>7 DEF PieceOf
  <2>9. Underway = old /\ Underway' = new
    BY <1>1, <2>1 DEF Underway
  <2> QED BY <1>1, <2>2, <2>8, <2>9, RestMixes
<1> QED BY <1>4, <1>5, <1>6, <1>7

\* Nothing has been received when the zip file is made.
LEMMA CompressMixes == TransferInv /\ MixedInv /\ Compress => MixedInv'
<1> SUFFICES ASSUME TransferInv, Compress PROVE MixedInv'
  OBVIOUS
<1>1. file' = <<>> /\ line' = <<>> /\ cpc' = cpc
  BY DEF TransferInv, Compress, NotBefore, clientVars
<1>2. Underway' = <<>> /\ Len(<<>>) = 0
  BY <1>1, EmptySeq, ConcatEmptySeq DEF Underway
<1> QED BY <1>1, <1>2 DEF MixedInv, NoByteLost, InOrder, UpToSent

LEMMA MixedStep ==
    TransferInv /\ MixedInv /\ (Compress \/ TransferNext \/ UNCHANGED transferVars) => MixedInv'
<1> SUFFICES ASSUME TransferInv, MixedInv, Compress \/ TransferNext \/ UNCHANGED transferVars
             PROVE  MixedInv'
  OBVIOUS
<1>1. TransferTypeOK'
  BY TransferStep DEF TransferInv
<1>2. Size \in Nat /\ Len(line) \in Nat
  BY SizeType, LenProperties DEF TransferInv, TransferTypeOK
<1>3. CASE Compress
  BY <1>3, CompressMixes
<1>4. CASE SendAlert \/ Disconnect \/ Reply
  BY <1>1, <1>4, TextMixes DEF SendAlert, Disconnect, Reply, Alert, ExitText, serverVars, clientVars
<1>5. CASE TakeAnswer
  <2>1. UNCHANGED <<zip, file, cpc, sent>> /\ spc' # "ended" /\ spc # "ended"
    BY <1>5 DEF TakeAnswer, clientVars
  <2>2. line' = line \/ line' = Append(line, Alert)
    BY <1>5 DEF TakeAnswer
  <2> QED BY <1>1, <1>2, <2>1, <2>2, TextMixes, MixedRests DEF Alert
<1>6. CASE Quit \/ ThreadEnds \/ StartSending \/ BeginWrite \/ Sent
  <2>1. UNCHANGED <<zip, file, line, cpc>>
    BY <1>6 DEF Quit, ThreadEnds, StartSending, BeginWrite, Sent, clientVars
  <2>2. spc' # "ended" => spc # "ended" /\ (sent' = sent \/ (sent = Size + 3 /\ sent' = 0))
    BY <1>6 DEF Quit, ThreadEnds, StartSending, BeginWrite, Sent
  <2> QED BY <1>2, <2>1, <2>2, MixedRests
<1>7. CASE Write
  BY <1>1, <1>7, WriteMixes
<1>8. CASE Receives
  <2>1. CASE ReceiveEnd
    <3>1. 0 \in 0 .. Len(line)
      BY <1>2
    <3> QED BY <1>1, <2>1, <3>1, ReceiveMixes
  <2>2. ASSUME NEW n \in 1 .. Len(line),
               Receive(n) \/ ReceiveMarker(n) \/ ReceiveGuess(n) \/ FileFails(n)
        PROVE  MixedInv'
    <3>1. n \in 0 .. Len(line)
      BY <1>2
    <3> QED BY <1>1, <2>2, <3>1, ReceiveMixes
  <2> QED BY <1>8, <2>1, <2>2 DEF Receives
<1>9. CASE Loops
  <2>1. 0 \in 0 .. Len(line)
    BY <1>2
  <2> QED BY <1>1, <1>9, <2>1, LoopMixes DEF Loops
<1>10. CASE UNCHANGED transferVars
  BY <1>2, <1>10, MixedRests DEF transferVars, serverVars, clientVars
<1> QED BY <1>3, <1>4, <1>5, <1>6, <1>7, <1>8, <1>9, <1>10 DEF TransferNext, Sends
=============================================================================
