--------------------------- MODULE ImageTransfer ---------------------------
(***************************************************************************)
(* The image on its way from the refuge server to one client: compressed   *)
(* once at start-up, sent on "get_image" by the client's thread over the   *)
(* same connection as replies, alerts and the "exit" of an emergency, and  *)
(* ended by the three bytes "EOF", which the client looks for at the end   *)
(* of whatever a recv() returns.                                           *)
(*                                                                         *)
(* Byte i of the zip file is the number i, and the bytes of the marker are *)
(* the next three numbers, so that a file can be told from any other; of   *)
(* what the bytes are, only the letters E, O and F matter (look).  A reply *)
(* or an alert is one byte that is none of them, and so is "exit".         *)
(* RefugeServer has the descriptors and what else the threads do.          *)
(***************************************************************************)
EXTENDS Integers, Sequences

CONSTANTS
    Looks,       \* the zip files that may arise: which bytes are letters of the marker
    MAX_BUFFER,  \* what the server writes at a time
    MAX,         \* what the client reads at a time
    MaxTyped,    \* bound: lines the user types
    MaxAlerts    \* bound: alerts and emergencies sent to the client

Letters  == {"E", "O", "F", "other"}
Alert    == 0
ExitText == -1

ASSUME LookAssumption == Looks \subseteq Seq(Letters)
ASSUME BufferAssumption == /\ MAX_BUFFER \in Nat \ {0} /\ MAX \in Nat /\ MAX >= 3
                           /\ MaxTyped \in Nat /\ MaxAlerts \in Nat

VARIABLES
    zip,      \* the file at ZIP_FILE: "none", "fresh" or "other" (older, or cut off), and its look
    spc,      \* the client's thread: "starting" until main accepts, "idle", "prompting",
              \* "sending" or "ended"
    sent,     \* how many bytes of file and marker have been written
    upto,     \* where the write() in progress ends
    request,  \* what the thread's next recv() finds: "none", "get_image", "other"
    closed,   \* main has disconnected the client
    line,     \* the bytes on their way to the client
    cpc,      \* the client: "loop", "receiving", "ended"
    hungUp,   \* it has closed its socket
    valread,  \* what the recv() at the head of its loop returned: "nothing", "text", "exit"
    file,     \* received_file.zip
    ending,   \* history: how the last file ended: "none", "marker", "guess", "end", "failed"
    clean,    \* history: nothing but the file has been on the connection since it was asked for
    typed, alerts  \* what the bounds count

serverVars == <<zip, spc, sent, upto, request>>
clientVars == <<cpc, hungUp, valread, file, ending, typed>>
transferVars == <<serverVars, closed, line, clientVars, clean, alerts>>

----------------------------------------------------------------------------
Size    == Len(zip.look)
Whole   == [i \in 1 .. Size |-> i]
Marker  == <<"E", "O", "F">>
Letter(b) == IF b \in 1 .. Size THEN zip.look[b]
             ELSE IF b \in Size + 1 .. Size + 3 THEN Marker[b - Size] ELSE "other"

\* compress_image, in main before its loop.  What cannot be opened or written leaves a file
\* of an earlier run, a cut one, or none.
Compress ==
    /\ spc = "starting"
    /\ zip' \in [state : {"fresh", "other"}, look : Looks] \cup {[state |-> "none", look |-> <<>>]}
    /\ spc' = "idle"
    /\ UNCHANGED <<sent, upto, request, closed, line, clientVars, clean, alerts>>

\* handle_alerts and disconnect_all_clients in the main thread.
SendAlert ==
    /\ spc # "starting" /\ ~closed /\ alerts < MaxAlerts
    /\ alerts' = alerts + 1 /\ line' = Append(line, Alert) /\ clean' = FALSE
    /\ UNCHANGED <<serverVars, closed, clientVars>>

Disconnect ==
    /\ spc # "starting" /\ ~closed /\ alerts < MaxAlerts
    /\ alerts' = alerts + 1 /\ line' = Append(line, ExitText) /\ clean' = FALSE
    /\ closed' = TRUE
    /\ UNCHANGED <<serverVars, clientVars>>

\* handle_client takes what waits: a command it answers with a text, which may be a prompt ...
Reply ==
    /\ spc = "idle" /\ request = "other" /\ ~closed
    /\ request' = "none" /\ line' = Append(line, Alert) /\ clean' = FALSE
    /\ spc' \in {"idle", "prompting"}
    /\ UNCHANGED <<zip, sent, upto, closed, clientVars, alerts>>

\* ... to which anything is an answer, "get_image" too; a wrong name gets no reply ...
TakeAnswer ==
    /\ spc = "prompting" /\ request # "none" /\ ~closed
    /\ request' = "none" /\ line' \in {line, Append(line, Alert)} /\ clean' = FALSE
    /\ spc' \in {"idle", "prompting"}
    /\ UNCHANGED <<zip, sent, upto, closed, clientVars, alerts>>

\* ... "exit", after which the thread closes the connection ...
Quit ==
    /\ spc = "idle" /\ request = "other" /\ ~closed
    /\ request' = "none" /\ spc' = "ended" /\ closed' = TRUE
    /\ UNCHANGED <<zip, sent, upto, line, clientVars, clean, alerts>>

\* ... or "get_image".  If there is no file, send_zip_file returns and sends nothing at all.
StartSending ==
    /\ spc = "idle" /\ request = "get_image" /\ ~closed
    /\ request' = "none"
    /\ spc' = IF zip.state = "none" THEN "idle" ELSE "sending"
    /\ UNCHANGED <<zip, sent, upto, closed, line, clientVars, clean, alerts>>

\* write() of the next part of the file, and after the file of the marker.
BeginWrite ==
    /\ spc = "sending" /\ sent = upto /\ upto < Size + 3 /\ ~closed
    /\ upto' = IF upto = Size THEN Size + 3
               ELSE IF upto + MAX_BUFFER < Size THEN upto + MAX_BUFFER ELSE Size
    /\ UNCHANGED <<zip, spc, sent, request, closed, line, clientVars, clean, alerts>>

\* A write() that waits for room lets another thread's send() come between its bytes, and
\* goes on although main closes the descriptor meanwhile.
Write ==
    /\ spc = "sending" /\ sent < upto
    /\ sent' = sent + 1 /\ line' = Append(line, sent + 1)
    /\ UNCHANGED <<zip, spc, upto, request, closed, clientVars, clean, alerts>>

\* Mutant: the marker is forgotten.
SentWithoutMarker ==
    /\ spc = "sending" /\ sent = upto /\ sent >= Size
    /\ spc' = "idle" /\ sent' = 0 /\ upto' = 0
    /\ UNCHANGED <<zip, request, closed, line, clientVars, clean, alerts>>

Sent ==
    /\ spc = "sending" /\ sent = Size + 3
    /\ spc' = "idle" /\ sent' = 0 /\ upto' = 0
    /\ UNCHANGED <<zip, request, closed, line, clientVars, clean, alerts>>

\* The next write() or recv() fails when the descriptor or the client's end is closed.
ThreadEnds ==
    /\ (closed /\ sent = upto) \/ hungUp
    /\ spc \in {"idle", "prompting", "sending"}
    /\ spc' = "ended" /\ request' = "none" /\ closed' = TRUE
    /\ sent' = 0 /\ upto' = 0
    /\ UNCHANGED <<zip, line, clientVars, clean, alerts>>

----------------------------------------------------------------------------
\* The client.  TCP delivers what has been sent in pieces of any size.

Take(n) == /\ n <= Len(line) /\ n <= MAX /\ (hungUp => n = 0)
           /\ line' = SubSeq(line, n + 1, Len(line))

\* Only an "exit" at the very beginning of what was read is recognised.
Seen(n) == IF n = 0 THEN "nothing" ELSE IF line[1] = ExitText THEN "exit" ELSE "text"

\* The end of a round.  Reading nothing ends the client if errno is not EAGAIN; a recv()
\* that returns 0 leaves errno to what some call before has set.
Round(v, over) == \/ v # "exit" /\ cpc' = "loop"
                  \/ v = "exit" /\ cpc' = "ended"
                  \/ v = "nothing" /\ over /\ cpc' = "ended"

\* The end of a round in which a file was received: writing or unpacking it may have failed
\* (decompress_file), and have left its errno.
Resume == Round(valread, TRUE) /\ valread' = "nothing"

\* A round that finds the connection closed may end the client: by errno, or by the SIGPIPE
\* that a line sent into it raises.
ConnectionLost ==
    /\ cpc = "loop" /\ (closed \/ hungUp)
    /\ cpc' = "ended"
    /\ UNCHANGED <<serverVars, closed, line, hungUp, valread, file, ending, typed, clean, alerts>>

\* A round without input.
ShowText(n) ==
    /\ cpc = "loop" /\ n > 0 /\ Take(n) /\ Round(Seen(n), closed \/ hungUp)
    /\ UNCHANGED <<serverVars, closed, hungUp, valread, file, ending, typed, clean, alerts>>

\* The user's line is sent.  If the thread has not taken the one before, both are one message.
Submit(w) ==
    /\ cpc = "loop" /\ typed < MaxTyped /\ typed' = typed + 1
    /\ request' = (IF spc = "ended" THEN "none" ELSE IF request = "none" THEN w ELSE "other")

Type(n) ==
    /\ Submit("other") /\ Take(n) /\ Round(Seen(n), closed \/ hungUp)
    /\ UNCHANGED <<zip, spc, sent, upto, closed, hungUp, valread, file, ending, clean, alerts>>

\* received_file.zip cannot be opened, and nothing is received.  If the round has read nothing
\* either, the errno of the failed open() ends the client.
AskInVain(n) ==
    /\ Submit("get_image") /\ Take(n)
    /\ cpc' = IF Seen(n) = "text" THEN "loop" ELSE "ended"
    /\ UNCHANGED <<zip, spc, sent, upto, closed, hungUp, valread, file, ending, clean, alerts>>

\* Mutant: the new file is appended to the old one.
AskImageAppending(n) ==
    /\ Submit("get_image") /\ Take(n)
    /\ cpc' = "receiving" /\ valread' = Seen(n)
    /\ file' = file /\ ending' = "none"
    /\ clean' = (n = Len(line) /\ request = "none" /\ spc \in {"starting", "idle"} /\ ~closed)
    /\ UNCHANGED <<zip, spc, sent, upto, closed, hungUp, alerts>>

AskImage(n) ==
    /\ Submit("get_image") /\ Take(n)
    /\ cpc' = "receiving" /\ valread' = Seen(n)
    /\ file' = <<>> /\ ending' = "none"
    /\ clean' = (n = Len(line) /\ request = "none" /\ spc \in {"starting", "idle"} /\ ~closed)
    /\ UNCHANGED <<zip, spc, sent, upto, closed, hungUp, alerts>>

\* The bytes a recv() of n returns end in the marker.  With fewer than three, the comparison
\* reaches what lies before the buffer, and may succeed.
EndsAt(n, k) == Letter(line[n - k]) = Marker[3 - k]
MarkerSeen(n) == n >= 3 /\ \A k \in 0 .. 2 : EndsAt(n, k)
MayGuess(n)   == n < 3 /\ \A k \in 0 .. n - 1 : EndsAt(n, k)

\* Mutant: a piece that begins with an alert or a reply is left out of the file.
ReceiveSkippingTexts(n) ==
    /\ cpc = "receiving" /\ n > 0 /\ Take(n) /\ ~MarkerSeen(n)
    /\ file' = IF line[1] > 0 THEN file \o SubSeq(line, 1, n) ELSE file
    /\ UNCHANGED <<serverVars, closed, cpc, hungUp, valread, ending, typed, clean, alerts>>

\* Some bytes of the file; no marker is found.
Receive(n) ==
    /\ cpc = "receiving" /\ n > 0 /\ Take(n) /\ ~MarkerSeen(n)
    /\ file' = file \o SubSeq(line, 1, n)
    /\ UNCHANGED <<serverVars, closed, cpc, hungUp, valread, ending, typed, clean, alerts>>

\* Mutant: the marker goes into the file with the rest.
ReceiveMarkerToo(n) ==
    /\ cpc = "receiving" /\ Take(n) /\ MarkerSeen(n)
    /\ file' = file \o SubSeq(line, 1, n) /\ ending' = "marker" /\ Resume
    /\ UNCHANGED <<serverVars, closed, hungUp, typed, clean, alerts>>

ReceiveMarker(n) ==
    /\ cpc = "receiving" /\ Take(n) /\ MarkerSeen(n)
    /\ file' = file \o SubSeq(line, 1, n - 3) /\ ending' = "marker" /\ Resume
    /\ UNCHANGED <<serverVars, closed, hungUp, typed, clean, alerts>>

\* Fewer bytes than none are not written.
ReceiveGuess(n) ==
    /\ cpc = "receiving" /\ n > 0 /\ Take(n) /\ MayGuess(n)
    /\ ending' = "guess" /\ Resume
    /\ UNCHANGED <<serverVars, closed, hungUp, file, typed, clean, alerts>>

\* recv() returns 0 or fails, perhaps before it has returned all that was sent; what there
\* is of the file is unpacked and reported as the image.
ReceiveEnd ==
    /\ cpc = "receiving" /\ (closed \/ hungUp)
    /\ ending' = "end" /\ Resume
    /\ UNCHANGED <<serverVars, closed, line, hungUp, file, typed, clean, alerts>>

\* The file cannot be written: the socket is closed, and the loop goes on without it.
FileFails(n) ==
    /\ cpc = "receiving" /\ n > 0 /\ Take(n) /\ ~MarkerSeen(n)
    /\ hungUp' = TRUE /\ ending' = "failed"
    /\ Resume
    /\ UNCHANGED <<serverVars, closed, file, typed, clean, alerts>>

----------------------------------------------------------------------------
TransferInit ==
    /\ zip = [state |-> "none", look |-> <<>>]
    /\ spc = "starting" /\ sent = 0 /\ upto = 0 /\ request = "none"
    /\ closed = FALSE /\ line = <<>>
    /\ cpc = "loop" /\ hungUp = FALSE /\ valread = "nothing"
    /\ file = <<>> /\ ending = "none" /\ clean = FALSE
    /\ typed = 0 /\ alerts = 0

Sends    == StartSending \/ BeginWrite \/ Write \/ Sent
Receives == ReceiveEnd \/ \E n \in 1 .. Len(line) :
                Receive(n) \/ ReceiveMarker(n) \/ ReceiveGuess(n) \/ FileFails(n)
Loops    == ConnectionLost \/ \E n \in 0 .. Len(line) :
                ShowText(n) \/ Type(n) \/ AskInVain(n) \/ AskImage(n)

\* What the server still does when the client has ended is in RefugeServer.
TransferNext ==
    /\ cpc # "ended"
    /\ \/ SendAlert \/ Disconnect \/ Reply \/ TakeAnswer \/ Quit \/ ThreadEnds
       \/ Sends \/ Receives \/ Loops

\* Threads run, and what was sent arrives.
TransferFairness == /\ WF_transferVars(cpc # "ended" /\ Sends)
                    /\ WF_transferVars(cpc # "ended" /\ Receives)

----------------------------------------------------------------------------
(* Properties *)

TransferTypeOK ==
    /\ zip \in [state : {"none", "fresh", "other"}, look : Looks \cup {<<>>}]
    /\ spc \in {"starting", "idle", "prompting", "sending", "ended"}
    /\ sent \in Nat /\ upto \in Nat /\ request \in {"none", "get_image", "other"}
    /\ closed \in BOOLEAN /\ line \in Seq(Int)
    /\ cpc \in {"loop", "receiving", "ended"} /\ hungUp \in BOOLEAN
    /\ valread \in {"nothing", "text", "exit"} /\ file \in Seq(Int)
    /\ ending \in {"none", "marker", "guess", "end", "failed"} /\ clean \in BOOLEAN
    /\ typed \in Nat /\ alerts \in Nat

\* Nothing is received before main has come to its loop, nor sent before the file is asked for.
NotBefore ==
    /\ spc = "starting" => line = <<>> /\ file = <<>> /\ ending = "none" /\ ~closed /\ ~hungUp
    /\ spc # "sending" => sent = 0

\* Where the bytes of a clean file are: asked for, on their way, or sent.
InTransit ==
    cpc = "receiving" /\ clean =>
        /\ ending = "none"
        /\ \/ /\ request = "get_image" /\ spc \in {"starting", "idle"}
              /\ sent = 0 /\ line = <<>> /\ file = <<>>
           \/ request = "none" /\ spc = "sending" /\ sent = Len(file) + Len(line)
           \/ request = "none" /\ spc \in {"idle", "ended"}
        /\ \A i \in 1 .. Len(line) : line[i] = Len(file) + i

\* While nothing else comes over the connection, whatever the pieces in which the file
\* arrives and wherever it ends, the client has a beginning of what was sent.
ReceivedInOrder ==
    clean => \A i \in 1 .. Len(file) : file[i] = i

\* The thread sends the bytes of file and marker one after another, and may send the file again.
Follows(a, b) == b = a + 1 \/ (a = Size + 3 /\ b = 1)
InOrder(s) == \A i, j \in 1 .. Len(s) :
    i < j /\ s[i] > 0 /\ s[j] > 0 /\ (\A k \in i + 1 .. j - 1 : s[k] <= 0) => Follows(s[i], s[j])

\* Whatever main and the thread mix into the file (alerts, replies, "exit"), and although the
\* user may ask again while the rest of a file is on its way: what the client has are the bytes
\* the thread sent, with others between them at worst, none left out, doubled or reordered.
NoByteLost == InOrder(file)

\* The zip file has the marker in it, where the end of a read may fall on it.
MarkerInside == \E i \in 1 .. Size - 2 : \A k \in 1 .. 3 : zip.look[i + k - 1] = Marker[k]

\* A file that nothing was mixed into, that has no marker inside and whose end was found is
\* the file that was sent, no byte more or less.
ImageExact ==
    clean /\ ending = "marker" /\ ~MarkerInside => file = Whole

TransferInv ==
    TransferTypeOK /\ NotBefore /\ InTransit /\ ReceivedInOrder /\ ImageExact

\* What NoByteLost rests on: the bytes on their way go on where the file ends, and the last of
\* them is the last one the thread has sent.
Underway == IF cpc = "receiving" THEN file \o line ELSE line
UpToSent(s) == \A i \in 1 .. Len(s) :
    s[i] > 0 /\ (\A k \in i + 1 .. Len(s) : s[k] <= 0) =>
        s[i] = IF sent > 0 THEN sent ELSE Size + 3

MixedInv == /\ NoByteLost /\ InOrder(Underway)
            /\ spc # "ended" => UpToSent(Underway)

\* A client that waits for the file gets to its end, unless something is mixed into it,
\* there is no file, or the marker has been cut in two by the reads: then it has everything,
\* marker included, and waits for ever.
ReceiptEnds ==
    (cpc = "receiving" /\ clean /\ zip.state # "none") ~>
        (cpc # "receiving" \/ ~clean \/ Len(file) = Size + 3)
=============================================================================
