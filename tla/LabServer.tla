----------------------------- MODULE LabServer -----------------------------
(***************************************************************************)
(* The select() server of lab1 (C, one process): the connected_clients     *)
(* array, the round of main (watch, accept, scan, alerts, emergencies) and *)
(* what clients, the kernel and the two producer processes may do between  *)
(* any two steps of it.                                                    *)
(*                                                                         *)
(* Numbers are scaled: the process owns descriptors 0 .. EmergencyFd (0 is *)
(* stdin) and clients get the lowest free one, so that, as in the code, a  *)
(* full table has descriptors beyond MAX_CLIENTS and the loops over        *)
(* connected_clients, bounded by max_socket_fd, run past its end.  What    *)
(* lies there is zero in the Release build that the scripts make, where    *)
(* the linker places the array last.                                       *)
(*                                                                         *)
(* A client connects once.  The text of messages is abstracted to its      *)
(* first word; the summary document to who last changed the supplies       *)
(* (RefugeStore models the document).                                      *)
(***************************************************************************)
EXTENDS Integers, Sequences, FiniteSets, FiniteSetsExt

CONSTANTS
    Clients,        \* the connections clients make
    MaxClients,     \* MAX_CLIENTS (100 in the code)
    LastFd,         \* bound: the descriptors are 0 .. LastFd
    MaxAlerts,      \* bound: alerts waiting in the pipe
    MaxEmergencies, \* bound: emergencies waiting in the pipe
    MaxCommands,    \* bound: commands of a client waiting in its socket
    Resets,         \* TRUE: a client may abort its connection
    Own,            \* the process's own descriptor (stdin, listener, pipes)
    Free            \* an unused descriptor

ServerFd    == 1
AlertFd     == 2
EmergencyFd == 3
Backlog     == 5
Fds         == 0 .. LastFd
Slots       == 0 .. MaxClients - 1

ASSUME SizeAssumption  == MaxClients \in Nat \ {0} /\ LastFd \in Nat /\ LastFd >= MaxClients + EmergencyFd
ASSUME BoundAssumption == MaxAlerts \in Nat /\ MaxEmergencies \in Nat /\ MaxCommands \in Nat
ASSUME FlagAssumption  == Resets \in BOOLEAN
ASSUME OwnerAssumption == Own \notin Clients /\ Free \notin Clients /\ Own # Free

VARIABLES
    pc,              \* where the round of main is, or "exited"
    i,               \* the index of the scan
    max_socket_fd, client_socket, read_fds, \* locals of main
    connected_clients, num_connected_clients,
    owner,           \* what each descriptor of the process designates
    pending,         \* the listener's queue of connections not yet accepted
    peer,            \* the client's end of the connection
    inbox,           \* what the client sent and the server has not read
    told,            \* the last word the client got from the server
    alertPipe, emergencyPipe, \* messages waiting in the two FIFOs
    supplies,        \* who last changed the supplies
    cred             \* history: the credentials the client sent

locals   == <<i, max_socket_fd, client_socket, read_fds>>
table    == <<connected_clients, num_connected_clients>>
sockets  == <<peer, inbox, told, cred>>
pipes    == <<alertPipe, emergencyPipe>>
vars     == <<pc, locals, table, owner, pending, sockets, pipes, supplies>>

----------------------------------------------------------------------------
Empty == [socket |-> 0, role |-> 0]

\* connected_clients[k], also where k is past the end of the array.
Row(k) == IF k \in Slots THEN connected_clients[k] ELSE Empty

\* The loop that fills the set gets as far as index k: before each index up to
\* k a descriptor above it has been seen.
Reached(k) ==
    \A j \in 0 .. k : EmergencyFd > j \/ \E l \in Slots : l < j /\ Row(l).socket > j

\* Mutant: max_socket_fd is not raised by the clients' sockets.
BoundWithoutClients == EmergencyFd

\* max_socket_fd after the loop.
Bound == Max({EmergencyFd} \cup {Row(k).socket : k \in {l \in Slots : Reached(l)}})

\* Mutant: the emergency pipe is not put into the set.
WatchedWithoutEmergency ==
    {ServerFd, AlertFd} \cup {Row(k).socket : k \in {l \in Slots : l < Bound /\ Row(l).socket > 0}}

Watched == {ServerFd, AlertFd, EmergencyFd}
           \cup {Row(k).socket : k \in {l \in Slots : l < Bound /\ Row(l).socket > 0}}

Readable(f) ==
    \/ f = ServerFd /\ pending # <<>>
    \/ f = AlertFd /\ alertPipe > 0
    \/ f = EmergencyFd /\ emergencyPipe > 0
    \/ owner[f] \in Clients /\ (inbox[owner[f]] # <<>> \/ peer[owner[f]] # "open")

Serves(c) == \E f \in Fds : owner[f] = c

\* Those a loop over the table sends a text to.
Audience == {c \in Clients : \E k \in Slots : /\ k < num_connected_clients
                                              /\ connected_clients[k].socket > 0
                                              /\ owner[connected_clients[k].socket] = c}

\* The kernel of a client that has closed answers data with a reset; sending
\* on a connection that was reset may raise SIGPIPE, which ends the process.
AfterSend(S) == [c \in Clients |-> IF c \in S /\ peer[c] = "closed" THEN "gone" ELSE peer[c]]
MayDie(S)    == \E c \in S : peer[c] \in {"reset", "gone"}

\* getpeername fails once the connection was reset.
HasAddress(c) == peer[c] \notin {"reset", "gone"}

\* exit(EXIT_FAILURE) or a signal: nothing is done any more.
Exit == pc' = "exited" /\ UNCHANGED <<locals, table, owner, pending, sockets, pipes, supplies>>

----------------------------------------------------------------------------
\* One round of main.

\* select() waits until a watched descriptor is readable.  It fails, and ends
\* the process, if one is not open.
Watchable == \A f \in Watched : f <= Bound => owner[f] # Free

Select ==
    /\ pc = "select"
    /\ read_fds' = {f \in Watched : f <= Bound /\ Readable(f)}
    /\ Watchable => read_fds' # {}
    /\ max_socket_fd' = Bound
    /\ client_socket' = Row(Bound - 1).socket
    /\ i' = 0
    /\ pc' = IF ~Watchable THEN "exited" ELSE IF ServerFd \in read_fds' THEN "accept" ELSE "scan"
    /\ UNCHANGED <<table, owner, pending, sockets, pipes, supplies>>

\* Mutant: the table's capacity is not tested.
AcceptWithoutLimit ==
    /\ pc = "accept"
    /\ \E f \in Fds :
        /\ owner[f] = Free
        /\ \A g \in Fds : g < f => owner[g] # Free
        /\ owner' = [owner EXCEPT ![f] = Head(pending)]
        /\ client_socket' = f
    /\ pending' = Tail(pending)
    /\ pc' = "auth"
    /\ UNCHANGED <<i, max_socket_fd, read_fds, table, sockets, pipes, supplies>>

\* Mutant: the new socket is put into the set select() has already answered.
AcceptIntoSet ==
    /\ pc = "accept" /\ num_connected_clients < MaxClients
    /\ \E f \in Fds :
        /\ owner[f] = Free
        /\ \A g \in Fds : g < f => owner[g] # Free
        /\ owner' = [owner EXCEPT ![f] = Head(pending)]
        /\ client_socket' = f
        /\ read_fds' = read_fds \cup {f}
    /\ pending' = Tail(pending)
    /\ pc' = "auth"
    /\ UNCHANGED <<i, max_socket_fd, table, sockets, pipes, supplies>>

\* accept() takes the lowest free descriptor.
Accept ==
    /\ pc = "accept" /\ num_connected_clients < MaxClients
    /\ \E f \in Fds :
        /\ owner[f] = Free
        /\ \A g \in Fds : g < f => owner[g] # Free
        /\ owner' = [owner EXCEPT ![f] = Head(pending)]
        /\ client_socket' = f
    /\ pending' = Tail(pending)
    /\ pc' = "auth"
    /\ UNCHANGED <<i, max_socket_fd, read_fds, table, sockets, pipes, supplies>>

\* The table is full: the connection stays in the queue, and what is closed is
\* the socket of the last row the first loop looked at.
TurnAway ==
    /\ pc = "accept" /\ num_connected_clients >= MaxClients
    /\ owner' = [owner EXCEPT ![client_socket] = Free]
    /\ pc' = "scan"
    /\ UNCHANGED <<locals, table, pending, sockets, pipes, supplies>>

----------------------------------------------------------------------------
\* auth_client, and the rest of accept_new_connection.  The read blocks.
Guest == owner[client_socket]

Join(role) ==
    /\ connected_clients' = [connected_clients EXCEPT
           ![num_connected_clients] = [socket |-> client_socket, role |-> role]]
    /\ num_connected_clients' = num_connected_clients + 1

Authenticate ==
    /\ pc = "auth"
    /\ inbox[Guest] # <<>> /\ Head(inbox[Guest]) \in {"root", "hostname"}
    /\ \/ /\ HasAddress(Guest)
          /\ Join(IF Head(inbox[Guest]) = "root" THEN 1 ELSE 0)
          /\ inbox' = [inbox EXCEPT ![Guest] = Tail(@)]
          /\ told' = [told EXCEPT ![Guest] = "welcome"]
          /\ peer' = AfterSend({Guest})
          /\ pc' = "scan"
          /\ UNCHANGED <<locals, owner, pending, cred, pipes, supplies>>
       \/ peer[Guest] # "open" /\ Exit

\* Mutant: the socket of a denied client is left open.
DenyLeaksSocket ==
    /\ pc = "auth"
    /\ inbox[Guest] # <<>> /\ Head(inbox[Guest]) = "wrong"
    /\ told' = [told EXCEPT ![Guest] = "denied"]
    /\ inbox' = [inbox EXCEPT ![Guest] = <<>>]
    /\ pc' = "scan"
    /\ UNCHANGED <<locals, table, owner, pending, peer, cred, pipes, supplies>>

Deny ==
    /\ pc = "auth"
    /\ inbox[Guest] # <<>> /\ Head(inbox[Guest]) = "wrong"
    /\ \/ /\ told' = [told EXCEPT ![Guest] = "denied"]
          /\ inbox' = [inbox EXCEPT ![Guest] = <<>>]
          /\ peer' = AfterSend({Guest})
          /\ owner' = [owner EXCEPT ![client_socket] = Free]
          /\ pc' = "scan"
          /\ UNCHANGED <<locals, table, pending, cred, pipes, supplies>>
       \/ MayDie({Guest}) /\ Exit

\* The client left before it sent credentials.  The socket is closed and the
\* comparison goes on with strings nothing was read into: either they match no
\* one, or the client gets a row and its address is asked of a closed socket.
NoCredentials ==
    /\ pc = "auth" /\ inbox[Guest] = <<>> /\ peer[Guest] # "open"
    /\ \/ /\ owner' = [owner EXCEPT ![client_socket] = Free]
          /\ pc' = "scan"
          /\ UNCHANGED <<locals, table, pending, sockets, pipes, supplies>>
       \/ Exit

----------------------------------------------------------------------------
\* The scan of the table.
Hit(k) == Row(k).socket > 0 /\ Row(k).socket \in read_fds

\* k is the next row the scan reads from.
Scans(k) == /\ pc = "scan" /\ i <= k /\ k < max_socket_fd /\ Hit(k)
            /\ \A j \in Slots : i <= j /\ j < k => ~Hit(j)

\* The command of row k is run.  Everything waiting in the socket is read at
\* once and only the first word is looked at.
Command(k) ==
    LET c == owner[Row(k).socket]
        command == Head(inbox[c])
    IN  /\ Scans(k) /\ c \in Clients /\ inbox[c] # <<>>
        /\ inbox' = [inbox EXCEPT ![c] = <<>>]
        /\ supplies' = IF command = "modify" /\ Row(k).role = 1 THEN c ELSE supplies
        /\ peer' = IF command = "state" THEN AfterSend({c}) ELSE peer
        /\ \/ /\ HasAddress(c) \/ command = "other" \/ (command = "modify" /\ Row(k).role # 1)
              /\ pc' = "scan" /\ i' = k + 1
           \/ /\ \/ command = "state" /\ peer[c] # "open"
                 \/ command = "modify" /\ Row(k).role = 1 /\ ~HasAddress(c)
              /\ pc' = "exited" /\ i' = i
        /\ UNCHANGED <<max_socket_fd, client_socket, read_fds, table, owner, pending,
                       told, cred, pipes>>

\* read() fails on a connection that was reset: the branch for a command is
\* taken with a command nothing was read into.
ReadError(k) ==
    LET c == owner[Row(k).socket]
    IN  /\ Scans(k) /\ c \in Clients /\ inbox[c] = <<>> /\ peer[c] = "reset"
        /\ \/ /\ peer' = [peer EXCEPT ![c] = "gone"]
              /\ i' = k + 1
              /\ UNCHANGED <<pc, max_socket_fd, client_socket, read_fds, table, owner, pending,
                             inbox, told, cred, pipes, supplies>>
           \/ Exit

\* Mutant: the socket column is shifted and the role column is not.
RemoveRowKeepingRoles(k) ==
    /\ connected_clients' = [j \in Slots |->
           IF j = num_connected_clients - 1 THEN Empty
           ELSE IF k <= j /\ j < num_connected_clients - 1
                THEN [connected_clients[j] EXCEPT !.socket = connected_clients[j + 1].socket]
                ELSE connected_clients[j]]
    /\ num_connected_clients' = num_connected_clients - 1

\* The rows after row k move down by one and the last one is cleared.
RemoveRow(k) ==
    /\ connected_clients' = [j \in Slots |->
           IF j = num_connected_clients - 1 THEN Empty
           ELSE IF k <= j /\ j < num_connected_clients - 1 THEN connected_clients[j + 1]
           ELSE connected_clients[j]]
    /\ num_connected_clients' = num_connected_clients - 1

\* read() returned 0.
Disconnect(k) ==
    LET c == owner[Row(k).socket]
    IN  /\ Scans(k) /\ c \in Clients /\ inbox[c] = <<>>
        /\ \/ /\ peer[c] = "closed"
              /\ RemoveRow(k)
              /\ owner' = [owner EXCEPT ![Row(k).socket] = Free]
              /\ i' = k + 1
              /\ UNCHANGED <<pc, max_socket_fd, client_socket, read_fds, pending, sockets,
                             pipes, supplies>>
           \/ peer[c] = "gone" /\ Exit

\* The locals of the round are dead from here on, but for two bits of read_fds:
\* they are cleared, to the same state whatever they were.
ScanEnds ==
    /\ pc = "scan"
    /\ ~\E k \in Slots : i <= k /\ k < max_socket_fd /\ Hit(k)
    /\ pc' = "alerts"
    /\ i' = 0 /\ max_socket_fd' = 0 /\ client_socket' = 0
    /\ read_fds' = read_fds \cap {AlertFd, EmergencyFd}
    /\ UNCHANGED <<table, owner, pending, sockets, pipes, supplies>>

----------------------------------------------------------------------------
\* One read of handle_alerts takes all the alerts that wait, and all of the text
\* goes to the clients.
Alert ==
    /\ pc = "alerts" /\ AlertFd \in read_fds /\ alertPipe > 0
    /\ \/ /\ alertPipe' = 0
          /\ peer' = AfterSend(Audience)
          /\ UNCHANGED <<pc, locals, table, owner, pending, inbox, told, cred,
                         emergencyPipe, supplies>>
       \/ MayDie(Audience) /\ Exit

AlertsDone ==
    /\ pc = "alerts" /\ (AlertFd \notin read_fds \/ alertPipe = 0)
    /\ pc' = "emergency"
    /\ UNCHANGED <<locals, table, owner, pending, sockets, pipes, supplies>>

\* Mutant: disconnect_all_clients stops one client early.
EvictAllButLast ==
    /\ owner' = [f \in Fds |-> IF \E k \in Slots : /\ k < num_connected_clients - 1
                                                   /\ f > 0 /\ connected_clients[k].socket = f
                               THEN Free ELSE owner[f]]
    /\ connected_clients' = [k \in Slots |->
           IF k < num_connected_clients - 1 THEN Empty ELSE connected_clients[k]]
    /\ num_connected_clients' = 0

\* disconnect_all_clients.
EvictAll ==
    /\ owner' = [f \in Fds |-> IF \E k \in Slots : /\ k < num_connected_clients
                                                   /\ f > 0 /\ connected_clients[k].socket = f
                               THEN Free ELSE owner[f]]
    /\ connected_clients' = [k \in Slots |->
           IF k < num_connected_clients /\ connected_clients[k].socket > 0
           THEN Empty ELSE connected_clients[k]]
    /\ num_connected_clients' = 0

\* handle_emergencies: the clients are told and all disconnected.
Emergency ==
    /\ pc = "emergency"
    /\ EmergencyFd \in read_fds /\ emergencyPipe > 0 /\ owner[EmergencyFd] = Own
    /\ \/ /\ \A c \in Audience : HasAddress(c)
          /\ emergencyPipe' = 0
          /\ told' = [c \in Clients |-> IF c \in Audience THEN "emergency" ELSE told[c]]
          /\ peer' = AfterSend(Audience)
          /\ EvictAll
          /\ pc' = "select" /\ read_fds' = {}
          /\ UNCHANGED <<i, max_socket_fd, client_socket, pending, inbox, cred, alertPipe, supplies>>
       \/ (\E c \in Audience : peer[c] # "open") /\ Exit

NoEmergency ==
    /\ pc = "emergency"
    /\ ~(EmergencyFd \in read_fds /\ emergencyPipe > 0 /\ owner[EmergencyFd] = Own)
    /\ pc' = "select" /\ read_fds' = {}
    /\ UNCHANGED <<i, max_socket_fd, client_socket, table, owner, pending, sockets, pipes, supplies>>

----------------------------------------------------------------------------
\* The clients (client.c, or any other program), the kernel, the producers.
server == <<pc, locals, table, owner, supplies>>
Linked(c) == (\E n \in DOMAIN pending : pending[n] = c) \/ Serves(c)

Connect(c) ==
    /\ pc # "exited" /\ peer[c] = "none" /\ Len(pending) < Backlog
    /\ pending' = Append(pending, c)
    /\ peer' = [peer EXCEPT ![c] = "open"]
    /\ UNCHANGED <<server, inbox, told, cred, pipes>>

SendCredentials(c) ==
    /\ peer[c] = "open" /\ cred[c] = "none"
    /\ \E s \in {"root", "hostname", "wrong"} :
        /\ cred' = [cred EXCEPT ![c] = s]
        /\ inbox' = [inbox EXCEPT ![c] = <<s>>]
    /\ UNCHANGED <<server, pending, peer, told, pipes>>

SendCommand(c) ==
    /\ peer[c] = "open" /\ told[c] = "welcome" /\ Serves(c)
    /\ Len(inbox[c]) < MaxCommands
    /\ \E s \in {"modify", "state", "other"} : inbox' = [inbox EXCEPT ![c] = Append(@, s)]
    /\ UNCHANGED <<server, pending, peer, told, cred, pipes>>

Close(c) ==
    /\ peer[c] = "open" /\ Linked(c)
    /\ peer' = [peer EXCEPT ![c] = "closed"]
    /\ UNCHANGED <<server, pending, inbox, told, cred, pipes>>

\* The client aborts, or dies with unread text in its socket.
Abort(c) ==
    /\ Resets /\ peer[c] = "open" /\ Linked(c)
    /\ peer' = [peer EXCEPT ![c] = "reset"]
    /\ UNCHANGED <<server, pending, inbox, told, cred, pipes>>

\* send_alert_if_needed, in the process of start_alerts.
WriteAlert ==
    /\ pc # "exited" /\ alertPipe < MaxAlerts
    /\ alertPipe' = alertPipe + 1
    /\ UNCHANGED <<server, pending, sockets, emergencyPipe>>

\* send_emergency_message, in the process of start_emergencies.
WriteEmergency ==
    /\ pc # "exited" /\ emergencyPipe < MaxEmergencies
    /\ emergencyPipe' = emergencyPipe + 1
    /\ UNCHANGED <<server, pending, sockets, alertPipe>>

----------------------------------------------------------------------------
Init ==
    /\ pc = "select" /\ i = 0 /\ max_socket_fd = 0 /\ client_socket = 0 /\ read_fds = {}
    /\ connected_clients = [k \in Slots |-> Empty] /\ num_connected_clients = 0
    /\ owner = [f \in Fds |-> IF f <= EmergencyFd THEN Own ELSE Free]
    /\ pending = <<>>
    /\ peer = [c \in Clients |-> "none"] /\ inbox = [c \in Clients |-> <<>>]
    /\ told = [c \in Clients |-> "nothing"] /\ cred = [c \in Clients |-> "none"]
    /\ alertPipe = 0 /\ emergencyPipe = 0
    /\ supplies = Own

ScanRow(k) == Command(k) \/ ReadError(k) \/ Disconnect(k)
Main == \/ Select \/ Accept \/ TurnAway
        \/ Authenticate \/ Deny \/ NoCredentials
        \/ (\E k \in Slots : ScanRow(k)) \/ ScanEnds
        \/ Alert \/ AlertsDone \/ Emergency \/ NoEmergency
Client(c) == Connect(c) \/ SendCredentials(c) \/ SendCommand(c) \/ Close(c) \/ Abort(c)
Producers == WriteAlert \/ WriteEmergency
Next == Main \/ (\E c \in Clients : Client(c)) \/ Producers
Spec == Init /\ [][Next]_vars

\* main never rests while it can go on, a client that was accepted sends its credentials or
\* leaves, as client.c does right after connect(), and the producer of alerts, which sleeps
\* after each, does not for ever write the next before handle_alerts finds the pipe empty.
FairSpec == /\ Spec /\ WF_vars(Main) /\ SF_vars(AlertsDone)
            /\ \A c \in Clients : WF_vars(SendCredentials(c))
\* The same, with clients that owe nothing.
FairMainSpec == Spec /\ WF_vars(Main)

----------------------------------------------------------------------------
\* stdin has not been closed: descriptor 0 is no client's.
Intact  == owner[0] = Own
Running == pc # "exited"
Held    == {k \in Slots : k < num_connected_clients}

TypeOK ==
    /\ pc \in {"select", "accept", "auth", "scan", "alerts", "emergency", "exited"}
    /\ i \in Nat /\ max_socket_fd \in Fds /\ client_socket \in Fds /\ read_fds \subseteq Fds
    /\ connected_clients \in [Slots -> [socket : Fds, role : {0, 1}]]
    /\ num_connected_clients \in 0 .. MaxClients
    /\ owner \in [Fds -> Clients \cup {Own, Free}]
    /\ pending \in Seq(Clients)
    /\ peer \in [Clients -> {"none", "open", "closed", "reset", "gone"}]
    /\ inbox \in [Clients -> Seq({"root", "hostname", "wrong", "modify", "state", "other"})]
    /\ told \in [Clients -> {"nothing", "welcome", "denied", "emergency"}]
    /\ cred \in [Clients -> {"none", "root", "hostname", "wrong"}]
    /\ alertPipe \in Nat /\ emergencyPipe \in Nat
    /\ supplies \in Clients \cup {Own}

\* connected_clients and the open descriptors agree between any two steps,
\* through every shift of the rows, refusal and reuse of a descriptor: the rows
\* below num_connected_clients hold distinct open sockets of clients, the
\* others are clear, and every client that was accepted is in a row or is the
\* one auth_client is waiting for.
TableInv == Running /\ Intact =>
    /\ \A k \in Slots \ Held : connected_clients[k] = Empty
    /\ \A k \in Held : /\ connected_clients[k].socket > EmergencyFd
                       /\ owner[connected_clients[k].socket] \in Clients
    /\ \A k, l \in Held : connected_clients[k].socket = connected_clients[l].socket => k = l
    /\ \A f \in Fds : owner[f] \in Clients =>
           \/ \E k \in Held : connected_clients[k].socket = f
           \/ pc = "auth" /\ f = client_socket

\* The role in a row is the one its client's credentials gave it, whatever row
\* the client was moved to and whoever had the descriptor before (the test of
\* role == 1 before modify_supplies).
RolesEarned == Running /\ Intact =>
    \A k \in Held : LET c == owner[connected_clients[k].socket]
                    IN  /\ cred[c] \in {"root", "hostname"}
                        /\ (connected_clients[k].role = 1) = (cred[c] = "root")

\* Only a client that authenticated as ubuntu changes the supplies.
SuppliesByRoot == Intact /\ supplies \in Clients => cred[supplies] = "root"

\* The loops over connected_clients are bounded by a descriptor, not by the
\* number of rows: still the first reaches every client, select() is asked about
\* every one, and only about descriptors that are open.
EveryClientWatched == pc = "select" /\ Intact =>
    /\ Watchable
    /\ \A k \in Held : k < Bound /\ connected_clients[k].socket <= Bound

\* read_fds is computed at the head of the round and used after connections
\* were accepted and closed: still a row the scan reads from is a client's and
\* has something to read, so that the read does not block main.
ScanNeverBlocks == Intact =>
    \A k \in Slots : Scans(k) =>
        /\ owner[Row(k).socket] \in Clients
        /\ inbox[owner[Row(k).socket]] # <<>> \/ peer[owner[Row(k).socket]] # "open"

\* What the properties above rest on.

\* A connection that waits in the queue is in no other place, and the server
\* has not answered it.
Queued ==
    /\ \A m, n \in DOMAIN pending : pending[m] = pending[n] => m = n
    /\ \A n \in DOMAIN pending : /\ peer[pending[n]] # "none" /\ told[pending[n]] = "nothing"
                                 /\ ~Serves(pending[n])
    /\ pc = "accept" => pending # <<>>

\* A connection has one descriptor.
Apart ==
    /\ \A f, g \in Fds : owner[f] \in Clients /\ owner[f] = owner[g] => f = g
    /\ \A f \in Fds : owner[f] \in Clients => peer[owner[f]] # "none"

\* Until the server has answered, nothing but the credentials was sent.
Introduced ==
    /\ \A c \in Clients : told[c] = "nothing" =>
           inbox[c] = <<>> \/ (cred[c] # "none" /\ inbox[c] = <<cred[c]>>)
    /\ \A c \in Clients : peer[c] = "none" => told[c] = "nothing"
    /\ pc = "auth" => Guest \in Clients /\ told[Guest] = "nothing"

\* The process's listener and pipes are never closed or taken for a client's.
Standing ==
    /\ \A f \in 1 .. EmergencyFd : owner[f] = Own
    /\ \A k \in Slots : connected_clients[k].socket \notin 1 .. EmergencyFd
    /\ client_socket \notin 1 .. EmergencyFd

\* There are no sockets in the rows past the end, and there is one more row for
\* the connection that auth_client looks at.
Packed ==
    /\ \A k \in Slots \ Held : connected_clients[k].socket = 0
    /\ pc = "auth" => num_connected_clients < MaxClients

\* What client_socket is while a connection is accepted: not a row's socket.
Seated == Running /\ Intact =>
    /\ pc = "accept" /\ num_connected_clients = MaxClients => client_socket = 0
    /\ pc = "auth" => /\ client_socket > EmergencyFd
                      /\ \A k \in Held : connected_clients[k].socket # client_socket

\* read_fds tells the truth about the rows that are still to be scanned.
Fresh == Intact =>
    /\ pc = "accept" => \A f \in read_fds : owner[f] # Free
    /\ pc = "auth" => client_socket \notin read_fds
    /\ pc \in {"accept", "auth", "scan"} =>
           \A k \in Held : i <= k /\ connected_clients[k].socket \in read_fds =>
               LET c == owner[connected_clients[k].socket]
               IN  inbox[c] # <<>> \/ peer[c] # "open"

\* The inductive invariant: together with the above, the table describes the
\* connections, the roles are earned and the scan reads only what is there.
LabInv == /\ TypeOK /\ Queued /\ Apart /\ Introduced /\ Standing /\ Packed
          /\ TableInv /\ Seated /\ RolesEarned /\ SuppliesByRoot /\ Fresh

\* When handle_emergencies has run, no client is connected any more and those
\* in the table were told (as long as stdin was not closed).
EmergencyEvicts ==
    [][emergencyPipe' < emergencyPipe /\ Intact =>
        \A f \in Fds : /\ owner'[f] \notin Clients
                       /\ owner[f] \in Clients => told'[owner[f]] = "emergency"]_vars

\* The rounds of main, the rows and the descriptors amount to a Hub: whoever is let in
\* is served with its own rights until it leaves or there is an emergency, through
\* every shift of the rows and reuse of a descriptor, as long as stdin is open.
Members == {c \in Clients : \E k \in Held : owner[connected_clients[k].socket] = c}
Roots   == {c \in Clients : \E k \in Held : /\ owner[connected_clients[k].socket] = c
                                           /\ connected_clients[k].role = 1}
Left    == {c \in Clients : peer[c] \notin {"none", "open"}}

AsHub == INSTANCE Hub WITH Nobody <- Own, intact <- Intact, members <- Members, roots <- Roots,
                           shown <- cred, left <- Left, word <- told, author <- supplies
ImplementsHub == AsHub!Spec

\* An emergency in the pipe is read, whatever the clients do.
EmergencyHandled == emergencyPipe > 0 ~> (emergencyPipe = 0 \/ ~Running)

\* What a connected client sends is read, as long as stdin is open: the client that gets
\* descriptor 0 after a refusal at a full table is served and never read.
CommandsAreRead == \A c \in Clients :
    (Serves(c) /\ inbox[c] # <<>>) ~> (inbox[c] = <<>> \/ ~Serves(c) \/ ~Running \/ ~Intact)

\* Consigna.md: in an emergency "the server will close all the connections".
EmergencyClosesAll ==
    [][emergencyPipe' < emergencyPipe =>
        \A f \in Fds : owner'[f] \notin Clients]_vars

\* server.c, main: "If client disconnects, remove it from the
\* connected_clients data structure": the end of an authenticated client's
\* connection is not the end of the server.
ServerOutlivesClients == (\A c \in Clients : Serves(c) => told[c] = "welcome") => Running
=============================================================================
