---------------------------- MODULE RefugeServer ----------------------------
(***************************************************************************)
(* The TCP side of the refuge server (C++): main with its select() loop,   *)
(* one detached thread per accepted client, and the vector                 *)
(* connected_clients that all of them change without a lock.               *)
(*                                                                         *)
(* A client connects once, so client c stands for the connection and for   *)
(* the thread that handles it.  A thread knows its connection only by a    *)
(* descriptor; an emergency closes the descriptor under the thread, and    *)
(* the number may then designate somebody else's connection.  A thread     *)
(* that waits in recv() keeps the connection it entered with (held).       *)
(* Any free number may be given out, because the log, the zip file, the    *)
(* database and the HTTP server use numbers too.                           *)
(*                                                                         *)
(* Two overlapping accesses of the vector are a data race: from then on    *)
(* (torn) an access may lose entries, or end the process.                  *)
(*                                                                         *)
(* Replies are left out: they change nothing, a send() that fails is not   *)
(* looked at and SIGPIPE is ignored by the HTTP library.  The state        *)
(* summary is in RefugeStore, the image in ImageTransfer.                  *)
(***************************************************************************)
EXTENDS Naturals, FiniteSets

CONSTANTS
    Clients,        \* the connections clients make
    Family,         \* the listening socket each connects to
    Says,           \* what each may send
    Fds,            \* bound: the descriptors connections get
    MaxEmergencies, \* bound: emergencies waiting in the pipe
    Nobody          \* no client, no descriptor

Listeners == {"v4", "v6"}
Pipes     == {"alert", "emergency"}
Words     == {"exit", "login", "ubuntu", "set_supplies"}
Quiet     == "quiet"

ASSUME BoundAssumption  == IsFiniteSet(Fds) /\ Nobody \notin Fds /\ MaxEmergencies \in Nat
ASSUME ClientAssumption == /\ IsFiniteSet(Clients) /\ Nobody \notin Clients
                           /\ Family \in [Clients -> Listeners] /\ Says \in [Clients -> SUBSET Words]

VARIABLES
    mpc,               \* main: "round", "alerting", "evicting", or "exited"
    ready,             \* what is left of select()'s answer in this round
    todo,              \* the entries main's loop over the vector has still to reach
    connected_clients, \* the entries of the vector; nothing depends on their order
    torn,              \* two accesses of the vector have overlapped
    owner,             \* the connection a descriptor designates
    pending,           \* who waits at the two listening sockets
    tpc,               \* where the thread of a client is
    client_socket,     \* its parameter
    held,              \* the connection its blocked recv() reads from
    cleared,           \* the threads whose buffer was zeroed
    ubuntu,            \* the threads whose login succeeded
    peer,              \* the client's end of the connection
    inbox,             \* what the next recv() finds of the client's messages
    emergencies,       \* how many wait in the FIFO
    cut                \* history: an emergency has closed a descriptor

mainVars   == <<mpc, ready, todo>>
vectorVars == <<connected_clients, torn>>
threadVars == <<tpc, client_socket, held, cleared, ubuntu>>
clientVars == <<pending, peer, inbox>>
vars == <<mainVars, vectorVars, owner, threadVars, clientVars, emergencies, cut>>

----------------------------------------------------------------------------
Running == mpc # "exited"

\* The command loop, the three prompts inside it, and where a thread is listed.
Prompts   == {"username", "password", "supply"}
Reading   == {"loop"} \cup Prompts
Listed(c) == tpc[c] \in Reading \cup {"erasing"}
Live(c)   == tpc[c] \notin {"none", "done"}

\* exit() in any thread, a signal, or the return of main: the process and its sockets are gone.
Exit ==
    /\ mpc' = "exited" /\ ready' = {} /\ todo' = {}
    /\ connected_clients' = {} /\ torn' = FALSE
    /\ owner' = [f \in Fds |-> Nobody]
    /\ pending' = [l \in Listeners |-> {}]
    /\ tpc' = [c \in Clients |-> "done"]
    /\ client_socket' = [c \in Clients |-> Nobody]
    /\ held' = [c \in Clients |-> Nobody]
    /\ cleared' = {} /\ ubuntu' = {}
    /\ UNCHANGED <<peer, inbox, emergencies, cut>>

\* A thread's access of the vector (a push_back or an erase) that should make it v.  It may
\* overlap with main's loop over the vector, or with the access another thread is about to
\* make; from then on entries may be lost.
MainInside == mpc \in {"alerting", "evicting"}
Others(c)  == \E d \in Clients \ {c} : tpc[d] \in {"start", "erasing"}
Outcomes(v) == IF torn' THEN SUBSET (connected_clients \cup v) ELSE {v}
Access(c, v) == /\ torn' \in {torn \/ MainInside, torn \/ MainInside \/ Others(c)}
                /\ connected_clients' \in Outcomes(v)

----------------------------------------------------------------------------
\* Clients and producers.

Connect(c) ==
    /\ peer[c] = "idle"
    /\ peer' = [peer EXCEPT ![c] = "open"]
    /\ pending' = [pending EXCEPT ![Family[c]] = @ \cup {c}]
    /\ UNCHANGED <<mainVars, vectorVars, owner, threadVars, inbox, emergencies, cut>>

\* One recv() takes all that waits: messages sent close together are no command.
Send(c, w) ==
    /\ peer[c] = "open"
    /\ inbox' = [inbox EXCEPT ![c] = IF @ = Quiet THEN w ELSE "other"]
    /\ UNCHANGED <<mainVars, vectorVars, owner, threadVars, pending, peer, emergencies, cut>>

Leave(c) ==
    /\ peer[c] = "open"
    /\ peer' = [peer EXCEPT ![c] = "gone"]
    /\ UNCHANGED <<mainVars, vectorVars, owner, threadVars, pending, inbox, emergencies, cut>>

\* run_emergencies: a line into the FIFO from time to time.
Emergency ==
    /\ emergencies < MaxEmergencies
    /\ emergencies' = emergencies + 1
    /\ UNCHANGED <<mainVars, vectorVars, owner, threadVars, clientVars, cut>>

----------------------------------------------------------------------------
\* One round of main.

Readable == {l \in Listeners : pending[l] # {}} \cup (IF emergencies > 0 THEN {"emergency"} ELSE {})

Select ==
    /\ mpc = "round" /\ ready = {}
    /\ ready' \in {Readable, Readable \cup {"alert"}}
    /\ ready' # {}
    /\ UNCHANGED <<mpc, todo, vectorVars, owner, threadVars, clientVars, emergencies, cut>>

\* The four tests of a round come in this order.
Before   == [v4 |-> {}, v6 |-> {"v4"}, alert |-> Listeners, emergency |-> Listeners \cup {"alert"}]
Turn(x)  == mpc = "round" /\ x \in ready /\ ready \cap Before[x] = {}

\* accept() and the thread of the new connection.  Handshakes end in any order.
Accept(l, c, f) ==
    /\ Turn(l) /\ c \in pending[l] /\ owner[f] = Nobody
    /\ owner' = [owner EXCEPT ![f] = c]
    /\ client_socket' = [client_socket EXCEPT ![c] = f]
    /\ tpc' = [tpc EXCEPT ![c] = "start"]
    /\ pending' = [pending EXCEPT ![l] = @ \ {c}]
    /\ ready' = ready \ {l}
    /\ UNCHANGED <<mpc, todo, vectorVars, held, cleared, ubuntu, peer, inbox, emergencies, cut>>

\* No descriptor is left: main returns, and with it the process ends.
AcceptFails(l) == Turn(l) /\ Exit

\* read() takes all that waits in the FIFO, at least one message.
ReadPipe(p, next) ==
    /\ Turn(p)
    /\ emergencies' = IF p = "emergency" THEN 0 ELSE emergencies
    /\ mpc' = next /\ todo' = connected_clients /\ ready' = ready \ {p}
    /\ UNCHANGED <<vectorVars, owner, threadVars, clientVars, cut>>

\* A producer that has ended: its FIFO is readable and read() returns 0.
ReadsEnd == mpc = "round" /\ ready = {} /\ Exit

\* handle_alerts: a send() to every entry.
HandleAlerts == ReadPipe("alert", "alerting")

AlertsSent ==
    /\ mpc = "alerting" /\ mpc' = "round" /\ todo' = {}
    /\ UNCHANGED <<ready, vectorVars, owner, threadVars, clientVars, emergencies, cut>>

\* handle_emergency and disconnect_all_clients: "exit" to every entry, which is closed.
HandleEmergency == ReadPipe("emergency", "evicting")

\* Mutant: the loop stops before the last entry.
EvictAllButLast ==
    /\ mpc = "evicting"
    /\ \E f \in todo : /\ owner' = IF todo = {f} THEN owner ELSE [owner EXCEPT ![f] = Nobody]
                       /\ todo' = todo \ {f}
    /\ cut' = TRUE
    /\ UNCHANGED <<mpc, ready, vectorVars, threadVars, clientVars, emergencies>>

Evict ==
    /\ mpc = "evicting"
    /\ \E f \in todo : owner' = [owner EXCEPT ![f] = Nobody] /\ todo' = todo \ {f}
    /\ cut' = TRUE
    /\ UNCHANGED <<mpc, ready, vectorVars, threadVars, clientVars, emergencies>>

\* The loop ends behind the last entry, or, after a race, before.
ClearVector ==
    /\ mpc = "evicting" /\ (todo = {} \/ torn)
    /\ torn' = torn /\ connected_clients' \in Outcomes({})
    /\ mpc' = "round" /\ todo' = {}
    /\ UNCHANGED <<ready, owner, threadVars, clientVars, emergencies, cut>>

----------------------------------------------------------------------------
\* handle_client in the thread of client c.

\* getpeername() answers for whatever connection the number designates; it fails for a
\* closed number, and for a client that has reset the connection.
Named(c)   == owner[client_socket[c]] # Nobody
Unnamed(c) == Named(c) => peer[owner[client_socket[c]]] = "gone"

\* The thread has ended, and its locals with it.
End(c) == /\ tpc' = [tpc EXCEPT ![c] = "done"]
          /\ client_socket' = [client_socket EXCEPT ![c] = Nobody]
          /\ cleared' = cleared \ {c} /\ ubuntu' = ubuntu \ {c}

\* Mutant: the early return forgets to close the socket.
NoNameLeaks(c) ==
    /\ tpc[c] = "start" /\ Unnamed(c) /\ End(c)
    /\ UNCHANGED <<mainVars, vectorVars, owner, held, clientVars, emergencies, cut>>

NoName(c) ==
    /\ tpc[c] = "start" /\ Unnamed(c) /\ End(c)
    /\ owner' = [owner EXCEPT ![client_socket[c]] = Nobody]
    /\ UNCHANGED <<mainVars, vectorVars, held, clientVars, emergencies, cut>>

Push(c) ==
    /\ tpc[c] = "start" /\ Named(c)
    /\ Access(c, connected_clients \cup {client_socket[c]})
    /\ tpc' = [tpc EXCEPT ![c] = "loop"]
    /\ UNCHANGED <<mainVars, owner, client_socket, held, cleared, ubuntu, clientVars,
                   emergencies, cut>>

\* recv() with the number of an open connection: the thread waits for its data.
Receive(c) ==
    /\ tpc[c] \in Reading /\ held[c] = Nobody
    /\ owner[client_socket[c]] # Nobody
    /\ held' = [held EXCEPT ![c] = owner[client_socket[c]]]
    /\ UNCHANGED <<mainVars, vectorVars, owner, tpc, client_socket, cleared, ubuntu,
                   clientVars, emergencies, cut>>

\* recv() returns no data: the number is not open, or the client has left.
Fails(c) ==
    \/ held[c] = Nobody /\ owner[client_socket[c]] = Nobody
    \/ held[c] # Nobody /\ inbox[held[c]] = Quiet /\ peer[held[c]] = "gone"

\* Mutant: the socket is closed where the connection is found lost, and again at the end.
LeaveLoopClosing(c) ==
    /\ tpc[c] = "loop" /\ Fails(c)
    /\ tpc' = [tpc EXCEPT ![c] = "erasing"]
    /\ owner' = [owner EXCEPT ![client_socket[c]] = Nobody]
    /\ held' = [held EXCEPT ![c] = Nobody]
    /\ UNCHANGED <<mainVars, vectorVars, client_socket, cleared, ubuntu, clientVars, emergencies, cut>>

\* In the command loop the thread ends; in a prompt it ends the process.
LeaveLoop(c) ==
    /\ tpc[c] = "loop" /\ Fails(c)
    /\ tpc' = [tpc EXCEPT ![c] = "erasing"]
    /\ held' = [held EXCEPT ![c] = Nobody]
    /\ UNCHANGED <<mainVars, vectorVars, owner, client_socket, cleared, ubuntu, clientVars, emergencies, cut>>

PromptFails(c) == tpc[c] \in Prompts /\ Fails(c) /\ Exit

\* recv() returns what waits in the connection.
Word(c)  == inbox[held[c]]
Takes(c) == /\ held[c] # Nobody /\ inbox[held[c]] # Quiet
            /\ held' = [held EXCEPT ![c] = Nobody]
            /\ inbox' = [inbox EXCEPT ![held[c]] = Quiet]
            /\ UNCHANGED <<mainVars, owner, client_socket, pending, peer, emergencies, cut>>

\* "exit" is compared before the terminator is written: on the first message what
\* lies in the buffer behind it decides.
ExitCommand(c) ==
    /\ tpc[c] = "loop" /\ Takes(c) /\ Word(c) = "exit"
    /\ tpc' = [tpc EXCEPT ![c] = "erasing"]
    /\ UNCHANGED <<vectorVars, cleared, ubuntu>>

\* Where the handler of a command goes.
After(c) == IF Word(c) = "login" THEN "username"
            ELSE IF Word(c) = "set_supplies" /\ c \in ubuntu THEN "supply"
            ELSE "loop"

Command(c) ==
    /\ tpc[c] = "loop" /\ Takes(c) /\ (Word(c) = "exit" => c \notin cleared)
    /\ tpc' = [tpc EXCEPT ![c] = After(c)]
    /\ cleared' = cleared \cup {c}
    /\ UNCHANGED <<vectorVars, ubuntu>>

\* client_login_with_bool_return: a name, then a password.
Username(c) ==
    /\ tpc[c] = "username" /\ Takes(c)
    /\ tpc' = [tpc EXCEPT ![c] = IF Word(c) = "ubuntu" THEN "password" ELSE "loop"]
    /\ UNCHANGED <<vectorVars, cleared, ubuntu>>

\* Mutant: the result of the login goes into the flag all sessions share.
PasswordForAll(c) ==
    /\ tpc[c] = "password" /\ Takes(c)
    /\ tpc' = [tpc EXCEPT ![c] = "loop"]
    /\ ubuntu' = IF Word(c) = "ubuntu" THEN Clients ELSE ubuntu
    /\ UNCHANGED <<vectorVars, cleared>>

Password(c) ==
    /\ tpc[c] = "password" /\ Takes(c)
    /\ tpc' = [tpc EXCEPT ![c] = "loop"]
    /\ ubuntu' = IF Word(c) = "ubuntu" THEN ubuntu \cup {c} ELSE ubuntu
    /\ UNCHANGED <<vectorVars, cleared>>

\* set_supplies: the answer to the prompt goes to modify_supplies.
Supply(c) ==
    /\ tpc[c] = "supply" /\ Takes(c)
    /\ tpc' = [tpc EXCEPT ![c] = "loop"]
    /\ UNCHANGED <<vectorVars, cleared, ubuntu>>

\* Mutant: remove_if() without erase() leaves the entries in the vector.
EraseNothing(c) ==
    /\ tpc[c] = "erasing"
    /\ Access(c, connected_clients)
    /\ tpc' = [tpc EXCEPT ![c] = "closing"]
    /\ UNCHANGED <<mainVars, owner, client_socket, held, cleared, ubuntu, clientVars,
                   emergencies, cut>>

Erase(c) ==
    /\ tpc[c] = "erasing"
    /\ Access(c, connected_clients \ {client_socket[c]})
    /\ tpc' = [tpc EXCEPT ![c] = "closing"]
    /\ UNCHANGED <<mainVars, owner, client_socket, held, cleared, ubuntu, clientVars,
                   emergencies, cut>>

\* close() of the number, whatever it designates by now.
Close(c) ==
    /\ tpc[c] = "closing" /\ End(c)
    /\ owner' = [owner EXCEPT ![client_socket[c]] = Nobody]
    /\ UNCHANGED <<mainVars, vectorVars, held, clientVars, emergencies, cut>>

\* A race may also end the process.
Fault == torn /\ Exit

----------------------------------------------------------------------------
Init ==
    /\ mpc = "round" /\ ready = {} /\ todo = {}
    /\ connected_clients = {} /\ torn = FALSE
    /\ owner = [f \in Fds |-> Nobody]
    /\ pending = [l \in Listeners |-> {}]
    /\ tpc = [c \in Clients |-> "none"]
    /\ client_socket = [c \in Clients |-> Nobody]
    /\ held = [c \in Clients |-> Nobody]
    /\ cleared = {} /\ ubuntu = {}
    /\ peer = [c \in Clients |-> "idle"]
    /\ inbox = [c \in Clients |-> Quiet]
    /\ emergencies = 0
    /\ cut = FALSE

Main == \/ Select
        \/ \E l \in Listeners : AcceptFails(l) \/ \E c \in Clients, f \in Fds : Accept(l, c, f)
        \/ ReadsEnd \/ HandleAlerts \/ AlertsSent \/ HandleEmergency \/ Evict \/ ClearVector

Thread(c) == \/ NoName(c) \/ Push(c) \/ Receive(c)
             \/ LeaveLoop(c) \/ PromptFails(c) \/ ExitCommand(c) \/ Command(c)
             \/ Username(c) \/ Password(c) \/ Supply(c) \/ Erase(c) \/ Close(c)

Environment == \/ \E c \in Clients : Connect(c) \/ Leave(c) \/ \E w \in Says[c] : Send(c, w)
               \/ Emergency

Next == Running /\ (Environment \/ Main \/ Fault \/ \E c \in Clients : Thread(c))

Spec == Init /\ [][Next]_vars

----------------------------------------------------------------------------
(* Properties *)

\* The types of the variables.
TypeOK ==
    /\ mpc \in {"round", "alerting", "evicting", "exited"}
    /\ ready \subseteq Listeners \cup Pipes
    /\ todo \subseteq Fds /\ connected_clients \subseteq Fds /\ torn \in BOOLEAN
    /\ owner \in [Fds -> Clients \cup {Nobody}]
    /\ pending \in [Listeners -> SUBSET Clients]
    /\ tpc \in [Clients -> {"none", "start", "erasing", "closing", "done"} \cup Reading]
    /\ client_socket \in [Clients -> Fds \cup {Nobody}]
    /\ held \in [Clients -> Clients \cup {Nobody}]
    /\ cleared \subseteq Clients /\ ubuntu \subseteq Clients
    /\ peer \in [Clients -> {"idle", "open", "gone"}]
    /\ inbox \in [Clients -> Words \cup {Quiet, "other"}]
    /\ emergencies \in Nat
    /\ cut \in BOOLEAN

\* A connection waits at one listening socket and has no thread yet; a thread has a number.
Waiting ==
    /\ \A l \in Listeners : \A c \in pending[l] : tpc[c] = "none" /\ peer[c] # "idle"
    /\ pending["v4"] \cap pending["v6"] = {}
    /\ \A c \in Clients : peer[c] = "idle" => tpc[c] = "none" \/ ~Running
    /\ \A c \in Clients : Live(c) => client_socket[c] \in Fds
    /\ \A c \in Clients : held[c] # Nobody => tpc[c] \in Reading
    /\ \A c \in Clients : inbox[c] \in Says[c] \cup {Quiet, "other"}

\* An open descriptor belongs to a client whose thread will still close it: none is leaked,
\* neither by the early return of handle_client nor by an emergency.
NumbersMatch ==
    \A f \in Fds : owner[f] # Nobody => Live(owner[f]) /\ client_socket[owner[f]] = f

\* Until two accesses have overlapped, the vector lists only numbers of threads that are
\* still to take them out, although an emergency clears it under them.
EntriesHaveThreads ==
    ~torn => \A n \in connected_clients :
                 \E c \in Clients : Listed(c) /\ client_socket[c] = n

\* While main disconnects everybody, the entries it has passed are closed.
PassedAreClosed ==
    ~torn /\ mpc = "evicting" =>
        \A f \in connected_clients \ todo : owner[f] = Nobody

\* Some thread has taken the number out of the vector and is about to close it.
BeingClosed(f) == \E d \in Clients : tpc[d] = "closing" /\ client_socket[d] = f

\* A connected client that a thread serves is in the vector, so alerts and emergencies
\* reach it, or its number is about to be closed by a thread that had it before.
NoClientOverlooked ==
    ~torn => \A c \in Clients :
        Listed(c) /\ owner[client_socket[c]] = c =>
            client_socket[c] \in connected_clients \/ BeingClosed(client_socket[c])

\* Until the first emergency closes a descriptor under a thread, every thread
\* reads from and closes its own client's connection.
RightConnection ==
    ~cut => \A c \in Clients :
        Live(c) => owner[client_socket[c]] = c /\ held[c] \in {c, Nobody}

\* Until the first emergency closes a descriptor under a thread, only a client that gives
\* the name and the password itself gets to the prompt for supplies: nobody takes over
\* another client's login.
RolesEarned ==
    ~cut => \A c \in Clients :
        /\ c \in ubuntu => "ubuntu" \in Says[c]
        /\ tpc[c] = "supply" => c \in ubuntu

\* The inductive invariant.
ServerInv == /\ TypeOK /\ Waiting
             /\ NumbersMatch /\ EntriesHaveThreads /\ PassedAreClosed /\ NoClientOverlooked
             /\ RightConnection /\ RolesEarned

\* When disconnect_all_clients has ended (and no accesses overlapped), a client that is
\* still connected was accepted but not yet in the vector, or is being closed anyway.
OnlyNewcomersSurvive ==
    [][mpc = "evicting" /\ mpc' = "round" /\ ~torn =>
        \A f \in Fds : owner'[f] # Nobody => tpc[owner[f]] = "start" \/ BeingClosed(f)]_vars
=============================================================================
