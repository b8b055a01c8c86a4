-------------------------------- MODULE Hub --------------------------------
(***************************************************************************)
(* What a server that clients connect to promises, without sockets, rows   *)
(* and rounds: a client that shows credentials is let in with the rights   *)
(* they give, or refused; it stays until it leaves or everybody is sent    *)
(* away in an emergency; the supplies are changed by those who may.        *)
(*                                                                         *)
(* Nothing is promised any more once the process has lost its own          *)
(* descriptors (intact).                                                   *)
(***************************************************************************)
CONSTANTS Clients, Nobody

VARIABLES
    intact,  \* the process has not damaged itself
    members, \* the clients that were let in and are served
    roots,   \* those of them with the rights of root
    shown,   \* the credentials each client has shown
    left,    \* the clients that have ended their connection
    word,    \* the last word each client was told
    author   \* who last changed the supplies

hubVars == <<intact, members, roots, shown, left, word, author>>

Show(c) ==
    /\ shown[c] = "none" /\ c \notin left
    /\ \E s \in {"root", "hostname", "wrong"} : shown' = [shown EXCEPT ![c] = s]
    /\ UNCHANGED <<intact, members, roots, left, word, author>>

Hang(c) ==
    /\ left' = left \cup {c}
    /\ UNCHANGED <<intact, members, roots, shown, word, author>>

\* A client is let in once, on what it has shown; it may have left again by then.
Admit(c) ==
    /\ c \notin members /\ word[c] = "nothing" /\ shown[c] \in {"root", "hostname"}
    /\ members' = members \cup {c}
    /\ roots' = IF shown[c] = "root" THEN roots \cup {c} ELSE roots
    /\ word' = [word EXCEPT ![c] = "welcome"]
    /\ UNCHANGED <<intact, shown, left, author>>

Refuse(c) ==
    /\ c \notin members /\ word[c] = "nothing" /\ shown[c] = "wrong"
    /\ word' = [word EXCEPT ![c] = "denied"]
    /\ UNCHANGED <<intact, members, roots, shown, left, author>>

\* Only who has left is dropped, and with it go its rights and no one else's.
Lose(c) ==
    /\ c \in members \cap left
    /\ members' = members \ {c} /\ roots' = roots \ {c}
    /\ UNCHANGED <<intact, shown, left, word, author>>

\* An emergency: all are told, and all disconnected.
Evacuate ==
    /\ word' = [c \in Clients |-> IF c \in members THEN "emergency" ELSE word[c]]
    /\ members' = {} /\ roots' = {}
    /\ UNCHANGED <<intact, shown, left, author>>

Change(c) ==
    /\ c \in roots /\ author' = c
    /\ UNCHANGED <<intact, members, roots, shown, left, word>>

\* The process closes a descriptor it needs: anything may follow.
Damage == intact' = FALSE

Init ==
    /\ intact = TRUE /\ members = {} /\ roots = {} /\ left = {} /\ author = Nobody
    /\ shown = [c \in Clients |-> "none"] /\ word = [c \in Clients |-> "nothing"]

Next == \/ \E c \in Clients : \/ Show(c) \/ Hang(c) \/ Admit(c) \/ Refuse(c) \/ Lose(c)
                              \/ Change(c)
        \/ Evacuate \/ Damage

Spec == Init /\ [][Next]_hubVars
=============================================================================
