-------------------------- MODULE LabServerProofs --------------------------
(***************************************************************************)
(* Proofs about the select() server, for any clients and any size of the   *)
(* table: LabInv is inductive, every client is watched, the scan never     *)
(* blocks and an emergency disconnects everybody.                          *)
(***************************************************************************)
EXTENDS LabServer, FiniteSetTheorems, TLAPS

\* A nonempty set of small numbers has a maximum: the set of those above it is
\* minimal, and strict inclusion of finite sets is well-founded.
LEMMA MaxExists ==
    ASSUME NEW n \in Nat, NEW S \in SUBSET (0 .. n), S # {}
    PROVE  Max(S) \in S /\ \A y \in S : Max(S) >= y
  <1> DEFINE Above(x) == {y \in S : y > x}
             R == StrictSubsetOrdering(S)
             T == {Above(x) : x \in S}
  <1>1. IsFiniteSet(S) BY FS_Interval, FS_Subset, 0 \in Int, n \in Int
  <1>2. T \subseteq FiniteSubsetsOf(S) /\ T # {}
    <2>1. \A x \in S : Above(x) \in SUBSET S OBVIOUS
    <2> HIDE DEF Above
    <2>2. \A x \in S : IsFiniteSet(Above(x)) BY <2>1, <1>1, FS_Subset
    <2> QED BY <2>1, <2>2 DEF FiniteSubsetsOf
  <1>3. IsWellFoundedOn(R, FiniteSubsetsOf(S)) BY FS_StrictSubsetOrderingWellFounded
  <1>4. PICK t \in T : \A u \in T : ~(<<u, t>> \in R)
    <2> HIDE DEF T, R
    <2> QED BY <1>2, <1>3, WFMin
  <1>5. PICK x \in S : t = Above(x) BY <1>4
  <1>6. \A y \in S : x >= y
    <2> SUFFICES ASSUME NEW y \in S, y > x PROVE FALSE OBVIOUS
    <2>0. \A z \in S : z \in Int OBVIOUS
    <2>1. Above(y) \subseteq Above(x) /\ y \in Above(x) /\ y \notin Above(y)
      <3>1. \A z \in S : z > y => z > x BY <2>0
      <3>2. ~(y > y) BY <2>0
      <3> QED BY <3>1, <3>2
    <2>2. Above(y) \in T /\ Above(y) \in SUBSET S /\ Above(x) \in SUBSET S OBVIOUS
    <2> HIDE DEF Above
    <2>3. <<Above(y), Above(x)>> \in R BY <2>1, <2>2 DEF StrictSubsetOrdering
    <2> HIDE DEF T, R
    <2> QED BY <2>2, <2>3, <1>4, <1>5
  <1> QED BY <1>5, <1>6 DEF Max

\* Distinct descriptors above EmergencyFd: the largest is as far up as they are many.
LEMMA HighDescriptor ==
    ASSUME NEW n \in Nat, NEW s \in [0 .. n -> Nat],
           \A k \in 0 .. n : s[k] > EmergencyFd,
           \A k, l \in 0 .. n : s[k] = s[l] => k = l
    PROVE  \E k \in 0 .. n : s[k] > n + EmergencyFd
  <1> SUFFICES ASSUME \A k \in 0 .. n : s[k] <= n + EmergencyFd PROVE FALSE
    BY DEF EmergencyFd
  <1> DEFINE S == 0 .. n
             T == 4 .. n + 3
  <1>1. s \in [S -> T] BY DEF EmergencyFd
  <1>2. IsFiniteSet(S) /\ Cardinality(S) = n + 1 BY FS_Interval, 0 \in Int, n \in Int
  <1>3. IsFiniteSet(T) /\ Cardinality(T) = n
    <2>1. CASE n = 0
      <3>1. T = {} BY <2>1
      <3> QED BY <3>1, <2>1, FS_EmptySet
    <2>2. CASE n > 0 BY <2>2, FS_Interval, 4 \in Int, n + 3 \in Int
    <2> QED BY <2>1, <2>2
  <1> HIDE DEF S, T
  <1>4. \E x, y \in S : x # y /\ s[x] = s[y] BY <1>1, <1>2, <1>3, FS_PigeonHole
  <1> QED BY <1>4 DEF S

\* The scaled numbers of the model, as facts.
LEMMA Sizes == /\ MaxClients \in Nat \ {0} /\ LastFd \in Nat /\ LastFd >= MaxClients + 3
               /\ ServerFd \in Fds /\ AlertFd \in Fds /\ EmergencyFd \in Fds /\ 0 \in Fds
               /\ Fds \subseteq Nat /\ Slots \subseteq Nat
  <1> QED BY SizeAssumption DEF Fds, Slots, ServerFd, AlertFd, EmergencyFd

\* A row, also past the end of the array, holds a descriptor and a role.
LEMMA RowType == ASSUME TypeOK PROVE \A k : Row(k) \in [socket : Fds, role : {0, 1}]
  <1> QED BY Sizes DEF TypeOK, Row, Empty

\* max_socket_fd is a descriptor, and no smaller than a row the loop reached.
LEMMA BoundIsMax ==
    ASSUME TypeOK
    PROVE  /\ Bound \in Fds /\ Bound >= EmergencyFd
           /\ \A k \in Slots : Reached(k) => connected_clients[k].socket <= Bound
  <1> DEFINE S == {EmergencyFd} \cup {Row(k).socket : k \in {l \in Slots : Reached(l)}}
  <1>1. S \in SUBSET (0 .. LastFd) /\ S # {} BY RowType, Sizes DEF Fds
  <1>2. \A k \in Slots : Reached(k) => connected_clients[k].socket \in S BY DEF Row
  <1>3. Bound = Max(S) BY DEF Bound
  <1>4. EmergencyFd \in S OBVIOUS
  <1> HIDE DEF S
  <1>5. Max(S) \in S /\ \A y \in S : Max(S) >= y BY <1>1, MaxExists, Sizes
  <1>6. \A y \in S : y \in Int /\ Max(S) \in Int /\ y <= Max(S) BY <1>5, <1>1, Sizes, 0 .. LastFd \subseteq Int
  <1> QED BY <1>1, <1>2, <1>3, <1>4, <1>5, <1>6 DEF Fds

\* Every row in use is reached by the loop, and lies below the bound.
LEMMA RowsReached ==
    ASSUME TypeOK, TableInv, Running, Intact
    PROVE  \A k \in Held : /\ Reached(k)
                           /\ k + EmergencyFd < Bound
                           /\ connected_clients[k].socket <= Bound
  <1> DEFINE sock(k) == connected_clients[k].socket
  <1>0. num_connected_clients \in 0 .. MaxClients BY DEF TypeOK
  <1>1. \A k \in Held : k \in Nat /\ 0 .. k \subseteq Held BY <1>0, Sizes DEF Held, Slots
  <1>2. ASSUME NEW k \in Held PROVE \E l \in 0 .. k : sock(l) > k + EmergencyFd
    <2> DEFINE s == [l \in 0 .. k |-> sock(l)]
    <2>1. \A l \in 0 .. k : l \in Held /\ sock(l) \in Nat /\ sock(l) > EmergencyFd
      BY <1>1, <1>2, Sizes DEF TableInv, TypeOK, Held
    <2>2. \A l, m \in 0 .. k : s[l] = s[m] => l = m BY <2>1 DEF TableInv
    <2>3. s \in [0 .. k -> Nat] /\ \A l \in 0 .. k : s[l] > EmergencyFd BY <2>1
    <2>4. k \in Nat BY <1>1, <1>2
    <2> HIDE DEF s
    <2>5. PICK l \in 0 .. k : s[l] > k + EmergencyFd BY <2>2, <2>3, <2>4, HighDescriptor
    <2> QED BY <2>5 DEF s
  <1>3. ASSUME NEW k \in Held PROVE Reached(k)
    <2> SUFFICES ASSUME NEW j \in 0 .. k, EmergencyFd <= j
                 PROVE  \E l \in Slots : l < j /\ Row(l).socket > j
      BY <1>1, <1>3 DEF Reached, EmergencyFd
    <2>1. j - 1 \in Held BY <1>1, <1>3 DEF EmergencyFd
    <2>2. PICK l \in 0 .. j - 1 : sock(l) > j - 1 + EmergencyFd BY <2>1, <1>2
    <2>3. l \in Held /\ l \in Slots BY <2>1, <1>1 DEF Held
    <2>4. sock(l) \in Nat BY <2>3, Sizes DEF TypeOK
    <2> QED BY <2>2, <2>3, <2>4 DEF Row, EmergencyFd
  <1>4. ASSUME NEW k \in Held PROVE k + EmergencyFd < Bound /\ sock(k) <= Bound
    <2>1. sock(k) <= Bound BY <1>3, <1>4, BoundIsMax DEF Held
    <2>2. PICK l \in 0 .. k : sock(l) > k + EmergencyFd BY <1>4, <1>2
    <2>3. l \in Held /\ l \in Slots BY <1>4, <1>1 DEF Held
    <2>4. sock(l) <= Bound BY <2>3, <1>3, BoundIsMax
    <2>5. sock(l) \in Nat /\ Bound \in Nat BY <2>3, BoundIsMax, Sizes DEF TypeOK
    <2> QED BY <2>1, <2>2, <2>4, <2>5, <1>1, <1>4 DEF EmergencyFd
  <1> QED BY <1>3, <1>4

\* At a full table the last row the loop looks at lies past the end of the array.
LEMMA FullBound ==
    ASSUME TypeOK, TableInv, Running, Intact, num_connected_clients = MaxClients
    PROVE  Row(Bound - 1) = Empty
  <1>1. MaxClients - 1 \in Held BY Sizes DEF Held, Slots
  <1>2. MaxClients - 1 + EmergencyFd < Bound BY <1>1, RowsReached
  <1>3. Bound \in Nat BY BoundIsMax, Sizes
  <1> QED BY <1>2, <1>3, Sizes DEF Row, Slots, EmergencyFd

----------------------------------------------------------------------------
Words == {"root", "hostname", "wrong", "modify", "state", "other"}

\* The states that clients, the kernel's bookkeeping and the producers keep.
OutsideType ==
    /\ pending \in Seq(Clients)
    /\ peer \in [Clients -> {"none", "open", "closed", "reset", "gone"}]
    /\ inbox \in [Clients -> Seq(Words)]
    /\ told \in [Clients -> {"nothing", "welcome", "denied", "emergency"}]
    /\ cred \in [Clients -> {"none", "root", "hostname", "wrong"}]
    /\ alertPipe \in Nat /\ emergencyPipe \in Nat

ServerType ==
    /\ pc \in {"select", "accept", "auth", "scan", "alerts", "emergency", "exited"}
    /\ i \in Nat /\ max_socket_fd \in Fds /\ client_socket \in Fds /\ read_fds \subseteq Fds
    /\ connected_clients \in [Slots -> [socket : Fds, role : {0, 1}]]
    /\ num_connected_clients \in 0 .. MaxClients
    /\ owner \in [Fds -> Clients \cup {Own, Free}]
    /\ supplies \in Clients \cup {Own}

\* Type correctness in two halves: what main keeps and what the others keep.
LEMMA TypeParts == TypeOK <=> OutsideType /\ ServerType
  <1> QED BY DEF TypeOK, OutsideType, ServerType, Words

\* select() is asked about descriptors.
LEMMA WatchedType == TypeOK => Watched \subseteq Fds
  <1> QED BY RowType, Sizes DEF Watched

\* Sending opens no connection and forgets none.
LEMMA AfterSendType ==
    ASSUME TypeOK, NEW S
    PROVE  /\ AfterSend(S) \in [Clients -> {"none", "open", "closed", "reset", "gone"}]
           /\ \A c \in Clients : /\ AfterSend(S)[c] = "none" <=> peer[c] = "none"
                                /\ AfterSend(S)[c] = "open" <=> peer[c] = "open"
  <1> QED BY DEF AfterSend, TypeOK

\* Rows move and are cleared: they stay rows.
LEMMA RemoveRowType ==
    ASSUME TypeOK, Packed, NEW k \in Slots, Hit(k), RemoveRow(k)
    PROVE  /\ connected_clients' \in [Slots -> [socket : Fds, role : {0, 1}]]
           /\ num_connected_clients' \in 0 .. MaxClients
           /\ k < num_connected_clients
  <1>1. connected_clients[k].socket # 0 BY DEF Hit, Row
  <1>2. k < num_connected_clients BY <1>1 DEF Packed, Held
  <1>3. num_connected_clients \in Nat /\ num_connected_clients \in 0 .. MaxClients /\ k \in Nat
    BY Sizes DEF TypeOK
  <1>4. num_connected_clients' \in 0 .. MaxClients
    BY <1>2, <1>3, Sizes DEF RemoveRow
  <1>5. Empty \in [socket : Fds, role : {0, 1}] BY Sizes DEF Empty
  <1>6. \A j \in Slots : connected_clients'[j] \in [socket : Fds, role : {0, 1}]
    <2> TAKE j \in Slots
    <2>1. CASE k <= j /\ j < num_connected_clients - 1
      <3>1. j + 1 \in Slots BY <2>1, <1>3, Sizes DEF Slots
      <3> QED BY <3>1, <1>5 DEF RemoveRow, TypeOK
    <2>2. CASE ~(k <= j /\ j < num_connected_clients - 1) BY <2>2, <1>5 DEF RemoveRow, TypeOK
    <2> QED BY <2>1, <2>2
  <1> QED BY <1>2, <1>4, <1>6 DEF RemoveRow

\* Type correctness: at the start, and through the steps of the others and of main.
LEMMA TypeInit == Init => TypeOK
  <1> SUFFICES ASSUME Init PROVE TypeOK OBVIOUS
  <1> USE DEF Init
  <1>1. connected_clients \in [Slots -> [socket : Fds, role : {0, 1}]] BY Sizes DEF Empty
  <1>2. owner \in [Fds -> Clients \cup {Own, Free}] OBVIOUS
  <1>3. pending \in Seq(Clients) /\ inbox \in [Clients -> Seq(Words)] OBVIOUS
  <1>4. OutsideType BY <1>3 DEF OutsideType
  <1>5. ServerType BY <1>1, <1>2, Sizes DEF ServerType
  <1> QED BY <1>4, <1>5, TypeParts

\* The steps that are not main's.
Outside == (\E c \in Clients : Client(c)) \/ Producers

LEMMA TypeOutside == ASSUME TypeOK, Outside PROVE (OutsideType /\ ServerType)'
  <1>1. OutsideType /\ ServerType BY TypeParts
  <1>2. server' = server
    BY DEF Outside, Client, Producers, Connect, SendCredentials, SendCommand, Close, Abort,
           WriteAlert, WriteEmergency
  <1>3. ServerType'
    <2>1. /\ pc' = pc /\ i' = i /\ max_socket_fd' = max_socket_fd /\ supplies' = supplies
          /\ client_socket' = client_socket /\ read_fds' = read_fds /\ owner' = owner
          /\ connected_clients' = connected_clients
          /\ num_connected_clients' = num_connected_clients
      BY <1>2 DEF server, locals, table
    <2> QED BY <1>1, <2>1 DEF ServerType
  <1>4. OutsideType'
    <2> USE <1>1 DEF OutsideType, pipes, sockets
    <2>1. ASSUME NEW c \in Clients, Connect(c) PROVE OutsideType' BY <2>1 DEF Connect
    <2>2. ASSUME NEW c \in Clients, SendCredentials(c) PROVE OutsideType'
      BY <2>2 DEF SendCredentials, Words
    <2>3. ASSUME NEW c \in Clients, SendCommand(c) PROVE OutsideType'
      BY <2>3 DEF SendCommand, Words
    <2>4. ASSUME NEW c \in Clients, Close(c) PROVE OutsideType' BY <2>4 DEF Close
    <2>5. ASSUME NEW c \in Clients, Abort(c) PROVE OutsideType' BY <2>5 DEF Abort
    <2>6. CASE Producers BY <2>6 DEF Producers, WriteAlert, WriteEmergency
    <2> QED BY <2>1, <2>2, <2>3, <2>4, <2>5, <2>6 DEF Outside, Client
  <1> QED BY <1>3, <1>4

LEMMA TypeMain == ASSUME TypeOK, Queued, Introduced, Packed, Main PROVE (OutsideType /\ ServerType)'
  <1>0. OutsideType /\ ServerType BY TypeParts
  <1> USE <1>0 DEF locals, table, sockets, pipes
  <1>1. CASE Exit BY <1>1 DEF Exit, OutsideType, ServerType
  <1>2. CASE Select
    <2>0. Row(Bound - 1) \in [socket : Fds, role : {0, 1}] BY RowType
    <2>1. Row(Bound - 1).socket \in Fds BY <2>0
    <2>2. OutsideType' BY <1>2 DEF Select, OutsideType
    <2>3. ServerType' BY <1>2, <2>1, BoundIsMax, WatchedType DEF Select, ServerType
    <2> QED BY <2>2, <2>3
  <1>3. CASE Accept
    <2>1. pending # <<>> BY <1>3 DEF Accept, Queued
    <2>2. Head(pending) \in Clients /\ Tail(pending) \in Seq(Clients) BY <2>1 DEF OutsideType
    <2>3. OutsideType' BY <1>3, <2>2 DEF Accept, OutsideType
    <2>4. ServerType' BY <1>3, <2>2 DEF Accept, ServerType
    <2> QED BY <2>3, <2>4
  <1>4. CASE TurnAway BY <1>4 DEF TurnAway, OutsideType, ServerType
  <1>5. CASE Authenticate
    <2> SUFFICES ASSUME ~Exit PROVE (OutsideType /\ ServerType)' BY <1>1
    <2>1. Guest \in Clients /\ num_connected_clients < MaxClients
      BY <1>5 DEF Authenticate, Introduced, Packed
    <2>2. Tail(inbox[Guest]) \in Seq(Words) BY <1>5, <2>1 DEF Authenticate, OutsideType
    <2>7. peer' = AfterSend({Guest}) BY <1>5 DEF Authenticate
    <2>8. inbox' \in [Clients -> Seq(Words)] BY <1>5, <2>1, <2>2 DEF Authenticate, OutsideType
    <2>3. OutsideType' BY <1>5, <2>1, <2>7, <2>8, AfterSendType DEF Authenticate, OutsideType
    <2>4. Join(0) \/ Join(1) BY <1>5 DEF Authenticate
    <2>5. /\ connected_clients' \in [Slots -> [socket : Fds, role : {0, 1}]]
          /\ num_connected_clients' \in 0 .. MaxClients
      BY <2>1, <2>4, Sizes DEF Join, ServerType
    <2>6. ServerType' BY <1>5, <2>5 DEF Authenticate, ServerType
    <2> QED BY <2>3, <2>6
  <1>6. CASE Deny
    <2> SUFFICES ASSUME ~Exit PROVE (OutsideType /\ ServerType)' BY <1>1
    <2>1. Guest \in Clients BY <1>6 DEF Deny, Introduced
    <2>4. peer' = AfterSend({Guest}) BY <1>6 DEF Deny
    <2>6. <<>> \in Seq(Words) OBVIOUS
    <2>7. inbox' = [inbox EXCEPT ![Guest] = <<>>] BY <1>6 DEF Deny
    <2>5. inbox' \in [Clients -> Seq(Words)] BY <2>1, <2>6, <2>7 DEF OutsideType
    <2>2. OutsideType' BY <1>6, <2>1, <2>4, <2>5, AfterSendType DEF Deny, OutsideType
    <2>3. ServerType' BY <1>6 DEF Deny, ServerType
    <2> QED BY <2>2, <2>3
  <1>7. CASE NoCredentials BY <1>1, <1>7 DEF NoCredentials, OutsideType, ServerType
  <1>8. ASSUME NEW k \in Slots, Command(k) PROVE (OutsideType /\ ServerType)'
    <2> DEFINE c == owner[Row(k).socket]
    <2>1. c \in Clients BY <1>8 DEF Command
    <2>2. OutsideType' BY <1>8, <2>1, AfterSendType DEF Command, OutsideType
    <2>3. i' \in Nat /\ pc' \in {"scan", "exited"} BY <1>8, Sizes DEF Command, ServerType
    <2>4. ServerType' BY <1>8, <2>1, <2>3 DEF Command, ServerType
    <2> QED BY <2>2, <2>4
  <1>9. ASSUME NEW k \in Slots, ReadError(k) PROVE (OutsideType /\ ServerType)'
    <2> SUFFICES ASSUME ~Exit PROVE (OutsideType /\ ServerType)' BY <1>1
    <2>1. OutsideType' BY <1>9 DEF ReadError, OutsideType
    <2>4. k \in Nat BY Sizes
    <2>3. i' \in Nat BY <1>9, <2>4 DEF ReadError
    <2>2. ServerType' BY <1>9, <2>3 DEF ReadError, ServerType
    <2> QED BY <2>1, <2>2
  <1>10. ASSUME NEW k \in Slots, Disconnect(k) PROVE (OutsideType /\ ServerType)'
    <2> SUFFICES ASSUME ~Exit PROVE (OutsideType /\ ServerType)' BY <1>1
    <2>1. RemoveRow(k) /\ Hit(k) BY <1>10 DEF Disconnect, Scans
    <2>2. OutsideType' BY <1>10 DEF Disconnect, OutsideType
    <2>7. k \in Nat BY Sizes
    <2>4. i' \in Nat BY <1>10, <2>7 DEF Disconnect
    <2>5. owner' \in [Fds -> Clients \cup {Own, Free}] BY <1>10 DEF Disconnect, ServerType
    <2>6. /\ connected_clients' \in [Slots -> [socket : Fds, role : {0, 1}]]
          /\ num_connected_clients' \in 0 .. MaxClients
      BY <2>1, RemoveRowType
    <2>3. ServerType' BY <1>10, <2>4, <2>5, <2>6 DEF Disconnect, ServerType
    <2> QED BY <2>2, <2>3
  <1>11. CASE ScanEnds BY <1>11, Sizes DEF ScanEnds, OutsideType, ServerType
  <1>12. CASE Alert
    <2> SUFFICES ASSUME ~Exit PROVE (OutsideType /\ ServerType)' BY <1>1
    <2> QED BY <1>12, AfterSendType DEF Alert, OutsideType, ServerType
  <1>13. CASE AlertsDone BY <1>13 DEF AlertsDone, OutsideType, ServerType
  <1>14. CASE Emergency
    <2> SUFFICES ASSUME ~Exit PROVE (OutsideType /\ ServerType)' BY <1>1
    <2>1. OutsideType' BY <1>14, AfterSendType DEF Emergency, OutsideType
    <2>2. /\ connected_clients' \in [Slots -> [socket : Fds, role : {0, 1}]]
          /\ num_connected_clients' \in 0 .. MaxClients
          /\ owner' \in [Fds -> Clients \cup {Own, Free}]
      BY <1>14, Sizes DEF Emergency, EvictAll, ServerType, Empty
    <2>3. ServerType' BY <1>14, <2>2 DEF Emergency, ServerType
    <2> QED BY <2>1, <2>3
  <1>15. CASE NoEmergency BY <1>15 DEF NoEmergency, OutsideType, ServerType
  <1> QED BY <1>2, <1>3, <1>4, <1>5, <1>6, <1>7, <1>8, <1>9, <1>10, <1>11, <1>12, <1>13,
             <1>14, <1>15 DEF Main, ScanRow

LEMMA TypeStep == ASSUME LabInv, Next PROVE TypeOK'
  <1>1. Main \/ Outside BY DEF Next, Outside
  <1>2. (OutsideType /\ ServerType)' BY <1>1, TypeOutside, TypeMain DEF LabInv
  <1> QED BY <1>2 DEF TypeOK, OutsideType, ServerType, Words

----------------------------------------------------------------------------
\* What every step leaves alone, but for accept() and connect(): descriptors are only
\* freed, the queue stays, only a client that is served is told something.
OnlyFrees == \A f \in Fds : owner'[f] = owner[f] \/ owner'[f] = Free
TellsServed == \A c \in Clients : told'[c] = told[c] \/ Serves(c)
KeepsPeers == \A c \in Clients : peer[c] # "none" =>
                  peer'[c] # "none" /\ (peer[c] # "open" => peer'[c] # "open")

\* The others: they do not touch what main keeps.
LEMMA OutsideKeeps ==
    ASSUME TypeOK, Outside
    PROVE  /\ server' = server /\ told' = told /\ KeepsPeers
           /\ pending' = pending \/ \E c \in Clients : Connect(c)
  <1> USE DEF Outside, Client, Producers, Connect, SendCredentials, SendCommand, Close, Abort,
              WriteAlert, WriteEmergency, sockets
  <1>1. server' = server /\ told' = told OBVIOUS
  <1>2. pending' = pending \/ \E c \in Clients : Connect(c) OBVIOUS
  <1>3. peer' = peer \/ \E c \in Clients, p \in {"open", "closed", "reset"} :
            /\ peer' = [peer EXCEPT ![c] = p] /\ (p = "open" => peer[c] = "none")
    OBVIOUS
  <1>4. KeepsPeers BY <1>3 DEF KeepsPeers, TypeOK
  <1> QED BY <1>1, <1>2, <1>4

\* Main: accept() apart, it only frees descriptors and answers those it serves.
LEMMA MainKeeps ==
    ASSUME TypeOK, Main
    PROVE  /\ KeepsPeers /\ TellsServed /\ cred' = cred
           /\ Accept \/ (pending' = pending /\ OnlyFrees)
  <1> DEFINE Goal == KeepsPeers /\ TellsServed /\ cred' = cred /\ pending' = pending /\ OnlyFrees
  <1> USE DEF locals, table, sockets, pipes
  <1>0. Serves(Guest) \/ Guest \notin Clients BY DEF Serves, Guest, TypeOK
  <1>s. ASSUME NEW S, peer' = AfterSend(S) PROVE KeepsPeers
    <2> QED BY <1>s DEF KeepsPeers, AfterSend
  <1>1. ASSUME Exit PROVE Goal BY <1>1 DEF Exit, KeepsPeers, TellsServed, OnlyFrees
  <1>2. CASE Select BY <1>2 DEF Select, KeepsPeers, TellsServed, OnlyFrees
  <1>3. CASE Accept BY <1>3 DEF Accept, KeepsPeers, TellsServed
  <1>4. CASE TurnAway BY <1>4 DEF TurnAway, KeepsPeers, TellsServed, OnlyFrees, TypeOK
  <1>5. CASE Authenticate
    <2> SUFFICES ASSUME ~Exit PROVE Goal BY <1>1
    <2>1. KeepsPeers BY <1>5, <1>s DEF Authenticate
    <2>2. TellsServed BY <1>5, <1>0 DEF Authenticate, TellsServed, TypeOK
    <2> QED BY <1>5, <2>1, <2>2 DEF Authenticate, OnlyFrees
  <1>6. CASE Deny
    <2> SUFFICES ASSUME ~Exit PROVE Goal BY <1>1
    <2>1. KeepsPeers BY <1>6, <1>s DEF Deny
    <2>2. TellsServed BY <1>6, <1>0 DEF Deny, TellsServed, TypeOK
    <2>3. OnlyFrees BY <1>6 DEF Deny, OnlyFrees, TypeOK
    <2> QED BY <1>6, <2>1, <2>2, <2>3 DEF Deny
  <1>7. CASE NoCredentials
    BY <1>1, <1>7 DEF NoCredentials, KeepsPeers, TellsServed, OnlyFrees, TypeOK
  <1>8. ASSUME NEW k \in Slots, Command(k) PROVE Goal
    <2>1. KeepsPeers BY <1>8, <1>s DEF Command, KeepsPeers
    <2> QED BY <1>8, <2>1 DEF Command, TellsServed, OnlyFrees
  <1>9. ASSUME NEW k \in Slots, ReadError(k) PROVE Goal
    <2> SUFFICES ASSUME ~Exit PROVE Goal BY <1>1
    <2>1. KeepsPeers BY <1>9 DEF ReadError, KeepsPeers, TypeOK
    <2> QED BY <1>9, <2>1 DEF ReadError, TellsServed, OnlyFrees
  <1>10. ASSUME NEW k \in Slots, Disconnect(k) PROVE Goal
    <2> SUFFICES ASSUME ~Exit PROVE Goal BY <1>1
    <2>1. OnlyFrees BY <1>10 DEF Disconnect, OnlyFrees, TypeOK
    <2> QED BY <1>10, <2>1 DEF Disconnect, KeepsPeers, TellsServed
  <1>11. CASE ScanEnds BY <1>11 DEF ScanEnds, KeepsPeers, TellsServed, OnlyFrees
  <1>12. CASE Alert BY <1>1, <1>12, <1>s DEF Alert, TellsServed, OnlyFrees
  <1>13. CASE AlertsDone BY <1>13 DEF AlertsDone, KeepsPeers, TellsServed, OnlyFrees
  <1>14. CASE Emergency
    <2> SUFFICES ASSUME ~Exit PROVE Goal BY <1>1
    <2>1. KeepsPeers BY <1>14, <1>s DEF Emergency
    <2>2. \A c \in Audience : Serves(c)
      <3> SUFFICES ASSUME NEW c \in Audience PROVE Serves(c) OBVIOUS
      <3>1. PICK k \in Slots : owner[connected_clients[k].socket] = c BY DEF Audience
      <3> QED BY <3>1 DEF Serves, TypeOK
    <2>3. TellsServed BY <1>14, <2>2 DEF Emergency, TellsServed
    <2>4. OnlyFrees BY <1>14 DEF Emergency, EvictAll, OnlyFrees
    <2> QED BY <1>14, <2>1, <2>3, <2>4 DEF Emergency
  <1>15. CASE NoEmergency BY <1>15 DEF NoEmergency, KeepsPeers, TellsServed, OnlyFrees
  <1> QED BY <1>2, <1>3, <1>4, <1>5, <1>6, <1>7, <1>8, <1>9, <1>10, <1>11, <1>12, <1>13,
             <1>14, <1>15 DEF Main, ScanRow

\* Where main comes from when it accepts or authenticates.
LEMMA Rounds ==
    ASSUME TypeOK, Standing, Main
    PROVE  /\ pc # "exited"
           /\ pc' = "accept" => Select /\ pending # <<>>
           /\ pc' = "auth" => Accept
           /\ pc' = "select" => pc = "emergency"
  <1>1. Exit => pc' = "exited" BY DEF Exit
  <1>2. CASE Select
    <2>1. ServerFd \in read_fds' => pending # <<>>
      <3>1. AlertFd # ServerFd /\ EmergencyFd # ServerFd BY DEF AlertFd, EmergencyFd, ServerFd
      <3>2. ServerFd \in read_fds' => Readable(ServerFd) BY <1>2 DEF Select
      <3>3. owner[ServerFd] \notin Clients
        BY OwnerAssumption DEF Standing, ServerFd, EmergencyFd
      <3> QED BY <3>1, <3>2, <3>3 DEF Readable
    <2> QED BY <1>2, <2>1 DEF Select
  <1>3. CASE Accept \/ TurnAway BY <1>3 DEF Accept, TurnAway
  <1>4. CASE Authenticate \/ Deny \/ NoCredentials
    BY <1>1, <1>4 DEF Authenticate, Deny, NoCredentials
  <1>5. CASE \E k \in Slots : ScanRow(k)
    BY <1>1, <1>5 DEF ScanRow, Command, ReadError, Disconnect, Scans
  <1>6. CASE ScanEnds \/ Alert \/ AlertsDone BY <1>1, <1>6 DEF ScanEnds, Alert, AlertsDone
  <1>7. CASE Emergency \/ NoEmergency BY <1>1, <1>7 DEF Emergency, NoEmergency
  <1> QED BY <1>2, <1>3, <1>4, <1>5, <1>6, <1>7 DEF Main

\* The queue: accept() takes its head away, connect() adds somebody new.
LEMMA QueuedStep == ASSUME LabInv, Next PROVE Queued'
  <1>0. Main \/ Outside BY DEF Next, Outside
  <1> USE DEF LabInv
  <1>1. CASE Accept
    <2>1. /\ pending # <<>> /\ pending \in Seq(Clients) /\ pending' = Tail(pending)
          /\ pc' = "auth" /\ peer' = peer /\ told' = told
      BY <1>1 DEF Accept, Queued, TypeOK, sockets
    <2>2. \A n \in DOMAIN pending' : /\ n + 1 \in DOMAIN pending /\ n + 1 # 1
                                     /\ pending'[n] = pending[n + 1]
      BY <2>1
    <2>3. \A n \in DOMAIN pending' : pending'[n] # Head(pending)
      <3> TAKE n \in DOMAIN pending'
      <3>1. Head(pending) = pending[1] /\ 1 \in DOMAIN pending BY <2>1
      <3> QED BY <2>2, <3>1 DEF Queued
    <2>4. \A c \in Clients : Serves(c)' => Serves(c) \/ c = Head(pending)
      BY <1>1 DEF Accept, Serves, TypeOK
    <2>5. \A n \in DOMAIN pending' : pending'[n] \in Clients BY <2>1, <2>2
    <2>6. \A n \in DOMAIN pending' : ~\E f \in Fds : owner'[f] = pending'[n]
      BY <2>2, <2>3, <2>4, <2>5 DEF Queued, Serves
    <2>7. \A m, n \in DOMAIN pending' : pending'[m] = pending'[n] => m = n
      <3> SUFFICES ASSUME NEW m \in DOMAIN pending', NEW n \in DOMAIN pending',
                          pending'[m] = pending'[n]
                   PROVE  m = n
        OBVIOUS
      <3>1. m + 1 = n + 1 BY <2>2 DEF Queued
      <3>2. m \in Int /\ n \in Int BY <2>1
      <3> QED BY <3>1, <3>2
    <2> QED BY <2>1, <2>2, <2>6, <2>7 DEF Queued, Serves
  <1>2. ASSUME pending' = pending, KeepsPeers, TellsServed, OnlyFrees,
               pc' = "accept" => pending # <<>>
        PROVE  Queued'
    <2>1. \A c \in Clients : Serves(c)' => Serves(c)
      BY <1>2, OwnerAssumption DEF OnlyFrees, Serves, TypeOK
    <2>2. \A n \in DOMAIN pending : pending[n] \in Clients BY DEF TypeOK
    <2> QED BY <1>2, <2>1, <2>2 DEF KeepsPeers, TellsServed, Queued
  <1>3. CASE Main
    <2> SUFFICES ASSUME ~Accept PROVE Queued' BY <1>1
    <2> QED BY <1>2, <1>3, MainKeeps, Rounds
  <1>4. ASSUME NEW c \in Clients, Connect(c) PROVE Queued'
    <2>1. /\ pending' = Append(pending, c) /\ peer[c] = "none" /\ pc' = pc
          /\ peer' = [peer EXCEPT ![c] = "open"] /\ told' = told /\ owner' = owner
      BY <1>4 DEF Connect, server
    <2>2. inbox' = inbox /\ \A d \in Clients : Serves(d)' <=> Serves(d)
      BY <1>4, <2>1 DEF Connect, Serves
    <2>3. \A n \in DOMAIN pending : pending[n] \in Clients /\ pending[n] # c
      BY <2>1 DEF Queued, TypeOK
    <2>4. ~Serves(c) BY <2>1 DEF Apart, Serves
    <2>5. told[c] = "nothing" BY <2>1 DEF Introduced
    <2>6. \A n \in DOMAIN pending' :
            (n \in DOMAIN pending /\ pending'[n] = pending[n]) \/ (n = Len(pending) + 1 /\ pending'[n] = c)
      BY <2>1 DEF TypeOK
    <2>7. \A n \in DOMAIN pending' : /\ peer'[pending'[n]] # "none" /\ told'[pending'[n]] = "nothing"
                                     /\ ~\E f \in Fds : owner'[f] = pending'[n]
      BY <2>1, <2>3, <2>4, <2>5, <2>6 DEF Queued, Serves, TypeOK
    <2>8. \A m, n \in DOMAIN pending' : pending'[m] = pending'[n] => m = n
      BY <2>3, <2>6 DEF Queued
    <2>9. pending' # <<>>
      <3>1. pending \in Seq(Clients) BY DEF TypeOK
      <3>2. Len(Append(pending, c)) = Len(pending) + 1 /\ Len(pending) \in Nat BY <3>1
      <3> QED BY <2>1, <3>2, Len(<<>>) = 0
    <2> QED BY <2>7, <2>8, <2>9 DEF Queued, Serves
  <1>5. CASE Outside
    <2> SUFFICES ASSUME ~\E c \in Clients : Connect(c) PROVE Queued' BY <1>4
    <2>1. pending' = pending /\ server' = server /\ told' = told /\ KeepsPeers
      BY <1>5, OutsideKeeps
    <2>2. OnlyFrees /\ TellsServed /\ (pc' = "accept" => pending # <<>>)
      BY <2>1 DEF OnlyFrees, TellsServed, server, Queued
    <2> QED BY <1>2, <2>1, <2>2
  <1> QED BY <1>0, <1>3, <1>5

\* Descriptors: the one accept() takes was free, its client had none.
LEMMA ApartStep == ASSUME LabInv, Next PROVE Apart'
  <1> USE DEF LabInv
  <1>1. CASE Accept
    <2>1. PICK f \in Fds : owner[f] = Free /\ owner' = [owner EXCEPT ![f] = Head(pending)]
      BY <1>1 DEF Accept
    <2>2. /\ Head(pending) = pending[1] /\ 1 \in DOMAIN pending /\ peer' = peer
          /\ Head(pending) \in Clients
      BY <1>1 DEF Accept, Queued, sockets, TypeOK
    <2>3. ~Serves(Head(pending)) /\ peer[Head(pending)] # "none" BY <2>2 DEF Queued
    <2> QED BY <2>1, <2>2, <2>3 DEF Apart, Serves, TypeOK
  <1>2. ASSUME OnlyFrees, KeepsPeers PROVE Apart'
    BY <1>2, OwnerAssumption DEF OnlyFrees, KeepsPeers, Apart, TypeOK
  <1>3. CASE Main BY <1>1, <1>2, <1>3, MainKeeps
  <1>4. CASE Outside BY <1>2, <1>4, OutsideKeeps DEF OnlyFrees, server
  <1> QED BY <1>3, <1>4 DEF Next, Outside

\* The rows after a step: which socket each holds.
LEMMA RemovedRows ==
    ASSUME TypeOK, Packed, NEW k \in Slots, Hit(k), RemoveRow(k)
    PROVE  /\ k \in Held /\ Held' = {j \in Slots : j < num_connected_clients - 1}
           /\ \A j \in Held' : IF j < k THEN connected_clients'[j] = connected_clients[j]
                                         ELSE /\ j + 1 \in Held
                                              /\ connected_clients'[j] = connected_clients[j + 1]
           /\ \A j \in Slots \ Held' : connected_clients'[j] = Empty
                                        \/ (j \notin Held /\ connected_clients'[j] = connected_clients[j])
  <1>1. k \in Held BY RemoveRowType DEF Held
  <1>2. Held' = {j \in Slots : j < num_connected_clients - 1} BY DEF Held, RemoveRow
  <1>3. num_connected_clients \in 0 .. MaxClients /\ num_connected_clients \in Nat
        /\ k < num_connected_clients
    BY <1>1, Sizes DEF TypeOK, Held
  <1>4. ASSUME NEW j \in Held'
        PROVE  IF j < k THEN connected_clients'[j] = connected_clients[j]
                        ELSE j + 1 \in Held /\ connected_clients'[j] = connected_clients[j + 1]
    BY <1>2, <1>3, <1>4, Sizes DEF RemoveRow, Held, Slots
  <1>5. ASSUME NEW j \in Slots \ Held'
        PROVE  connected_clients'[j] = Empty
               \/ (j \notin Held /\ connected_clients'[j] = connected_clients[j])
    BY <1>2, <1>3, <1>5, Sizes DEF RemoveRow, Held, Slots
  <1> QED BY <1>1, <1>2, <1>4, <1>5

\* Between two steps the rows are the same, moved, cleared, or one was added.
Untouched == table' = table

\* The steps that change the table.
LEMMA Rows ==
    ASSUME LabInv, Next
    PROVE  \/ Untouched
           \/ pc = "auth" /\ pc' = "scan" /\ Authenticate /\ (Join(0) \/ Join(1))
           \/ \E k \in Slots : Disconnect(k) /\ Hit(k) /\ RemoveRow(k)
           \/ Emergency /\ EvictAll
  <1> USE DEF Untouched, table
  <1>1. Exit => Untouched BY DEF Exit
  <1>2. CASE Select \/ Accept \/ TurnAway BY <1>2 DEF Select, Accept, TurnAway
  <1>3. CASE Authenticate BY <1>1, <1>3 DEF Authenticate
  <1>4. CASE Deny \/ NoCredentials BY <1>1, <1>4 DEF Deny, NoCredentials
  <1>5. ASSUME NEW k \in Slots, ScanRow(k)
        PROVE  Untouched \/ (Disconnect(k) /\ Hit(k) /\ RemoveRow(k))
    BY <1>1, <1>5 DEF ScanRow, Command, ReadError, Disconnect, Scans
  <1>6. CASE ScanEnds \/ Alert \/ AlertsDone BY <1>1, <1>6 DEF ScanEnds, Alert, AlertsDone
  <1>7. CASE Emergency \/ NoEmergency BY <1>1, <1>7 DEF Emergency, NoEmergency
  <1>8. CASE Outside BY <1>8, OutsideKeeps DEF server, LabInv
  <1> QED BY <1>2, <1>3, <1>4, <1>5, <1>6, <1>7, <1>8 DEF Next, Main, Outside

\* The rows past the end, through additions, removals and evictions.
LEMMA PackedStep == ASSUME LabInv, Next PROVE Packed'
  <1> USE DEF LabInv
  <1> DEFINE Cleared == \A k \in Slots \ Held : connected_clients[k].socket = 0
  <1>1. Cleared'
    <2>1. CASE Untouched BY <2>1 DEF Untouched, table, Packed, Held
    <2>2. ASSUME NEW r \in {0, 1}, Join(r), pc = "auth" PROVE Cleared'
      <3>1. num_connected_clients \in Nat BY Sizes DEF TypeOK
      <3> QED BY <2>2, <3>1, Sizes DEF Join, Packed, Held, TypeOK
    <2>3. ASSUME NEW k \in Slots, Hit(k), RemoveRow(k) PROVE Cleared'
      BY <2>3, RemovedRows DEF Packed, Empty
    <2>4. CASE EvictAll
      <3>1. \A k \in Slots : connected_clients[k].socket \in Nat BY Sizes DEF TypeOK
      <3>2. \A k \in Slots : \/ connected_clients'[k] = Empty
                            \/ /\ connected_clients'[k] = connected_clients[k]
                               /\ ~(k < num_connected_clients /\ connected_clients[k].socket > 0)
        BY <2>4 DEF EvictAll
      <3>3. \A k \in Slots : connected_clients'[k].socket = 0
        BY <3>1, <3>2 DEF Packed, Held, Empty
      <3> QED BY <3>3
    <2> QED BY <2>1, <2>2, <2>3, <2>4, Rows
  <1>2. (pc = "auth" => num_connected_clients < MaxClients)'
    <2>1. CASE Main
      <3> SUFFICES ASSUME pc' = "auth" PROVE num_connected_clients' < MaxClients OBVIOUS
      <3> QED BY <2>1, Rounds DEF Accept, table
    <2>2. CASE Outside BY <2>2, OutsideKeeps DEF server, table, Packed
    <2> QED BY <2>1, <2>2 DEF Next, Outside
  <1> QED BY <1>1, <1>2 DEF Packed

\* The process's own descriptors are in no row and never client_socket.
LEMMA StandingStep == ASSUME LabInv, Next PROVE Standing'
  <1> USE DEF LabInv
  <1>0. 1 .. EmergencyFd \subseteq Fds /\ 0 \notin 1 .. EmergencyFd BY Sizes DEF Fds, EmergencyFd
  <1>1. client_socket' \notin 1 .. EmergencyFd
    <2>1. CASE Select
      <3>1. Row(Bound - 1).socket \notin 1 .. EmergencyFd BY <1>0 DEF Row, Standing, Empty
      <3> QED BY <2>1, <3>1 DEF Select
    <2>2. CASE Accept
      <3>1. PICK f \in Fds : owner[f] = Free /\ client_socket' = f BY <2>2 DEF Accept
      <3> QED BY <3>1, OwnerAssumption DEF Standing
    <2>3. CASE ScanEnds BY <2>3, <1>0 DEF ScanEnds
    <2>4. CASE UNCHANGED client_socket BY <2>4 DEF Standing
    <2>5. Select \/ Accept \/ ScanEnds \/ UNCHANGED client_socket
      <3>1. CASE Outside BY <3>1, OutsideKeeps DEF server, locals
      <3>2. CASE Main
        BY <3>2 DEF Main, Exit, TurnAway, Authenticate, Deny, NoCredentials, ScanRow, Command,
                    ReadError, Disconnect, Alert, AlertsDone, Emergency, NoEmergency, locals
      <3> QED BY <3>1, <3>2 DEF Next, Outside
    <2> QED BY <2>1, <2>2, <2>3, <2>4, <2>5
  <1> DEFINE Aside == \A k \in Slots : connected_clients[k].socket \notin 1 .. EmergencyFd
  <1>2. Aside'
    <2>1. CASE Untouched BY <2>1 DEF Untouched, table, Standing
    <2>2. ASSUME NEW r \in {0, 1}, Join(r) PROVE Aside'
      BY <2>2 DEF Join, Standing, TypeOK
    <2>3. ASSUME NEW k \in Slots, Hit(k), RemoveRow(k) PROVE Aside'
      <3>1. \A j \in Slots : \/ connected_clients'[j] = Empty
                            \/ \E l \in Slots : connected_clients'[j] = connected_clients[l]
        BY <2>3, RemovedRows DEF Held
      <3> QED BY <3>1, <1>0 DEF Standing, Empty
    <2>4. CASE EvictAll BY <2>4, <1>0 DEF EvictAll, Standing, Empty
    <2> QED BY <2>1, <2>2, <2>3, <2>4, Rows
  <1>3. \A f \in 1 .. EmergencyFd : owner'[f] = Own
    <2>1. CASE Accept
      BY <2>1, <1>0, OwnerAssumption DEF Accept, Standing, TypeOK
    <2>2. CASE UNCHANGED owner BY <2>2 DEF Standing
    <2>3. ASSUME owner' = [owner EXCEPT ![client_socket] = Free] PROVE <1>3
      BY <2>3, <1>0 DEF Standing, TypeOK
    <2>4. ASSUME NEW k \in Slots, owner' = [owner EXCEPT ![Row(k).socket] = Free] PROVE <1>3
      BY <2>4, <1>0 DEF Standing, TypeOK, Row
    <2>5. CASE EvictAll BY <2>5, <1>0 DEF EvictAll, Standing
    <2>6. \/ Accept \/ UNCHANGED owner \/ owner' = [owner EXCEPT ![client_socket] = Free]
          \/ EvictAll \/ \E k \in Slots : owner' = [owner EXCEPT ![Row(k).socket] = Free]
      <3>1. CASE Outside BY <3>1, OutsideKeeps DEF server
      <3>2. CASE Main
        BY <3>2 DEF Main, Exit, Select, TurnAway, Authenticate, Deny, NoCredentials, ScanRow, Command,
                    ReadError, Disconnect, ScanEnds, Alert, AlertsDone, Emergency, NoEmergency
      <3> QED BY <3>1, <3>2 DEF Next, Outside
    <2> QED BY <2>1, <2>2, <2>3, <2>4, <2>5, <2>6
  <1> QED BY <1>1, <1>2, <1>3 DEF Standing

\* Authenticated clients do not send credentials again, the others send nothing else.
LEMMA IntroducedStep == ASSUME LabInv, Next PROVE Introduced'
  <1> USE DEF LabInv
  <1> DEFINE Mute(c) == told[c] = "nothing" =>
                            inbox[c] = <<>> \/ (cred[c] # "none" /\ inbox[c] = <<cred[c]>>)
             Unmet(c) == peer[c] = "none" => told[c] = "nothing"
             Met == pc = "auth" => Guest \in Clients /\ told[Guest] = "nothing"
  <1>1. CASE Main
    <2>0. KeepsPeers /\ TellsServed /\ cred' = cred BY <1>1, MainKeeps
    <2>1. ASSUME NEW c \in Clients PROVE Unmet(c)'
      <3> SUFFICES ASSUME peer'[c] = "none" PROVE told'[c] = "nothing" OBVIOUS
      <3>1. peer[c] = "none" BY <2>0 DEF KeepsPeers
      <3>2. ~Serves(c) BY <3>1 DEF Apart, Serves
      <3> QED BY <2>0, <3>1, <3>2 DEF TellsServed, Introduced
    <2>2. \A c \in Clients : told'[c] = "nothing" => told[c] = "nothing"
      BY <1>1 DEF Main, Exit, Select, Accept, TurnAway, Authenticate, Deny, NoCredentials, ScanRow,
                  Command, ReadError, Disconnect, ScanEnds, Alert, AlertsDone, Emergency,
                  NoEmergency, sockets, TypeOK
    <2>3. \A c \in Clients : \/ inbox'[c] = inbox[c] \/ inbox'[c] = <<>>
                            \/ told'[c] = "welcome"
      <3>1. CASE Authenticate
        <4>1. Exit => inbox' = inbox BY DEF Exit, sockets
        <4> QED BY <3>1, <4>1 DEF Authenticate, Introduced, TypeOK
      <3>2. CASE ~Authenticate
        BY <1>1, <3>2 DEF Main, Exit, Select, Accept, TurnAway, Deny, NoCredentials, ScanRow,
                  Command, ReadError, Disconnect, ScanEnds, Alert, AlertsDone, Emergency,
                  NoEmergency, sockets, TypeOK
      <3> QED BY <3>1, <3>2
    <2>4. ASSUME NEW c \in Clients PROVE Mute(c)' BY <2>0, <2>2, <2>3 DEF Introduced
    <2>5. Met'
      <3> SUFFICES ASSUME pc' = "auth" PROVE (Guest \in Clients /\ told[Guest] = "nothing")' OBVIOUS
      <3>1. Accept BY <1>1, Rounds
      <3>2. /\ Head(pending) = pending[1] /\ 1 \in DOMAIN pending /\ told' = told
            /\ Head(pending) \in Clients
        BY <3>1 DEF Accept, Queued, sockets, TypeOK
      <3>3. owner'[client_socket'] = Head(pending) BY <3>1 DEF Accept, TypeOK
      <3> QED BY <3>2, <3>3 DEF Guest, Queued
    <2> QED BY <2>1, <2>4, <2>5 DEF Introduced
  <1>2. CASE Outside
    <2>0. server' = server /\ told' = told /\ KeepsPeers BY <1>2, OutsideKeeps
    <2>1. \A c \in Clients : Unmet(c)' BY <2>0 DEF KeepsPeers, Introduced
    <2>2. Met' BY <2>0 DEF server, locals, Guest, Introduced
    <2>3. ASSUME NEW c \in Clients PROVE Mute(c)'
      <3>1. ASSUME NEW d \in Clients, Client(d) PROVE Mute(c)'
        <4>1. CASE Connect(d) \/ Close(d) \/ Abort(d)
          BY <4>1 DEF Connect, Close, Abort, Introduced
        <4>2. CASE SendCredentials(d)
          <5>1. PICK w \in {"root", "hostname", "wrong"} :
                    cred' = [cred EXCEPT ![d] = w] /\ inbox' = [inbox EXCEPT ![d] = <<w>>]
            BY <4>2 DEF SendCredentials
          <5>2. /\ cred'[c] = IF c = d THEN w ELSE cred[c]
                /\ inbox'[c] = IF c = d THEN <<w>> ELSE inbox[c]
            BY <5>1 DEF TypeOK
          <5>3. Mute(c) BY DEF Introduced
          <5> QED BY <2>0, <5>2, <5>3
        <4>3. CASE SendCommand(d)
          <5>1. told[d] = "welcome" /\ cred' = cred /\ \A x \in Clients \ {d} : inbox'[x] = inbox[x]
            BY <4>3 DEF SendCommand, TypeOK
          <5> QED BY <2>0, <5>1 DEF Introduced
        <4> QED BY <3>1, <4>1, <4>2, <4>3 DEF Client
      <3>2. CASE Producers
        BY <3>2 DEF Producers, WriteAlert, WriteEmergency, sockets, Introduced
      <3> QED BY <1>2, <3>1, <3>2 DEF Outside
    <2> QED BY <2>1, <2>2, <2>3 DEF Introduced
  <1> QED BY <1>1, <1>2 DEF Next, Outside

----------------------------------------------------------------------------
\* Nothing opens descriptor 0 for stdin again, and the process does not start again.
LEMMA StaysIntact ==
    ASSUME LabInv, Next
    PROVE  (Intact' => Intact) /\ (Running' => Running)
  <1> USE DEF LabInv
  <1>1. CASE Main
    <2>1. Running BY <1>1, Rounds DEF Running
    <2>2. Accept => (owner'[0] = Own => owner[0] = Own)
      <3> SUFFICES ASSUME Accept PROVE owner'[0] = Own => owner[0] = Own
        OBVIOUS
      <3>1. Head(pending) \in Clients BY DEF Accept, Queued, TypeOK
      <3>2. Head(pending) # Own BY <3>1, OwnerAssumption
      <3>3. PICK f \in Fds : owner' = [owner EXCEPT ![f] = Head(pending)] BY DEF Accept
      <3>4. DOMAIN owner = Fds /\ 0 \in Fds BY Sizes DEF TypeOK
      <3>5. owner'[0] = IF f = 0 THEN Head(pending) ELSE owner[0] BY <3>3, <3>4
      <3> QED BY <3>2, <3>5
    <2>3. OnlyFrees => (owner'[0] = Own => owner[0] = Own)
      BY OwnerAssumption, Sizes DEF OnlyFrees
    <2> QED BY <1>1, <2>1, <2>2, <2>3, MainKeeps DEF Intact
  <1>2. CASE Outside BY <1>2, OutsideKeeps DEF server, Intact, Running
  <1> QED BY <1>1, <1>2 DEF Next, Outside

\* TableInv without its condition.
Clear    == \A k \in Slots \ Held : connected_clients[k] = Empty
Live     == \A k \in Held : /\ connected_clients[k].socket > EmergencyFd
                           /\ owner[connected_clients[k].socket] \in Clients
Distinct == \A k, l \in Held : connected_clients[k].socket = connected_clients[l].socket => k = l
Seen     == \A f \in Fds : owner[f] \in Clients =>
                \/ \E k \in Held : connected_clients[k].socket = f
                \/ pc = "auth" /\ f = client_socket

\* TableInv is its parts, under its condition.
LEMMA TableParts == TableInv <=> (Running /\ Intact => Clear /\ Live /\ Distinct /\ Seen)
  <1> QED BY DEF TableInv, Clear, Live, Distinct, Seen

\* The end of accept_new_connection: one row more, for the guest.
LEMMA TableJoin ==
    ASSUME LabInv, Running, Intact, pc = "auth", pc' = "scan", owner' = owner,
           NEW r \in {0, 1}, Join(r)
    PROVE  (Clear /\ Live /\ Distinct /\ Seen)'
  <1> DEFINE n == num_connected_clients
  <1>1. n \in Nat /\ n \in Slots /\ n \notin Held /\ Held' = Held \cup {n}
    BY Sizes DEF LabInv, TypeOK, Packed, Slots, Held, Join
  <1>2. /\ connected_clients'[n] = [socket |-> client_socket, role |-> r]
        /\ \A k \in Slots : k # n => connected_clients'[k] = connected_clients[k]
    BY <1>1 DEF Join, LabInv, TypeOK
  <1>3. /\ client_socket > EmergencyFd /\ owner[client_socket] \in Clients
        /\ \A k \in Held : connected_clients[k].socket # client_socket
    BY DEF LabInv, Seated, Introduced, Guest
  <1>4. Clear /\ Live /\ Distinct /\ Seen BY TableParts DEF LabInv
  <1>5. Held \subseteq Slots BY DEF Held
  <1>6. Clear' BY <1>1, <1>2, <1>4 DEF Clear
  <1>7. Live'
    <2> SUFFICES ASSUME NEW k \in Held'
                 PROVE  /\ connected_clients'[k].socket > EmergencyFd
                        /\ owner[connected_clients'[k].socket] \in Clients
      BY DEF Live
    <2>1. CASE k = n BY <1>2, <1>3, <2>1
    <2>2. CASE k # n
      <3>1. k \in Held /\ connected_clients'[k] = connected_clients[k]
        BY <1>1, <1>2, <1>5, <2>2
      <3> QED BY <1>4, <3>1 DEF Live
    <2> QED BY <2>1, <2>2
  <1>8. Distinct'
    <2>1. \A k \in Held : k # n /\ connected_clients'[k] = connected_clients[k]
      BY <1>1, <1>2, <1>5
    <2>2. \A k \in Held : connected_clients'[k].socket # connected_clients'[n].socket
      BY <1>2, <1>3, <2>1
    <2> SUFFICES ASSUME NEW k \in Held', NEW l \in Held', k # l
                 PROVE  connected_clients'[k].socket # connected_clients'[l].socket
      BY DEF Distinct
    <2>3. CASE k = n \/ l = n BY <1>1, <2>2, <2>3
    <2>4. CASE k # n /\ l # n
      <3>1. k \in Held /\ l \in Held BY <1>1, <2>4
      <3> QED BY <1>4, <2>1, <3>1 DEF Distinct
    <2> QED BY <2>3, <2>4
  <1>9. Seen' BY <1>1, <1>2, <1>4, <1>5 DEF Seen
  <1> QED BY <1>6, <1>7, <1>8, <1>9

\* disconnect_client: the rows after the one removed move down by one.
LEMMA TableLeave ==
    ASSUME LabInv, Running, Intact, pc = "scan", NEW k \in Slots, Hit(k), RemoveRow(k),
           owner' = [owner EXCEPT ![connected_clients[k].socket] = Free]
    PROVE  (Clear /\ Live /\ Distinct /\ Seen)'
  <1> DEFINE n == num_connected_clients
             sock(j) == connected_clients[j].socket
  <1>1. Clear /\ Live /\ Distinct /\ Seen BY TableParts DEF LabInv
  <1>2. /\ k \in Held /\ Held' = {j \in Slots : j < n - 1}
        /\ \A j \in Held' : IF j < k THEN connected_clients'[j] = connected_clients[j]
                                      ELSE j + 1 \in Held /\ connected_clients'[j] = connected_clients[j + 1]
        /\ \A j \in Slots \ Held' : connected_clients'[j] = Empty
                                     \/ (j \notin Held /\ connected_clients'[j] = connected_clients[j])
    BY RemovedRows DEF LabInv
  <1>3. n \in Nat /\ Held \subseteq Nat /\ Held' \subseteq Held /\ Held \subseteq Slots
    <2>1. n \in Nat BY Sizes DEF LabInv, TypeOK
    <2>2. Held \subseteq Slots /\ Slots \subseteq Nat BY Sizes DEF Held
    <2>3. \A j \in Slots : j < n - 1 => j < n BY <2>1, <2>2
    <2>4. Held' \subseteq Held BY <1>2, <2>3 DEF Held
    <2> QED BY <2>1, <2>2, <2>4
  \* The row that each remaining one was.
  <1>4. \A j \in Held' : \E l \in Held : /\ l # k /\ connected_clients'[j] = connected_clients[l]
                                         /\ l = IF j < k THEN j ELSE j + 1
    BY <1>2, <1>3
  <1>5. Clear' BY <1>1, <1>2 DEF Clear
  <1>6. \A j \in Held : j # k => sock(j) # sock(k) BY <1>1, <1>2 DEF Distinct
  <1>7. \A j \in Held : sock(j) \in Fds BY <1>3 DEF LabInv, TypeOK
  <1>8. \A f \in Fds : f # sock(k) => owner'[f] = owner[f] BY <1>7, <1>2 DEF LabInv, TypeOK
  <1>9. Live'
    <2> SUFFICES ASSUME NEW j \in Held'
                 PROVE  /\ connected_clients'[j].socket > EmergencyFd
                        /\ owner'[connected_clients'[j].socket] \in Clients
      BY DEF Live
    <2>1. PICK l \in Held : l # k /\ connected_clients'[j] = connected_clients[l] BY <1>4
    <2> QED BY <2>1, <1>1, <1>6, <1>7, <1>8 DEF Live
  <1>10. Distinct'
    <2> SUFFICES ASSUME NEW j \in Held', NEW m \in Held',
                        connected_clients'[j].socket = connected_clients'[m].socket
                 PROVE  j = m
      BY DEF Distinct
    <2>1. PICK a \in Held : /\ a # k /\ connected_clients'[j] = connected_clients[a]
                            /\ a = IF j < k THEN j ELSE j + 1
      BY <1>4
    <2>2. PICK b \in Held : /\ b # k /\ connected_clients'[m] = connected_clients[b]
                            /\ b = IF m < k THEN m ELSE m + 1
      BY <1>4
    <2>3. a = b BY <2>1, <2>2, <1>1 DEF Distinct
    <2>4. j \in Nat /\ m \in Nat /\ k \in Nat BY <1>2, <1>3
    <2> QED BY <2>1, <2>2, <2>3, <2>4
  <1>11. Seen'
    <2> SUFFICES ASSUME NEW f \in Fds, owner'[f] \in Clients
                 PROVE  \E j \in Held' : connected_clients'[j].socket = f
      BY DEF Seen
    <2>1. f # sock(k) /\ owner[f] \in Clients
      BY <1>2, <1>7, <1>8, OwnerAssumption DEF LabInv, TypeOK
    <2>2. PICK l \in Held : sock(l) = f BY <2>1, <1>1 DEF Seen
    <2>3. l # k /\ l \in Nat /\ k \in Nat /\ l < n BY <2>1, <2>2, <1>2, <1>3 DEF Held
    <2>4. CASE l < k
      <3>1. k < n BY <1>2 DEF Held
      <3>2. l \in Held' BY <2>3, <2>4, <3>1, <1>2, <1>3
      <3> QED BY <3>2, <2>2, <2>4, <1>2
    <2>5. CASE k < l
      <3>1. l - 1 \in Held' /\ ~(l - 1 < k)
        BY <2>3, <2>5, <1>2, <1>3, Sizes DEF Slots
      <3>2. connected_clients'[l - 1] = connected_clients[l] BY <3>1, <2>3, <1>2
      <3> QED BY <3>1, <3>2, <2>2
    <2> QED BY <2>3, <2>4, <2>5
  <1> QED BY <1>5, <1>9, <1>10, <1>11

\* Main waits in auth_client for no row's socket.
LEMMA Guesting ==
    ASSUME LabInv, Running, Intact, pc = "auth"
    PROVE  /\ client_socket \in Fds /\ client_socket > EmergencyFd
           /\ \A k \in Held : connected_clients[k].socket # client_socket
  <1> QED BY DEF LabInv, Seated, TypeOK

\* The table, through every step; at a full table stdin is what is closed.
LEMMA TableStep == ASSUME LabInv, Next PROVE TableInv'
  <1> SUFFICES ASSUME Running', Intact' PROVE (Clear /\ Live /\ Distinct /\ Seen)'
    BY DEF TableInv, Clear, Live, Distinct, Seen
  <1>0. Running /\ Intact BY StaysIntact
  <1>t. Clear /\ Live /\ Distinct /\ Seen BY <1>0, TableParts DEF LabInv
  <1>f. Held \subseteq Slots /\ \A k \in Slots : connected_clients[k].socket \in Fds
    BY DEF Held, LabInv, TypeOK
  <1>x. ~Exit BY DEF Exit, Running
  \* The rows and their descriptors stay, and main is not in auth_client.
  <1>1. ASSUME Untouched, owner' = owner, pc = "auth" => pc' = "auth" /\ client_socket' = client_socket
        PROVE  (Clear /\ Live /\ Distinct /\ Seen)'
    <2>1. connected_clients' = connected_clients /\ Held' = Held BY <1>1 DEF Untouched, table, Held
    <2>2. Clear' /\ Live' /\ Distinct' BY <1>1, <1>t, <2>1 DEF Clear, Live, Distinct
    <2>3. Seen' BY <1>1, <1>t, <2>1 DEF Seen
    <2> QED BY <2>2, <2>3
  <1>2. CASE Accept
    <2>1. PICK f \in Fds : /\ owner[f] = Free /\ owner' = [owner EXCEPT ![f] = Head(pending)]
                           /\ client_socket' = f
      BY <1>2 DEF Accept
    <2>2. /\ connected_clients' = connected_clients /\ Held' = Held /\ pc' = "auth" /\ pc = "accept"
      BY <1>2 DEF Accept, table, Held
    <2>3. \A g \in Fds : g # f => owner'[g] = owner[g] BY <2>1 DEF LabInv, TypeOK
    <2>4. \A k \in Held : connected_clients[k].socket # f
      BY <2>1, <1>t, OwnerAssumption DEF Live
    <2>5. Clear' /\ Distinct' BY <1>t, <2>2 DEF Clear, Distinct
    <2>6. Live' BY <1>t, <1>f, <2>2, <2>3, <2>4 DEF Live
    <2>7. Seen' BY <1>t, <2>1, <2>2, <2>3 DEF Seen
    <2> QED BY <2>5, <2>6, <2>7
  <1>3. CASE TurnAway
    <2>1. client_socket = 0 BY <1>0, <1>3, Sizes DEF TurnAway, LabInv, Seated, TypeOK
    <2>2. owner'[0] = Free BY <1>3, <2>1, Sizes DEF TurnAway, LabInv, TypeOK
    <2> QED BY <2>2, OwnerAssumption DEF Intact
  \* auth_client closes the guest's descriptor.
  <1>4. ASSUME pc = "auth", pc' = "scan", Untouched, owner' = [owner EXCEPT ![client_socket] = Free]
        PROVE  (Clear /\ Live /\ Distinct /\ Seen)'
    <2>1. connected_clients' = connected_clients /\ Held' = Held BY <1>4 DEF Untouched, table, Held
    <2>2. \A g \in Fds : g # client_socket => owner'[g] = owner[g] BY <1>4 DEF LabInv, TypeOK
    <2>3. owner'[client_socket] = Free BY <1>4, <1>0, Guesting DEF LabInv, TypeOK
    <2>4. Clear' /\ Distinct' BY <1>t, <2>1 DEF Clear, Distinct
    <2>5. Live' BY <1>0, <1>4, <1>t, <1>f, <2>1, <2>2, Guesting DEF Live
    <2>6. Seen' BY <1>t, <2>1, <2>2, <2>3, OwnerAssumption DEF Seen
    <2> QED BY <2>4, <2>5, <2>6
  <1>5. CASE Deny \/ NoCredentials
    BY <1>4, <1>5, <1>x DEF Deny, NoCredentials, Untouched
  <1>6. CASE Authenticate
    <2>1. pc = "auth" /\ pc' = "scan" /\ owner' = owner /\ (Join(0) \/ Join(1))
      BY <1>6, <1>x DEF Authenticate
    <2> QED BY <2>1, <1>0, TableJoin
  <1>7. ASSUME NEW k \in Slots, Disconnect(k) PROVE (Clear /\ Live /\ Distinct /\ Seen)'
    <2>1. /\ pc = "scan" /\ Hit(k) /\ RemoveRow(k)
          /\ owner' = [owner EXCEPT ![connected_clients[k].socket] = Free]
      BY <1>7, <1>x DEF Disconnect, Scans, Row
    <2> QED BY <2>1, <1>0, TableLeave
  <1>8. CASE Emergency
    <2>1. EvictAll /\ pc = "emergency" /\ pc' = "select" BY <1>8, <1>x DEF Emergency
    <2>2. Held' = {}
      <3>1. num_connected_clients' = 0 BY <2>1 DEF EvictAll
      <3>2. \A k \in Slots : ~(k < 0) BY Sizes
      <3> QED BY <3>1, <3>2 DEF Held
    <2>3. \A k \in Held : k < num_connected_clients /\ connected_clients[k].socket > 0
      <3>1. \A k \in Held : connected_clients[k].socket \in Nat BY <1>f, Sizes
      <3>2. \A k \in Held : k < num_connected_clients BY DEF Held
      <3>3. \A k \in Held : connected_clients[k].socket > 3 BY <1>t DEF Live, EmergencyFd
      <3> QED BY <3>1, <3>2, <3>3
    <2>4. \A k \in Slots : connected_clients'[k] = Empty
      BY <2>1, <2>3, <1>t DEF EvictAll, Clear, Held
    <2>5. ASSUME NEW f \in Fds, owner'[f] \in Clients PROVE FALSE
      <3>1. owner[f] \in Clients BY <2>1, <2>5, OwnerAssumption DEF EvictAll
      <3>2. PICK k \in Held : connected_clients[k].socket = f BY <1>t, <2>1, <3>1 DEF Seen
      <3>3. owner'[f] = Free BY <2>1, <2>3, <3>2, <1>f DEF EvictAll
      <3> QED BY <2>5, <3>3, OwnerAssumption
    <2> QED BY <2>2, <2>4, <2>5 DEF Clear, Live, Distinct, Seen
  <1>9. CASE Outside
    <2>1. server' = server BY <1>9, OutsideKeeps DEF LabInv
    <2> QED BY <1>1, <2>1 DEF server, locals, Untouched
  <1>10. CASE Select \/ ScanEnds \/ Alert \/ AlertsDone \/ NoEmergency
    <2>1. Untouched /\ owner' = owner /\ pc # "auth"
      BY <1>10, <1>x DEF Select, ScanEnds, Alert, AlertsDone, NoEmergency, Untouched
    <2> QED BY <1>1, <2>1
  <1>11. ASSUME NEW k \in Slots, Command(k) \/ ReadError(k)
         PROVE  (Clear /\ Live /\ Distinct /\ Seen)'
    <2>1. Untouched /\ owner' = owner /\ pc # "auth"
      BY <1>11, <1>x DEF Command, ReadError, Scans, Untouched
    <2> QED BY <1>1, <2>1
  <1> QED BY <1>2, <1>3, <1>5, <1>6, <1>7, <1>8, <1>9, <1>10, <1>11 DEF Next, Main, ScanRow, Outside

\* client_socket: zero at a full table, by FullBound; else newly opened.
LEMMA SeatedStep == ASSUME LabInv, Next PROVE Seated'
  <1> SUFFICES ASSUME Running', Intact'
      PROVE  /\ pc' = "accept" /\ num_connected_clients' = MaxClients => client_socket' = 0
             /\ pc' = "auth" => /\ client_socket' > EmergencyFd
                                /\ \A k \in Held' : connected_clients'[k].socket # client_socket'
    BY DEF Seated
  <1>0. Running /\ Intact BY StaysIntact
  <1>1. CASE Main
    <2>1. ASSUME pc' = "accept", num_connected_clients' = MaxClients PROVE client_socket' = 0
      <3>1. Select BY <1>1, <2>1, Rounds DEF LabInv
      <3>2. num_connected_clients = MaxClients /\ client_socket' = Row(Bound - 1).socket
        BY <2>1, <3>1 DEF Select, table
      <3>3. Row(Bound - 1) = Empty BY <1>0, <3>2, FullBound DEF LabInv
      <3> QED BY <3>2, <3>3 DEF Empty
    <2>2. ASSUME pc' = "auth"
          PROVE  /\ client_socket' > EmergencyFd
                 /\ \A k \in Held' : connected_clients'[k].socket # client_socket'
      <3>1. Accept BY <1>1, <2>2, Rounds DEF LabInv
      <3>2. PICK f \in Fds : owner[f] = Free /\ client_socket' = f BY <3>1 DEF Accept
      <3>3. f \notin 1 .. EmergencyFd /\ f # 0
        BY <3>2, <1>0, OwnerAssumption DEF LabInv, Standing, Intact
      <3>4. f > EmergencyFd BY <3>3, Sizes DEF EmergencyFd
      <3>5. Held' = Held /\ connected_clients' = connected_clients BY <3>1 DEF Accept, table, Held
      <3>6. \A k \in Held : owner[connected_clients[k].socket] \in Clients
        BY <1>0 DEF LabInv, TableInv
      <3> QED BY <3>2, <3>4, <3>5, <3>6, OwnerAssumption
    <2> QED BY <2>1, <2>2
  <1>2. CASE Outside
    <2>1. server' = server BY <1>2, OutsideKeeps DEF LabInv
    <2> QED BY <1>0, <2>1 DEF server, locals, table, LabInv, Seated, Held
  <1> QED BY <1>1, <1>2 DEF Next, Outside

\* Credentials are sent once.
LEMMA CredStays ==
    ASSUME LabInv, Next
    PROVE  \A c \in Clients : cred[c] # "none" => cred'[c] = cred[c]
  <1>1. CASE Main BY <1>1, MainKeeps DEF LabInv
  <1>2. CASE Outside
    BY <1>2 DEF Outside, Client, Producers, Connect, SendCredentials, SendCommand, Close, Abort,
                WriteAlert, WriteEmergency, sockets, LabInv, TypeOK
  <1> QED BY <1>1, <1>2 DEF Next, Outside

\* A descriptor is never handed from one client to another in one step.
LEMMA OwnerStays ==
    ASSUME LabInv, Next
    PROVE  \A f \in Fds : owner[f] \in Clients /\ owner'[f] \in Clients => owner'[f] = owner[f]
  <1>1. CASE Accept BY <1>1, OwnerAssumption DEF Accept, LabInv, TypeOK
  <1>2. CASE Main BY <1>1, <1>2, MainKeeps, OwnerAssumption DEF OnlyFrees, LabInv
  <1>3. CASE Outside BY <1>3, OutsideKeeps DEF server, LabInv
  <1> QED BY <1>2, <1>3 DEF Next, Outside

\* Roles: a row comes from a row with its role, or from credentials just read.
LEMMA RolesStep == ASSUME LabInv, Next PROVE RolesEarned'
  <1> SUFFICES ASSUME Running', Intact', NEW k \in Held'
               PROVE  /\ cred'[owner'[connected_clients'[k].socket]] \in {"root", "hostname"}
                      /\ (connected_clients'[k].role = 1)
                            = (cred'[owner'[connected_clients'[k].socket]] = "root")
    BY DEF RolesEarned
  <1>0. Running /\ Intact BY StaysIntact
  <1>1. \A l \in Held : /\ cred[owner[connected_clients[l].socket]] \in {"root", "hostname"}
                        /\ (connected_clients[l].role = 1)
                              = (cred[owner[connected_clients[l].socket]] = "root")
                        /\ owner[connected_clients[l].socket] \in Clients
                        /\ connected_clients[l].socket \in Fds
    BY <1>0 DEF LabInv, RolesEarned, TableInv, TypeOK, Held
  <1>2. owner'[connected_clients'[k].socket] \in Clients
    <2>1. TableInv' BY TableStep
    <2> QED BY <2>1 DEF TableInv
  <1>3. ASSUME NEW l \in Held, connected_clients'[k] = connected_clients[l]
        PROVE  /\ cred'[owner'[connected_clients'[k].socket]] \in {"root", "hostname"}
               /\ (connected_clients'[k].role = 1)
                     = (cred'[owner'[connected_clients'[k].socket]] = "root")
    <2> DEFINE f == connected_clients[l].socket
    <2>1. owner'[f] = owner[f] BY <1>1, <1>2, <1>3, OwnerStays
    <2>2. cred'[owner[f]] = cred[owner[f]] BY <1>1, CredStays
    <2> QED BY <1>1, <1>3, <2>1, <2>2
  <1>4. CASE Untouched
    <2>1. k \in Held /\ connected_clients'[k] = connected_clients[k]
      BY <1>4 DEF Untouched, table, Held
    <2> QED BY <2>1, <1>3
  <1>5. CASE pc = "auth" /\ pc' = "scan" /\ Authenticate
    <2>0. ~Exit BY <1>5 DEF Exit
    <2>1. /\ inbox[Guest] # <<>> /\ Head(inbox[Guest]) \in {"root", "hostname"}
          /\ Join(IF Head(inbox[Guest]) = "root" THEN 1 ELSE 0) /\ cred' = cred /\ owner' = owner
      BY <1>5, <2>0 DEF Authenticate
    <2>2. Guest \in Clients /\ inbox[Guest] = <<cred[Guest]>>
      BY <1>5, <2>1 DEF LabInv, Introduced
    <2>3. Head(inbox[Guest]) = cred[Guest] BY <2>2
    <2>4. num_connected_clients \in Slots /\ num_connected_clients \in Nat
      BY <1>5, Sizes DEF LabInv, TypeOK, Packed, Slots
    <2>5. CASE k = num_connected_clients
      <3>1. connected_clients'[k] = [socket |-> client_socket,
                                     role |-> IF cred[Guest] = "root" THEN 1 ELSE 0]
        BY <2>1, <2>3, <2>4, <2>5 DEF Join, LabInv, TypeOK
      <3> QED BY <2>1, <2>3, <3>1 DEF Guest
    <2>6. CASE k # num_connected_clients
      <3>1. k \in Held
        BY <2>1, <2>4, <2>6, Sizes DEF Join, Held
      <3>2. connected_clients'[k] = connected_clients[k]
        BY <2>1, <2>4, <2>6, <3>1 DEF Join, Held, LabInv, TypeOK
      <3> QED BY <3>1, <3>2, <1>3
    <2> QED BY <2>5, <2>6
  <1>6. ASSUME NEW d \in Slots, Hit(d), RemoveRow(d)
        PROVE  \E l \in Held : connected_clients'[k] = connected_clients[l]
    <2>1. IF k < d THEN connected_clients'[k] = connected_clients[k]
                   ELSE k + 1 \in Held /\ connected_clients'[k] = connected_clients[k + 1]
      BY <1>6, RemovedRows DEF LabInv
    <2>2. k \in Slots /\ k < num_connected_clients - 1 BY <1>6, RemovedRows DEF LabInv
    <2>3. num_connected_clients \in Nat /\ k \in Nat BY <2>2, Sizes DEF LabInv, TypeOK
    <2>4. k \in Held BY <2>2, <2>3 DEF Held
    <2> QED BY <2>1, <2>4
  <1>7. ~EvictAll
    <2> SUFFICES ASSUME EvictAll PROVE FALSE OBVIOUS
    <2>1. num_connected_clients' = 0 /\ k \in Nat BY Sizes DEF EvictAll, Held
    <2> QED BY <2>1 DEF Held
  <1> QED BY <1>3, <1>4, <1>5, <1>6, <1>7, Rows

\* The supplies are changed from a row whose role is 1.
LEMMA SuppliesStep == ASSUME LabInv, Next PROVE SuppliesByRoot'
  <1> SUFFICES ASSUME Intact', supplies' \in Clients PROVE cred'[supplies'] = "root"
    BY DEF SuppliesByRoot
  <1>0. Intact BY StaysIntact
  <1>1. CASE supplies' = supplies BY <1>0, <1>1, CredStays DEF LabInv, SuppliesByRoot
  <1>2. ASSUME NEW k \in Slots, Command(k), supplies' # supplies PROVE cred'[supplies'] = "root"
    <2>1. /\ supplies' = owner[Row(k).socket] /\ Row(k).role = 1 /\ Row(k).socket > 0
          /\ pc = "scan" /\ Row(k) = connected_clients[k]
      BY <1>2 DEF Command, Scans, Hit, Row
    <2>2. k \in Held BY <2>1 DEF LabInv, Packed
    <2>3. Running BY <2>1 DEF Running
    <2>4. cred[supplies'] = "root" BY <1>0, <2>1, <2>2, <2>3 DEF LabInv, RolesEarned
    <2> QED BY <2>4, CredStays
  <1>3. supplies' = supplies \/ \E k \in Slots : Command(k)
    <2>1. CASE Main
      BY <2>1 DEF Main, Exit, Select, Accept, TurnAway, Authenticate, Deny, NoCredentials, ScanRow,
                  ReadError, Disconnect, ScanEnds, Alert, AlertsDone, Emergency, NoEmergency
    <2>2. CASE Outside BY <2>2, OutsideKeeps DEF server, LabInv
    <2> QED BY <2>1, <2>2 DEF Next, Outside
  <1> QED BY <1>1, <1>2, <1>3

\* read_fds: what it said of a row stays true until the row is scanned.
LEMMA FreshStep == ASSUME LabInv, Next PROVE Fresh'
  <1> DEFINE Ready(c) == inbox[c] # <<>> \/ peer[c] # "open"
             sock(k) == connected_clients[k].socket
             Scanning == pc \in {"accept", "auth", "scan"}
             Unread == \A k \in Held : i <= k /\ sock(k) \in read_fds => Ready(owner[sock(k)])
             Goal == /\ pc = "accept" => \A f \in read_fds : owner[f] # Free
                     /\ pc = "auth" => client_socket \notin read_fds
                     /\ Scanning => Unread
  <1> SUFFICES ASSUME Intact', Running' PROVE Goal' BY DEF Fresh, Running
  <1>0. Intact /\ Running /\ Goal BY StaysIntact DEF LabInv, Fresh
  <1>x. ~Exit BY DEF Exit, Running
  \* Two rows belong to two clients.
  <1>t. /\ \A k \in Held : /\ sock(k) \in Fds /\ sock(k) > EmergencyFd
                          /\ owner[sock(k)] \in Clients
        /\ \A k, l \in Held : owner[sock(k)] = owner[sock(l)] => k = l
    <2>1. \A k \in Held : /\ sock(k) \in Fds /\ sock(k) > EmergencyFd
                          /\ owner[sock(k)] \in Clients
      BY <1>0 DEF LabInv, TableInv, TypeOK, Held
    <2>2. \A k, l \in Held : sock(k) = sock(l) => k = l BY <1>0 DEF LabInv, TableInv
    <2>3. \A k, l \in Held : owner[sock(k)] = owner[sock(l)] => sock(k) = sock(l)
      BY <2>1 DEF LabInv, Apart
    <2> QED BY <2>1, <2>2, <2>3
  \* A row that was to be scanned is still readable, wherever it was moved to, unless
  \* what its client had sent was read.
  <1>m. ASSUME NEW k \in Held', NEW l \in Held, connected_clients'[k] = connected_clients[l],
               Scanning, i <= l, sock(l) \in read_fds, KeepsPeers,
               \/ inbox'[owner[sock(l)]] = inbox[owner[sock(l)]]
               \/ inbox'[owner[sock(l)]] # <<>>
        PROVE  Ready(owner[sock(k)])'
    <2>1. TableInv' BY TableStep
    <2>2. owner'[sock(l)] = owner[sock(l)] BY <2>1, <1>m, <1>t, OwnerStays DEF TableInv
    <2>3. Ready(owner[sock(l)]) BY <1>0, <1>m
    <2>4. peer[owner[sock(l)]] # "none" BY <1>t DEF LabInv, Apart
    <2>5. inbox'[owner[sock(l)]] # <<>> \/ peer'[owner[sock(l)]] # "open"
      BY <1>m, <1>t, <2>3, <2>4 DEF KeepsPeers
    <2> QED BY <1>m, <2>2, <2>5
  <1>k. Main => KeepsPeers BY MainKeeps DEF LabInv
  <1>1. CASE Select
    <2>1. /\ read_fds' = {f \in Watched : f <= Bound /\ Readable(f)} /\ table' = table
          /\ owner' = owner /\ inbox' = inbox /\ peer' = peer /\ pc' # "auth" /\ Watchable
      BY <1>1 DEF Select, sockets, Running
    <2>2. \A f \in read_fds' : owner'[f] # Free BY <2>1 DEF Watchable
    <2>3. ASSUME NEW k \in Held, Readable(sock(k)) PROVE Ready(owner[sock(k)])
      <3>1. sock(k) > 3 BY <1>t DEF EmergencyFd
      <3>2. sock(k) # ServerFd /\ sock(k) # AlertFd /\ sock(k) # EmergencyFd
        BY <3>1 DEF ServerFd, AlertFd, EmergencyFd
      <3> QED BY <2>3, <3>2 DEF Readable
    <2>4. Unread' BY <2>1, <2>3 DEF table, Held
    <2> QED BY <2>1, <2>2, <2>4
  \* The rows stay as they are, and so do the messages of the clients in them.
  <1>2. ASSUME Untouched, i' = i, read_fds' = read_fds, Scanning, KeepsPeers,
               \A k \in Held : \/ inbox'[owner[sock(k)]] = inbox[owner[sock(k)]]
                              \/ inbox'[owner[sock(k)]] # <<>>
        PROVE  Unread'
    <2>1. Held' = Held /\ connected_clients' = connected_clients BY <1>2 DEF Untouched, table, Held
    <2> QED BY <1>2, <1>m, <2>1
  <1>3. CASE Accept
    <2>1. /\ pc = "accept" /\ pc' = "auth" /\ i' = i /\ read_fds' = read_fds /\ Untouched
          /\ inbox' = inbox /\ owner[client_socket'] = Free
      BY <1>3 DEF Accept, sockets, Untouched
    <2>2. Unread' BY <1>2, <1>3, <1>k, <2>1 DEF Main
    <2> QED BY <1>0, <2>1, <2>2
  <1>4. CASE TurnAway
    <2>1. client_socket = 0
      <3>1. pc = "accept" /\ num_connected_clients = MaxClients
        BY <1>4, Sizes DEF TurnAway, LabInv, TypeOK
      <3> QED BY <1>0, <3>1 DEF LabInv, Seated
    <2>2. owner'[0] = Free BY <1>4, <2>1, Sizes DEF TurnAway, LabInv, TypeOK
    <2> QED BY <2>2, OwnerAssumption DEF Intact
  \* The guest is in no row.
  <1>g. ASSUME pc = "auth" PROVE \A k \in Held : owner[sock(k)] # Guest
    <2>1. client_socket \in Fds /\ Guest \in Clients /\ \A k \in Held : sock(k) # client_socket
      BY <1>g, <1>0, Guesting DEF LabInv, Introduced
    <2> QED BY <2>1, <1>t DEF Guest, LabInv, Apart
  <1>5. CASE Authenticate
    <2>1. /\ pc = "auth" /\ pc' = "scan" /\ i' = i /\ read_fds' = read_fds
          /\ inbox' = [inbox EXCEPT ![Guest] = Tail(@)] /\ (Join(0) \/ Join(1)) /\ KeepsPeers
      BY <1>5, <1>x, <1>k DEF Authenticate, locals, Main
    <2>2. num_connected_clients \in Slots /\ num_connected_clients \in Nat
      BY <2>1, Sizes DEF LabInv, TypeOK, Packed, Slots
    <2>3. connected_clients'[num_connected_clients].socket = client_socket
      BY <2>1, <2>2 DEF Join, LabInv, TypeOK
    <2>4. ASSUME NEW k \in Held', k # num_connected_clients
          PROVE  k \in Held /\ connected_clients'[k] = connected_clients[k]
      <3>1. num_connected_clients' = num_connected_clients + 1 BY <2>1 DEF Join
      <3>2. k \in Slots /\ k \in Nat /\ k < num_connected_clients' BY Sizes DEF Held
      <3>3. k \in Held BY <2>2, <2>4, <3>1, <3>2 DEF Held
      <3> QED BY <2>1, <2>2, <2>4, <3>2, <3>3 DEF Join, LabInv, TypeOK
    <2>5. \A k \in Held : inbox'[owner[sock(k)]] = inbox[owner[sock(k)]]
      BY <2>1, <1>g, <1>t DEF LabInv, TypeOK
    <2>6. Unread'
      <3> SUFFICES ASSUME NEW k \in Held', i' <= k, connected_clients'[k].socket \in read_fds'
                   PROVE  Ready(owner[sock(k)])'
        OBVIOUS
      <3>1. k # num_connected_clients BY <2>1, <2>3, <1>0
      <3> QED BY <3>1, <2>1, <2>4, <2>5, <1>m
    <2> QED BY <2>1, <2>6
  <1>6. CASE Deny \/ NoCredentials
    <2>1. /\ pc = "auth" /\ pc' = "scan" /\ i' = i /\ read_fds' = read_fds /\ Untouched
          /\ inbox' = inbox \/ inbox' = [inbox EXCEPT ![Guest] = <<>>]
      BY <1>6, <1>x DEF Deny, NoCredentials, locals, sockets, Untouched
    <2>2. \A k \in Held : inbox'[owner[sock(k)]] = inbox[owner[sock(k)]]
      BY <2>1, <1>g, <1>t DEF LabInv, TypeOK
    <2>3. KeepsPeers BY <1>6, <1>k DEF Main
    <2> QED BY <2>1, <2>2, <2>3, <1>2
  <1>7. ASSUME NEW d \in Slots, Command(d) PROVE Goal'
    <2>1. /\ pc = "scan" /\ pc' = "scan" /\ i' = d + 1 /\ i <= d /\ read_fds' = read_fds /\ Untouched
          /\ inbox' = [inbox EXCEPT ![owner[Row(d).socket]] = <<>>] /\ Row(d).socket > 0
          /\ Row(d) = connected_clients[d]
      BY <1>7, <1>x DEF Command, Untouched, Scans, Hit, Row, Running
    <2>2. d \in Held BY <2>1 DEF LabInv, Packed
    <2>3. d \in Nat /\ i \in Nat /\ Held \subseteq Nat BY Sizes DEF LabInv, TypeOK, Held
    <2>4. \A k \in Held : k # d => inbox'[owner[sock(k)]] = inbox[owner[sock(k)]]
      BY <2>1, <2>2, <1>t DEF LabInv, TypeOK
    <2>5. KeepsPeers BY <1>7, <1>k DEF Main, ScanRow
    <2>6. Held' = Held /\ connected_clients' = connected_clients BY <2>1 DEF Untouched, table, Held
    <2>7. \A k \in Held : i' <= k => i <= k /\ k # d BY <2>1, <2>3
    <2>8. Unread' BY <2>1, <2>4, <2>5, <2>6, <2>7, <1>m
    <2> QED BY <2>1, <2>8
  <1>8. ASSUME NEW d \in Slots, ReadError(d) PROVE Goal'
    <2>1. /\ pc = "scan" /\ pc' = pc /\ i' = d + 1 /\ i <= d /\ read_fds' = read_fds /\ Untouched
          /\ inbox' = inbox
      BY <1>8, <1>x DEF ReadError, Untouched, Scans
    <2>2. d \in Nat /\ i \in Nat /\ Held \subseteq Nat BY Sizes DEF LabInv, TypeOK, Held
    <2>3. KeepsPeers BY <1>8, <1>k DEF Main, ScanRow
    <2>4. Held' = Held /\ connected_clients' = connected_clients BY <2>1 DEF Untouched, table, Held
    <2>5. \A k \in Held : i' <= k => i <= k BY <2>1, <2>2
    <2>6. Unread' BY <2>1, <2>3, <2>4, <2>5, <1>m
    <2> QED BY <2>1, <2>6
  <1>9. ASSUME NEW d \in Slots, Disconnect(d) PROVE Goal'
    <2>1. /\ pc = "scan" /\ pc' = pc /\ i' = d + 1 /\ i <= d /\ read_fds' = read_fds
          /\ inbox' = inbox /\ Hit(d) /\ RemoveRow(d)
      BY <1>9, <1>x DEF Disconnect, sockets, Scans
    <2>2. KeepsPeers BY <1>9, <1>k DEF Main, ScanRow
    <2>3. \A k \in Held' : IF k < d THEN connected_clients'[k] = connected_clients[k]
                                   ELSE k + 1 \in Held /\ connected_clients'[k] = connected_clients[k + 1]
      BY <2>1, RemovedRows DEF LabInv
    <2>4. d \in Nat /\ i \in Nat /\ \A k \in Held' : k \in Nat BY Sizes DEF LabInv, TypeOK, Held
    <2>5. ASSUME NEW k \in Held', i' <= k, connected_clients'[k].socket \in read_fds'
          PROVE  Ready(owner[sock(k)])'
      <3>1. k + 1 \in Held /\ connected_clients'[k] = connected_clients[k + 1] /\ i <= k + 1
        BY <2>1, <2>3, <2>4, <2>5
      <3> QED BY <3>1, <2>1, <2>2, <2>5, <1>m
    <2>6. Unread' BY <2>5
    <2> QED BY <2>1, <2>6
  <1>10. CASE Outside
    <2>1. server' = server /\ KeepsPeers BY <1>10, OutsideKeeps DEF LabInv
    <2>2. \A c \in Clients : inbox'[c] = inbox[c] \/ inbox'[c] # <<>>
      <3>1. ASSUME NEW d \in Clients, SendCommand(d), NEW c \in Clients
            PROVE  inbox'[c] = inbox[c] \/ inbox'[c] # <<>>
        <4>1. PICK w : inbox' = [inbox EXCEPT ![d] = Append(@, w)] BY <3>1 DEF SendCommand
        <4>2. inbox[d] \in Seq(Words) BY DEF LabInv, TypeOK, Words
        <4>3. Len(Append(inbox[d], w)) = Len(inbox[d]) + 1 /\ Len(inbox[d]) \in Nat BY <4>2
        <4>4. Append(inbox[d], w) # <<>> BY <4>3, Len(<<>>) = 0
        <4> QED BY <4>1, <4>4 DEF LabInv, TypeOK
      <3>2. ASSUME NEW d \in Clients, SendCredentials(d), NEW c \in Clients
            PROVE  inbox'[c] = inbox[c] \/ inbox'[c] # <<>>
        BY <3>2 DEF SendCredentials, LabInv, TypeOK
      <3>3. \/ inbox' = inbox
            \/ \E d \in Clients : SendCommand(d) \/ SendCredentials(d)
        BY <1>10 DEF Outside, Client, Producers, Connect, Close, Abort, WriteAlert, WriteEmergency, sockets
      <3> QED BY <3>1, <3>2, <3>3
    <2>3. /\ pc' = pc /\ i' = i /\ read_fds' = read_fds /\ Untouched /\ owner' = owner
          /\ client_socket' = client_socket
      BY <2>1 DEF server, locals, Untouched
    <2>4. Scanning => Unread' BY <1>2, <1>t, <2>1, <2>2, <2>3
    <2> QED BY <1>0, <2>3, <2>4
  <1>11. CASE ScanEnds \/ Alert \/ AlertsDone \/ Emergency \/ NoEmergency
    BY <1>11, <1>x DEF ScanEnds, Alert, AlertsDone, Emergency, NoEmergency
  <1> QED BY <1>1, <1>3, <1>4, <1>5, <1>6, <1>7, <1>8, <1>9, <1>10, <1>11
          DEF Next, Main, ScanRow, Outside

----------------------------------------------------------------------------
\* The inductive invariant: initially, and preserved.
LEMMA LabInit == Init => LabInv
  <1> SUFFICES ASSUME Init PROVE LabInv OBVIOUS
  <1>1. TypeOK BY TypeInit
  <1>2. Held = {}
    <2>1. num_connected_clients = 0 /\ \A k \in Slots : ~(k < 0) BY Sizes DEF Init
    <2> QED BY <2>1 DEF Held
  <1>3. \A f \in Fds : owner[f] \notin Clients BY OwnerAssumption DEF Init
  <1>4. pc = "select" /\ DOMAIN pending = {} BY DEF Init
  <1>5. Queued BY <1>4 DEF Queued
  <1>6. Apart BY <1>3 DEF Apart
  <1>7. Introduced BY <1>4 DEF Introduced, Init
  <1>8. Standing
    <2>1. 1 .. EmergencyFd \subseteq Fds /\ 0 \notin 1 .. EmergencyFd
      BY Sizes DEF Fds, EmergencyFd
    <2>2. \A f \in 1 .. EmergencyFd : f <= EmergencyFd BY DEF EmergencyFd
    <2> QED BY <2>1, <2>2 DEF Standing, Init, Empty
  <1>9. Packed BY <1>4 DEF Packed, Init, Empty
  <1>10. TableInv BY <1>2, <1>3 DEF TableInv, Init
  <1>11. Seated BY <1>4 DEF Seated
  <1>12. RolesEarned BY <1>2 DEF RolesEarned
  <1>13. SuppliesByRoot BY OwnerAssumption DEF SuppliesByRoot, Init
  <1>14. Fresh BY <1>4, <1>2 DEF Fresh
  <1> QED BY <1>1, <1>5, <1>6, <1>7, <1>8, <1>9, <1>10, <1>11, <1>12, <1>13, <1>14 DEF LabInv

LEMMA LabStep == LabInv /\ [Next]_vars => LabInv'
  <1> SUFFICES ASSUME LabInv, [Next]_vars PROVE LabInv' OBVIOUS
  <1>1. CASE Next
    BY <1>1, TypeStep, QueuedStep, ApartStep, IntroducedStep, StandingStep, PackedStep, TableStep,
       SeatedStep, RolesStep, SuppliesStep, FreshStep DEF LabInv
  <1>2. CASE UNCHANGED vars
    <2> USE <1>2 DEF vars, locals, table, sockets, pipes, LabInv
    <2>1. TypeOK' BY DEF TypeOK
    <2>2. Queued' /\ Apart' /\ Introduced' BY DEF Queued, Apart, Introduced, Serves, Guest
    <2>3. Standing' /\ Packed' BY DEF Standing, Packed, Held
    <2>4. TableInv' /\ Seated' BY DEF TableInv, Seated, Held, Running, Intact
    <2>5. RolesEarned' /\ SuppliesByRoot' /\ Fresh'
      BY DEF RolesEarned, SuppliesByRoot, Fresh, Held, Running, Intact
    <2> QED BY <2>1, <2>2, <2>3, <2>4, <2>5
  <1> QED BY <1>1, <1>2

\* The table, the descriptors and the roles agree, for any clients and any size of the
\* table, until stdin has been closed (accept_new_connection, disconnect_client,
\* disconnect_all_clients).
THEOREM LabServerIsSound == Spec => []LabInv
  <1> QED BY LabInit, LabStep, PTL DEF Spec

\* What the table is for: one row for each connection, and none for anything else.
THEOREM TableDescribesConnections == Spec => []TableInv
  <1>1. LabInv => TableInv BY DEF LabInv
  <1> QED BY <1>1, LabServerIsSound, PTL

\* Every step of the server keeps its rows, descriptors, queues and program counter in
\* their types.
THEOREM LabServerIsTyped == Spec => []TypeOK
  <1>1. LabInv => TypeOK BY DEF LabInv
  <1> QED BY <1>1, LabServerIsSound, PTL

\* Whatever row a client is moved to, and whoever had its descriptor before, it keeps
\* the role its credentials gave it (disconnect_client, check_credentials).
THEOREM RolesAreEarned == Spec => []RolesEarned
  <1>1. LabInv => RolesEarned BY DEF LabInv
  <1> QED BY <1>1, LabServerIsSound, PTL

\* Only a client that sent the root credentials has changed the supplies.
THEOREM SuppliesAreRoots == Spec => []SuppliesByRoot
  <1>1. LabInv => SuppliesByRoot BY DEF LabInv
  <1> QED BY <1>1, LabServerIsSound, PTL

\* select() is asked about every connected client, although max_socket_fd both bounds
\* the loop that computes it and is computed by it.
THEOREM NoClientIsOverlooked == Spec => []EveryClientWatched
  <1>1. LabInv => EveryClientWatched
    <2> SUFFICES ASSUME LabInv, pc = "select", Intact
        PROVE  Watchable /\ \A k \in Held : k < Bound /\ connected_clients[k].socket <= Bound
      BY DEF EveryClientWatched
    <2>1. TypeOK /\ TableInv /\ Running BY DEF LabInv, Running
    <2>2. \A k \in Held : /\ k + EmergencyFd < Bound /\ connected_clients[k].socket <= Bound
                          /\ k \in Nat
      BY <2>1, RowsReached, Sizes DEF Held
    <2>3. Bound \in Nat BY <2>1, BoundIsMax, Sizes
    <2>4. \A k \in Held : k < Bound BY <2>2, <2>3 DEF EmergencyFd
    <2>5. ASSUME NEW f \in Watched PROVE owner[f] # Free
      <3>1. CASE f \in {ServerFd, AlertFd, EmergencyFd}
        <4>1. f \in 1 .. EmergencyFd BY <3>1 DEF ServerFd, AlertFd, EmergencyFd
        <4> QED BY <4>1, OwnerAssumption DEF LabInv, Standing
      <3>2. ASSUME NEW k \in Slots, f = Row(k).socket, Row(k).socket > 0 PROVE owner[f] # Free
        <4>1. f = connected_clients[k].socket /\ f # 0 BY <3>2 DEF Row
        <4>2. k \in Held BY <4>1 DEF LabInv, Packed
        <4> QED BY <4>1, <4>2, <2>1, OwnerAssumption DEF TableInv
      <3> QED BY <2>5, <3>1, <3>2 DEF Watched
    <2> QED BY <2>2, <2>4, <2>5 DEF Watchable
  <1> QED BY <1>1, LabServerIsSound, PTL

\* No read of the scan blocks main, although the set it consults was computed before
\* connections of the same round were accepted and closed.
THEOREM ScanReadsWhatIsThere == Spec => []ScanNeverBlocks
  <1>1. LabInv => ScanNeverBlocks
    <2> SUFFICES ASSUME LabInv, Intact, NEW k \in Slots, Scans(k)
        PROVE  /\ owner[Row(k).socket] \in Clients
               /\ inbox[owner[Row(k).socket]] # <<>> \/ peer[owner[Row(k).socket]] # "open"
      BY DEF ScanNeverBlocks
    <2>1. /\ pc = "scan" /\ i <= k /\ Row(k) = connected_clients[k]
          /\ Row(k).socket > 0 /\ Row(k).socket \in read_fds
      BY DEF Scans, Hit, Row
    <2>2. k \in Held BY <2>1 DEF LabInv, Packed
    <2>3. Running BY <2>1 DEF Running
    <2> QED BY <2>1, <2>2, <2>3 DEF LabInv, TableInv, Fresh
  <1> QED BY <1>1, LabServerIsSound, PTL

\* handle_emergencies leaves nobody connected and nobody untold.
THEOREM EmergencyReachesAll == Spec => EmergencyEvicts
  <1> DEFINE Evicts == emergencyPipe' < emergencyPipe /\ Intact =>
                 \A f \in Fds : /\ owner'[f] \notin Clients
                                /\ owner[f] \in Clients => told'[owner[f]] = "emergency"
  <1>1. LabInv /\ [Next]_vars => [Evicts]_vars
    <2> SUFFICES ASSUME LabInv, Next, emergencyPipe' < emergencyPipe, Intact,
                        NEW f \in Fds
                 PROVE  /\ owner'[f] \notin Clients
                        /\ owner[f] \in Clients => told'[owner[f]] = "emergency"
      OBVIOUS
    <2>0. emergencyPipe \in Nat BY DEF LabInv, TypeOK
    <2>1. Emergency /\ ~Exit
      <3>1. emergencyPipe' # emergencyPipe /\ ~(emergencyPipe' = emergencyPipe + 1) BY <2>0
      <3>2. ~Exit BY <3>1 DEF Exit, pipes
      <3> QED
        BY <3>1, <3>2 DEF Next, Main, Client, Producers, Select, Accept, TurnAway, Authenticate, Deny,
           NoCredentials, ScanRow, Command, ReadError, Disconnect, ScanEnds, Alert, AlertsDone,
           NoEmergency, Connect, SendCredentials, SendCommand, Close, Abort, WriteAlert,
           WriteEmergency, pipes
    <2>2. /\ EvictAll /\ pc = "emergency"
          /\ told' = [c \in Clients |-> IF c \in Audience THEN "emergency" ELSE told[c]]
      BY <2>1 DEF Emergency
    <2>3. Running BY <2>2 DEF Running
    <2>4. ASSUME owner[f] \in Clients PROVE told'[owner[f]] = "emergency" /\ owner'[f] = Free
      <3>1. PICK k \in Held : connected_clients[k].socket = f
        BY <2>2, <2>3, <2>4 DEF LabInv, TableInv
      <3>2. f > EmergencyFd /\ f \in Nat BY <2>3, <3>1, Sizes DEF LabInv, TableInv
      <3>3. f > 0 /\ k < num_connected_clients /\ k \in Slots BY <3>2 DEF EmergencyFd, Held
      <3>4. owner[f] \in Audience BY <2>4, <3>1, <3>3 DEF Audience
      <3> QED BY <2>2, <2>4, <3>1, <3>3, <3>4 DEF EvictAll
    <2>5. ASSUME owner[f] \notin Clients PROVE owner'[f] \notin Clients
      BY <2>2, <2>5, OwnerAssumption DEF EvictAll
    <2> QED BY <2>4, <2>5, OwnerAssumption
  <1> HIDE DEF Evicts
  <1>2. Spec => [][Evicts]_vars BY <1>1, LabServerIsSound, PTL DEF Spec
  <1> QED BY <1>2 DEF EmergencyEvicts, Evicts

----------------------------------------------------------------------------
(* The rounds of main implement a Hub. *)

hubbed == <<Intact, Members, Roots, cred, Left, told, supplies>>

\* The end of the process leaves its table and descriptors as they were.
LEMMA EndKeeps ==
    ASSUME Main, ~Running'
    PROVE  /\ owner' = owner /\ Untouched /\ told' = told
           /\ supplies' = supplies \/ \E k \in Slots : Command(k)
  <1> USE DEF Running, locals, table, sockets, Untouched
  <1>1. CASE Exit BY <1>1 DEF Exit
  <1>2. ~Exit => ~(Accept \/ TurnAway \/ ScanEnds \/ AlertsDone \/ NoEmergency)
    BY DEF Accept, TurnAway, ScanEnds, AlertsDone, NoEmergency
  <1>3. ~Exit => ~(Authenticate \/ Deny \/ NoCredentials)
    BY DEF Authenticate, Deny, NoCredentials
  <1>4. ~Exit => ~(Alert \/ Emergency) BY DEF Alert, Emergency
  <1>5. ~Exit => ~\E k \in Slots : ReadError(k) \/ Disconnect(k) BY DEF ReadError, Disconnect, Scans
  <1>6. CASE Select BY <1>6 DEF Select
  <1>7. ASSUME NEW k \in Slots, Command(k) PROVE owner' = owner /\ Untouched /\ told' = told
    BY <1>7 DEF Command
  <1> QED BY <1>1, <1>2, <1>3, <1>4, <1>5, <1>6, <1>7 DEF Main, ScanRow

\* Main ends no client's connection for it, and shows nothing in its place.
LEMMA MainLeft == ASSUME TypeOK, Main PROVE Left' = Left /\ cred' = cred
  <1>1. cred' = cred BY MainKeeps
  <1>2. ASSUME NEW S, peer' = AfterSend(S) PROVE Left' = Left
    BY <1>2 DEF Left, AfterSend, TypeOK
  <1>3. ASSUME NEW c \in Clients, peer[c] = "reset", peer' = [peer EXCEPT ![c] = "gone"]
        PROVE  Left' = Left
    BY <1>3 DEF Left, TypeOK
  <1>4. \/ peer' = peer \/ \E S : peer' = AfterSend(S)
        \/ \E c \in Clients : peer[c] = "reset" /\ peer' = [peer EXCEPT ![c] = "gone"]
    <2> USE DEF sockets
    <2>1. CASE Exit BY <2>1 DEF Exit
    <2>2. CASE Select \/ Accept \/ TurnAway BY <2>2 DEF Select, Accept, TurnAway
    <2>3. CASE Authenticate \/ Deny \/ NoCredentials
      BY <2>1, <2>3 DEF Authenticate, Deny, NoCredentials
    <2>4. ASSUME NEW k \in Slots, Command(k) PROVE peer' = peer \/ \E S : peer' = AfterSend(S)
      BY <2>4 DEF Command
    <2>5. ASSUME NEW k \in Slots, ReadError(k) \/ Disconnect(k), ~Exit
          PROVE  \/ peer' = peer
                 \/ \E c \in Clients : peer[c] = "reset" /\ peer' = [peer EXCEPT ![c] = "gone"]
      BY <2>5 DEF ReadError, Disconnect
    <2>6. CASE ScanEnds \/ AlertsDone \/ NoEmergency BY <2>6 DEF ScanEnds, AlertsDone, NoEmergency
    <2>7. CASE Alert \/ Emergency BY <2>1, <2>7 DEF Alert, Emergency
    <2> QED BY <2>1, <2>2, <2>3, <2>4, <2>5, <2>6, <2>7 DEF Main, ScanRow
  <1>5. peer' = peer => Left' = Left BY DEF Left
  <1> QED BY <1>1, <1>2, <1>3, <1>4, <1>5

\* Without a change of the table nobody becomes or ceases to be a member.
LEMMA MembersStay ==
    ASSUME LabInv, Next, Intact', Untouched
    PROVE  Members' = Members /\ Roots' = Roots
  <1>0. Held' = Held /\ connected_clients' = connected_clients BY DEF Untouched, table, Held
  <1>1. CASE owner' = owner BY <1>0, <1>1 DEF Members, Roots
  <1>2. CASE owner' # owner
    <2>1. Main /\ Running /\ Running' /\ Intact
      <3>1. Main BY <1>2, OutsideKeeps DEF Next, Outside, server, LabInv
      <3> QED BY <1>2, <3>1, EndKeeps, Rounds, StaysIntact DEF Running, LabInv
    <2>2. TableInv' BY TableStep
    <2>3. \A k \in Held : owner[connected_clients[k].socket] \in Clients
      BY <2>1 DEF LabInv, TableInv
    <2>4. \A k \in Held : owner'[connected_clients[k].socket] \in Clients
      BY <2>1, <2>2, <1>0 DEF TableInv
    <2>5. \A k \in Held : connected_clients[k].socket \in Fds BY DEF LabInv, TypeOK, Held
    <2>6. \A k \in Held : owner'[connected_clients[k].socket] = owner[connected_clients[k].socket]
      BY <2>3, <2>4, <2>5, OwnerStays
    <2> QED BY <1>0, <2>6 DEF Members, Roots
  <1> QED BY <1>1, <1>2

\* The clients, the kernel and the producers: credentials are shown, connections ended.
LEMMA OutsideHubs ==
    ASSUME LabInv, Outside
    PROVE  AsHub!Next \/ UNCHANGED hubbed
  <1>0. server' = server /\ told' = told BY OutsideKeeps DEF LabInv
  <1>1. Intact' = Intact /\ Members' = Members /\ Roots' = Roots /\ supplies' = supplies
    BY <1>0 DEF server, table, Intact, Members, Roots, Held
  <1>2. ASSUME cred' = cred, Left' = Left PROVE UNCHANGED hubbed BY <1>0, <1>1, <1>2 DEF hubbed
  <1>3. ASSUME NEW c \in Clients, SendCredentials(c) PROVE AsHub!Next
    <2>1. peer' = peer /\ c \notin Left /\ cred[c] = "none" BY <1>3 DEF SendCredentials, Left
    <2>2. AsHub!Show(c) BY <1>0, <1>1, <1>3, <2>1 DEF SendCredentials, AsHub!Show, Left
    <2> QED BY <2>2 DEF AsHub!Next
  <1>4. ASSUME NEW c \in Clients, Close(c) \/ Abort(c) PROVE AsHub!Next
    <2>1. cred' = cred /\ \E p \in {"closed", "reset"} : peer' = [peer EXCEPT ![c] = p]
      BY <1>4 DEF Close, Abort
    <2>2. Left' = Left \cup {c} BY <2>1 DEF Left, LabInv, TypeOK
    <2>3. AsHub!Hang(c) BY <1>0, <1>1, <2>1, <2>2 DEF AsHub!Hang
    <2> QED BY <2>3 DEF AsHub!Next
  <1>5. ASSUME NEW c \in Clients, Connect(c) \/ SendCommand(c) PROVE UNCHANGED hubbed
    <2>1. cred' = cred /\ (peer' = peer \/ (peer[c] = "none" /\ peer' = [peer EXCEPT ![c] = "open"]))
      BY <1>5 DEF Connect, SendCommand
    <2>2. Left' = Left BY <2>1 DEF Left, LabInv, TypeOK
    <2> QED BY <1>2, <2>1, <2>2
  <1>6. CASE Producers
    <2>1. cred' = cred /\ peer' = peer BY <1>6 DEF Producers, WriteAlert, WriteEmergency, sockets
    <2> QED BY <1>2, <2>1 DEF Left
  <1> QED BY <1>3, <1>4, <1>5, <1>6 DEF Outside, Client

\* Who waits in auth_client is no member yet, and was told nothing.
LEMMA GuestIsNew ==
    ASSUME LabInv, Running, Intact, pc = "auth"
    PROVE  Guest \in Clients /\ Guest \notin Members /\ told[Guest] = "nothing"
  <1>1. Guest \in Clients /\ told[Guest] = "nothing" BY DEF LabInv, Introduced
  <1>2. \A k \in Held : connected_clients[k].socket \in Fds BY DEF LabInv, TypeOK, Held
  <1>3. Guest \notin Members
    BY <1>1, <1>2, Guesting DEF Members, Guest, LabInv, Apart
  <1> QED BY <1>1, <1>3

\* auth_client: the guest becomes a member with the rights of its credentials,
LEMMA AuthenticateAdmits ==
    ASSUME LabInv, Next, Intact', Authenticate, Running'
    PROVE  AsHub!Next
  <1>0. Intact /\ Running /\ ~Exit BY StaysIntact DEF Exit, Running
  <1>1. /\ pc = "auth" /\ owner' = owner /\ told' = [told EXCEPT ![Guest] = "welcome"]
        /\ Join(IF Head(inbox[Guest]) = "root" THEN 1 ELSE 0) /\ supplies' = supplies
        /\ inbox[Guest] # <<>> /\ Head(inbox[Guest]) \in {"root", "hostname"}
    BY <1>0 DEF Authenticate
  <1>2. Guest \in Clients /\ Guest \notin Members /\ told[Guest] = "nothing" BY <1>0, <1>1, GuestIsNew
  <1>3. Head(inbox[Guest]) = cred[Guest] BY <1>1, <1>2 DEF LabInv, Introduced
  <1>4. Left' = Left /\ cred' = cred BY MainLeft DEF Main, LabInv
  <1> DEFINE n == num_connected_clients
             role == IF cred[Guest] = "root" THEN 1 ELSE 0
  <1>5. n \in Slots /\ n \notin Held /\ Held' = Held \cup {n}
    BY <1>1, Sizes DEF LabInv, TypeOK, Packed, Slots, Held, Join
  <1>6. /\ connected_clients'[n] = [socket |-> client_socket, role |-> role]
        /\ \A k \in Held : connected_clients'[k] = connected_clients[k]
    BY <1>1, <1>3, <1>5 DEF Join, LabInv, TypeOK, Held
  <1> HIDE DEF n
  <1>7. Members' = Members \cup {Guest} BY <1>1, <1>2, <1>5, <1>6 DEF Members, Guest
  <1>8. Roots' = IF cred[Guest] = "root" THEN Roots \cup {Guest} ELSE Roots
    BY <1>1, <1>2, <1>5, <1>6 DEF Roots, Guest
  <1>9. AsHub!Admit(Guest) BY <1>0, <1>1, <1>2, <1>3, <1>4, <1>7, <1>8 DEF AsHub!Admit
  <1> QED BY <1>2, <1>9 DEF AsHub!Next

\* or is refused.
LEMMA DenyRefuses ==
    ASSUME LabInv, Next, Intact', Deny, Running'
    PROVE  AsHub!Next
  <1>0. Intact /\ Running /\ ~Exit BY StaysIntact DEF Exit, Running
  <1>1. /\ pc = "auth" /\ told' = [told EXCEPT ![Guest] = "denied"] /\ supplies' = supplies
        /\ inbox[Guest] # <<>> /\ Head(inbox[Guest]) = "wrong" /\ Untouched
    BY <1>0 DEF Deny, Untouched
  <1>2. Guest \in Clients /\ Guest \notin Members /\ told[Guest] = "nothing" BY <1>0, <1>1, GuestIsNew
  <1>3. Head(inbox[Guest]) = cred[Guest] BY <1>1, <1>2 DEF LabInv, Introduced
  <1>4. Left' = Left /\ cred' = cred BY MainLeft DEF Main, LabInv
  <1>5. AsHub!Refuse(Guest) BY <1>0, <1>1, <1>2, <1>3, <1>4, MembersStay DEF AsHub!Refuse
  <1> QED BY <1>2, <1>5 DEF AsHub!Next

\* A command changes the supplies only from a row of root's.
LEMMA CommandChanges ==
    ASSUME LabInv, Next, Intact', NEW k \in Slots, Command(k)
    PROVE  AsHub!Next \/ UNCHANGED hubbed
  <1> DEFINE c == owner[Row(k).socket]
  <1>0. Intact BY StaysIntact
  <1>1. told' = told /\ Untouched /\ c \in Clients BY DEF Command, Untouched
  <1>2. Members' = Members /\ Roots' = Roots BY <1>1, MembersStay
  <1>3. Left' = Left /\ cred' = cred BY MainLeft DEF Main, ScanRow, LabInv
  <1>4. CASE supplies' = supplies BY <1>0, <1>1, <1>2, <1>3, <1>4 DEF hubbed
  <1>5. CASE supplies' # supplies
    <2>1. supplies' = c /\ Row(k).role = 1 /\ Row(k).socket > 0 /\ Row(k) = connected_clients[k]
      BY <1>5 DEF Command, Scans, Hit, Row
    <2>2. k \in Held BY <2>1 DEF LabInv, Packed
    <2>3. c \in Roots BY <1>1, <2>1, <2>2 DEF Roots
    <2>4. AsHub!Change(c) BY <1>0, <1>1, <1>2, <1>3, <2>1, <2>3 DEF AsHub!Change
    <2> QED BY <1>1, <2>4 DEF AsHub!Next
  <1> QED BY <1>4, <1>5

\* When a row is removed the others are all still there, in other places.
LEMMA OtherRows ==
    ASSUME LabInv, NEW k \in Slots, Hit(k), RemoveRow(k)
    PROVE  /\ \A j \in Held' : \E l \in Held \ {k} : connected_clients'[j] = connected_clients[l]
           /\ \A l \in Held \ {k} : \E j \in Held' : connected_clients'[j] = connected_clients[l]
  <1> DEFINE n == num_connected_clients
  <1>1. /\ k \in Held /\ Held' = {j \in Slots : j < n - 1}
        /\ \A j \in Held' : IF j < k THEN connected_clients'[j] = connected_clients[j]
                                      ELSE j + 1 \in Held /\ connected_clients'[j] = connected_clients[j + 1]
    BY RemovedRows DEF LabInv
  <1>2. n \in Nat /\ k \in Nat /\ k < n /\ \A j \in Slots : j \in Nat
    BY <1>1, Sizes DEF LabInv, TypeOK, Held
  <1>3. ASSUME NEW j \in Held' PROVE \E l \in Held \ {k} : connected_clients'[j] = connected_clients[l]
    <2>1. j \in Slots /\ j < n - 1 /\ j \in Nat BY <1>1, <1>2
    <2>2. CASE j < k
      <3>1. j \in Held /\ j # k BY <1>2, <2>1, <2>2 DEF Held
      <3> QED BY <1>1, <2>2, <3>1
    <2>3. CASE ~(j < k)
      <3>1. j + 1 # k BY <1>2, <2>1, <2>3
      <3> QED BY <1>1, <2>3, <3>1
    <2> QED BY <2>2, <2>3
  <1>4. ASSUME NEW l \in Held \ {k}
        PROVE  \E j \in Held' : connected_clients'[j] = connected_clients[l]
    <2>1. l \in Slots /\ l < n /\ l \in Nat /\ l # k BY <1>2 DEF Held
    <2>2. CASE l < k
      <3>1. l \in Held' BY <1>1, <1>2, <2>1, <2>2
      <3> QED BY <1>1, <2>2, <3>1
    <2>3. CASE k < l
      <3>1. l - 1 \in Held' /\ ~(l - 1 < k) /\ (l - 1) + 1 = l
        BY <1>1, <1>2, <2>1, <2>3, Sizes DEF Slots
      <3> QED BY <1>1, <3>1
    <2> QED BY <1>2, <2>1, <2>2, <2>3
  <1> QED BY <1>3, <1>4

\* disconnect_client: who has left is dropped, and nobody else.
LEMMA DisconnectLoses ==
    ASSUME LabInv, Next, Intact', NEW k \in Slots, Disconnect(k), Hit(k), RemoveRow(k), Running'
    PROVE  AsHub!Next
  <1> DEFINE c == owner[connected_clients[k].socket]
             sock(j) == connected_clients[j].socket
  <1>0. Intact /\ Running /\ ~Exit BY StaysIntact DEF Exit, Running
  <1>1. /\ Row(k) = connected_clients[k] /\ c \in Clients /\ peer[c] = "closed"
        /\ owner' = [owner EXCEPT ![sock(k)] = Free] /\ told' = told /\ supplies' = supplies
    BY <1>0 DEF Disconnect, sockets, Row
  <1>2. Left' = Left /\ cred' = cred BY MainLeft DEF Main, ScanRow, LabInv
  <1>3. k \in Held BY RemovedRows DEF LabInv
  <1>4. \A l \in Held : /\ sock(l) \in Fds /\ owner[sock(l)] \in Clients
                        /\ sock(l) = sock(k) => l = k
    BY <1>0, <1>3 DEF LabInv, TableInv, TypeOK, Held
  <1>5. \A l \in Held \ {k} : owner[sock(l)] # c /\ owner'[sock(l)] = owner[sock(l)]
    BY <1>1, <1>3, <1>4 DEF LabInv, Apart, TypeOK
  <1>6. Members' = Members \ {c} BY <1>1, <1>3, <1>5, OtherRows DEF Members
  <1>7. Roots' = Roots \ {c} BY <1>1, <1>3, <1>5, OtherRows DEF Roots
  <1>8. c \in Members \cap Left BY <1>1, <1>3 DEF Members, Left
  <1>9. AsHub!Lose(c) BY <1>0, <1>1, <1>2, <1>6, <1>7, <1>8 DEF AsHub!Lose
  <1> QED BY <1>1, <1>9 DEF AsHub!Next

\* handle_emergencies: all members are told and disconnected.
LEMMA EmergencyEvacuates ==
    ASSUME LabInv, Next, Intact', Emergency, Running'
    PROVE  AsHub!Next
  <1>0. Intact /\ Running /\ ~Exit BY StaysIntact DEF Exit, Running
  <1>1. /\ EvictAll /\ supplies' = supplies
        /\ told' = [c \in Clients |-> IF c \in Audience THEN "emergency" ELSE told[c]]
    BY <1>0 DEF Emergency
  <1>2. Left' = Left /\ cred' = cred BY MainLeft DEF Main, LabInv
  <1>3. Held' = {}
    <2>1. num_connected_clients' = 0 BY <1>1 DEF EvictAll
    <2>2. \A k \in Slots : ~(k < 0) BY Sizes
    <2> QED BY <2>1, <2>2 DEF Held
  <1>4. Members' = {} /\ Roots' = {} BY <1>3 DEF Members, Roots
  <1>5. \A k \in Held : connected_clients[k].socket > 0
    <2>1. \A k \in Held : connected_clients[k].socket > EmergencyFd BY <1>0 DEF LabInv, TableInv
    <2>2. \A k \in Held : connected_clients[k].socket \in Nat BY Sizes DEF LabInv, TypeOK, Held
    <2> QED BY <2>1, <2>2 DEF EmergencyFd
  <1>6. Audience = Members BY <1>5 DEF Audience, Members, Held
  <1>7. AsHub!Evacuate BY <1>0, <1>1, <1>2, <1>4, <1>6 DEF AsHub!Evacuate
  <1> QED BY <1>7 DEF AsHub!Next

\* Every step of the server is one of the hub's, or is not seen by it.
LEMMA HubStep == LabInv /\ [Next]_vars => AsHub!Next \/ UNCHANGED hubbed
  <1> SUFFICES ASSUME LabInv, [Next]_vars PROVE AsHub!Next \/ UNCHANGED hubbed OBVIOUS
  <1>1. CASE UNCHANGED vars
    BY <1>1 DEF vars, locals, table, sockets, hubbed, Intact, Members, Roots, Left, Held
  <1>2. CASE ~Intact' BY <1>2 DEF AsHub!Next, AsHub!Damage
  <1>3. CASE Outside BY <1>3, OutsideHubs
  <1>4. ASSUME Main, Intact' PROVE AsHub!Next \/ UNCHANGED hubbed
    <2>0. Next /\ Intact BY <1>4, StaysIntact DEF Next
    <2>1. Left' = Left /\ cred' = cred BY <1>4, MainLeft DEF LabInv
    <2>2. ASSUME Untouched, told' = told, supplies' = supplies PROVE UNCHANGED hubbed
      BY <1>4, <2>0, <2>1, <2>2, MembersStay DEF hubbed
    <2>3. CASE ~Running' BY <1>4, <2>0, <2>2, <2>3, EndKeeps, CommandChanges
    <2>4. ASSUME Running' PROVE AsHub!Next \/ UNCHANGED hubbed
      <3>0. ~Exit BY <2>4 DEF Exit, Running
      <3>1. CASE Authenticate BY <1>4, <2>0, <2>4, <3>1, AuthenticateAdmits
      <3>2. CASE Deny BY <1>4, <2>0, <2>4, <3>2, DenyRefuses
      <3>3. ASSUME NEW k \in Slots, Command(k) PROVE AsHub!Next \/ UNCHANGED hubbed
        BY <1>4, <2>0, <3>3, CommandChanges
      <3>4. ASSUME NEW k \in Slots, Disconnect(k) PROVE AsHub!Next
        <4>1. Hit(k) /\ RemoveRow(k) BY <3>0, <3>4 DEF Disconnect, Scans
        <4> QED BY <1>4, <2>0, <2>4, <3>4, <4>1, DisconnectLoses
      <3>5. CASE Emergency BY <1>4, <2>0, <2>4, <3>5, EmergencyEvacuates
      <3>6. CASE Select \/ Accept \/ TurnAway \/ NoCredentials \/ ScanEnds \/ Alert \/ AlertsDone
                 \/ NoEmergency \/ \E k \in Slots : ReadError(k)
        <4>1. Untouched /\ told' = told /\ supplies' = supplies
          BY <3>0, <3>6 DEF Select, Accept, TurnAway, NoCredentials, ScanEnds, Alert, AlertsDone,
                            NoEmergency, ReadError, table, sockets, Untouched
        <4> QED BY <2>2, <4>1
      <3> QED BY <1>4, <3>1, <3>2, <3>3, <3>4, <3>5, <3>6 DEF Main, ScanRow
    <2> QED BY <2>3, <2>4
  <1> QED BY <1>1, <1>2, <1>3, <1>4 DEF Next, Outside

\* The server of lab1 is a hub: members come in on their credentials, keep their own
\* rights, and stay until they leave or all are evacuated, until stdin is closed.
THEOREM LabServerIsAHub == Spec => ImplementsHub
  <1>1. Init => AsHub!Init
    <2> SUFFICES ASSUME Init PROVE AsHub!Init OBVIOUS
    <2>1. Held = {}
      <3>1. num_connected_clients = 0 /\ \A k \in Slots : ~(k < 0) BY Sizes DEF Init
      <3> QED BY <3>1 DEF Held
    <2>2. Intact BY Sizes DEF Intact, Init, EmergencyFd
    <2>3. Members = {} /\ Roots = {} /\ Left = {} BY <2>1 DEF Members, Roots, Left, Init
    <2> QED BY <2>2, <2>3 DEF AsHub!Init, Init
  <1>2. AsHub!hubVars = hubbed BY DEF AsHub!hubVars, hubbed
  <1> QED BY <1>1, <1>2, HubStep, LabServerIsSound, PTL
          DEF Spec, ImplementsHub, AsHub!Spec, AsHub!hubVars, hubbed

=============================================================================
