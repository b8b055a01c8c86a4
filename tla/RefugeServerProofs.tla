------------------------- MODULE RefugeServerProofs -------------------------
(***************************************************************************)
(* ServerInv is an inductive invariant of RefugeServer, for any clients,   *)
(* lines and descriptors.  One lemma per action; in each, the first step   *)
(* holds the conjuncts that need nothing but themselves.                   *)
(***************************************************************************)
EXTENDS RefugeServer, TLAPS

\* A client connects.
LEMMA ConnectKeeps ==
    ASSUME NEW c \in Clients, ServerInv, Running, Connect(c)
    PROVE  ServerInv'
<1>1. NumbersMatch' /\ EntriesHaveThreads' /\ PassedAreClosed' /\ NoClientOverlooked'
      /\ RightConnection' /\ RolesEarned'
    BY DEF ServerInv, NumbersMatch, Live, EntriesHaveThreads, Listed, Reading, Prompts,
       PassedAreClosed, NoClientOverlooked, BeingClosed, RightConnection, RolesEarned, Connect,
       mainVars, vectorVars, threadVars
<1>2. TypeOK'
    BY DEF ServerInv, TypeOK, Reading, Prompts, Connect, mainVars, vectorVars, threadVars
<1>3. Waiting'
    BY DEF ServerInv, Waiting, Live, Reading, Prompts, Running, TypeOK, Connect, mainVars,
       vectorVars, threadVars, Listeners, Pipes, Words, Quiet
<1> QED BY <1>1, <1>2, <1>3 DEF ServerInv

\* A client sends a line.
LEMMA SendKeeps ==
    ASSUME NEW c \in Clients, NEW w \in Says[c], ServerInv, Running, Send(c, w)
    PROVE  ServerInv'
<1>1. Waiting' /\ NumbersMatch' /\ EntriesHaveThreads' /\ PassedAreClosed'
      /\ NoClientOverlooked' /\ RightConnection' /\ RolesEarned'
    BY DEF ServerInv, Waiting, Live, Reading, Prompts, Running, NumbersMatch,
       EntriesHaveThreads, Listed, PassedAreClosed, NoClientOverlooked, BeingClosed,
       RightConnection, RolesEarned, Send, mainVars, vectorVars, threadVars
<1>2. TypeOK'
    BY ClientAssumption DEF ServerInv, TypeOK, Reading, Prompts, Send, mainVars, vectorVars,
       threadVars
<1> QED BY <1>1, <1>2 DEF ServerInv

\* A client goes away.
LEMMA LeaveKeeps ==
    ASSUME NEW c \in Clients, ServerInv, Running, Leave(c)
    PROVE  ServerInv'
<1>1. TypeOK' /\ Waiting' /\ NumbersMatch' /\ EntriesHaveThreads' /\ PassedAreClosed'
      /\ NoClientOverlooked' /\ RightConnection' /\ RolesEarned'
    BY DEF ServerInv, TypeOK, Reading, Prompts, Waiting, Live, Running, NumbersMatch,
       EntriesHaveThreads, Listed, PassedAreClosed, NoClientOverlooked, BeingClosed,
       RightConnection, RolesEarned, Leave, mainVars, vectorVars, threadVars
<1> QED BY <1>1 DEF ServerInv

\* A producer writes.
LEMMA EmergencyKeeps ==
    ASSUME ServerInv, Running, Emergency
    PROVE  ServerInv'
<1>1. TypeOK' /\ Waiting' /\ NumbersMatch' /\ EntriesHaveThreads' /\ PassedAreClosed'
      /\ NoClientOverlooked' /\ RightConnection' /\ RolesEarned'
    BY DEF ServerInv, TypeOK, Reading, Prompts, Waiting, Live, Running, NumbersMatch,
       EntriesHaveThreads, Listed, PassedAreClosed, NoClientOverlooked, BeingClosed,
       RightConnection, RolesEarned, Emergency, mainVars, vectorVars, threadVars, clientVars
<1> QED BY <1>1 DEF ServerInv

\* main waits.
LEMMA SelectKeeps ==
    ASSUME ServerInv, Running, Select
    PROVE  ServerInv'
<1>1. Waiting' /\ NumbersMatch' /\ EntriesHaveThreads' /\ PassedAreClosed'
      /\ NoClientOverlooked' /\ RightConnection' /\ RolesEarned'
    BY DEF ServerInv, Waiting, Live, Reading, Prompts, Running, NumbersMatch,
       EntriesHaveThreads, Listed, PassedAreClosed, NoClientOverlooked, BeingClosed,
       RightConnection, RolesEarned, Select, Readable, vectorVars, threadVars, clientVars
<1>2. TypeOK'
    BY DEF ServerInv, TypeOK, Reading, Prompts, Select, Readable, vectorVars, threadVars,
       clientVars, Listeners, Pipes, Words, Quiet
<1> QED BY <1>1, <1>2 DEF ServerInv

\* main accepts a connection: its descriptor was free, so it was nobody else's number.
LEMMA AcceptKeeps ==
    ASSUME NEW l \in Listeners, NEW c \in Clients, NEW f \in Fds, ServerInv, Running, Accept(l, c, f)
    PROVE  ServerInv'
<1>1. TypeOK' /\ PassedAreClosed' /\ RolesEarned'
    BY DEF ServerInv, TypeOK, Reading, Prompts, PassedAreClosed, RolesEarned, Accept, Turn,
       vectorVars
<1>2. Waiting'
    BY DEF ServerInv, Waiting, Live, Reading, Prompts, Running, TypeOK, Accept, Turn,
       vectorVars, Listeners, Pipes, Words, Quiet
<1>3. NumbersMatch'
    BY ClientAssumption DEF ServerInv, NumbersMatch, Live, TypeOK, Reading, Prompts, Waiting,
       Running, Accept, Turn, vectorVars
<1>4. EntriesHaveThreads'
    BY ClientAssumption DEF ServerInv, EntriesHaveThreads, Listed, Reading, Prompts, TypeOK,
       Waiting, Live, Running, Accept, Turn, vectorVars
<1>5. NoClientOverlooked'
    BY ClientAssumption DEF ServerInv, NoClientOverlooked, BeingClosed, Listed, Reading,
       Prompts, TypeOK, Waiting, Live, Running, Accept, Turn, vectorVars
<1>6. RightConnection'
    BY ClientAssumption DEF ServerInv, RightConnection, Live, TypeOK, Reading, Prompts, Waiting,
       Running, Accept, Turn, vectorVars
<1> QED BY <1>1, <1>2, <1>3, <1>4, <1>5, <1>6 DEF ServerInv

\* The process ends.
LEMMA ExitKeeps ==
    ASSUME ServerInv, Running, Exit
    PROVE  ServerInv'
<1>1. TypeOK' /\ NumbersMatch' /\ EntriesHaveThreads' /\ PassedAreClosed'
      /\ NoClientOverlooked' /\ RightConnection' /\ RolesEarned'
    BY DEF ServerInv, TypeOK, Reading, Prompts, NumbersMatch, Live, EntriesHaveThreads, Listed,
       PassedAreClosed, NoClientOverlooked, BeingClosed, RightConnection, RolesEarned, Exit
<1>2. Waiting'
    BY DEF ServerInv, Waiting, Live, Reading, Prompts, Running, Exit, Listeners, Pipes, Words,
       Quiet
<1> QED BY <1>1, <1>2 DEF ServerInv

\* main reads the alerts.
LEMMA HandleAlertsKeeps ==
    ASSUME ServerInv, Running, HandleAlerts
    PROVE  ServerInv'
<1>1. TypeOK' /\ Waiting' /\ NumbersMatch' /\ EntriesHaveThreads' /\ PassedAreClosed'
      /\ NoClientOverlooked' /\ RightConnection' /\ RolesEarned'
    BY DEF ServerInv, TypeOK, Reading, Prompts, Waiting, Live, Running, NumbersMatch,
       EntriesHaveThreads, Listed, PassedAreClosed, NoClientOverlooked, BeingClosed,
       RightConnection, RolesEarned, HandleAlerts, ReadPipe, Turn, vectorVars, threadVars,
       clientVars
<1> QED BY <1>1 DEF ServerInv

\* main has told everybody.
LEMMA AlertsSentKeeps ==
    ASSUME ServerInv, Running, AlertsSent
    PROVE  ServerInv'
<1>1. TypeOK' /\ Waiting' /\ NumbersMatch' /\ EntriesHaveThreads' /\ PassedAreClosed'
      /\ NoClientOverlooked' /\ RightConnection' /\ RolesEarned'
    BY DEF ServerInv, TypeOK, Reading, Prompts, Waiting, Live, Running, NumbersMatch,
       EntriesHaveThreads, Listed, PassedAreClosed, NoClientOverlooked, BeingClosed,
       RightConnection, RolesEarned, AlertsSent, vectorVars, threadVars, clientVars
<1> QED BY <1>1 DEF ServerInv

\* main reads the emergency.
LEMMA HandleEmergencyKeeps ==
    ASSUME ServerInv, Running, HandleEmergency
    PROVE  ServerInv'
<1>1. TypeOK' /\ Waiting' /\ NumbersMatch' /\ EntriesHaveThreads' /\ PassedAreClosed'
      /\ NoClientOverlooked' /\ RightConnection' /\ RolesEarned'
    BY DEF ServerInv, TypeOK, Reading, Prompts, Waiting, Live, Running, NumbersMatch,
       EntriesHaveThreads, Listed, PassedAreClosed, NoClientOverlooked, BeingClosed,
       RightConnection, RolesEarned, HandleEmergency, ReadPipe, Turn, vectorVars, threadVars,
       clientVars
<1> QED BY <1>1 DEF ServerInv

\* main closes an entry.
LEMMA EvictKeeps ==
    ASSUME ServerInv, Running, Evict
    PROVE  ServerInv'
<1>1. TypeOK' /\ Waiting' /\ NumbersMatch' /\ EntriesHaveThreads' /\ RightConnection'
      /\ RolesEarned'
    BY DEF ServerInv, TypeOK, Reading, Prompts, Waiting, Live, Running, NumbersMatch,
       EntriesHaveThreads, Listed, RightConnection, RolesEarned, Evict, vectorVars, threadVars,
       clientVars
<1>2. PassedAreClosed'
    BY DEF ServerInv, PassedAreClosed, TypeOK, Reading, Prompts, Evict, vectorVars, threadVars,
       clientVars
<1>3. NoClientOverlooked'
    BY ClientAssumption DEF ServerInv, NoClientOverlooked, BeingClosed, Listed, Reading,
       Prompts, TypeOK, Evict, vectorVars, threadVars, clientVars
<1> QED BY <1>1, <1>2, <1>3 DEF ServerInv

\* main forgets the entries, all of which it has closed unless accesses have overlapped.
LEMMA ClearVectorKeeps ==
    ASSUME ServerInv, Running, ClearVector
    PROVE  ServerInv'
<1>1. TypeOK' /\ Waiting' /\ NumbersMatch' /\ EntriesHaveThreads' /\ PassedAreClosed'
      /\ RightConnection' /\ RolesEarned'
    BY DEF ServerInv, TypeOK, Reading, Prompts, Waiting, Live, Running, NumbersMatch,
       EntriesHaveThreads, Listed, PassedAreClosed, RightConnection, RolesEarned, ClearVector,
       Outcomes, threadVars, clientVars
<1>2. NoClientOverlooked'
    BY ClientAssumption DEF ServerInv, NoClientOverlooked, BeingClosed, Listed, Reading,
       Prompts, TypeOK, Waiting, Live, Running, NumbersMatch, EntriesHaveThreads,
       PassedAreClosed, RightConnection, ClearVector, Outcomes, threadVars, clientVars
<1> QED BY <1>1, <1>2 DEF ServerInv

\* A thread gives up before it is listed.
LEMMA NoNameKeeps ==
    ASSUME NEW c \in Clients, ServerInv, Running, NoName(c)
    PROVE  ServerInv'
<1>1. EntriesHaveThreads' /\ PassedAreClosed' /\ RolesEarned'
    BY DEF ServerInv, EntriesHaveThreads, Listed, Reading, Prompts, PassedAreClosed,
       RolesEarned, NoName, End, mainVars, vectorVars, clientVars
<1>2. TypeOK'
    BY DEF ServerInv, TypeOK, Reading, Prompts, NoName, End, mainVars, vectorVars, clientVars
<1>3. Waiting'
    BY DEF ServerInv, Waiting, Live, Reading, Prompts, Running, TypeOK, NoName, End, mainVars,
       vectorVars, clientVars
<1>4. NumbersMatch'
    BY DEF ServerInv, NumbersMatch, Live, TypeOK, Reading, Prompts, NoName, End, mainVars,
       vectorVars, clientVars
<1>5. NoClientOverlooked'
    BY ClientAssumption DEF ServerInv, NoClientOverlooked, BeingClosed, Listed, Reading,
       Prompts, TypeOK, NoName, End, mainVars, vectorVars, clientVars
<1>6. RightConnection'
    BY DEF ServerInv, RightConnection, Live, TypeOK, Reading, Prompts, NoName, End, mainVars,
       vectorVars, clientVars
<1> QED BY <1>1, <1>2, <1>3, <1>4, <1>5, <1>6 DEF ServerInv

\* A thread lists its number; next to a loop of main this is an overlap.
LEMMA PushKeeps ==
    ASSUME NEW c \in Clients, ServerInv, Running, Push(c)
    PROVE  ServerInv'
<1>1. PassedAreClosed'
    BY DEF ServerInv, PassedAreClosed, Push, Named, Access, Outcomes, MainInside, Others,
       mainVars, clientVars
<1>2. TypeOK'
    BY ClientAssumption DEF ServerInv, TypeOK, Reading, Prompts, Waiting, Live, Running, Push,
       Named, Access, Outcomes, MainInside, Others, mainVars, clientVars
<1>3. Waiting'
    BY DEF ServerInv, Waiting, Live, Reading, Prompts, Running, Push, Named, Access, Outcomes,
       MainInside, Others, mainVars, clientVars
<1>4. NumbersMatch'
    BY DEF ServerInv, NumbersMatch, Live, Push, Named, Access, Outcomes, MainInside, Others,
       mainVars, clientVars
<1>5. EntriesHaveThreads'
    BY DEF ServerInv, EntriesHaveThreads, Listed, Reading, Prompts, TypeOK, Push, Named, Access,
       Outcomes, MainInside, Others, mainVars, clientVars
<1>6. NoClientOverlooked'
    BY DEF ServerInv, NoClientOverlooked, BeingClosed, Listed, Reading, Prompts, TypeOK, Push,
       Named, Access, Outcomes, MainInside, Others, mainVars, clientVars
<1>7. RightConnection'
    BY DEF ServerInv, RightConnection, Live, Push, Named, Access, Outcomes, MainInside, Others,
       mainVars, clientVars
<1>8. RolesEarned'
    BY DEF ServerInv, RolesEarned, Push, Named, Access, Outcomes, MainInside, Others, mainVars,
       clientVars
<1> QED BY <1>1, <1>2, <1>3, <1>4, <1>5, <1>6, <1>7, <1>8 DEF ServerInv

\* A thread waits for data.
LEMMA ReceiveKeeps ==
    ASSUME NEW c \in Clients, ServerInv, Running, Receive(c)
    PROVE  ServerInv'
<1>1. Waiting' /\ NumbersMatch' /\ EntriesHaveThreads' /\ PassedAreClosed'
      /\ NoClientOverlooked' /\ RightConnection' /\ RolesEarned'
    BY DEF ServerInv, Waiting, Live, Reading, Prompts, Running, NumbersMatch,
       EntriesHaveThreads, Listed, PassedAreClosed, NoClientOverlooked, BeingClosed,
       RightConnection, RolesEarned, Receive, mainVars, vectorVars, clientVars
<1>2. TypeOK'
    BY ClientAssumption DEF ServerInv, TypeOK, Reading, Prompts, Waiting, Live, Running,
       Receive, mainVars, vectorVars, clientVars
<1> QED BY <1>1, <1>2 DEF ServerInv

\* A thread finds its client gone.
LEMMA LeaveLoopKeeps ==
    ASSUME NEW c \in Clients, ServerInv, Running, LeaveLoop(c)
    PROVE  ServerInv'
<1>1. TypeOK' /\ NumbersMatch' /\ EntriesHaveThreads' /\ PassedAreClosed'
      /\ NoClientOverlooked' /\ RightConnection' /\ RolesEarned'
    BY DEF ServerInv, TypeOK, Reading, Prompts, NumbersMatch, Live, EntriesHaveThreads, Listed,
       PassedAreClosed, NoClientOverlooked, BeingClosed, RightConnection, RolesEarned,
       LeaveLoop, mainVars, vectorVars, clientVars
<1>2. Waiting'
    BY DEF ServerInv, Waiting, Live, Reading, Prompts, Running, TypeOK, LeaveLoop, mainVars,
       vectorVars, clientVars
<1> QED BY <1>1, <1>2 DEF ServerInv

\* A client says goodbye.
LEMMA ExitCommandKeeps ==
    ASSUME NEW c \in Clients, ServerInv, Running, ExitCommand(c)
    PROVE  ServerInv'
<1>1. TypeOK' /\ NumbersMatch' /\ EntriesHaveThreads' /\ PassedAreClosed'
      /\ NoClientOverlooked' /\ RightConnection' /\ RolesEarned'
    BY DEF ServerInv, TypeOK, Reading, Prompts, NumbersMatch, Live, EntriesHaveThreads, Listed,
       PassedAreClosed, NoClientOverlooked, BeingClosed, RightConnection, RolesEarned,
       ExitCommand, Takes, mainVars, vectorVars
<1>2. Waiting'
    BY DEF ServerInv, Waiting, Live, Reading, Prompts, Running, TypeOK, ExitCommand, Takes,
       mainVars, vectorVars
<1> QED BY <1>1, <1>2 DEF ServerInv

\* A thread takes a command.
LEMMA CommandKeeps ==
    ASSUME NEW c \in Clients, ServerInv, Running, Command(c)
    PROVE  ServerInv'
<1>1. TypeOK' /\ Waiting' /\ NumbersMatch' /\ EntriesHaveThreads' /\ PassedAreClosed'
      /\ NoClientOverlooked' /\ RightConnection' /\ RolesEarned'
    BY DEF ServerInv, TypeOK, Reading, Prompts, Waiting, Live, Running, NumbersMatch,
       EntriesHaveThreads, Listed, PassedAreClosed, NoClientOverlooked, BeingClosed,
       RightConnection, RolesEarned, Command, Takes, After, Word, mainVars, vectorVars
<1> QED BY <1>1 DEF ServerInv

\* A thread takes a name.
LEMMA UsernameKeeps ==
    ASSUME NEW c \in Clients, ServerInv, Running, Username(c)
    PROVE  ServerInv'
<1>1. TypeOK' /\ Waiting' /\ NumbersMatch' /\ EntriesHaveThreads' /\ PassedAreClosed'
      /\ NoClientOverlooked' /\ RightConnection' /\ RolesEarned'
    BY DEF ServerInv, TypeOK, Reading, Prompts, Waiting, Live, Running, NumbersMatch,
       EntriesHaveThreads, Listed, PassedAreClosed, NoClientOverlooked, BeingClosed,
       RightConnection, RolesEarned, Username, Takes, Word, mainVars, vectorVars
<1> QED BY <1>1 DEF ServerInv

\* A thread takes a password; it was its own client's if no emergency came.
LEMMA PasswordKeeps ==
    ASSUME NEW c \in Clients, ServerInv, Running, Password(c)
    PROVE  ServerInv'
<1>1. TypeOK' /\ Waiting' /\ NumbersMatch' /\ EntriesHaveThreads' /\ PassedAreClosed'
      /\ NoClientOverlooked' /\ RightConnection'
    BY DEF ServerInv, TypeOK, Reading, Prompts, Waiting, Live, Running, NumbersMatch,
       EntriesHaveThreads, Listed, PassedAreClosed, NoClientOverlooked, BeingClosed,
       RightConnection, Password, Takes, Word, mainVars, vectorVars
<1>2. RolesEarned'
    BY ClientAssumption DEF ServerInv, RolesEarned, TypeOK, Reading, Prompts, Waiting, Live,
       Running, RightConnection, Password, Takes, Word, mainVars, vectorVars
<1> QED BY <1>1, <1>2 DEF ServerInv

\* A thread takes a supply.
LEMMA SupplyKeeps ==
    ASSUME NEW c \in Clients, ServerInv, Running, Supply(c)
    PROVE  ServerInv'
<1>1. TypeOK' /\ Waiting' /\ NumbersMatch' /\ EntriesHaveThreads' /\ PassedAreClosed'
      /\ NoClientOverlooked' /\ RightConnection' /\ RolesEarned'
    BY DEF ServerInv, TypeOK, Reading, Prompts, Waiting, Live, Running, NumbersMatch,
       EntriesHaveThreads, Listed, PassedAreClosed, NoClientOverlooked, BeingClosed,
       RightConnection, RolesEarned, Supply, Takes, mainVars, vectorVars
<1> QED BY <1>1 DEF ServerInv

\* A thread takes its number out; another thread with the number is about to be closed.
LEMMA EraseKeeps ==
    ASSUME NEW c \in Clients, ServerInv, Running, Erase(c)
    PROVE  ServerInv'
<1>1. PassedAreClosed'
    BY DEF ServerInv, PassedAreClosed, Erase, Access, Outcomes, MainInside, Others, mainVars,
       clientVars
<1>2. TypeOK'
    BY DEF ServerInv, TypeOK, Reading, Prompts, Erase, Access, Outcomes, MainInside, Others,
       mainVars, clientVars
<1>3. Waiting'
    BY DEF ServerInv, Waiting, Live, Reading, Prompts, Running, Erase, Access, Outcomes,
       MainInside, Others, mainVars, clientVars
<1>4. NumbersMatch'
    BY DEF ServerInv, NumbersMatch, Live, Erase, Access, Outcomes, MainInside, Others, mainVars,
       clientVars
<1>5. EntriesHaveThreads'
    BY DEF ServerInv, EntriesHaveThreads, Listed, Reading, Prompts, TypeOK, Erase, Access,
       Outcomes, MainInside, Others, mainVars, clientVars
<1>6. NoClientOverlooked'
    BY DEF ServerInv, NoClientOverlooked, BeingClosed, Listed, Reading, Prompts, TypeOK, Erase,
       Access, Outcomes, MainInside, Others, mainVars, clientVars
<1>7. RightConnection'
    BY DEF ServerInv, RightConnection, Live, Erase, Access, Outcomes, MainInside, Others,
       mainVars, clientVars
<1>8. RolesEarned'
    BY DEF ServerInv, RolesEarned, Erase, Access, Outcomes, MainInside, Others, mainVars,
       clientVars
<1> QED BY <1>1, <1>2, <1>3, <1>4, <1>5, <1>6, <1>7, <1>8 DEF ServerInv

\* A thread closes its number.
LEMMA CloseKeeps ==
    ASSUME NEW c \in Clients, ServerInv, Running, Close(c)
    PROVE  ServerInv'
<1>1. TypeOK' /\ EntriesHaveThreads' /\ PassedAreClosed' /\ RolesEarned'
    BY DEF ServerInv, TypeOK, Reading, Prompts, EntriesHaveThreads, Listed, PassedAreClosed,
       RolesEarned, Close, End, mainVars, vectorVars, clientVars
<1>2. Waiting'
    BY DEF ServerInv, Waiting, Live, Reading, Prompts, Running, TypeOK, Close, End, mainVars,
       vectorVars, clientVars
<1>3. NumbersMatch'
    BY DEF ServerInv, NumbersMatch, Live, TypeOK, Reading, Prompts, Close, End, mainVars,
       vectorVars, clientVars
<1>4. NoClientOverlooked'
    BY ClientAssumption DEF ServerInv, NoClientOverlooked, BeingClosed, Listed, Reading,
       Prompts, TypeOK, Waiting, Live, Running, Close, End, mainVars, vectorVars, clientVars
<1>5. RightConnection'
    BY DEF ServerInv, RightConnection, Live, TypeOK, Reading, Prompts, Close, End, mainVars,
       vectorVars, clientVars
<1> QED BY <1>1, <1>2, <1>3, <1>4, <1>5 DEF ServerInv

\* Nothing is listed, open or running at the start.
LEMMA ServerInvAtStart == Init => ServerInv
<1>1. SUFFICES ASSUME Init PROVE ServerInv
    OBVIOUS
<1>2. TypeOK
    BY <1>1 DEF Init, TypeOK, Reading, Prompts, Listeners, Pipes, Words, Quiet
<1>3. Waiting
    BY <1>1 DEF Init, Waiting, Live, Listeners
<1>4. NumbersMatch /\ EntriesHaveThreads /\ PassedAreClosed
    BY <1>1 DEF Init, NumbersMatch, EntriesHaveThreads, PassedAreClosed
<1>5. NoClientOverlooked /\ RightConnection /\ RolesEarned
    BY <1>1 DEF Init, NoClientOverlooked, RightConnection, RolesEarned, Listed, Live, Reading, Prompts
<1> QED
    BY <1>2, <1>3, <1>4, <1>5 DEF ServerInv

LEMMA ServerInvKept == ServerInv /\ [Next]_vars => ServerInv'
<1>1. SUFFICES ASSUME ServerInv, [Next]_vars PROVE ServerInv'
    OBVIOUS
<1>2. CASE UNCHANGED vars
    BY <1>1, <1>2
       DEF ServerInv, TypeOK, Waiting, NumbersMatch, EntriesHaveThreads, PassedAreClosed,
           NoClientOverlooked, RightConnection, RolesEarned, Live, Listed, Reading, Prompts, Running,
           BeingClosed, vars, mainVars, vectorVars, threadVars, clientVars
<1>3. CASE Running /\ Environment
    BY <1>1, <1>3, ConnectKeeps, SendKeeps, LeaveKeeps, EmergencyKeeps DEF Environment
<1>4. CASE Running /\ Main
    <2>1. CASE \E l \in Listeners : AcceptFails(l) \/ \E c \in Clients, f \in Fds : Accept(l, c, f)
        BY <1>1, <1>4, <2>1, AcceptKeeps, ExitKeeps DEF AcceptFails
    <2>2. CASE ReadsEnd
        BY <1>1, <1>4, <2>2, ExitKeeps DEF ReadsEnd
    <2> QED
        BY <1>1, <1>4, <2>1, <2>2, SelectKeeps, HandleAlertsKeeps, AlertsSentKeeps,
           HandleEmergencyKeeps, EvictKeeps, ClearVectorKeeps DEF Main
<1>5. CASE Running /\ Fault
    BY <1>1, <1>5, ExitKeeps DEF Fault
<1>6. ASSUME Running, NEW c \in Clients, Thread(c) PROVE ServerInv'
    <2>1. CASE PromptFails(c)
        BY <1>1, <1>6, <2>1, ExitKeeps DEF PromptFails
    <2> QED
        BY <1>1, <1>6, <2>1, NoNameKeeps, PushKeeps, ReceiveKeeps, LeaveLoopKeeps, ExitCommandKeeps,
           CommandKeeps, UsernameKeeps, PasswordKeeps, SupplyKeeps, EraseKeeps, CloseKeeps DEF Thread
<1> QED
    BY <1>1, <1>2, <1>3, <1>4, <1>5, <1>6 DEF Next

----------------------------------------------------------------------------
\* The inductive invariant holds: until accesses overlap, the vector and the threads agree;
\* no descriptor is leaked; until an emergency every thread serves its own client.
THEOREM ServerIsSound == Spec => []ServerInv
<1> QED BY ServerInvAtStart, ServerInvKept, PTL DEF Spec

\* handle_client always comes to the close of what accept returned.
THEOREM NoDescriptorLeaks == Spec => []NumbersMatch
<1>1. ServerInv => NumbersMatch
    BY DEF ServerInv
<1> QED BY <1>1, ServerIsSound, PTL

\* The vector holds no number that no thread will take out.
THEOREM NoStaleEntries == Spec => []EntriesHaveThreads
<1>1. ServerInv => EntriesHaveThreads
    BY DEF ServerInv
<1> QED BY <1>1, ServerIsSound, PTL

\* Alerts and emergencies reach every client that a thread serves.
THEOREM ServedClientsAreListed == Spec => []NoClientOverlooked
<1>1. ServerInv => NoClientOverlooked
    BY DEF ServerInv
<1> QED BY <1>1, ServerIsSound, PTL

\* Threads do not mix up their connections before an emergency.
THEOREM ThreadsServeTheirClients == Spec => []RightConnection
<1>1. ServerInv => RightConnection
    BY DEF ServerInv
<1> QED BY <1>1, ServerIsSound, PTL

\* Before an emergency nobody gets to the supplies without a login of its own.
THEOREM LoginsAreOwn == Spec => []RolesEarned
<1>1. ServerInv => RolesEarned
    BY DEF ServerInv
<1> QED BY <1>1, ServerIsSound, PTL

\* Whoever is left connected by disconnect_all_clients was not listed yet, or is being closed.
THEOREM EmergencyDisconnects == Spec => OnlyNewcomersSurvive
<1> DEFINE Step == mpc = "evicting" /\ mpc' = "round" /\ ~torn =>
                     \A f \in Fds : owner'[f] # Nobody => tpc[owner[f]] = "start" \/ BeingClosed(f)
<1>1. ServerInv /\ [Next]_vars => [Step]_vars
    <2>1. SUFFICES ASSUME ServerInv, Next, mpc = "evicting", mpc' = "round", ~torn,
                          NEW f \in Fds, owner'[f] # Nobody
                   PROVE  tpc[owner[f]] = "start" \/ BeingClosed(f)
        OBVIOUS
    <2>2. ClearVector
        BY <2>1 DEF Next, Environment, Main, Fault, Thread, Connect, Send, Leave, Emergency, Select, Accept,
           AcceptFails, ReadsEnd, HandleAlerts, HandleEmergency, AlertsSent, ReadPipe, Turn, Evict, NoName,
           Push, Receive, LeaveLoop, PromptFails, ExitCommand, Command, Username, Password, Supply, Erase,
           Close, Exit, Takes, mainVars
    <2>3. todo = {} /\ owner' = owner
        BY <2>1, <2>2 DEF ClearVector
    <2>4. Live(owner[f]) /\ client_socket[owner[f]] = f /\ owner[f] \in Clients
        BY <2>1, <2>3 DEF ServerInv, NumbersMatch, TypeOK
    <2>5. f \notin connected_clients
        BY <2>1, <2>3 DEF ServerInv, PassedAreClosed
    <2>6. CASE Listed(owner[f])
        BY <2>1, <2>4, <2>5, <2>6 DEF ServerInv, NoClientOverlooked
    <2>7. CASE tpc[owner[f]] = "closing"
        BY <2>4, <2>7 DEF BeingClosed
    <2> QED
        BY <2>1, <2>4, <2>6, <2>7 DEF Live, Listed, ServerInv, TypeOK
<1> QED BY <1>1, ServerIsSound, PTL DEF Spec, OnlyNewcomersSurvive
=============================================================================
