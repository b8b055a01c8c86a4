---------------------------- MODULE RefugeStore ----------------------------
(***************************************************************************)
(* The state summary of the C++ refuge server: one JSON document under one *)
(* RocksDB key, changed by read-modify-write of the whole document with no *)
(* lock, from                                                              *)
(*   - the main thread, which counts alerts and records emergencies,       *)
(*   - the detached thread of each TCP client that sends set_supplies,     *)
(*   - the workers of the HTTP server, POST /modify,                       *)
(*   - the HTTP thread itself, which creates the document at each start.   *)
(*                                                                         *)
(* A single Get or Put of RocksDB (external) is atomic and survives a      *)
(* restart; with Faults either may fail, which the code only logs.         *)
(* A thread slot is reused by the next client or request.                  *)
(***************************************************************************)
EXTENDS Integers

CONSTANTS
    Entries,       \* north, east, west, south
    Keys,          \* the supplies of the document
    Asked,         \* the keys a client may ask to change, known or not
    Texts,         \* the values a client may send, see TextAssumption
    Events,        \* the emergencies
    NoEvent,       \* "NONE"
    InitialSupply, \* 100
    TcpThreads,    \* threads running handle_client
    HttpThreads,   \* workers of httplib
    MaxAlerts,     \* bound: alerts handled per entry
    MaxBoots,      \* bound: starts of the server
    Faults         \* RocksDB calls may fail

Threads == TcpThreads \cup HttpThreads

\* std::stoi takes the text, throws invalid_argument, or throws out_of_range.
TextType == [kind : {"int", "garbage", "huge"}, n : Int]

ASSUME TextAssumption    == Texts \subseteq TextType
ASSUME InitialAssumption == InitialSupply \in Nat
ASSUME ThreadAssumption  == TcpThreads \cap HttpThreads = {}
ASSUME BoundAssumption   == MaxAlerts \in Nat /\ MaxBoots \in Nat
ASSUME FaultAssumption   == Faults \in BOOLEAN

VARIABLES
    present, db,   \* whether the key exists, and its document
    alive,         \* the process runs
    http,          \* the HTTP thread: "down", "starting", "serving"
    user,          \* the global flag of check_credentials
    mpc, mdoc, marg, \* main thread: "idle", "alert", "emergency"; what it got; its argument
    tpc, tdoc, treq, \* per thread: "idle", "get", "put", "show"; what it got; its request
    boots,         \* bound: starts so far
    handled,       \* history: alerts the main thread has taken up, ever
    counted,       \* history: alerts put since the document was created
    stale,         \* history: a put has overwritten a newer document
    submitted      \* history: numbers clients have sent, per key

dbVars   == <<present, db>>
mainVars == <<mpc, mdoc, marg>>
thrVars  == <<tpc, tdoc, treq>>
hist     == <<handled, counted, stale, submitted>>
vars     == <<dbVars, alive, http, user, mainVars, thrVars, boots, hist>>

\* create_initial_state_summary
Initial == [alerts    |-> [e \in Entries |-> 0],
            supplies  |-> [k \in Keys |-> InitialSupply],
            emergency |-> NoEvent]

NoRequest == [key |-> NoEvent, text |-> [kind |-> "garbage", n |-> 0]]

----------------------------------------------------------------------------
\* The locals of a function that has returned are gone.
MainReturns == mpc' = "idle" /\ mdoc' = Initial /\ marg' = NoEvent

\* Leaving modify_supplies: set_supplies goes on to get_refuge_state.
Leave(t) == /\ tpc' = [tpc EXCEPT ![t] = IF t \in TcpThreads THEN "show" ELSE "idle"]
            /\ tdoc' = [tdoc EXCEPT ![t] = Initial]
            /\ treq' = [treq EXCEPT ![t] = NoRequest]

\* put_value: the document is replaced, whatever it has become since old was read ...
Lands(old, new) == /\ db' = new /\ UNCHANGED present
                   /\ stale' = (stale \/ db # old)
\* ... or the call fails and is only logged.
Fails == Faults /\ UNCHANGED <<dbVars, stale>>

\* create_state_summary, called once by the HTTP thread before it listens.
CreateSummary ==
    /\ alive /\ http = "starting" /\ http' = "serving"
    /\ \/ /\ db' = Initial /\ present' = TRUE
          /\ stale' = FALSE /\ counted' = [e \in Entries |-> 0]
       \/ Faults /\ UNCHANGED <<dbVars, stale, counted>>
    /\ UNCHANGED <<alive, user, mainVars, thrVars, boots, handled, submitted>>

----------------------------------------------------------------------------
(* The main thread: modify_alerts and modify_emergencies *)

\* get_value: with no document, or when the call fails, the function returns.
MainGet(to, arg) ==
    /\ alive /\ mpc = "idle"
    /\ \/ present /\ mpc' = to /\ mdoc' = db /\ marg' = arg
       \/ (~present \/ Faults) /\ UNCHANGED mainVars
    /\ UNCHANGED <<dbVars, alive, http, user, thrVars, boots, counted, stale, submitted>>

GetForAlert(e) == /\ handled[e] < MaxAlerts
                  /\ handled' = [handled EXCEPT ![e] = @ + 1]
                  /\ MainGet("alert", e)

GetForEmergency(m) == MainGet("emergency", m) /\ UNCHANGED handled

\* Mutant: the count is retried after it has been put.
PutAlertAgain ==
    /\ alive /\ mpc = "alert"
    /\ LET new == [mdoc EXCEPT !.alerts[marg] = @ + 1]
       IN  /\ Lands(mdoc, new)
           /\ mpc' \in {"idle", "alert"}
           /\ mdoc' = new
    /\ counted' = [counted EXCEPT ![marg] = @ + 1]
    /\ UNCHANGED <<alive, http, user, marg, thrVars, boots, handled, submitted>>

PutAlert ==
    /\ alive /\ mpc = "alert" /\ MainReturns
    /\ \/ /\ Lands(mdoc, [mdoc EXCEPT !.alerts[marg] = @ + 1])
          /\ counted' = [counted EXCEPT ![marg] = @ + 1]
       \/ Fails /\ UNCHANGED counted
    /\ UNCHANGED <<alive, http, user, thrVars, boots, handled, submitted>>

\* Mutant: the summary is rebuilt from scratch around the emergency.
PutEmergencyRebuilt ==
    /\ alive /\ mpc = "emergency" /\ MainReturns
    /\ Lands(mdoc, [Initial EXCEPT !.emergency = marg])
    /\ UNCHANGED <<alive, http, user, thrVars, boots, handled, counted, submitted>>

PutEmergency ==
    /\ alive /\ mpc = "emergency" /\ MainReturns
    /\ Lands(mdoc, [mdoc EXCEPT !.emergency = marg]) \/ Fails
    /\ UNCHANGED <<alive, http, user, thrVars, boots, handled, counted, submitted>>

----------------------------------------------------------------------------
(* The process goes down and is started again *)

Terminate ==
    /\ alive' = FALSE /\ http' = "down" /\ user' = FALSE
    /\ MainReturns
    /\ tpc' = [t \in Threads |-> "idle"]
    /\ tdoc' = [t \in Threads |-> Initial]
    /\ treq' = [t \in Threads |-> NoRequest]
    /\ UNCHANGED <<dbVars, boots, hist>>

\* The server is killed, or calls exit(EXIT_FAILURE) somewhere else.
Crash == alive /\ Terminate

Boot ==
    /\ ~alive /\ boots < MaxBoots
    /\ boots' = boots + 1 /\ alive' = TRUE /\ http' = "starting"
    /\ UNCHANGED <<dbVars, user, mainVars, thrVars, hist>>

----------------------------------------------------------------------------
(* Changing a supply from a client thread or an HTTP worker *)

\* POST /login: check_credentials stores its answer in one flag for all sessions.
Login(ok) ==
    /\ alive /\ http = "serving" /\ user' = ok
    /\ UNCHANGED <<dbVars, alive, http, mainVars, thrVars, boots, hist>>

\* set_supplies received key and value, or POST /modify passed its check of user.
Ask(t, k, x) ==
    /\ alive /\ tpc[t] = "idle"
    /\ t \in HttpThreads => http = "serving" /\ user
    /\ tpc' = [tpc EXCEPT ![t] = "get"]
    /\ treq' = [treq EXCEPT ![t] = [key |-> k, text |-> x]]
    /\ submitted' = IF k \in Keys /\ x.kind = "int"
                    THEN [submitted EXCEPT ![k] = @ \cup {x.n}] ELSE submitted
    /\ UNCHANGED <<dbVars, alive, http, user, mainVars, tdoc, boots, handled, counted, stale>>

IsValid(t)  == /\ treq[t].key \in Keys
               /\ treq[t].text.kind = "int" /\ treq[t].text.n >= 0
Overflows(t) == treq[t].key \in Keys /\ treq[t].text.kind = "huge"

\* The get and the checks of modify_supplies.  out_of_range is not caught: it ends
\* the process from a client thread, and is answered 500 by httplib.
GetForSupply(t) ==
    /\ alive /\ tpc[t] = "get"
    /\ \/ /\ present /\ IsValid(t)
          /\ tdoc' = [tdoc EXCEPT ![t] = db]
          /\ tpc' = [tpc EXCEPT ![t] = "put"]
          /\ UNCHANGED <<dbVars, alive, http, user, mainVars, treq, boots, hist>>
       \/ /\ \/ ~present \/ Faults
             \/ ~IsValid(t) /\ ~(Overflows(t) /\ t \in TcpThreads)
          /\ Leave(t)
          /\ UNCHANGED <<dbVars, alive, http, user, mainVars, boots, hist>>
       \/ present /\ Overflows(t) /\ t \in TcpThreads /\ Terminate

PutSupply(t) ==
    /\ alive /\ tpc[t] = "put"
    /\ \/ Lands(tdoc[t], [tdoc[t] EXCEPT !.supplies[treq[t].key] = treq[t].text.n])
       \/ Fails
    /\ Leave(t)
    /\ UNCHANGED <<alive, http, user, mainVars, boots, handled, counted, submitted>>

\* The command get_state, in a client thread.
AskState(t) ==
    /\ alive /\ tpc[t] = "idle"
    /\ tpc' = [tpc EXCEPT ![t] = "show"]
    /\ UNCHANGED <<dbVars, alive, http, user, mainVars, tdoc, treq, boots, hist>>

\* show_state_summary: parsing the empty string of a missing document, or of a failed
\* Get, throws, which ends the process.
ShowState(t) ==
    /\ alive /\ tpc[t] = "show"
    /\ \/ /\ present /\ tpc' = [tpc EXCEPT ![t] = "idle"]
          /\ UNCHANGED <<dbVars, alive, http, user, mainVars, tdoc, treq, boots, hist>>
       \/ (~present \/ Faults) /\ Terminate

----------------------------------------------------------------------------
Init ==
    /\ present = FALSE /\ db = Initial
    /\ alive = FALSE /\ http = "down" /\ user = FALSE
    /\ mpc = "idle" /\ mdoc = Initial /\ marg = NoEvent
    /\ tpc = [t \in Threads |-> "idle"]
    /\ tdoc = [t \in Threads |-> Initial]
    /\ treq = [t \in Threads |-> NoRequest]
    /\ boots = 0
    /\ handled = [e \in Entries |-> 0] /\ counted = handled
    /\ stale = FALSE
    /\ submitted = [k \in Keys |-> {InitialSupply}]

Main == \/ \E e \in Entries : GetForAlert(e)
        \/ \E m \in Events : GetForEmergency(m)
        \/ PutAlert \/ PutEmergency

Thread(t) == \/ \E k \in Asked, x \in Texts : Ask(t, k, x)
             \/ GetForSupply(t) \/ PutSupply(t)

Next == \/ Main
        \/ \E t \in Threads : Thread(t)
        \/ \E t \in TcpThreads : AskState(t) \/ ShowState(t)
        \/ \E ok \in BOOLEAN : Login(ok)
        \/ CreateSummary \/ Crash \/ Boot

Spec == Init /\ [][Next]_vars

----------------------------------------------------------------------------
(* Properties *)

Docs == [alerts : [Entries -> Nat], supplies : [Keys -> Int], emergency : Events \cup {NoEvent}]

TypeOK ==
    /\ present \in BOOLEAN /\ db \in Docs
    /\ alive \in BOOLEAN /\ http \in {"down", "starting", "serving"} /\ user \in BOOLEAN
    /\ mpc \in {"idle", "alert", "emergency"} /\ mdoc \in Docs
    /\ mpc = "alert" => marg \in Entries
    /\ mpc = "emergency" => marg \in Events
    /\ tpc \in [Threads -> {"idle", "get", "put", "show"}]
    /\ tdoc \in [Threads -> Docs]
    /\ treq \in [Threads -> [key : Asked \cup {NoEvent}, text : TextType]]
    /\ \A t \in Threads : tpc[t] = "put" => IsValid(t)
    /\ boots \in Nat /\ stale \in BOOLEAN
    /\ handled \in [Entries -> Nat] /\ counted \in [Entries -> Nat]
    /\ submitted \in [Keys -> SUBSET Int]

\* The documents threads hold between their get and their put are part of the state
\* that matters: any of them may become the stored one.
Held == {db, mdoc} \cup {tdoc[t] : t \in Threads}

\* No interleaving of read-modify-writes, failed calls and restarts makes the store
\* show more alerts of an entry than the main thread has handled.
NeverOvercounted == \A d \in Held, e \in Entries : d.alerts[e] <= handled[e]

\* Every supply the store shows, or a stale put may bring back, is a number not below
\* zero that some client sent for that key, or the initial one.
SuppliesSubmitted == \A d \in Held, k \in Keys :
    d.supplies[k] >= 0 /\ d.supplies[k] \in submitted[k]

\* A valid request was recorded, an alert about to be put is one more
\* than what its document shows, and the initial supplies stay acceptable.
InFlight ==
    /\ \A t \in Threads : tpc[t] \in {"get", "put"} /\ IsValid(t) =>
         treq[t].text.n \in submitted[treq[t].key]
    /\ mpc = "alert" => mdoc.alerts[marg] < handled[marg]
    /\ \A k \in Keys : InitialSupply \in submitted[k]

StoreInv == TypeOK /\ NeverOvercounted /\ SuppliesSubmitted /\ InFlight

\* As long as no put has been stale the store is exact: it shows every alert put since
\* the document was created.
ExactUntilStale == present /\ ~stale => db.alerts = counted

\* As long as no put has been stale every change of the document is one operation of the
\* atomic store: modify_* change their own field and nothing else.
Atomic == INSTANCE AtomicStore WITH doc <- db, intact <- ~stale
ImplementsAtomicStore == Atomic!Spec

\* "an updated and persistent store of supplies data and alerts": with no failing call,
\* whatever the main thread has handled since the document was created is in it.
AlertsKept == present /\ mpc = "idle" => \A e \in Entries : db.alerts[e] >= counted[e]

=============================================================================
