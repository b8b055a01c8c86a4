------------------------- MODULE RefugeStoreProofs -------------------------
(***************************************************************************)
(* Proofs about the state summary, for all sets of entries, supplies,      *)
(* values and threads: alerts are never over-counted, supplies are always  *)
(* values somebody sent, and until a put is stale the unlocked store       *)
(* implements the atomic one.                                              *)
(***************************************************************************)
EXTENDS RefugeStore, TLAPS

\* A document with one alert more, one supply changed or an emergency noted is a document.
LEMMA DocUpdates ==
    ASSUME NEW d \in Docs
    PROVE  /\ \A e \in Entries :
                LET new == [d EXCEPT !.alerts[e] = @ + 1]
                IN  /\ new \in Docs /\ new.supplies = d.supplies
                    /\ new.alerts[e] = d.alerts[e] + 1
                    /\ \A x \in Entries : x # e => new.alerts[x] = d.alerts[x]
           /\ \A k \in Keys, n \in Int :
                LET new == [d EXCEPT !.supplies[k] = n]
                IN  /\ new \in Docs /\ new.alerts = d.alerts
                    /\ new.supplies[k] = n
                    /\ \A x \in Keys : x # k => new.supplies[x] = d.supplies[x]
           /\ \A m \in Events :
                LET new == [d EXCEPT !.emergency = m]
                IN  new \in Docs /\ new.alerts = d.alerts /\ new.supplies = d.supplies
  <1> QED BY DEF Docs

LEMMA InitialDoc ==
    /\ Initial \in Docs
    /\ \A e \in Entries : Initial.alerts[e] = 0
    /\ \A k \in Keys : Initial.supplies[k] = InitialSupply
  <1> QED BY InitialAssumption DEF Initial, Docs

LEMMA InitInv == Init => StoreInv
  <1> SUFFICES ASSUME Init PROVE StoreInv OBVIOUS
  <1> USE DEF Init
  <1>1. TypeOK
    <2>1. handled \in [Entries -> Nat] /\ counted \in [Entries -> Nat] OBVIOUS
    <2>2. tdoc \in [Threads -> Docs] /\ db \in Docs /\ mdoc \in Docs BY InitialDoc
    <2>3. submitted \in [Keys -> SUBSET Int] BY InitialAssumption
    <2>4. tpc \in [Threads -> {"idle", "get", "put", "show"}] OBVIOUS
    <2>5. treq \in [Threads -> [key : Asked \cup {NoEvent}, text : TextType]]
      BY DEF NoRequest, TextType
    <2> QED BY <2>1, <2>2, <2>3, <2>4, <2>5 DEF TypeOK
  <1>2. \A d \in Held : d = Initial BY DEF Held
  <1>3. NeverOvercounted
    <2>1. \A e \in Entries : handled[e] = 0 /\ Initial.alerts[e] = 0 BY InitialDoc
    <2> SUFFICES ASSUME NEW d \in Held, NEW e \in Entries PROVE d.alerts[e] <= handled[e]
      BY DEF NeverOvercounted
    <2>2. d.alerts[e] = 0 /\ handled[e] = 0 BY <1>2, <2>1
    <2> QED BY <2>2
  <1>4. SuppliesSubmitted BY <1>2, InitialDoc, InitialAssumption DEF SuppliesSubmitted
  <1>5. InFlight BY DEF InFlight
  <1> QED BY <1>1, <1>3, <1>4, <1>5 DEF StoreInv

\* What every step has to show of the documents: each one held after the step was held
\* before, is the initial one, or is a new one that is accounted for.
Sound(d) == /\ \A e \in Entries : d.alerts[e] <= handled[e]
            /\ \A k \in Keys : d.supplies[k] >= 0 /\ d.supplies[k] \in submitted[k]

LEMMA HeldSound ==
    (\A d \in Held : Sound(d)) <=> NeverOvercounted /\ SuppliesSubmitted
  <1> QED BY DEF Sound, NeverOvercounted, SuppliesSubmitted

LEMMA SoundInitial == TypeOK /\ InFlight => Sound(Initial)
  <1> SUFFICES ASSUME TypeOK, InFlight PROVE Sound(Initial) OBVIOUS
  <1>1. \A e \in Entries : Initial.alerts[e] = 0 /\ handled[e] \in Nat
    BY InitialDoc DEF TypeOK
  <1>2. \A k \in Keys : Initial.supplies[k] = InitialSupply BY InitialDoc
  <1> QED BY <1>1, <1>2, InitialAssumption DEF Sound, InFlight

\* handled and submitted only grow, so what was sound stays sound.
Growing == /\ \A e \in Entries : handled[e] <= handled'[e]
           /\ \A k \in Keys : submitted[k] \subseteq submitted'[k]

LEMMA SoundStays ==
    ASSUME NEW d \in Docs, Sound(d), TypeOK, TypeOK', Growing
    PROVE  Sound(d)'
  <1>1. \A e \in Entries : d.alerts[e] \in Nat /\ handled[e] \in Nat /\ handled'[e] \in Nat
    BY DEF Docs, TypeOK
  <1> QED BY <1>1 DEF Sound, Growing

\* What is left to show of a step: its new documents are sound.
LEMMA StepSound ==
    ASSUME StoreInv, TypeOK', InFlight', Growing,
           NEW new \in Docs, Sound(new)' ,
           Held' \subseteq Held \cup {Initial, new}
    PROVE  (NeverOvercounted /\ SuppliesSubmitted)'
  <1>1. Held \subseteq Docs BY DEF StoreInv, TypeOK, Held
  <1>2. ASSUME NEW d \in Held PROVE Sound(d)'
    <2>1. d \in Docs /\ Sound(d) BY <1>1, HeldSound DEF StoreInv
    <2> QED BY <2>1, SoundStays DEF StoreInv
  <1>3. Sound(Initial)'
    <2>1. Sound(Initial) BY SoundInitial DEF StoreInv
    <2> QED BY <2>1, SoundStays, InitialDoc DEF StoreInv, Initial
  <1>4. ASSUME NEW d \in Held' PROVE Sound(d)' BY <1>2, <1>3, <1>4 DEF Initial
  <1> QED BY <1>4 DEF Sound, NeverOvercounted, SuppliesSubmitted

\* The same for a step that makes no new document.
LEMMA StepKeepsDocs ==
    ASSUME StoreInv, TypeOK', InFlight', Growing, Held' \subseteq Held \cup {Initial}
    PROVE  StoreInv'
  <1>1. Sound(Initial)'
    <2>1. Sound(Initial) BY SoundInitial DEF StoreInv
    <2> QED BY <2>1, SoundStays, InitialDoc DEF StoreInv, Initial
  <1>2. Held' \subseteq Held \cup {Initial, Initial} OBVIOUS
  <1> QED BY <1>1, <1>2, StepSound, InitialDoc DEF StoreInv

LEMMA CreateInv == ASSUME StoreInv, CreateSummary PROVE StoreInv'
  <1> USE DEF CreateSummary, dbVars, mainVars, thrVars
  <1>1. TypeOK'
    <2>1. db' \in Docs /\ present' \in BOOLEAN /\ stale' \in BOOLEAN
      BY InitialDoc DEF StoreInv, TypeOK
    <2>2. counted' \in [Entries -> Nat] BY DEF StoreInv, TypeOK
    <2> QED BY <2>1, <2>2 DEF StoreInv, TypeOK, IsValid
  <1>2. InFlight' BY DEF StoreInv, InFlight, IsValid
  <1>3. Growing BY DEF Growing, StoreInv, TypeOK
  <1>4. Held' \subseteq Held \cup {Initial} BY DEF Held
  <1> QED BY <1>1, <1>2, <1>3, <1>4, StepKeepsDocs

LEMMA GetForAlertInv == ASSUME StoreInv, NEW e \in Entries, GetForAlert(e) PROVE StoreInv'
  <1> USE DEF GetForAlert, MainGet, dbVars, mainVars, thrVars
  <1>0. handled' \in [Entries -> Nat] /\ handled'[e] = handled[e] + 1 /\
        \A x \in Entries : handled[x] <= handled'[x]
    BY DEF StoreInv, TypeOK
  <1>1. TypeOK' BY <1>0 DEF StoreInv, TypeOK, IsValid
  <1>2. InFlight'
    <2>1. db.alerts[e] <= handled[e] /\ db.alerts[e] \in Nat /\ handled[e] \in Nat
      BY DEF StoreInv, NeverOvercounted, Held, TypeOK, Docs
    <2>2. mpc' = "alert" => mdoc'.alerts[marg'] < handled'[marg'] BY <1>0, <2>1
    <2> QED BY <2>2 DEF StoreInv, InFlight, IsValid
  <1>3. Growing BY <1>0 DEF Growing
  <1>4. Held' \subseteq Held \cup {Initial} BY DEF Held
  <1> QED BY <1>1, <1>2, <1>3, <1>4, StepKeepsDocs

LEMMA GetForEmergencyInv ==
    ASSUME StoreInv, NEW m \in Events, GetForEmergency(m) PROVE StoreInv'
  <1> USE DEF GetForEmergency, MainGet, dbVars, mainVars, thrVars
  <1>1. TypeOK' BY DEF StoreInv, TypeOK, IsValid
  <1>2. InFlight' BY DEF StoreInv, InFlight, IsValid
  <1>3. Growing BY DEF Growing, StoreInv, TypeOK
  <1>4. Held' \subseteq Held \cup {Initial} BY DEF Held
  <1> QED BY <1>1, <1>2, <1>3, <1>4, StepKeepsDocs

LEMMA PutAlertInv == ASSUME StoreInv, PutAlert PROVE StoreInv'
  <1> USE DEF PutAlert, MainReturns, Lands, Fails, dbVars, thrVars
  <1>0. marg \in Entries /\ mdoc \in Docs BY DEF StoreInv, TypeOK
  <1> PICK new \in Docs : new = [mdoc EXCEPT !.alerts[marg] = @ + 1] BY <1>0, DocUpdates
  <1>1. /\ new.supplies = mdoc.supplies
        /\ new.alerts[marg] = mdoc.alerts[marg] + 1
        /\ \A x \in Entries : x # marg => new.alerts[x] = mdoc.alerts[x]
    BY <1>0, DocUpdates
  <1>2. TypeOK'
    <2>1. db' \in Docs BY <1>1 DEF StoreInv, TypeOK
    <2>2. counted' \in [Entries -> Nat] BY <1>0 DEF StoreInv, TypeOK
    <2>3. stale' \in BOOLEAN BY DEF StoreInv, TypeOK
    <2> QED BY <2>1, <2>2, <2>3, InitialDoc DEF StoreInv, TypeOK, IsValid
  <1>3. InFlight' BY DEF StoreInv, InFlight, IsValid
  <1>4. Growing BY DEF Growing, StoreInv, TypeOK
  <1>5. Sound(new)'
    <2>1. Sound(mdoc) BY HeldSound DEF StoreInv, Held
    <2>2. mdoc.alerts[marg] < handled[marg] /\ mdoc.alerts[marg] \in Nat /\ handled[marg] \in Nat
      BY <1>0 DEF StoreInv, InFlight, TypeOK, Docs
    <2>3. new.alerts[marg] <= handled[marg] BY <1>1, <2>2
    <2>4. /\ \A x \in Entries : new.alerts[x] <= handled'[x]
          /\ \A k \in Keys : new.supplies[k] >= 0 /\ new.supplies[k] \in submitted'[k]
      BY <1>1, <2>1, <2>3 DEF Sound
    <2> QED BY <2>4 DEF Sound
  <1>6. Held' \subseteq Held \cup {Initial, new} BY DEF Held
  <1> QED BY <1>1, <1>2, <1>3, <1>4, <1>5, <1>6, StepSound DEF StoreInv

LEMMA PutEmergencyInv == ASSUME StoreInv, PutEmergency PROVE StoreInv'
  <1> USE DEF PutEmergency, MainReturns, Lands, Fails, dbVars, thrVars
  <1>0. marg \in Events /\ mdoc \in Docs BY DEF StoreInv, TypeOK
  <1> PICK new \in Docs : new = [mdoc EXCEPT !.emergency = marg] BY <1>0, DocUpdates
  <1>1. new.supplies = mdoc.supplies /\ new.alerts = mdoc.alerts BY <1>0, DocUpdates
  <1>2. TypeOK'
    <2>1. db' \in Docs /\ stale' \in BOOLEAN BY DEF StoreInv, TypeOK
    <2> QED BY <2>1, InitialDoc DEF StoreInv, TypeOK, IsValid
  <1>3. InFlight' BY DEF StoreInv, InFlight, IsValid
  <1>4. Growing BY DEF Growing, StoreInv, TypeOK
  <1>5. Sound(new)'
    <2>1. Sound(mdoc) BY HeldSound DEF StoreInv, Held
    <2> QED BY <1>1, <2>1 DEF Sound
  <1>6. Held' \subseteq Held \cup {Initial, new} BY DEF Held
  <1> QED BY <1>1, <1>2, <1>3, <1>4, <1>5, <1>6, StepSound DEF StoreInv

LEMMA TerminateInv == ASSUME StoreInv, Terminate PROVE StoreInv'
  <1> USE DEF Terminate, MainReturns, dbVars, hist
  <1>1. TypeOK'
    <2>1. tdoc' \in [Threads -> Docs] /\ mdoc' \in Docs BY InitialDoc
    <2>2. tpc' \in [Threads -> {"idle", "get", "put", "show"}] OBVIOUS
    <2>3. \A t \in Threads : tpc'[t] = "idle" OBVIOUS
    <2>4. treq' \in [Threads -> [key : Asked \cup {NoEvent}, text : TextType]]
      BY DEF NoRequest, TextType
    <2> QED BY <2>1, <2>2, <2>3, <2>4 DEF StoreInv, TypeOK
  <1>2. InFlight' BY DEF StoreInv, InFlight, IsValid
  <1>3. Growing BY DEF Growing, StoreInv, TypeOK
  <1>4. Held' \subseteq Held \cup {Initial} BY DEF Held
  <1> QED BY <1>1, <1>2, <1>3, <1>4, StepKeepsDocs

LEMMA BootInv == ASSUME StoreInv, Boot PROVE StoreInv'
  <1> USE DEF Boot, dbVars, mainVars, thrVars, hist
  <1>1. TypeOK' BY DEF StoreInv, TypeOK, IsValid
  <1>2. InFlight' BY DEF StoreInv, InFlight, IsValid
  <1>3. Growing BY DEF Growing, StoreInv, TypeOK
  <1>4. Held' \subseteq Held \cup {Initial} BY DEF Held
  <1> QED BY <1>1, <1>2, <1>3, <1>4, StepKeepsDocs

LEMMA LoginInv == ASSUME StoreInv, NEW ok \in BOOLEAN, Login(ok) PROVE StoreInv'
  <1> USE DEF Login, dbVars, mainVars, thrVars, hist
  <1>1. TypeOK' BY DEF StoreInv, TypeOK, IsValid
  <1>2. InFlight' BY DEF StoreInv, InFlight, IsValid
  <1>3. Growing BY DEF Growing, StoreInv, TypeOK
  <1>4. Held' \subseteq Held \cup {Initial} BY DEF Held
  <1> QED BY <1>1, <1>2, <1>3, <1>4, StepKeepsDocs

LEMMA AskInv ==
    ASSUME StoreInv, NEW t \in Threads, NEW k \in Asked, NEW x \in Texts, Ask(t, k, x)
    PROVE  StoreInv'
  <1> USE DEF Ask, dbVars, mainVars
  <1>0. x \in TextType /\ x.n \in Int BY TextAssumption DEF TextType
  <1>a. /\ \A q \in Threads : q # t => tpc'[q] = tpc[q] /\ treq'[q] = treq[q]
        /\ tpc'[t] = "get"
    BY DEF StoreInv, TypeOK
  <1>c. treq'[t] = [key |-> k, text |-> x]
    BY DEF StoreInv, TypeOK
  <1>b. submitted' \in [Keys -> SUBSET Int] /\
        \A j \in Keys : submitted[j] \subseteq submitted'[j]
    BY <1>0 DEF StoreInv, TypeOK
  <1>1. TypeOK'
    <2>1. tpc' \in [Threads -> {"idle", "get", "put", "show"}] BY DEF StoreInv, TypeOK
    <2>2. \A q \in Threads : tpc'[q] = "put" => IsValid(q)'
      BY <1>0, <1>a, <1>c DEF StoreInv, TypeOK, IsValid
    <2>3. treq' \in [Threads -> [key : Asked \cup {NoEvent}, text : TextType]]
      BY <1>0 DEF StoreInv, TypeOK
    <2> QED BY <1>b, <2>1, <2>2, <2>3 DEF StoreInv, TypeOK
  <1>2. InFlight'
    <2>1. IsValid(t)' => x.n \in submitted'[k] BY <1>c DEF IsValid, StoreInv, TypeOK
    <2>2. \A q \in Threads : q # t /\ IsValid(q)' => IsValid(q) /\ treq[q].key \in Keys
      BY <1>a DEF IsValid
    <2> QED BY <1>a, <1>b, <1>c, <2>1, <2>2 DEF StoreInv, InFlight, IsValid
  <1>3. Growing BY <1>b DEF Growing, StoreInv, TypeOK
  <1>4. Held' \subseteq Held \cup {Initial} BY DEF Held
  <1> QED BY <1>1, <1>2, <1>3, <1>4, StepKeepsDocs

\* A thread that leaves modify_supplies drops its document and its request.
LEMMA LeaveKeeps ==
    ASSUME StoreInv, NEW t \in Threads, Leave(t)
    PROVE  /\ tpc' \in [Threads -> {"idle", "get", "put", "show"}]
           /\ tdoc' \in [Threads -> Docs]
           /\ treq' \in [Threads -> [key : Asked \cup {NoEvent}, text : TextType]]
           /\ \A q \in Threads : tpc'[q] \in {"get", "put"} =>
                tpc'[q] = tpc[q] /\ treq'[q] = treq[q]
           /\ \A q \in Threads : tdoc'[q] \in {tdoc[q], Initial}
  <1> QED BY InitialDoc DEF Leave, StoreInv, TypeOK, NoRequest, TextType

LEMMA GetForSupplyInv == ASSUME StoreInv, NEW t \in Threads, GetForSupply(t) PROVE StoreInv'
  <1>1. CASE Terminate BY <1>1, TerminateInv
  <1>2. CASE /\ IsValid(t)
             /\ tdoc' = [tdoc EXCEPT ![t] = db] /\ tpc[t] = "get"
             /\ tpc' = [tpc EXCEPT ![t] = "put"]
             /\ UNCHANGED <<dbVars, alive, http, user, mainVars, treq, boots, hist>>
    <2> USE <1>2 DEF dbVars, mainVars, hist
    <2>0. \A q \in Threads : q # t => tpc'[q] = tpc[q]
      BY DEF StoreInv, TypeOK
    <2>1. TypeOK' BY <2>0 DEF StoreInv, TypeOK, IsValid
    <2>2. InFlight' BY <2>0 DEF StoreInv, InFlight, IsValid
    <2>3. Growing BY DEF Growing, StoreInv, TypeOK
    <2>4. Held' \subseteq Held \cup {Initial} BY DEF Held
    <2> QED BY <2>1, <2>2, <2>3, <2>4, StepKeepsDocs
  <1>3. CASE Leave(t) /\ UNCHANGED <<dbVars, alive, http, user, mainVars, boots, hist>>
    <2> USE <1>3 DEF dbVars, mainVars, hist
    <2>1. TypeOK' BY LeaveKeeps DEF StoreInv, TypeOK, IsValid
    <2>2. InFlight' BY LeaveKeeps DEF StoreInv, InFlight, IsValid
    <2>3. Growing BY DEF Growing, StoreInv, TypeOK
    <2>4. Held' \subseteq Held \cup {Initial} BY LeaveKeeps DEF Held
    <2> QED BY <2>1, <2>2, <2>3, <2>4, StepKeepsDocs
  <1> QED BY <1>1, <1>2, <1>3 DEF GetForSupply

LEMMA PutSupplyInv == ASSUME StoreInv, NEW t \in Threads, PutSupply(t) PROVE StoreInv'
  <1> USE DEF PutSupply, Lands, Fails, dbVars, mainVars
  <1> DEFINE k == treq[t].key
             n == treq[t].text.n
  <1>0. tdoc[t] \in Docs /\ k \in Keys /\ n \in Int /\ n >= 0
    BY DEF StoreInv, TypeOK, IsValid, TextType
  <1>1. n \in submitted[k] BY DEF StoreInv, TypeOK, InFlight
  <1> PICK new \in Docs : new = [tdoc[t] EXCEPT !.supplies[k] = n] BY <1>0, DocUpdates
  <1>2. /\ new.alerts = tdoc[t].alerts /\ new.supplies[k] = n
        /\ \A x \in Keys : x # k => new.supplies[x] = tdoc[t].supplies[x]
    BY <1>0, DocUpdates
  <1>3. TypeOK'
    <2>1. db' \in Docs /\ stale' \in BOOLEAN BY DEF StoreInv, TypeOK
    <2> QED BY <2>1, LeaveKeeps DEF StoreInv, TypeOK, IsValid
  <1>4. InFlight' BY LeaveKeeps DEF StoreInv, InFlight, IsValid
  <1>5. Growing BY DEF Growing, StoreInv, TypeOK
  <1>6. Sound(new)'
    <2>1. Sound(tdoc[t]) BY HeldSound DEF StoreInv, Held
    <2> HIDE DEF k, n
    <2>2. \A x \in Keys : new.supplies[x] >= 0 /\ new.supplies[x] \in submitted[x]
      BY <1>0, <1>1, <1>2, <2>1 DEF Sound
    <2> QED BY <1>2, <2>1, <2>2 DEF Sound
  <1>7. Held' \subseteq Held \cup {Initial, new} BY LeaveKeeps DEF Held
  <1> QED BY <1>3, <1>4, <1>5, <1>6, <1>7, StepSound DEF StoreInv

LEMMA StateInv ==
    ASSUME StoreInv, NEW t \in TcpThreads, AskState(t) \/ ShowState(t) PROVE StoreInv'
  <1>1. CASE Terminate BY <1>1, TerminateInv
  <1>2. CASE /\ \E to \in {"idle", "show"} : tpc' = [tpc EXCEPT ![t] = to]
             /\ UNCHANGED <<dbVars, alive, http, user, mainVars, tdoc, treq, boots, hist>>
    <2> USE <1>2 DEF dbVars, mainVars, hist
    <2>0. tpc' \in [Threads -> {"idle", "get", "put", "show"}] /\
          \A q \in Threads : tpc'[q] \in {"get", "put"} => tpc'[q] = tpc[q]
      BY DEF StoreInv, TypeOK, Threads
    <2>1. TypeOK' BY <2>0 DEF StoreInv, TypeOK, IsValid
    <2>2. InFlight' BY <2>0 DEF StoreInv, InFlight, IsValid
    <2>3. Growing BY DEF Growing, StoreInv, TypeOK
    <2>4. Held' \subseteq Held \cup {Initial} BY DEF Held
    <2> QED BY <2>1, <2>2, <2>3, <2>4, StepKeepsDocs
  <1> QED BY <1>1, <1>2 DEF AskState, ShowState

LEMMA NextInv == StoreInv /\ [Next]_vars => StoreInv'
  <1> SUFFICES ASSUME StoreInv, [Next]_vars PROVE StoreInv' OBVIOUS
  <1>1. CASE Main
    BY <1>1, GetForAlertInv, GetForEmergencyInv, PutAlertInv, PutEmergencyInv DEF Main
  <1>2. ASSUME NEW t \in Threads, Thread(t) PROVE StoreInv'
    BY <1>2, AskInv, GetForSupplyInv, PutSupplyInv DEF Thread
  <1>3. CASE UNCHANGED vars
    <2> USE <1>3 DEF vars, dbVars, mainVars, thrVars, hist
    <2>1. TypeOK' BY DEF StoreInv, TypeOK, IsValid
    <2>2. InFlight' BY DEF StoreInv, InFlight, IsValid
    <2>3. Growing BY DEF Growing, StoreInv, TypeOK
    <2>4. Held' \subseteq Held \cup {Initial} BY DEF Held
    <2> QED BY <2>1, <2>2, <2>3, <2>4, StepKeepsDocs
  <1> QED BY <1>1, <1>2, <1>3, StateInv, LoginInv, CreateInv, TerminateInv, BootInv
          DEF Next, Crash

\* However the read-modify-writes of main thread, clients and HTTP workers interleave,
\* fail or are cut off by a restart, no document that is or may become the stored one
\* shows an alert that was not handled or a supply nobody sent.
THEOREM StoreIsSound == Spec => []StoreInv
  <1> QED BY InitInv, NextInv, PTL DEF Spec

----------------------------------------------------------------------------
(* Until a put is stale *)

\* A put whose document is current is one atomic operation; every other step that
\* touches the document creates it or has made it stale.
LEMMA PutIsAtomic ==
    ASSUME StoreInv, ~stale', PutAlert \/ PutEmergency \/ \E t \in Threads : PutSupply(t)
    PROVE  \/ UNCHANGED <<db, stale>>
           \/ /\ UNCHANGED stale
              /\ \/ marg \in Entries /\ mpc = "alert" /\ PutAlert
                   /\ db' = [db EXCEPT !.alerts[marg] = @ + 1]
                 \/ marg \in Events /\ db' = [db EXCEPT !.emergency = marg]
                 \/ \E k \in Keys, n \in Int : n >= 0 /\ db' = [db EXCEPT !.supplies[k] = n]
  <1>1. CASE PutAlert
    BY <1>1 DEF PutAlert, Lands, Fails, dbVars, StoreInv, TypeOK
  <1>2. CASE PutEmergency
    BY <1>2 DEF PutEmergency, Lands, Fails, dbVars, StoreInv, TypeOK
  <1>3. ASSUME NEW t \in Threads, PutSupply(t)
        PROVE  \/ UNCHANGED <<db, stale>>
               \/ /\ UNCHANGED stale
                  /\ \E k \in Keys, n \in Int : n >= 0 /\ db' = [db EXCEPT !.supplies[k] = n]
    <2>1. /\ treq[t].key \in Keys /\ treq[t].text.n \in Int /\ treq[t].text.n >= 0
      BY <1>3 DEF PutSupply, StoreInv, TypeOK, IsValid, TextType
    <2>2. CASE Fails BY <2>2 DEF Fails, dbVars
    <2>3. CASE Lands(tdoc[t], [tdoc[t] EXCEPT !.supplies[treq[t].key] = treq[t].text.n])
      <3>1. db = tdoc[t] /\ stale' = stale BY <2>3 DEF Lands, StoreInv, TypeOK
      <3> QED BY <2>1, <2>3, <3>1 DEF Lands
    <2> QED BY <1>3, <2>2, <2>3 DEF PutSupply
  <1> QED BY <1>1, <1>2, <1>3

\* Steps that leave the document alone.
LEMMA OtherSteps ==
    ASSUME [Next]_vars, ~PutAlert, ~PutEmergency, \A t \in Threads : ~PutSupply(t),
           ~CreateSummary
    PROVE  UNCHANGED <<present, db, stale, counted>>
  <1> USE DEF vars, dbVars, hist
  <1>1. CASE Main BY <1>1 DEF Main, GetForAlert, GetForEmergency, MainGet
  <1>2. ASSUME NEW t \in Threads, Thread(t) PROVE UNCHANGED <<present, db, stale, counted>>
    BY <1>2 DEF Thread, Ask, GetForSupply, Terminate
  <1>3. ASSUME NEW t \in TcpThreads, AskState(t) \/ ShowState(t)
        PROVE  UNCHANGED <<present, db, stale, counted>>
    BY <1>3 DEF AskState, ShowState, Terminate
  <1> QED BY <1>1, <1>2, <1>3 DEF Next, Login, Crash, Terminate, Boot

LEMMA AtomicStep == StoreInv /\ [Next]_vars => [Atomic!Next]_<<db, ~stale>>
  <1> SUFFICES ASSUME StoreInv, [Next]_vars PROVE [Atomic!Next]_<<db, ~stale>> OBVIOUS
  <1>1. CASE stale' BY <1>1 DEF Atomic!Next, Atomic!Clobber
  <1>2. CASE CreateSummary
    BY <1>2 DEF CreateSummary, dbVars, Atomic!Next, Atomic!Create, Atomic!Initial, Initial
  <1>3. CASE ~stale' /\ (PutAlert \/ PutEmergency \/ \E t \in Threads : PutSupply(t))
    <2>1. ASSUME NEW k \in Keys, NEW n \in Int, n >= 0, UNCHANGED stale,
                 db' = [db EXCEPT !.supplies[k] = n]
          PROVE  Atomic!SetSupply(k)
      <3>1. db'.supplies[k] = n BY <2>1 DEF StoreInv, TypeOK, Docs
      <3> QED BY <2>1, <3>1 DEF Atomic!SetSupply
    <2> QED BY <1>3, <2>1, PutIsAtomic
            DEF Atomic!Next, Atomic!CountAlert, Atomic!NoteEmergency
  <1>4. CASE UNCHANGED <<present, db, stale, counted>> BY <1>4
  <1> QED BY <1>1, <1>2, <1>3, <1>4, OtherSteps

\* The store without a lock implements the atomic one until a put is stale, and again
\* from the next start.
THEOREM StoreImplementsAtomic == Spec => ImplementsAtomicStore
  <1>1. Init => Atomic!Init BY DEF Init, Initial, Atomic!Init, Atomic!Initial
  <1> QED BY <1>1, AtomicStep, StoreIsSound, PTL DEF Spec, ImplementsAtomicStore, Atomic!Spec

\* Until a put is stale the counts are exact.
THEOREM CountsAreExact == Spec => []ExactUntilStale
  <1>1. Init => ExactUntilStale BY DEF Init, ExactUntilStale
  <1>2. StoreInv /\ ExactUntilStale /\ [Next]_vars => ExactUntilStale'
    <2> SUFFICES ASSUME StoreInv, ExactUntilStale, [Next]_vars,
                        present' = TRUE, stale' = FALSE
                 PROVE  db'.alerts = counted'
      BY NextInv DEF ExactUntilStale, StoreInv, TypeOK
    <2>0. \A old, new : Lands(old, new) \/ Fails => present = TRUE /\ stale = FALSE
      BY DEF Lands, Fails, dbVars, StoreInv, TypeOK
    <2>1. CASE PutAlert
      <3>1. db.alerts = counted /\ marg \in Entries /\ db \in Docs
        BY <2>0, <2>1 DEF PutAlert, StoreInv, TypeOK, ExactUntilStale
      <3>2. CASE Lands(mdoc, [mdoc EXCEPT !.alerts[marg] = @ + 1]) /\
                 counted' = [counted EXCEPT ![marg] = @ + 1]
        <4>1. db = mdoc BY <3>2 DEF Lands, StoreInv, TypeOK
        <4> QED BY <3>1, <3>2, <4>1 DEF Lands, Docs
      <3>3. CASE Fails /\ UNCHANGED counted BY <3>1, <3>3 DEF Fails, dbVars
      <3> QED BY <2>1, <3>2, <3>3 DEF PutAlert
    <2>2. CASE PutEmergency
      <3>1. db.alerts = counted /\ counted' = counted /\ db \in Docs
        BY <2>0, <2>2 DEF PutEmergency, StoreInv, TypeOK, ExactUntilStale
      <3>2. CASE Lands(mdoc, [mdoc EXCEPT !.emergency = marg])
        <4>1. db = mdoc BY <3>2 DEF Lands, StoreInv, TypeOK
        <4> QED BY <3>1, <3>2, <4>1 DEF Lands, Docs
      <3>3. CASE Fails BY <3>1, <3>3 DEF Fails, dbVars
      <3> QED BY <2>2, <3>2, <3>3 DEF PutEmergency
    <2>3. ASSUME NEW t \in Threads, PutSupply(t) PROVE db'.alerts = counted'
      <3>1. db.alerts = counted /\ counted' = counted /\ db \in Docs
        BY <2>0, <2>3 DEF PutSupply, StoreInv, TypeOK, ExactUntilStale
      <3>2. CASE Lands(tdoc[t], [tdoc[t] EXCEPT !.supplies[treq[t].key] = treq[t].text.n])
        <4>1. db = tdoc[t] BY <3>2 DEF Lands, StoreInv, TypeOK
        <4> QED BY <3>1, <3>2, <4>1 DEF Lands, Docs
      <3>3. CASE Fails BY <3>1, <3>3 DEF Fails, dbVars
      <3> QED BY <2>3, <3>2, <3>3 DEF PutSupply
    <2>4. CASE CreateSummary
      <3>1. CASE db' = Initial /\ counted' = [e \in Entries |-> 0] BY <3>1 DEF Initial
      <3>2. CASE UNCHANGED <<present, db, stale, counted>> BY <3>2 DEF ExactUntilStale
      <3> QED BY <2>4, <3>1, <3>2 DEF CreateSummary, dbVars
    <2>5. CASE UNCHANGED <<present, db, stale, counted>>
      BY <2>5 DEF ExactUntilStale
    <2> QED BY <2>1, <2>2, <2>3, <2>4, <2>5, OtherSteps
  <1> QED BY <1>1, <1>2, StoreIsSound, PTL DEF Spec
=============================================================================
