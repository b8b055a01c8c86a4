------------------------------- MODULE Market -------------------------------
(***************************************************************************)
(* The market server of newworld (Go, Fiber + GORM + Postgres): the        *)
(* checkout transaction of repositories.CreateOrder interleaved between    *)
(* the goroutines of the fiber handlers, the other handlers that touch     *)
(* offers, orders and the in-memory balance, and crash and start-up.       *)
(*                                                                         *)
(* Postgres (external) runs at READ COMMITTED, GORM's default: a SELECT    *)
(* sees the committed rows and the transaction's own writes; an UPDATE     *)
(* takes the row's lock, waits for another holder, and keeps the lock to   *)
(* the end of the transaction.  A deadlock is broken by failing one of the *)
(* waiting UPDATEs.  Every database call may fail.                         *)
(*                                                                         *)
(* A request of the model is one POST /auth/checkout; it is served once.   *)
(***************************************************************************)
EXTENDS Integers, Sequences, FiniteSets, Sums

CONSTANTS
    MaxOffer,     \* bound: offer ids are 1..MaxOffer
    NumSeeds,     \* offers created at start-up, ids 1..NumSeeds (7 in the code)
    Supplies,     \* the stocks the supplies endpoint may answer at start-up
    SeedPrice,    \* the price list of saveSuppliesToDB
    Requests,     \* the checkout requests
    Carts,        \* the carts a request may carry
    NewStock,     \* quantities of offers an administrator adds
    NewPrice,     \* prices of offers an administrator adds
    Statuses,     \* the strings an administrator may set as an order's status
    NoOne         \* not a request: the row is not locked

Products == 1 .. MaxOffer
Seeds    == 1 .. NumSeeds
Items    == [product : Products, quantity : Int]

ASSUME BoundAssumption    == MaxOffer \in Nat /\ NumSeeds \in 0 .. MaxOffer
ASSUME SeedAssumption     == Supplies \subseteq [Seeds -> Int] /\ SeedPrice \in [Seeds -> Int]
ASSUME CartAssumption     == Carts \subseteq Seq(Items)
ASSUME NewOfferAssumption == NewStock \subseteq Int /\ NewPrice \subseteq Int
ASSUME NoOneAssumption    == NoOne \notin Requests

OpeningBalance == 5000

VARIABLES
    up,        \* the process is serving requests
    listed,    \* ids of the rows of table offers
    stock,     \* committed offers.quantity
    price,     \* committed offers.price
    offerSeq,  \* the id sequence of table offers
    orders,    \* committed rows of table orders, with their items
    orderSeq,  \* the id sequence of table orders
    balance,   \* marketBalance, process memory
    holder,    \* the transaction that holds the row lock of an offer
    dirty,     \* its uncommitted quantity
    pc, cart, i, total, seen, orderId, \* locals of CreateOrder, per request
    result,    \* what the client was answered
    dash,      \* GetDashboardData: how far it is and what it has read
    seed, sold, taken \* history: stock put on sale, units in committed orders,
                      \* units the row's lock holder has deducted so far

offerVars == <<listed, price, offerSeq, seed>>
lockVars  == <<holder, dirty, taken>>
tblVars   == <<stock, orders, sold>>
locals    == <<cart, i, total, seen, orderId>>
vars == <<up, offerVars, lockVars, tblVars, orderSeq, balance, pc, locals, result, dash>>

----------------------------------------------------------------------------
NoDash  == [at |-> "idle", offers |-> <<>>, orders |-> {}, balance |-> 0]
InTx(r) == pc[r] \in {"check", "read", "save", "commit"}

\* The item request r is working on, and whether both loops are past the end.
Item(r)    == cart[r][i[r]]

\* Mutant: off by one, the last item of the cart is skipped.
HasItemButLast(r) == i[r] < Len(cart[r])

HasItem(r) == i[r] <= Len(cart[r])

\* Mutant: the offer is read through database.DB and not through tx.
VisibleOutside(r, p) == stock[p]

\* What a SELECT inside transaction r sees of an offer's quantity.
Visible(r, p) == IF holder[p] = r THEN dirty[p] ELSE stock[p]

Release(r) == /\ holder' = [p \in Products |-> IF holder[p] = r THEN NoOne ELSE holder[p]]
              /\ UNCHANGED <<dirty, taken>>

\* Mutant: an error path returns without tx.Rollback(); the row locks stay.
ReturnWithoutRollback(r) ==
    /\ pc' = [pc EXCEPT ![r] = "done"]
    /\ result' = [result EXCEPT ![r] = "error"]
    /\ UNCHANGED <<up, offerVars, lockVars, tblVars, orderSeq, balance, locals, dash>>

\* Mutant: the loops run without a transaction; what was saved before the error stays.
RollbackKeepingSaves(r) ==
    /\ Release(r)
    /\ stock' = [p \in Products |-> IF holder[p] = r THEN dirty[p] ELSE stock[p]]
    /\ pc' = [pc EXCEPT ![r] = "done"]
    /\ result' = [result EXCEPT ![r] = "error"]
    /\ UNCHANGED <<up, offerVars, orders, sold, orderSeq, balance, locals, dash>>

\* tx.Rollback() and the error answered to the client.
Rollback(r) == /\ Release(r)
               /\ pc' = [pc EXCEPT ![r] = "done"]
               /\ result' = [result EXCEPT ![r] = "error"]
               /\ UNCHANGED <<up, offerVars, tblVars, orderSeq, balance, locals, dash>>

----------------------------------------------------------------------------
\* database.DB.Begin(); a failed Begin is answered with an error.
Begin(r) ==
    /\ up /\ pc[r] = "idle"
    /\ \E c \in Carts : cart' = [cart EXCEPT ![r] = c]
    /\ \/ pc' = [pc EXCEPT ![r] = "check"] /\ UNCHANGED result
       \/ pc' = [pc EXCEPT ![r] = "done"] /\ result' = [result EXCEPT ![r] = "error"]
    /\ i' = [i EXCEPT ![r] = 1]
    /\ total' = [total EXCEPT ![r] = 0]
    /\ UNCHANGED <<up, offerVars, lockVars, tblVars, orderSeq, balance, seen, orderId, dash>>

\* Mutant: no check that the quantity is positive.
AcceptableAnyQuantity(r) == /\ Item(r).product \in listed
                            /\ Item(r).quantity <= Visible(r, Item(r).product)

Acceptable(r) == /\ Item(r).product \in listed
                 /\ Item(r).quantity > 0
                 /\ Item(r).quantity <= Visible(r, Item(r).product)

\* One turn of the first loop: First, the two checks, the running total.
CheckItem(r) ==
    /\ pc[r] = "check" /\ HasItem(r) /\ Acceptable(r)
    /\ total' = [total EXCEPT ![r] = @ + price[Item(r).product] * Item(r).quantity]
    /\ i' = [i EXCEPT ![r] = @ + 1]
    /\ UNCHANGED <<up, offerVars, lockVars, tblVars, orderSeq, balance, pc, cart, seen,
                   orderId, result, dash>>

\* The item is unknown, not positive or not in stock.
RefuseItem(r) == pc[r] = "check" /\ HasItem(r) /\ ~Acceptable(r) /\ Rollback(r)

\* tx.Create(&order): the id comes from the sequence, the row stays uncommitted.
CreateRow(r) ==
    /\ pc[r] = "check" /\ ~HasItem(r)
    /\ orderSeq' = orderSeq + 1
    /\ orderId' = [orderId EXCEPT ![r] = orderSeq + 1]
    /\ pc' = [pc EXCEPT ![r] = "read"]
    /\ i' = [i EXCEPT ![r] = 1]
    /\ UNCHANGED <<up, offerVars, lockVars, tblVars, balance, cart, total, seen, result, dash>>

\* The second loop reads the offer again ...
ReadOffer(r) ==
    /\ pc[r] = "read" /\ HasItem(r)
    /\ seen' = [seen EXCEPT ![r] = Visible(r, Item(r).product)]
    /\ pc' = [pc EXCEPT ![r] = "save"]
    /\ UNCHANGED <<up, offerVars, lockVars, tblVars, orderSeq, balance, cart, i, total,
                   orderId, result, dash>>

\* ... and saves the quantity computed from what it read, once the row is free.
SaveOffer(r) ==
    LET p == Item(r).product
        q == Item(r).quantity
    IN  /\ pc[r] = "save" /\ holder[p] \in {r, NoOne}
        /\ holder' = [holder EXCEPT ![p] = r]
        /\ dirty' = [dirty EXCEPT ![p] = seen[r] - q]
        /\ taken' = [taken EXCEPT ![p] = q + (IF holder[p] = r THEN @ ELSE 0)]
        /\ pc' = [pc EXCEPT ![r] = "read"]
        /\ i' = [i EXCEPT ![r] = @ + 1]
        /\ UNCHANGED <<up, offerVars, tblVars, orderSeq, balance, cart, total, seen,
                       orderId, result, dash>>

\* UpdateMarketBalance(-total), under its own mutex and outside the transaction.
\* Mutant: the sign of the amount is lost.
ChargeMarketPlus(r) ==
    /\ pc[r] = "read" /\ ~HasItem(r)
    /\ balance' = balance + total[r]
    /\ pc' = [pc EXCEPT ![r] = "commit"]
    /\ UNCHANGED <<up, offerVars, lockVars, tblVars, orderSeq, locals, result, dash>>

ChargeMarket(r) ==
    /\ pc[r] = "read" /\ ~HasItem(r)
    /\ balance' = balance - total[r]
    /\ pc' = [pc EXCEPT ![r] = "commit"]
    /\ UNCHANGED <<up, offerVars, lockVars, tblVars, orderSeq, locals, result, dash>>

\* tx.Commit().  The error the client sees may stand for a transaction that was
\* rolled back or for one that was committed and whose answer was lost: "unknown".
\* Mutant: CreateOrder forgets to hand orderItems to the order.
NewOrderWithoutItems(r) ==
    [id |-> orderId[r], status |-> "pending", total |-> total[r], items |-> <<>>]

NewOrder(r) == [id |-> orderId[r], status |-> "pending", total |-> total[r], items |-> cart[r]]

Install(r) ==
    /\ stock' = [p \in Products |-> IF holder[p] = r THEN dirty[p] ELSE stock[p]]
    /\ sold' = [p \in Products |-> sold[p] + (IF holder[p] = r THEN taken[p] ELSE 0)]
    /\ orders' = orders \cup {NewOrder(r)}

\* Mutant: the error of tx.Commit() is not looked at.
CommitUnchecked(r) ==
    /\ pc[r] = "commit"
    /\ Install(r) \/ UNCHANGED tblVars
    /\ result' = [result EXCEPT ![r] = "ok"]
    /\ pc' = [pc EXCEPT ![r] = "done"]
    /\ Release(r)
    /\ UNCHANGED <<up, offerVars, orderSeq, balance, locals, dash>>

Commit(r) ==
    /\ pc[r] = "commit"
    /\ \/ Install(r) /\ result' = [result EXCEPT ![r] = "ok"]
       \/ Install(r) /\ result' = [result EXCEPT ![r] = "unknown"]
       \/ UNCHANGED tblVars /\ result' = [result EXCEPT ![r] = "unknown"]
    /\ pc' = [pc EXCEPT ![r] = "done"]
    /\ Release(r)
    /\ UNCHANGED <<up, offerVars, orderSeq, balance, locals, dash>>

\* Any database call of a transaction but its Commit may fail; the code rolls back.
DBError(r) ==
    /\ \/ pc[r] \in {"check", "save"}
       \/ pc[r] = "read" /\ HasItem(r)
    /\ Rollback(r)

\* A set of UPDATEs that wait for each other, none of which can proceed: Postgres
\* fails one of them.
Waiting(r)  == pc[r] = "save" /\ holder[Item(r).product] \notin {r, NoOne}
Closed(S)   == \A r \in S : Waiting(r) /\ holder[Item(r).product] \in S
Deadlock(S) == S # {} /\ Closed(S) /\ \A T \in SUBSET S : T # {} /\ Closed(T) => T = S

DeadlockAbort(r) == /\ \E S \in SUBSET Requests : r \in S /\ Deadlock(S)
                    /\ Rollback(r)

----------------------------------------------------------------------------
\* POST /auth/addoffer: Create with the id of the body, or the sequence's if it is 0.
AddOffer(id, q, c) ==
    LET new == IF id = 0 THEN offerSeq + 1 ELSE id
    IN  /\ up /\ new \in Products
        /\ offerSeq' = IF id = 0 THEN new ELSE offerSeq
        /\ IF new \in listed THEN UNCHANGED <<listed, stock, price, seed, sold>>
           ELSE /\ listed' = listed \cup {new}
                /\ stock' = [stock EXCEPT ![new] = q]
                /\ price' = [price EXCEPT ![new] = c]
                /\ seed' = [seed EXCEPT ![new] = q]
                /\ sold' = [sold EXCEPT ![new] = 0]
        /\ UNCHANGED <<up, lockVars, orders, orderSeq, balance, pc, locals, result, dash>>

\* PATCH /admin/orders/:id: an UPDATE with a WHERE; no row matched is no error.
UpdateOrderStatus(id, s) ==
    /\ up
    /\ orders' = {IF o.id = id THEN [o EXCEPT !.status = s] ELSE o : o \in orders}
    /\ UNCHANGED <<up, offerVars, lockVars, stock, sold, orderSeq, balance, pc, locals,
                   result, dash>>

\* GET /admin/dashboard: GetDashboardData reads offers, orders and balance in turn.
DashOffers ==
    /\ up /\ dash.at = "idle"
    /\ dash' = [dash EXCEPT !.at = "orders", !.offers = [p \in listed |-> stock[p]]]
    /\ UNCHANGED <<up, offerVars, lockVars, tblVars, orderSeq, balance, pc, locals, result>>

DashOrders ==
    /\ up /\ dash.at = "orders"
    /\ dash' = [dash EXCEPT !.at = "balance", !.orders = orders]
    /\ UNCHANGED <<up, offerVars, lockVars, tblVars, orderSeq, balance, pc, locals, result>>

DashBalance ==
    /\ up /\ dash.at = "balance"
    /\ dash' = [dash EXCEPT !.at = "shown", !.balance = balance]
    /\ UNCHANGED <<up, offerVars, lockVars, tblVars, orderSeq, balance, pc, locals, result>>

Dashboard == DashOffers \/ DashOrders \/ DashBalance

----------------------------------------------------------------------------
\* The process dies: Postgres rolls back its open transactions, memory is lost.
Crash ==
    /\ up /\ up' = FALSE
    /\ holder' = [p \in Products |-> NoOne]
    /\ pc' = [r \in Requests |-> IF InTx(r) THEN "done" ELSE pc[r]]
    /\ result' = [r \in Requests |-> IF InTx(r) THEN "killed" ELSE result[r]]
    /\ dash' = NoDash
    /\ UNCHANGED <<offerVars, dirty, taken, tblVars, orderSeq, balance, locals>>

\* Every start drops the schema first (ResetDatabase), so the tables are empty ...
ResetDatabase ==
    /\ orders' = {} /\ orderSeq' = 0
    /\ balance' = OpeningBalance
    /\ sold' = [p \in Products |-> 0]
    /\ result' = [r \in Requests |-> IF result[r] \in {"ok", "error", "unknown"} THEN "wiped" ELSE result[r]]
    /\ UNCHANGED <<lockVars, pc, locals, dash>>

\* ... and saveSuppliesToDB fills the offers with what the refuge's server answers.
Boot ==
    /\ ~up /\ up' = TRUE
    /\ ResetDatabase
    /\ \E s \in Supplies :
         /\ stock' = [p \in Products |-> IF p \in Seeds THEN s[p] ELSE 0]
         /\ seed' = stock'
    /\ listed' = Seeds /\ offerSeq' = NumSeeds
    /\ price' = [p \in Products |-> IF p \in Seeds THEN SeedPrice[p] ELSE 0]

\* fetchData failed, or a Create did after the first n: log.Fatalf, nothing is served.
BootFails ==
    /\ ~up /\ UNCHANGED up
    /\ ResetDatabase
    /\ \E s \in Supplies, n \in 0 .. NumSeeds :
         /\ stock' = [p \in Products |-> IF p \in 1 .. n THEN s[p] ELSE 0]
         /\ seed' = stock'
         /\ listed' = 1 .. n /\ offerSeq' = n
         /\ price' = [p \in Products |-> IF p \in 1 .. n THEN SeedPrice[p] ELSE 0]

----------------------------------------------------------------------------
Init ==
    /\ up = FALSE
    /\ listed = {} /\ offerSeq = 0 /\ orders = {} /\ orderSeq = 0
    /\ stock = [p \in Products |-> 0] /\ price = stock /\ dirty = stock
    /\ seed = stock /\ sold = stock /\ taken = stock
    /\ holder = [p \in Products |-> NoOne]
    /\ balance = OpeningBalance
    /\ pc = [r \in Requests |-> "idle"]
    /\ cart = [r \in Requests |-> <<>>]
    /\ i = [r \in Requests |-> 1]
    /\ total = [r \in Requests |-> 0]
    /\ seen = total /\ orderId = total
    /\ result = [r \in Requests |-> "none"]
    /\ dash = NoDash

\* What goroutine r does next once its handler is called.
Step(r) == \/ CheckItem(r) \/ RefuseItem(r) \/ CreateRow(r) \/ ReadOffer(r)
           \/ SaveOffer(r) \/ ChargeMarket(r) \/ Commit(r)

Admin == \/ \E id \in 0 .. MaxOffer, q \in NewStock, c \in NewPrice : AddOffer(id, q, c)
         \/ \E id \in 1 .. orderSeq, s \in Statuses : UpdateOrderStatus(id, s)
         \/ Dashboard

Next == \/ \E r \in Requests : Begin(r) \/ Step(r) \/ DBError(r) \/ DeadlockAbort(r)
        \/ Admin
        \/ Crash \/ Boot \/ BootFails

Spec == Init /\ [][Next]_vars

\* Goroutines are scheduled and Postgres answers, or breaks the deadlock: a request
\* that can move does.  Nothing makes clients, administrators, crashes or failing
\* calls come.
FairSpec == Spec /\ \A r \in Requests : WF_vars(Step(r)) /\ WF_vars(DeadlockAbort(r))

----------------------------------------------------------------------------
(* Properties *)

TypeOK ==
    /\ up \in BOOLEAN
    /\ listed \subseteq Products /\ offerSeq \in 0 .. MaxOffer
    /\ stock \in [Products -> Int] /\ price \in [Products -> Int]
    /\ seed \in [Products -> Int] /\ sold \in [Products -> Int]
    /\ dirty \in [Products -> Int] /\ taken \in [Products -> Int]
    /\ holder \in [Products -> Requests \cup {NoOne}]
    /\ orderSeq \in Nat /\ balance \in Int
    /\ pc \in [Requests -> {"idle", "check", "read", "save", "commit", "done"}]
    /\ cart \in [Requests -> Seq(Items)]
    /\ i \in [Requests -> Nat \ {0}]
    /\ total \in [Requests -> Int] /\ seen \in [Requests -> Int]
    /\ orderId \in [Requests -> Nat]

\* Stock never vanishes: what is left of an offer plus what committed orders took
\* is at least what was put on sale, whatever checkouts interleave, fail or crash
\* (CreateOrder; the two sides differ when a stale Save undoes a deduction).
GoodsAccounted == \A p \in Products : stock[p] + sold[p] >= seed[p]

\* The parts that make it inductive: items past the check are listed and positive;
Passed(r, n) == \A j \in 1 .. n : cart[r][j].product \in listed /\ cart[r][j].quantity > 0

ItemsChecked ==
    \A r \in Requests :
      /\ pc[r] = "check" => i[r] <= Len(cart[r]) + 1 /\ Passed(r, i[r] - 1)
      /\ pc[r] \in {"read", "save", "commit"} => Passed(r, Len(cart[r]))
      /\ pc[r] = "save" => HasItem(r)

\* only a transaction past its check holds locks, and only of listed offers;
LocksOwned ==
    \A p \in Products : holder[p] # NoOne =>
      pc[holder[p]] \in {"read", "save", "commit"} /\ p \in listed

\* the uncommitted quantity of a locked row, and the quantity a request has read
\* and is about to save, account for the goods as well;
Deducted(r, p) == IF holder[p] = r THEN taken[p] ELSE 0

DirtyAccounted ==
    \A p \in Products : holder[p] # NoOne =>
      taken[p] >= 0 /\ dirty[p] + taken[p] + sold[p] >= seed[p]

SeenAccounted ==
    \A r \in Requests : pc[r] = "save" =>
      LET p == Item(r).product IN seen[r] + Deducted(r, p) + sold[p] >= seed[p]

\* and nothing runs while the process is down.
DownIsQuiet == ~up => \A r \in Requests : ~InTx(r)

GoodsInv == /\ TypeOK /\ GoodsAccounted /\ ItemsChecked /\ LocksOwned
            /\ DirtyAccounted /\ SeenAccounted /\ DownIsQuiet

\* A committed order has deducted every unit of every item it lists, and nothing
\* else has (both loops of CreateOrder walk the same items).
SoldIsOrdered == \A p \in Products : sold[p] = Ordered(orders, p)

\* A client answered 200 has exactly one committed order under its id, with its cart
\* and the total of the listed prices; a client answered with a rollback has none.
AnsweredOrders ==
    \A r \in Requests :
      LET mine == {o \in orders : o.id = orderId[r]}
      IN  /\ result[r] = "ok" =>
               \E o \in mine : mine = {o} /\ o.items = cart[r]
                               /\ o.total = Cost(price, cart[r], Len(cart[r]))
          /\ result[r] = "error" /\ orderId[r] # 0 => mine = {}

\* The in-memory balance is the opening balance less the committed orders, less what
\* requests have charged and not yet committed, less what a failed Commit left
\* charged: UpdateMarketBalance runs before Commit and is never undone.
ChargedOnly == {r \in Requests : \/ pc[r] = "commit"
                                  \/ /\ result[r] = "unknown"
                                     /\ \A o \in orders : o.id # orderId[r]}
BalanceBooked ==
    up => balance = OpeningBalance - Revenue(orders) - SumOf(total, ChargedOnly)

\* The parts that make the books inductive: how a request's answer goes with its steps;
Past(r) == pc[r] \in {"read", "save", "commit"}
Begun   == {r \in Requests : pc[r] # "idle"}

Answers ==
    /\ result \in [Requests -> {"none", "ok", "error", "unknown", "killed", "wiped"}]
    /\ IsFiniteSet(Begun)
    /\ \A r \in Requests : /\ pc[r] = "done" <=> result[r] # "none"
                           /\ pc[r] = "idle" => cart[r] = <<>>
                           /\ pc[r] \in {"idle", "check"} => orderId[r] = 0
                           /\ Past(r) => orderId[r] # 0

\* the rows of orders, one per id, of listed products;
OrderRows ==
    /\ IsFiniteSet(orders)
    /\ \A o \in orders : /\ o \in [id : 1 .. orderSeq, status : {"pending"} \cup Statuses,
                                   total : Int, items : Seq(Items)]
                         /\ \A j \in DOMAIN o.items : o.items[j].product \in listed
    /\ \A o, u \in orders : o.id = u.id => o = u

\* the ids handed out since the last start, each to one request, and the requests among
\* them that have no row;
Current(r) == orderId[r] # 0 /\ (Past(r) \/ result[r] \in {"ok", "error", "unknown"})

OrderIds ==
    /\ \A r \in Requests : Current(r) => orderId[r] \in 1 .. orderSeq
    /\ \A r, q \in Requests : Current(r) /\ Current(q) /\ orderId[r] = orderId[q] => r = q
    /\ \A r \in Requests : Current(r) /\ (Past(r) \/ result[r] = "error") =>
         \A o \in orders : o.id # orderId[r]

\* how far the two loops of CreateOrder are, with the total and the deductions so far;
LoopsOf(r) ==
    /\ Past(r) => i[r] <= Len(cart[r]) + 1 /\ (pc[r] = "commit" => ~HasItem(r))
    /\ pc[r] = "check" => total[r] = Cost(price, cart[r], i[r] - 1)
    /\ Past(r) \/ result[r] \in {"ok", "unknown"} =>
         Passed(r, Len(cart[r])) /\ total[r] = Cost(price, cart[r], Len(cart[r]))
    /\ Past(r) => \A p \in Products : Deducted(r, p) = UnitsUpTo(cart[r], p, i[r] - 1)

Loops == \A r \in Requests : LoopsOf(r)

\* and a client that was answered 200 has its row.
OkHasRow ==
    \A r \in Requests : result[r] = "ok" =>
      \E o \in orders : o.id = orderId[r] /\ o.items = cart[r] /\ o.total = total[r]

BooksInv == /\ Answers /\ OrderRows /\ OrderIds /\ Loops /\ OkHasRow
            /\ SoldIsOrdered /\ BalanceBooked

\* The dashboard reads the balance last, so it never shows an order whose charge is
\* missing from the balance it shows (when no offer has a negative price).
NoNegativePrice == \A p \in listed : price[p] >= 0

DashboardCharged ==
    dash.at = "shown" /\ NoNegativePrice =>
      dash.balance <= OpeningBalance - Revenue(dash.orders)

\* It reads the offers first, so the stock it shows and the orders it shows account
\* for the goods put on sale.
DashboardStock ==
    dash.at \in {"balance", "shown"} =>
      \A p \in DOMAIN dash.offers : dash.offers[p] + Ordered(dash.orders, p) >= seed[p]

\* While it is on the way, the same holds of what it has read and what it will read.
DashInv ==
    /\ dash = [at |-> dash.at, offers |-> dash.offers, orders |-> dash.orders,
               balance |-> dash.balance]
    /\ dash.at \in {"idle", "orders", "balance", "shown"}
    /\ dash.at # "idle" => up /\ dash.offers \in [DOMAIN dash.offers -> Int]
                              /\ DOMAIN dash.offers \subseteq listed
    /\ dash.at = "orders" => \A p \in DOMAIN dash.offers : dash.offers[p] + sold[p] >= seed[p]
    /\ dash.at = "balance" => Revenue(dash.orders) \in Int
    /\ dash.at = "balance" /\ NoNegativePrice =>
         balance <= OpeningBalance - Revenue(dash.orders)
    /\ DashboardStock /\ DashboardCharged

\* A product that at most one request asks for is exact, and if that request asks for
\* it once, its stock is never negative: only overlapping carts, or a cart that names
\* a product twice, lose updates.
Askers(p) == {r \in Requests : \E j \in DOMAIN cart[r] : cart[r][j].product = p}
Times(r, p) == Cardinality({j \in DOMAIN cart[r] : cart[r][j].product = p})
ExactWhenAlone ==
    \A p \in Products : Cardinality(Askers(p)) <= 1 =>
      /\ stock[p] + sold[p] = seed[p]
      /\ seed[p] >= 0 /\ (\A r \in Askers(p) : Times(r, p) = 1) => stock[p] >= 0

\* What makes it inductive: a lock is held by a request that has saved the product;
Alone(p) == \A r, q \in Askers(p) : r = q
Once(p)  == \A r \in Askers(p) : \A j, k \in DOMAIN cart[r] :
              cart[r][j].product = p /\ cart[r][k].product = p => j = k

LocksAsked ==
    \A p \in Products : holder[p] # NoOne =>
      \E j \in 1 .. i[holder[p]] - 1 : cart[holder[p]][j].product = p

\* what is locked, and what is read to be saved, is exact as well;
ExactAlone ==
    \A p \in Products : Alone(p) =>
      /\ stock[p] + sold[p] = seed[p]
      /\ holder[p] # NoOne => dirty[p] + taken[p] + sold[p] = seed[p]
      /\ \A r \in Requests : pc[r] = "save" /\ Item(r).product = p =>
           seen[r] + Deducted(r, p) + sold[p] = seed[p]

\* and an item that was checked and is not yet saved is still in stock.
Unsaved(r) == CASE pc[r] = "check"           -> 1 .. i[r] - 1
                [] pc[r] \in {"read", "save"} -> i[r] .. Len(cart[r])
                [] OTHER                     -> {}

InStockAlone ==
    \A p \in Products : Alone(p) /\ Once(p) /\ seed[p] >= 0 =>
      /\ stock[p] >= 0
      /\ holder[p] # NoOne => dirty[p] >= 0
      /\ \A r \in Requests : \A j \in Unsaved(r) :
           cart[r][j].product = p => cart[r][j].quantity <= stock[p]

AloneInv == LocksAsked /\ ExactAlone /\ InStockAlone

\* CreateOrder is atomic: the statements of its transaction, interleaved with those of
\* others, with failures, administrators and restarts, amount to one step that places
\* the order of the whole cart, or to nothing.
Atomic == INSTANCE AtomicMarket WITH put <- seed, answer <- result
ImplementsAtomicMarket == Atomic!Spec

\* "Check if there are enough items in stock": committed orders never take more of an
\* offer than was put on sale.
NeverOversold == \A p \in listed : seed[p] >= 0 => sold[p] <= seed[p]

\* A checkout that has begun ends: lock waits and deadlocks between the transactions
\* are resolved, because every error path rolls back and gives its locks up.
CheckoutsEnd == \A r \in Requests : InTx(r) ~> pc[r] = "done"

=============================================================================
