---------------------------- MODULE AtomicMarket ----------------------------
(***************************************************************************)
(* What the transaction of CreateOrder is for: a checkout is answered      *)
(* once, and either nothing has happened or, in one step, there is one new *)
(* order with all the items of the cart, at the listed prices, and the     *)
(* stock of the products it names is deducted.                             *)
(*                                                                         *)
(* Of a product that only one cart names every unit is deducted.  Of one   *)
(* that several name units may be left in stock that were sold (a Save     *)
(* undoes another's deduction), but none is ever lost, and no product is   *)
(* touched that the cart does not name.                                    *)
(***************************************************************************)
EXTENDS Integers, Sequences, Sums

CONSTANTS Products, Requests, Carts, Statuses

VARIABLES
    listed, stock, price, put, \* the offers, with the quantity put on sale
    orders,                    \* the orders that were placed
    cart,                      \* what each request asks for, <<>> before it comes
    answer                     \* what each request was answered

offers == <<listed, stock, price, put>>

Names(c, p) == \E j \in DOMAIN c : c[j].product = p
Sole(p)     == \A r, q \in Requests : Names(cart[r], p) /\ Names(cart[q], p) => r = q

\* A request comes; it may be refused at once.
Ask(r, c) ==
    /\ answer[r] = "none" /\ cart[r] = <<>>
    /\ cart' = [cart EXCEPT ![r] = c]
    /\ UNCHANGED answer \/ answer' = [answer EXCEPT ![r] = "error"]
    /\ UNCHANGED <<offers, orders>>

\* Requests end without an effect: an error, a failed Commit, a killed process.
Fail(S) ==
    /\ \A r \in S : answer[r] = "none"
    /\ \E a \in {"error", "unknown", "killed"} :
           answer' = [r \in Requests |-> IF r \in S THEN a ELSE answer[r]]
    /\ UNCHANGED <<offers, orders, cart>>

\* A request becomes order o, whether its client is told so or not.
Place(r, o) ==
    /\ answer[r] = "none"
    /\ \E a \in {"ok", "unknown"} : answer' = [answer EXCEPT ![r] = a]
    /\ \A u \in orders : u.id # o.id
    /\ o.status = "pending" /\ o.items = cart[r]
    /\ o.total = Cost(price, cart[r], Len(cart[r]))
    /\ \A j \in DOMAIN cart[r] : cart[r][j].product \in listed /\ cart[r][j].quantity > 0
    /\ orders' = orders \cup {o}
    /\ \A p \in Products :
          /\ ~Names(cart[r], p) => stock'[p] = stock[p]
          /\ Sole(p) => stock'[p] = stock[p] - UnitsIn(cart[r], p)
          /\ stock'[p] + Ordered(orders', p) >= put[p]
    /\ UNCHANGED <<listed, price, put, cart>>

\* A new offer.
Offer(p, q, c) ==
    /\ p \notin listed /\ listed' = listed \cup {p}
    /\ stock' = [stock EXCEPT ![p] = q] /\ put' = [put EXCEPT ![p] = q]
    /\ price' = [price EXCEPT ![p] = c]
    /\ UNCHANGED <<orders, cart, answer>>

\* The status of an order is set; everything else in it stays.
Restate(id, s) ==
    /\ orders' = {IF o.id = id THEN [o EXCEPT !.status = s] ELSE o : o \in orders}
    /\ UNCHANGED <<offers, cart, answer>>

\* A start: no orders, and a stock of new offers.
Reset ==
    /\ orders' = {} /\ put' = stock'
    /\ answer' = [r \in Requests |->
                    IF answer[r] \in {"ok", "error", "unknown"} THEN "wiped" ELSE answer[r]]
    /\ UNCHANGED cart

Init ==
    /\ listed = {} /\ orders = {} /\ put = stock
    /\ cart = [r \in Requests |-> <<>>]
    /\ answer = [r \in Requests |-> "none"]

Next == \/ \E r \in Requests : \/ \E c \in Carts : Ask(r, c)
                               \/ \E o \in orders' : Place(r, o)
        \/ \E S \in SUBSET Requests : Fail(S)
        \/ \E p \in Products : Offer(p, stock'[p], price'[p])
        \/ \E o \in orders, s \in Statuses : Restate(o.id, s)
        \/ Reset

Spec == Init /\ [][Next]_<<offers, orders, cart, answer>>
=============================================================================
