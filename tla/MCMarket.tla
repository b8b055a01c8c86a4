------------------------------ MODULE MCMarket ------------------------------
(* Small instances of Market: the carts, stocks and prices TLC enumerates. *)
EXTENDS Market

it(p, q) == [product |-> p, quantity |-> q]

OneUnit   == {[p \in Seeds |-> 1]}
BootStock == {[p \in Seeds |-> 2], [p \in Seeds |-> 0]}
PriceList == [p \in Seeds |-> 10 * p]

\* No item, one product twice, a quantity of zero, and two products in both orders, one of
\* them with two units of one; of a stock of zero any is too many.
OddCarts   == {<<>>, <<it(1, 1), it(1, 1)>>, <<it(2, 0)>>,
               <<it(1, 1), it(2, 1)>>, <<it(2, 1), it(1, 2)>>}
OneCart    == {<<it(1, 1)>>}
=============================================================================
