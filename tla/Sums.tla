-------------------------------- MODULE Sums --------------------------------
(***************************************************************************)
(* The sum of the values of a function over a finite set of arguments, and *)
(* the sums the market is about: units and costs of the items of a cart,   *)
(* units and totals of a set of orders.                                    *)
(***************************************************************************)
EXTENDS Integers, Sequences, FiniteSets, FiniteSetsExt

SumOf(f, S) == MapThenSumSet(LAMBDA x : f[x], S)

\* Units of product p in the first n items of a cart, in all of it, in a set of orders.
UnitsUpTo(c, p, n) ==
    SumOf([j \in DOMAIN c |-> IF c[j].product = p THEN c[j].quantity ELSE 0], 1 .. n)
UnitsIn(c, p)  == UnitsUpTo(c, p, Len(c))
Ordered(os, p) == SumOf([o \in os |-> UnitsIn(o.items, p)], os)
Revenue(os)    == SumOf([o \in os |-> o.total], os)

\* What the first n items of a cart cost at the prices of a list.
Cost(list, c, n) == SumOf([j \in DOMAIN c |-> list[c[j].product] * c[j].quantity], 1 .. n)

=============================================================================
