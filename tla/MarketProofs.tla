---------------------------- MODULE MarketProofs ----------------------------
(***************************************************************************)
(* Proofs about the market, for every set of requests, carts, stocks and   *)
(* prices, over every interleaving of checkouts, failing calls,            *)
(* administrators, crashes and restarts.  Four invariants, each proved     *)
(* from the ones before it, one lemma per action:                          *)
(*   GoodsInv  stock never vanishes                                        *)
(*   BooksInv  orders, deductions, answers and the balance add up          *)
(*   DashInv   what the dashboard has read and will read adds up           *)
(*   AloneInv  a product with one asker is exact                           *)
(***************************************************************************)
EXTENDS Market, SumLemmas, TLAPS

----------------------------------------------------------------------------
(* Stock never vanishes: GoodsInv *)

\* The item a request works on is an item of its cart.
LEMMA ItemType ==
    ASSUME TypeOK, NEW r \in Requests, HasItem(r)
    PROVE  Item(r) \in Items /\ Item(r) = cart[r][i[r]] /\ i[r] \in 1 .. Len(cart[r])
  <1>1. cart[r] \in Seq(Items) /\ i[r] \in Nat \ {0} BY DEF TypeOK
  <1>2. i[r] \in 1 .. Len(cart[r]) BY <1>1 DEF HasItem
  <1> QED BY <1>1, <1>2 DEF Item

LEMMA InitInv == Init => GoodsInv
  <1> SUFFICES ASSUME Init PROVE GoodsInv OBVIOUS
  <1> USE NoOneAssumption, BoundAssumption DEF Init
  <1>1. TypeOK
    <2>1. <<>> \in Seq(Items) OBVIOUS
    <2>2. cart \in [Requests -> Seq(Items)] BY <2>1
    <2>3. OpeningBalance \in Int BY DEF OpeningBalance
    <2>4. /\ stock \in [Products -> Int] /\ price \in [Products -> Int]
          /\ seed \in [Products -> Int] /\ sold \in [Products -> Int]
          /\ dirty \in [Products -> Int] /\ taken \in [Products -> Int]
      OBVIOUS
    <2>5. pc \in [Requests -> {"idle", "check", "read", "save", "commit", "done"}]
      OBVIOUS
    <2>6. /\ total \in [Requests -> Int] /\ seen \in [Requests -> Int]
          /\ orderId \in [Requests -> Nat]
      <3>1. [r \in Requests |-> 0] \in [Requests -> Int] /\
            [r \in Requests |-> 0] \in [Requests -> Nat] OBVIOUS
      <3> QED BY ONLY <3>1, Init DEF Init
    <2>8. holder \in [Products -> Requests \cup {NoOne}] OBVIOUS
    <2>9. i \in [Requests -> Nat \ {0}] OBVIOUS
    <2>7. up \in BOOLEAN /\ listed \subseteq Products OBVIOUS
    <2>10. offerSeq \in 0 .. MaxOffer /\ orderSeq \in Nat BY BoundAssumption
    <2> QED BY <2>2, <2>3, <2>4, <2>5, <2>6, <2>7,
         <2>8, <2>9, <2>10 DEF TypeOK
  <1>2. GoodsAccounted BY DEF GoodsAccounted
  <1>3. ItemsChecked BY DEF ItemsChecked
  <1>4. LocksOwned BY DEF LocksOwned
  <1>5. DirtyAccounted BY DEF DirtyAccounted
  <1>6. SeenAccounted BY DEF SeenAccounted
  <1>7. DownIsQuiet BY DEF DownIsQuiet, InTx
  <1> QED BY <1>1, <1>2, <1>3, <1>4, <1>5, <1>6, <1>7 DEF GoodsInv

\* What is known of the item of a request that is past the check.
LEMMA PassedItem ==
    ASSUME GoodsInv, NEW r \in Requests, HasItem(r),
           pc[r] \in {"read", "save", "commit"}
    PROVE  /\ Item(r).product \in Products /\ Item(r).quantity \in Int
           /\ Item(r).product \in listed /\ Item(r).quantity > 0
  <1>1. Item(r) \in Items /\ Item(r) = cart[r][i[r]] /\ i[r] \in 1 .. Len(cart[r])
    BY ItemType DEF GoodsInv
  <1>2. Passed(r, Len(cart[r])) BY DEF GoodsInv, ItemsChecked
  <1> QED BY <1>1, <1>2 DEF Passed, Items

LEMMA BeginInv ==
    ASSUME GoodsInv, NEW r \in Requests, Begin(r)
    PROVE  GoodsInv'
  <1> USE DEF GoodsInv, Begin, vars, offerVars, lockVars, tblVars, locals
  <1> PICK c \in Carts : cart' = [cart EXCEPT ![r] = c] OBVIOUS
  <1>0. c \in Seq(Items) /\ Len(c) \in Nat BY CartAssumption
  <1>1. TypeOK'
    <2>1. cart' \in [Requests -> Seq(Items)] BY <1>0 DEF TypeOK
    <2>2. pc' \in [Requests -> {"idle", "check", "read", "save", "commit", "done"}]
      BY DEF TypeOK
    <2>3. i' \in [Requests -> Nat \ {0}] /\ total' \in [Requests -> Int] BY DEF TypeOK
    <2> QED BY <2>1, <2>2, <2>3 DEF TypeOK
  <1>2. GoodsAccounted' BY DEF GoodsAccounted
  <1>3. ItemsChecked'
    <2> SUFFICES ASSUME NEW q \in Requests
                 PROVE  /\ pc'[q] = "check" => i'[q] <= Len(cart'[q]) + 1 /\ Passed(q, i[q] - 1)'
                        /\ pc'[q] \in {"read", "save", "commit"} => Passed(q, Len(cart[q]))'
                        /\ pc'[q] = "save" => HasItem(q)'
      BY DEF ItemsChecked
    <2>1. CASE q = r
      <3>1. i'[r] = 1 /\ cart'[r] = c /\ pc'[r] \in {"check", "done"} BY DEF TypeOK
      <3> QED BY <2>1, <3>1, <1>0 DEF Passed
    <2>2. CASE q # r
      <3>1. i'[q] = i[q] /\ cart'[q] = cart[q] /\ pc'[q] = pc[q] BY <2>2 DEF TypeOK
      <3> QED BY <3>1 DEF Passed, HasItem, ItemsChecked
    <2> QED BY <2>1, <2>2
  <1>4. LocksOwned'
    <2>1. \A p \in Products : holder[p] # NoOne => holder[p] # r BY DEF LocksOwned
    <2> QED BY <2>1 DEF LocksOwned, TypeOK
  <1>5. DirtyAccounted' BY DEF DirtyAccounted
  <1>6. SeenAccounted'
    <2> SUFFICES ASSUME NEW q \in Requests, pc'[q] = "save"
                 PROVE  (LET p == Item(q).product
                         IN seen[q] + Deducted(q, p) + sold[p] >= seed[p])'
      BY DEF SeenAccounted
    <2>1. q # r /\ pc[q] = "save" BY DEF TypeOK
    <2>2. cart'[q] = cart[q] /\ i'[q] = i[q] BY <2>1 DEF TypeOK
    <2> QED BY <2>1, <2>2 DEF SeenAccounted, Deducted, Item
  <1>7. DownIsQuiet' BY DEF DownIsQuiet, InTx
  <1> QED BY <1>1, <1>2, <1>3, <1>4, <1>5, <1>6, <1>7

LEMMA CheckItemInv ==
    ASSUME GoodsInv, NEW r \in Requests, CheckItem(r)
    PROVE  GoodsInv'
  <1> USE DEF GoodsInv, CheckItem, vars, offerVars, lockVars, tblVars, locals
  <1> DEFINE it == Item(r)
  <1>0. /\ it \in Items /\ it = cart[r][i[r]] /\ i[r] \in 1 .. Len(cart[r])
        /\ it.product \in Products /\ it.quantity \in Int
        /\ it.product \in listed /\ it.quantity > 0
    BY ItemType DEF Acceptable, Items
  <1>1. TypeOK'
    <2>1. price[it.product] * it.quantity \in Int BY <1>0 DEF TypeOK
    <2>2. total' \in [Requests -> Int] BY <2>1 DEF TypeOK
    <2>3. i' \in [Requests -> Nat \ {0}] BY DEF TypeOK
    <2> QED BY <2>2, <2>3 DEF TypeOK
  <1>2. GoodsAccounted' BY DEF GoodsAccounted
  <1>3. ItemsChecked'
    <2>0. i[r] \in Nat /\ i'[r] = i[r] + 1 /\ i'[r] - 1 = i[r] BY DEF TypeOK
    <2>1. Passed(r, i[r] - 1) BY DEF ItemsChecked
    <2>2. Passed(r, i[r] - 1)'
      <3> SUFFICES ASSUME NEW j \in 1 .. i[r]
                   PROVE  cart[r][j].product \in listed /\ cart[r][j].quantity > 0
        BY <2>0 DEF Passed
      <3>1. CASE j = i[r] BY <3>1, <1>0
      <3>2. CASE j # i[r] BY <3>2, <2>0, <2>1 DEF Passed
      <3> QED BY <3>1, <3>2
    <2>3. i'[r] <= Len(cart[r]) + 1 BY <1>0, <2>0, ItemType DEF TypeOK
    <2>4. \A q \in Requests : q # r => i'[q] = i[q] BY DEF TypeOK
    <2>5. \A q \in Requests : q # r /\ pc[q] = "check" =>
            i'[q] <= Len(cart[q]) + 1 /\ Passed(q, i[q] - 1)'
      BY <2>4 DEF ItemsChecked, Passed
    <2>6. \A q \in Requests : pc[q] \in {"read", "save", "commit"} =>
            Passed(q, Len(cart[q]))' /\ (pc[q] = "save" => HasItem(q)')
      BY <2>4 DEF ItemsChecked, Passed, HasItem
    <2> QED BY <2>2, <2>3, <2>5, <2>6 DEF ItemsChecked
  <1>4. LocksOwned' BY DEF LocksOwned
  <1>5. DirtyAccounted' BY DEF DirtyAccounted
  <1>6. SeenAccounted'
    <2>1. \A q \in Requests : pc[q] = "save" => i'[q] = i[q] BY DEF TypeOK
    <2> QED BY <2>1 DEF SeenAccounted, Deducted, Item
  <1>7. DownIsQuiet' BY DEF DownIsQuiet, InTx
  <1> QED BY <1>1, <1>2, <1>3, <1>4, <1>5, <1>6, <1>7

LEMMA RollbackInv ==
    ASSUME GoodsInv, NEW r \in Requests, Rollback(r)
    PROVE  GoodsInv'
  <1> USE DEF GoodsInv, Rollback, Release, vars, offerVars, lockVars, tblVars, locals
  <1>1. TypeOK' BY DEF TypeOK
  <1>2. GoodsAccounted' BY DEF GoodsAccounted
  <1>3. ItemsChecked' BY DEF ItemsChecked, Passed, HasItem
  <1>4. LocksOwned' BY DEF LocksOwned
  <1>5. DirtyAccounted' BY DEF DirtyAccounted
  <1>6. SeenAccounted'
    <2> SUFFICES ASSUME NEW q \in Requests, pc'[q] = "save"
                 PROVE  (LET p == Item(q).product
                         IN seen[q] + Deducted(q, p) + sold[p] >= seed[p])'
      BY DEF SeenAccounted
    <2>1. q # r /\ pc[q] = "save" /\ HasItem(q) BY DEF TypeOK, ItemsChecked
    <2>2. Item(q).product \in Products BY <2>1, PassedItem
    <2>3. (holder'[Item(q).product] = q) <=> (holder[Item(q).product] = q)
      BY <2>1, <2>2, NoOneAssumption
    <2> QED BY <2>1, <2>2, <2>3 DEF SeenAccounted, Deducted, Item
  <1>7. DownIsQuiet' BY DEF DownIsQuiet, InTx
  <1> QED BY <1>1, <1>2, <1>3, <1>4, <1>5, <1>6, <1>7

LEMMA CreateRowInv ==
    ASSUME GoodsInv, NEW r \in Requests, CreateRow(r)
    PROVE  GoodsInv'
  <1> USE DEF GoodsInv, CreateRow, vars, offerVars, lockVars, tblVars, locals
  <1>1. TypeOK' BY DEF TypeOK
  <1>2. GoodsAccounted' BY DEF GoodsAccounted
  <1>3. ItemsChecked'
    <2>1. cart[r] \in Seq(Items) /\ Len(cart[r]) \in Nat /\ i[r] \in Nat BY DEF TypeOK
    <2>2. i[r] = Len(cart[r]) + 1 /\ Passed(r, i[r] - 1)
      BY <2>1 DEF ItemsChecked, HasItem
    <2>3. Passed(r, Len(cart[r]))' BY <2>1, <2>2 DEF Passed
    <2>4. pc'[r] = "read" BY DEF TypeOK
    <2>5. \A q \in Requests : q # r => pc'[q] = pc[q] /\ i'[q] = i[q] BY DEF TypeOK
    <2> QED BY <2>3, <2>4, <2>5 DEF ItemsChecked, Passed, HasItem
  <1>4. LocksOwned' BY DEF LocksOwned, TypeOK
  <1>5. DirtyAccounted' BY DEF DirtyAccounted
  <1>6. SeenAccounted'
    <2>1. \A q \in Requests : pc'[q] = "save" => pc[q] = "save" /\ i'[q] = i[q]
      BY DEF TypeOK
    <2> QED BY <2>1 DEF SeenAccounted, Deducted, Item
  <1>7. DownIsQuiet' BY DEF DownIsQuiet, InTx
  <1> QED BY <1>1, <1>2, <1>3, <1>4, <1>5, <1>6, <1>7

LEMMA ReadOfferInv ==
    ASSUME GoodsInv, NEW r \in Requests, ReadOffer(r)
    PROVE  GoodsInv'
  <1> USE DEF GoodsInv, ReadOffer, vars, offerVars, lockVars, tblVars, locals
  <1> DEFINE p == Item(r).product
  <1>0. p \in Products BY PassedItem
  <1>1. TypeOK'
    <2>1. seen' \in [Requests -> Int] BY <1>0 DEF TypeOK, Visible
    <2> QED BY <2>1 DEF TypeOK
  <1>2. GoodsAccounted' BY DEF GoodsAccounted
  <1>3. ItemsChecked' BY DEF ItemsChecked, Passed, HasItem
  <1>4. LocksOwned' BY DEF LocksOwned
  <1>5. DirtyAccounted' BY DEF DirtyAccounted
  <1>6. SeenAccounted'
    <2>1. Visible(r, p) + Deducted(r, p) + sold[p] >= seed[p]
      BY <1>0, NoOneAssumption
         DEF Visible, Deducted, DirtyAccounted, GoodsAccounted, TypeOK
    <2>2. seen'[r] = Visible(r, p) BY DEF TypeOK
    <2>3. \A q \in Requests : q # r => pc'[q] = pc[q] /\ seen'[q] = seen[q] BY DEF TypeOK
    <2> QED BY <2>1, <2>2, <2>3 DEF SeenAccounted, Deducted, Item
  <1>7. DownIsQuiet' BY DEF DownIsQuiet, InTx
  <1> QED BY <1>1, <1>2, <1>3, <1>4, <1>5, <1>6, <1>7

LEMMA SaveOfferInv ==
    ASSUME GoodsInv, NEW r \in Requests, SaveOffer(r)
    PROVE  GoodsInv'
  <1> USE DEF GoodsInv, vars, offerVars, lockVars, tblVars, locals
  <1> DEFINE p == Item(r).product
             n == Item(r).quantity
  <1>a. /\ pc[r] = "save" /\ holder[p] \in {r, NoOne}
        /\ holder' = [holder EXCEPT ![p] = r]
        /\ dirty' = [dirty EXCEPT ![p] = seen[r] - n]
        /\ taken' = [taken EXCEPT ![p] = n + (IF holder[p] = r THEN @ ELSE 0)]
        /\ pc' = [pc EXCEPT ![r] = "read"]
        /\ i' = [i EXCEPT ![r] = @ + 1]
        /\ UNCHANGED <<up, offerVars, tblVars, orderSeq, balance, cart, total, seen,
                       orderId, result, dash>>
    BY DEF SaveOffer
  <1>b. HasItem(r) BY <1>a DEF ItemsChecked
  <1>c. p \in Products /\ n \in Int /\ p \in listed /\ n > 0 BY <1>a, <1>b, PassedItem
  <1> HIDE DEF p, n
  <1>d. Deducted(r, p) \in Int /\ Deducted(r, p) >= 0
    BY <1>c, NoOneAssumption DEF Deducted, DirtyAccounted, TypeOK
  <1>e. taken'[p] = n + Deducted(r, p) /\ dirty'[p] = seen[r] - n /\ holder'[p] = r
    BY <1>a, <1>c DEF Deducted, TypeOK
  <1>f. \A o \in Products : o # p =>
          taken'[o] = taken[o] /\ dirty'[o] = dirty[o] /\ holder'[o] = holder[o]
    BY <1>a, <1>c DEF TypeOK
  <1>g. \A q \in Requests : q # r => pc'[q] = pc[q] /\ i'[q] = i[q] /\ cart'[q] = cart[q]
    BY <1>a DEF TypeOK
  <1>h. pc'[r] = "read" BY <1>a DEF TypeOK
  <1>1. TypeOK'
    <2>1. seen[r] - n \in Int BY <1>c DEF TypeOK
    <2>2. dirty' \in [Products -> Int] BY <1>a, <1>c, <2>1 DEF TypeOK
    <2>3. n + (IF holder[p] = r THEN taken[p] ELSE 0) \in Int BY <1>c DEF TypeOK
    <2>4. taken' \in [Products -> Int] BY <1>a, <1>c, <2>3 DEF TypeOK
    <2>5. holder' \in [Products -> Requests \cup {NoOne}] BY <1>a DEF TypeOK
    <2>6. i' \in [Requests -> Nat \ {0}] BY <1>a DEF TypeOK
    <2>7. pc' \in [Requests -> {"idle", "check", "read", "save", "commit", "done"}]
      BY <1>a DEF TypeOK
    <2> QED BY <1>a, <2>2, <2>4, <2>5, <2>6, <2>7 DEF TypeOK
  <1>2. GoodsAccounted' BY <1>a DEF GoodsAccounted
  <1>3. ItemsChecked'
    <2>1. Passed(r, Len(cart[r]))' BY <1>a DEF ItemsChecked, Passed
    <2> QED BY <1>a, <1>g, <1>h, <2>1 DEF ItemsChecked, Passed, HasItem
  <1>4. LocksOwned'
    <2> SUFFICES ASSUME NEW o \in Products, holder'[o] # NoOne
                 PROVE  pc'[holder'[o]] \in {"read", "save", "commit"} /\ o \in listed'
      BY DEF LocksOwned
    <2>1. CASE o = p BY <2>1, <1>a, <1>c, <1>e, <1>h
    <2>2. CASE o # p /\ holder[o] = r BY <2>2, <1>a, <1>f, <1>h DEF LocksOwned
    <2>3. CASE o # p /\ holder[o] # r BY <2>3, <1>a, <1>f, <1>g DEF LocksOwned, TypeOK
    <2> QED BY <2>1, <2>2, <2>3
  <1>5. DirtyAccounted'
    <2>1. seen[r] + Deducted(r, p) + sold[p] >= seed[p] BY <1>a DEF SeenAccounted, p
    <2>2. seen[r] \in Int /\ sold[p] \in Int /\ seed[p] \in Int BY <1>c DEF TypeOK
    <2>3. taken'[p] >= 0 BY <1>c, <1>d, <1>e
    <2>4. dirty'[p] + taken'[p] + sold[p] >= seed[p] BY <1>c, <1>d, <1>e, <2>1, <2>2
    <2>5. sold' = sold /\ seed' = seed BY <1>a
    <2> QED BY <2>3, <2>4, <2>5, <1>f DEF DirtyAccounted
  <1>6. SeenAccounted'
    <2> SUFFICES ASSUME NEW q \in Requests, pc'[q] = "save"
                 PROVE  (LET o == Item(q).product
                         IN seen[q] + Deducted(q, o) + sold[o] >= seed[o])'
      BY DEF SeenAccounted
    <2>1. q # r /\ pc[q] = "save" BY <1>h, <1>g
    <2>2. Item(q).product \in Products BY <2>1, PassedItem DEF ItemsChecked
    <2>3. Item(q)' = Item(q) BY <2>1, <1>g DEF Item
    <2>4. Deducted(q, Item(q).product)' = Deducted(q, Item(q).product)
      BY <1>a, <1>e, <1>f, <2>1, <2>2, <2>3, NoOneAssumption DEF Deducted
    <2>5. UNCHANGED <<seen, sold, seed>> BY <1>a
    <2> QED BY <2>1, <2>3, <2>4, <2>5 DEF SeenAccounted
  <1>7. DownIsQuiet' BY <1>a DEF DownIsQuiet, InTx
  <1> QED BY <1>1, <1>2, <1>3, <1>4, <1>5, <1>6, <1>7

LEMMA ChargeMarketInv ==
    ASSUME GoodsInv, NEW r \in Requests, ChargeMarket(r)
    PROVE  GoodsInv'
  <1> USE DEF GoodsInv, ChargeMarket, vars, offerVars, lockVars, tblVars, locals
  <1>1. TypeOK' BY DEF TypeOK
  <1>2. GoodsAccounted' BY DEF GoodsAccounted
  <1>3. ItemsChecked' BY DEF ItemsChecked, Passed, HasItem
  <1>4. LocksOwned' BY DEF LocksOwned
  <1>5. DirtyAccounted' BY DEF DirtyAccounted
  <1>6. SeenAccounted' BY DEF SeenAccounted, Deducted, Item
  <1>7. DownIsQuiet' BY DEF DownIsQuiet, InTx
  <1> QED BY <1>1, <1>2, <1>3, <1>4, <1>5, <1>6, <1>7

\* Committing moves the deducted units of the rows r holds from dirty to sold.
LEMMA InstallAccounts ==
    ASSUME GoodsInv, NEW r \in Requests, Install(r)
    PROVE  /\ stock' \in [Products -> Int] /\ sold' \in [Products -> Int]
           /\ \A p \in Products : sold'[p] >= sold[p] /\ stock'[p] + sold'[p] >= seed[p]
           /\ \A p \in Products : holder[p] # r => sold'[p] = sold[p]
  <1> USE DEF GoodsInv, Install
  <1>1. stock' \in [Products -> Int] BY DEF TypeOK
  <1>2. \A p \in Products : sold[p] + (IF holder[p] = r THEN taken[p] ELSE 0) \in Int
    BY DEF TypeOK
  <1>3. sold' \in [Products -> Int] BY <1>2
  <1>4. ASSUME NEW p \in Products
        PROVE  /\ sold'[p] >= sold[p] /\ stock'[p] + sold'[p] >= seed[p]
               /\ holder[p] # r => sold'[p] = sold[p]
    <2>1. /\ sold[p] \in Int /\ stock[p] \in Int /\ taken[p] \in Int
          /\ dirty[p] \in Int /\ seed[p] \in Int
      BY DEF TypeOK
    <2>2. CASE holder[p] = r
      <3>1. sold'[p] = sold[p] + taken[p] /\ stock'[p] = dirty[p] BY <2>2
      <3>2. taken[p] >= 0 /\ dirty[p] + taken[p] + sold[p] >= seed[p]
        BY <2>2, NoOneAssumption DEF DirtyAccounted
      <3> QED BY <2>1, <2>2, <3>1, <3>2
    <2>3. CASE holder[p] # r
      <3>1. sold'[p] = sold[p] + 0 /\ stock'[p] = stock[p] BY <2>3
      <3>2. stock[p] + sold[p] >= seed[p] BY DEF GoodsAccounted
      <3> QED BY <2>1, <3>1, <3>2
    <2> QED BY <2>2, <2>3
  <1> QED BY <1>1, <1>3, <1>4

LEMMA CommitInv ==
    ASSUME GoodsInv, NEW r \in Requests, Commit(r)
    PROVE  GoodsInv'
  <1> USE DEF GoodsInv, vars, offerVars, lockVars, tblVars, locals
  <1>a. /\ pc[r] = "commit" /\ pc' = [pc EXCEPT ![r] = "done"]
        /\ holder' = [p \in Products |-> IF holder[p] = r THEN NoOne ELSE holder[p]]
        /\ UNCHANGED <<up, offerVars, dirty, taken, orderSeq, balance, locals>>
    BY DEF Commit, Release
  <1>b. /\ stock' \in [Products -> Int] /\ sold' \in [Products -> Int]
        /\ \A p \in Products : sold'[p] >= sold[p] /\ stock'[p] + sold'[p] >= seed[p]
        /\ \A p \in Products : holder[p] # r => sold'[p] = sold[p]
    <2>1. CASE Install(r) BY <2>1, InstallAccounts
    <2>2. CASE UNCHANGED tblVars BY <2>2 DEF TypeOK, GoodsAccounted
    <2> QED BY <2>1, <2>2 DEF Commit
  <1>1. TypeOK' BY <1>a, <1>b DEF TypeOK
  <1>2. GoodsAccounted' BY <1>a, <1>b DEF GoodsAccounted
  <1>3. ItemsChecked' BY <1>a DEF ItemsChecked, Passed, HasItem
  <1>4. LocksOwned' BY <1>a DEF LocksOwned
  <1>5. DirtyAccounted'
    <2> SUFFICES ASSUME NEW p \in Products, holder'[p] # NoOne
                 PROVE  taken[p] >= 0 /\ dirty[p] + taken[p] + sold'[p] >= seed[p]
      BY <1>a DEF DirtyAccounted
    <2>1. holder[p] # r /\ holder[p] # NoOne BY <1>a
    <2> QED BY <1>b, <2>1 DEF DirtyAccounted
  <1>6. SeenAccounted'
    <2> SUFFICES ASSUME NEW q \in Requests, pc'[q] = "save"
                 PROVE  (LET p == Item(q).product
                         IN seen[q] + Deducted(q, p) + sold[p] >= seed[p])'
      BY DEF SeenAccounted
    <2> DEFINE p == Item(q).product
    <2>1. q # r /\ pc[q] = "save" BY <1>a DEF TypeOK
    <2>2. p \in Products BY <2>1, PassedItem DEF ItemsChecked
    <2>3. Item(q)' = Item(q) BY <1>a DEF Item
    <2>4. Deducted(q, p)' = Deducted(q, p)
      BY <1>a, <2>1, <2>2, <2>3, NoOneAssumption DEF Deducted
    <2>5. Deducted(q, p) \in Int /\ seen[q] \in Int BY <2>2 DEF Deducted, TypeOK
    <2>6. sold'[p] >= sold[p] /\ sold'[p] \in Int /\ sold[p] \in Int /\ seed[p] \in Int
      BY <1>b, <2>2 DEF TypeOK
    <2>7. seen[q] + Deducted(q, p) + sold[p] >= seed[p] BY <2>1 DEF SeenAccounted
    <2>8. seen[q] + Deducted(q, p) + sold'[p] >= seed[p] BY <2>5, <2>6, <2>7
    <2> QED BY <1>a, <2>3, <2>4, <2>8
  <1>7. DownIsQuiet' BY <1>a DEF DownIsQuiet, InTx
  <1> QED BY <1>1, <1>2, <1>3, <1>4, <1>5, <1>6, <1>7

LEMMA AddOfferInv ==
    ASSUME GoodsInv,
           NEW id \in 0 .. MaxOffer, NEW q \in NewStock, NEW c \in NewPrice,
           AddOffer(id, q, c)
    PROVE  GoodsInv'
  <1> USE DEF GoodsInv, vars, offerVars, lockVars, tblVars, locals
  <1> DEFINE new == IF id = 0 THEN offerSeq + 1 ELSE id
  <1>a. new \in Products /\ q \in Int /\ c \in Int BY NewOfferAssumption DEF AddOffer
  <1>b. offerSeq' \in 0 .. MaxOffer
    BY <1>a, BoundAssumption DEF AddOffer, TypeOK, Products
  <1>c. UNCHANGED <<up, lockVars, orderSeq, balance, pc, locals>> BY DEF AddOffer
  <1>d. \/ UNCHANGED <<listed, stock, price, seed, sold>>
        \/ /\ new \notin listed
           /\ listed' = listed \cup {new}
           /\ stock' = [stock EXCEPT ![new] = q] /\ price' = [price EXCEPT ![new] = c]
           /\ seed' = [seed EXCEPT ![new] = q] /\ sold' = [sold EXCEPT ![new] = 0]
    BY DEF AddOffer
  <1> HIDE DEF new
  \* Rows that were listed keep their seed and their sold units.
  <1>e. /\ listed \subseteq listed'
        /\ \A p \in Products : p \in listed => seed'[p] = seed[p] /\ sold'[p] = sold[p]
    BY <1>a, <1>d DEF TypeOK
  <1>1. TypeOK'
    <2>1. CASE UNCHANGED <<listed, stock, price, seed, sold>> BY <2>1, <1>b, <1>c DEF TypeOK
    <2>2. CASE ~UNCHANGED <<listed, stock, price, seed, sold>>
      <3>0. /\ stock' = [stock EXCEPT ![new] = q] /\ price' = [price EXCEPT ![new] = c]
            /\ seed' = [seed EXCEPT ![new] = q] /\ sold' = [sold EXCEPT ![new] = 0]
        BY <2>2, <1>d
      <3>1. stock' \in [Products -> Int] /\ price' \in [Products -> Int]
        BY <3>0, <1>a DEF TypeOK
      <3>2. seed' \in [Products -> Int] /\ sold' \in [Products -> Int]
        BY <3>0, <1>a DEF TypeOK
      <3>3. listed' \subseteq Products BY <2>2, <1>a, <1>d DEF TypeOK
      <3> QED BY <1>b, <1>c, <3>1, <3>2, <3>3 DEF TypeOK
    <2> QED BY <2>1, <2>2
  <1>2. GoodsAccounted'
    <2> SUFFICES ASSUME NEW p \in Products PROVE stock'[p] + sold'[p] >= seed'[p]
      BY DEF GoodsAccounted
    <2>1. CASE UNCHANGED <<listed, stock, price, seed, sold>> BY <2>1 DEF GoodsAccounted
    <2>2. CASE ~UNCHANGED <<listed, stock, price, seed, sold>> /\ p = new
      <3>1. stock'[p] = q /\ sold'[p] = 0 /\ seed'[p] = q BY <2>2, <1>a, <1>d DEF TypeOK
      <3> QED BY <1>a, <3>1
    <2>3. CASE ~UNCHANGED <<listed, stock, price, seed, sold>> /\ p # new
      <3>1. stock'[p] = stock[p] /\ sold'[p] = sold[p] /\ seed'[p] = seed[p]
        BY <2>3, <1>a, <1>d DEF TypeOK
      <3> QED BY <3>1 DEF GoodsAccounted
    <2> QED BY <2>1, <2>2, <2>3
  <1>3. ItemsChecked' BY <1>c, <1>e DEF ItemsChecked, Passed, HasItem
  <1>4. LocksOwned' BY <1>c, <1>e DEF LocksOwned
  <1>5. DirtyAccounted' BY <1>c, <1>e DEF DirtyAccounted, LocksOwned
  <1>6. SeenAccounted'
    <2> SUFFICES ASSUME NEW r \in Requests, pc[r] = "save"
                 PROVE  (LET p == Item(r).product
                         IN seen[r] + Deducted(r, p) + sold[p] >= seed[p])'
      BY <1>c DEF SeenAccounted
    <2>1. Item(r).product \in Products /\ Item(r).product \in listed
      BY PassedItem DEF ItemsChecked
    <2>2. Item(r)' = Item(r) /\ Deducted(r, Item(r).product)' = Deducted(r, Item(r).product)
      BY <1>c DEF Item, Deducted
    <2> QED BY <1>c, <1>e, <2>1, <2>2 DEF SeenAccounted
  <1>7. DownIsQuiet' BY <1>c DEF DownIsQuiet, InTx
  <1> QED BY <1>1, <1>2, <1>3, <1>4, <1>5, <1>6, <1>7

LEMMA CrashInv ==
    ASSUME GoodsInv, Crash
    PROVE  GoodsInv'
  <1> USE DEF GoodsInv, Crash, vars, offerVars, lockVars, tblVars, locals
  <1>0. \A r \in Requests : pc'[r] \notin {"check", "read", "save", "commit"}
    BY DEF InTx, TypeOK
  <1>1. TypeOK' BY DEF TypeOK
  <1>2. GoodsAccounted' BY DEF GoodsAccounted
  <1>3. ItemsChecked' BY <1>0 DEF ItemsChecked
  <1>4. LocksOwned' BY DEF LocksOwned
  <1>5. DirtyAccounted' BY DEF DirtyAccounted
  <1>6. SeenAccounted' BY <1>0 DEF SeenAccounted
  <1>7. DownIsQuiet' BY <1>0 DEF DownIsQuiet, InTx
  <1> QED BY <1>1, <1>2, <1>3, <1>4, <1>5, <1>6, <1>7

\* A start, complete or not, leaves the first n offers as created and no transaction.
LEMMA BootInv ==
    ASSUME GoodsInv, Boot \/ BootFails
    PROVE  GoodsInv'
  <1> USE DEF GoodsInv, vars, offerVars, lockVars, tblVars, locals
  <1>a. PICK s \in Supplies, n \in 0 .. NumSeeds :
          /\ ~up /\ up' \in BOOLEAN /\ ResetDatabase
          /\ stock' = [p \in Products |-> IF p \in 1 .. n THEN s[p] ELSE 0]
          /\ seed' = stock' /\ listed' = 1 .. n /\ offerSeq' = n
          /\ price' = [p \in Products |-> IF p \in 1 .. n THEN SeedPrice[p] ELSE 0]
    <2>1. CASE Boot
      <3>1. NumSeeds \in 0 .. NumSeeds BY BoundAssumption
      <3> QED BY <2>1, <3>1 DEF Boot, Seeds
    <2>2. CASE BootFails BY <2>2 DEF BootFails, TypeOK
    <2> QED BY <2>1, <2>2
  <1>b. /\ orderSeq' = 0 /\ balance' = OpeningBalance
        /\ sold' = [p \in Products |-> 0]
        /\ UNCHANGED <<lockVars, pc, locals>>
    BY <1>a DEF ResetDatabase
  <1>c. 1 .. n \subseteq Seeds /\ 1 .. n \subseteq Products /\ n \in 0 .. MaxOffer
    BY BoundAssumption DEF Seeds, Products
  <1>d. \A r \in Requests : pc[r] \notin {"check", "read", "save", "commit"}
    BY <1>a DEF DownIsQuiet, InTx
  <1>e. \A p \in Products : holder[p] = NoOne
    BY <1>d DEF LocksOwned, TypeOK
  <1>1. TypeOK'
    <2>1. stock' \in [Products -> Int]
      BY <1>a, <1>c, SeedAssumption
    <2>2. price' \in [Products -> Int]
      BY <1>a, <1>c, SeedAssumption
    <2>3. sold' \in [Products -> Int] BY <1>b
    <2>4. OpeningBalance \in Int BY DEF OpeningBalance
    <2> QED BY <1>a, <1>b, <1>c, <2>1, <2>2, <2>3, <2>4 DEF TypeOK
  <1>2. GoodsAccounted' BY <1>a, <1>b, <1>1 DEF GoodsAccounted, TypeOK
  <1>3. ItemsChecked' BY <1>b, <1>d DEF ItemsChecked
  <1>4. LocksOwned' BY <1>b, <1>e DEF LocksOwned
  <1>5. DirtyAccounted' BY <1>b, <1>e DEF DirtyAccounted
  <1>6. SeenAccounted' BY <1>b, <1>d DEF SeenAccounted
  <1>7. DownIsQuiet' BY <1>b, <1>d DEF DownIsQuiet, InTx
  <1> QED BY <1>1, <1>2, <1>3, <1>4, <1>5, <1>6, <1>7

\* Steps that touch none of the variables of GoodsInv.
LEMMA StutterInv ==
    ASSUME GoodsInv,
           UNCHANGED <<up, offerVars, lockVars, stock, sold, orderSeq, balance, pc, locals>>
    PROVE  GoodsInv'
  <1> USE DEF GoodsInv, offerVars, lockVars, locals
  <1>1. TypeOK' BY DEF TypeOK
  <1>2. GoodsAccounted' BY DEF GoodsAccounted
  <1>3. ItemsChecked' BY DEF ItemsChecked, Passed, HasItem
  <1>4. LocksOwned' BY DEF LocksOwned
  <1>5. DirtyAccounted' BY DEF DirtyAccounted
  <1>6. SeenAccounted' BY DEF SeenAccounted, Deducted, Item
  <1>7. DownIsQuiet' BY DEF DownIsQuiet, InTx
  <1> QED BY <1>1, <1>2, <1>3, <1>4, <1>5, <1>6, <1>7

LEMMA NextInv == GoodsInv /\ [Next]_vars => GoodsInv'
  <1> SUFFICES ASSUME GoodsInv, [Next]_vars PROVE GoodsInv' OBVIOUS
  <1>1. ASSUME NEW r \in Requests, Begin(r) PROVE GoodsInv' BY <1>1, BeginInv
  <1>2. ASSUME NEW r \in Requests, Step(r) PROVE GoodsInv'
    <2>1. CASE RefuseItem(r) BY <2>1, RollbackInv DEF RefuseItem
    <2> QED BY <1>2, <2>1, CheckItemInv, CreateRowInv, ReadOfferInv, SaveOfferInv,
               ChargeMarketInv, CommitInv DEF Step
  <1>3. ASSUME NEW r \in Requests, DBError(r) \/ DeadlockAbort(r) PROVE GoodsInv'
    BY <1>3, RollbackInv DEF DBError, DeadlockAbort
  <1>4. CASE Admin
    <2>1. ASSUME NEW id \in 1 .. orderSeq, NEW s \in Statuses, UpdateOrderStatus(id, s)
          PROVE GoodsInv'
      BY <2>1, StutterInv DEF UpdateOrderStatus
    <2>2. CASE Dashboard
      BY <2>2, StutterInv DEF Dashboard, DashOffers, DashOrders, DashBalance, tblVars
    <2> QED BY <1>4, <2>1, <2>2, AddOfferInv DEF Admin
  <1>5. CASE UNCHANGED vars BY <1>5, StutterInv DEF vars, tblVars
  <1> QED BY <1>1, <1>2, <1>3, <1>4, <1>5, CrashInv, BootInv DEF Next

\* Whatever checkouts, failures, administrators and restarts interleave, the stock
\* left of an offer and the units in committed orders together are at least what
\* was put on sale (and the locals of CreateOrder stay consistent with it).
THEOREM StockNeverVanishes == Spec => []GoodsInv
  <1> QED BY InitInv, NextInv, PTL DEF Spec

\* The same with its strengthening dropped.
THEOREM GoodsStayAccounted == Spec => []GoodsAccounted
  <1>1. GoodsInv => GoodsAccounted BY DEF GoodsInv
  <1> QED BY <1>1, StockNeverVanishes, PTL

----------------------------------------------------------------------------
(* Units, costs, and sums over orders *)

LEMMA UnitsZero == \A c, p : UnitsUpTo(c, p, 0) = 0
  <1>1. 1 .. 0 = {} OBVIOUS
  <1> QED BY <1>1, SumEmpty DEF UnitsUpTo

LEMMA UnitsType ==
    ASSUME NEW c \in Seq(Items), NEW p, NEW n \in 0 .. Len(c)
    PROVE  UnitsUpTo(c, p, n) \in Int
  <1> DEFINE f == [j \in DOMAIN c |-> IF c[j].product = p THEN c[j].quantity ELSE 0]
  <1>1. ASSUME NEW j \in 1 .. n PROVE f[j] \in Int
    <2>1. c[j] \in Items /\ j \in DOMAIN c OBVIOUS
    <2> QED BY <2>1 DEF Items
  <1> HIDE DEF f
  <1>2. IsFiniteSet(1 .. n) BY FS_Interval
  <1>3. SumOf(f, 1 .. n) \in Int BY <1>1, <1>2, SumType
  <1> QED BY <1>3 DEF UnitsUpTo, f

LEMMA UnitsNext ==
    ASSUME NEW c \in Seq(Items), NEW p, NEW n \in 1 .. Len(c)
    PROVE  UnitsUpTo(c, p, n) =
             UnitsUpTo(c, p, n - 1) + (IF c[n].product = p THEN c[n].quantity ELSE 0)
  <1> DEFINE f == [j \in DOMAIN c |-> IF c[j].product = p THEN c[j].quantity ELSE 0]
             m == n - 1
  <1>1. ASSUME NEW j \in 1 .. m + 1 PROVE f[j] \in Int
    <2>1. c[j] \in Items /\ j \in DOMAIN c OBVIOUS
    <2> QED BY <2>1 DEF Items
  <1>2. m \in Nat /\ m + 1 = n OBVIOUS
  <1>3. f[n] = IF c[n].product = p THEN c[n].quantity ELSE 0 OBVIOUS
  <1> HIDE DEF f, m
  <1>4. SumOf(f, 1 .. m + 1) = SumOf(f, 1 .. m) + f[m + 1] BY <1>1, <1>2, SumNext
  <1> QED BY <1>2, <1>3, <1>4 DEF UnitsUpTo, f, m

LEMMA CostZero == \A list, c : Cost(list, c, 0) = 0
  <1>1. 1 .. 0 = {} OBVIOUS
  <1> QED BY <1>1, SumEmpty DEF Cost

LEMMA CostNext ==
    ASSUME NEW list \in [Products -> Int], NEW c \in Seq(Items), NEW n \in 1 .. Len(c)
    PROVE  Cost(list, c, n) = Cost(list, c, n - 1) + list[c[n].product] * c[n].quantity
  <1> DEFINE f == [j \in DOMAIN c |-> list[c[j].product] * c[j].quantity]
             m == n - 1
  <1>1. ASSUME NEW j \in 1 .. m + 1 PROVE f[j] \in Int
    <2>1. c[j] \in Items /\ j \in DOMAIN c OBVIOUS
    <2>2. list[c[j].product] \in Int /\ c[j].quantity \in Int BY <2>1 DEF Items
    <2> QED BY <2>1, <2>2
  <1>2. m \in Nat /\ m + 1 = n OBVIOUS
  <1>3. f[n] = list[c[n].product] * c[n].quantity OBVIOUS
  <1> HIDE DEF f, m
  <1>4. SumOf(f, 1 .. m + 1) = SumOf(f, 1 .. m) + f[m + 1] BY <1>1, <1>2, SumNext
  <1> QED BY <1>2, <1>3, <1>4 DEF Cost, f, m

\* The cost looks only at the prices of the items.
LEMMA CostSame ==
    ASSUME NEW list, NEW new, NEW c \in Seq(Items), NEW n \in 0 .. Len(c),
           \A j \in 1 .. n : new[c[j].product] = list[c[j].product]
    PROVE  Cost(new, c, n) = Cost(list, c, n)
  <1> DEFINE f == [j \in DOMAIN c |-> list[c[j].product] * c[j].quantity]
             g == [j \in DOMAIN c |-> new[c[j].product] * c[j].quantity]
  <1>1. \A j \in 1 .. n : f[j] = g[j] OBVIOUS
  <1>2. IsFiniteSet(1 .. n) BY FS_Interval
  <1> HIDE DEF f, g
  <1>3. SumOf(f, 1 .. n) = SumOf(g, 1 .. n) BY <1>1, <1>2, SumSame
  <1> QED BY <1>3 DEF Cost, f, g

LEMMA CostNonNegative ==
    ASSUME NEW list \in [Products -> Int], NEW c \in Seq(Items), NEW n \in 0 .. Len(c),
           \A j \in 1 .. n : list[c[j].product] >= 0 /\ c[j].quantity > 0
    PROVE  Cost(list, c, n) >= 0
  <1> DEFINE f == [j \in DOMAIN c |-> list[c[j].product] * c[j].quantity]
  <1>1. ASSUME NEW j \in 1 .. n PROVE f[j] \in Int /\ f[j] >= 0
    <2>1. c[j] \in Items /\ j \in DOMAIN c OBVIOUS
    <2>2. list[c[j].product] \in Int /\ c[j].quantity \in Int BY <2>1 DEF Items
    <2>3. \A a, b \in Int : a >= 0 /\ b > 0 => a * b \in Int /\ a * b >= 0 OBVIOUS
    <2> HIDE DEF f
    <2>4. list[c[j].product] * c[j].quantity \in Int /\ list[c[j].product] * c[j].quantity >= 0
      BY <2>2, <2>3
    <2> QED BY <2>1, <2>4 DEF f
  <1>2. IsFiniteSet(1 .. n) BY FS_Interval
  <1> HIDE DEF f
  <1>3. SumOf(f, 1 .. n) >= 0 BY <1>1, <1>2, SumNonNegative
  <1> QED BY <1>3 DEF Cost, f

\* A set of orders with carts and totals.
Rows(os) == IsFiniteSet(os) /\ \A o \in os : o.items \in Seq(Items) /\ o.total \in Int

LEMMA SumsOfRows ==
    ASSUME NEW os, Rows(os), NEW p
    PROVE  Ordered(os, p) \in Int /\ Revenue(os) \in Int
  <1> DEFINE u == [o \in os |-> UnitsIn(o.items, p)]
             t == [o \in os |-> o.total]
  <1>1. ASSUME NEW o \in os PROVE u[o] \in Int
    <2>1. Len(o.items) \in 0 .. Len(o.items) BY DEF Rows
    <2> QED BY <2>1, UnitsType DEF UnitsIn, Rows
  <1>2. \A o \in os : t[o] \in Int BY DEF Rows
  <1> HIDE DEF u, t
  <1>3. SumOf(u, os) \in Int /\ SumOf(t, os) \in Int BY <1>1, <1>2, SumType DEF Rows
  <1> QED BY <1>3 DEF Ordered, Revenue, u, t

LEMMA SumsOfNone == \A p : Ordered({}, p) = 0 /\ Revenue({}) = 0
  <1> QED BY SumEmpty DEF Ordered, Revenue

LEMMA SumsAddRow ==
    ASSUME NEW os, NEW n, Rows(os), Rows({n}), n \notin os, NEW p
    PROVE  /\ Rows(os \cup {n})
           /\ Ordered(os \cup {n}, p) = Ordered(os, p) + UnitsIn(n.items, p)
           /\ Revenue(os \cup {n}) = Revenue(os) + n.total
  <1> DEFINE all == os \cup {n}
             u(s) == [o \in s |-> UnitsIn(o.items, p)]
             t(s) == [o \in s |-> o.total]
  <1>0. Rows(all) BY FS_AddElement DEF Rows
  <1>1. ASSUME NEW o \in all PROVE u(all)[o] \in Int
    <2>1. o.items \in Seq(Items) BY <1>0 DEF Rows
    <2>2. Len(o.items) \in 0 .. Len(o.items) BY <2>1
    <2> QED BY <2>1, <2>2, UnitsType DEF UnitsIn
  <1>2. \A o \in all : t(all)[o] \in Int BY <1>0 DEF Rows
  <1>3. /\ u(all)[n] = UnitsIn(n.items, p) /\ t(all)[n] = n.total
        /\ \A o \in os : u(all)[o] = u(os)[o] /\ t(all)[o] = t(os)[o]
    OBVIOUS
  <1>4. IsFiniteSet(os) /\ n \in all /\ os \subseteq all BY DEF Rows
  <1> HIDE DEF u, t
  <1>5. SumOf(u(all), os \cup {n}) = SumOf(u(all), os) + u(all)[n] BY <1>1, <1>4, SumAdd
  <1>6. SumOf(t(all), os \cup {n}) = SumOf(t(all), os) + t(all)[n] BY <1>2, <1>4, SumAdd
  <1>7. SumOf(u(all), os) = SumOf(u(os), os) /\ SumOf(t(all), os) = SumOf(t(os), os)
    BY <1>3, <1>4, SumSame
  <1>8. /\ Ordered(all, p) = SumOf(u(all), all) /\ Ordered(os, p) = SumOf(u(os), os)
        /\ Revenue(all) = SumOf(t(all), all) /\ Revenue(os) = SumOf(t(os), os)
    BY DEF Ordered, Revenue, u, t
  <1> QED BY <1>0, <1>3, <1>5, <1>6, <1>7, <1>8

\* UpdateOrderStatus writes the status of one row; its sums stay.
Restated(o, id, s)     == IF o.id = id THEN [o EXCEPT !.status = s] ELSE o
AllRestated(os, id, s) == {Restated(o, id, s) : o \in os}

LEMMA RestatedRow ==
    ASSUME NEW o, NEW ids, NEW st, o \in [id : ids, status : st, total : Int, items : Seq(Items)],
           NEW id, NEW s
    PROVE  /\ Restated(o, id, s).id = o.id /\ Restated(o, id, s).items = o.items
           /\ Restated(o, id, s).total = o.total
           /\ s \in st => Restated(o, id, s) \in [id : ids, status : st, total : Int,
                                                  items : Seq(Items)]
  <1> QED BY DEF Restated

LEMMA SumsRestated ==
    ASSUME NEW os, IsFiniteSet(os), NEW ids, NEW st,
           os \subseteq [id : ids, status : st, total : Int, items : Seq(Items)],
           \A o, u \in os : o.id = u.id => o = u,
           NEW id, NEW s, NEW p
    PROVE  /\ IsFiniteSet(AllRestated(os, id, s))
           /\ Ordered(AllRestated(os, id, s), p) = Ordered(os, p)
           /\ Revenue(AllRestated(os, id, s)) = Revenue(os)
  <1> DEFINE h   == [o \in os |-> Restated(o, id, s)]
             new == {Restated(o, id, s) : o \in os}
             u   == [o \in new |-> UnitsIn(o.items, p)]
             v   == [o \in os |-> UnitsIn(o.items, p)]
             t   == [o \in new |-> o.total]
             w   == [o \in os |-> o.total]
  <1>1. ASSUME NEW o \in os
        PROVE  /\ h[o] \in new /\ h[o].id = o.id
               /\ v[o] = u[h[o]] /\ v[o] \in Int
               /\ w[o] = t[h[o]] /\ w[o] \in Int
    <2>1. o.items \in Seq(Items) /\ o.total \in Int OBVIOUS
    <2>2. UnitsIn(o.items, p) \in Int
      <3>1. Len(o.items) \in 0 .. Len(o.items) BY <2>1
      <3> QED BY <2>1, <3>1, UnitsType DEF UnitsIn
    <2>3. h[o] = Restated(o, id, s) /\ h[o] \in new OBVIOUS
    <2> HIDE DEF h, new
    <2>4. h[o].id = o.id /\ h[o].items = o.items /\ h[o].total = o.total
      BY <2>3, RestatedRow
    <2> QED BY <2>1, <2>2, <2>3, <2>4
  <1>2. \A y \in new : \E o \in os : y = h[o] OBVIOUS
  <1> HIDE DEF h, u, v, t, w, new
  <1>3. h \in Bijection(os, new)
    <2>1. \A x, y \in os : h[x] = h[y] => x = y BY <1>1
    <2>2. h \in [os -> new] BY <1>1 DEF h
    <2> QED BY <1>2, <2>1, <2>2 DEF Bijection, Injection, Surjection, IsInjective
  <1>4. IsFiniteSet(new) /\ SumOf(u, new) = SumOf(v, os) BY <1>1, <1>3, SumImage
  <1>5. SumOf(t, new) = SumOf(w, os) BY <1>1, <1>3, SumImage
  <1> QED BY <1>4, <1>5 DEF Ordered, Revenue, AllRestated, u, v, t, w, new

----------------------------------------------------------------------------
(* The books: BooksInv *)

LEMMA BooksInit == Init => BooksInv
  <1> SUFFICES ASSUME Init PROVE BooksInv OBVIOUS
  <1> USE DEF Init
  <1>1. Answers
    <2>1. Begun = {} BY DEF Begun
    <2> QED BY <2>1, FS_EmptySet DEF Answers, Past
  <1>2. OrderRows BY FS_EmptySet DEF OrderRows
  <1>3. OrderIds BY DEF OrderIds, Current
  <1>4. Loops BY DEF Loops, LoopsOf, Past
  <1>5. OkHasRow BY DEF OkHasRow
  <1>6. SoldIsOrdered BY SumsOfNone DEF SoldIsOrdered
  <1>7. BalanceBooked BY DEF BalanceBooked
  <1> QED BY <1>1, <1>2, <1>3, <1>4, <1>5, <1>6, <1>7 DEF BooksInv

LEMMA OrdersAreRows == OrderRows => Rows(orders)
  <1> QED BY DEF OrderRows, Rows

\* Requests that have charged and not committed have begun.
LEMMA ChargedFinite ==
    ASSUME TypeOK, Answers
    PROVE  ChargedOnly \subseteq Begun /\ IsFiniteSet(ChargedOnly)
  <1>1. ChargedOnly \subseteq Begun BY DEF ChargedOnly, Begun, Answers
  <1> QED BY <1>1, FS_Subset DEF Answers

LEMMA RowsKept ==
    ASSUME OrderRows, orders' = orders, orderSeq \in Nat, orderSeq' \in Nat,
           orderSeq <= orderSeq', listed \subseteq listed'
    PROVE  OrderRows'
  <1>1. 1 .. orderSeq \subseteq 1 .. orderSeq' OBVIOUS
  <1> QED BY <1>1 DEF OrderRows

\* No id is handed out and no row appears.
LEMMA IdsKept ==
    ASSUME OrderIds, orderSeq' = orderSeq, orderId' = orderId,
           \A o \in orders' : \E u \in orders : o.id = u.id,
           \A q \in Requests : Current(q)' => Current(q),
           \A q \in Requests : Current(q)' /\ (Past(q)' \/ result'[q] = "error") =>
             Past(q) \/ result[q] = "error"
    PROVE  OrderIds'
  <1>1. \A r \in Requests : Current(r)' => orderId'[r] \in 1 .. orderSeq' BY DEF OrderIds
  <1>2. \A r, q \in Requests : Current(r)' /\ Current(q)' /\ orderId'[r] = orderId'[q] => r = q
    BY DEF OrderIds
  <1>3. \A r \in Requests : Current(r)' /\ (Past(r)' \/ result'[r] = "error") =>
          \A o \in orders' : o.id # orderId'[r]
    BY DEF OrderIds
  <1> QED BY <1>1, <1>2, <1>3 DEF OrderIds

\* A request that does not move, while listed offers keep their prices.
LEMMA LoopKept ==
    ASSUME GoodsInv, Loops, NEW q \in Requests,
           pc'[q] = pc[q], i'[q] = i[q], cart'[q] = cart[q], total'[q] = total[q],
           result'[q] \in {"ok", "unknown"} => result'[q] = result[q],
           listed \subseteq listed', \A p \in listed : price'[p] = price[p],
           Past(q) => \A p \in Products : Deducted(q, p)' = Deducted(q, p)
    PROVE  LoopsOf(q)'
  <1> USE DEF GoodsInv
  <1>1. cart[q] \in Seq(Items) /\ i[q] \in Nat \ {0} /\ Len(cart[q]) \in Nat BY DEF TypeOK
  <1>2. LoopsOf(q) /\ (Past(q)' <=> Past(q)) BY DEF Loops, Past
  <1>3. ASSUME NEW n \in 0 .. Len(cart[q]), Passed(q, n)
        PROVE  Passed(q, n)' /\ Cost(price', cart[q], n) = Cost(price, cart[q], n)
    <2>1. \A j \in 1 .. n : price'[cart[q][j].product] = price[cart[q][j].product]
      BY <1>3 DEF Passed
    <2>2. Cost(price', cart[q], n) = Cost(price, cart[q], n) BY <1>1, <2>1, CostSame
    <2> QED BY <2>2, <1>3 DEF Passed
  <1>4. Past(q)' => i'[q] <= Len(cart'[q]) + 1 /\ (pc'[q] = "commit" => ~HasItem(q)')
    BY <1>2 DEF LoopsOf, HasItem
  <1>5. pc'[q] = "check" => total'[q] = Cost(price', cart'[q], i'[q] - 1)
    <2> SUFFICES ASSUME pc[q] = "check" PROVE total[q] = Cost(price', cart[q], i[q] - 1)
      OBVIOUS
    <2>1. i[q] - 1 \in 0 .. Len(cart[q]) /\ Passed(q, i[q] - 1) BY <1>1 DEF ItemsChecked
    <2> QED BY <2>1, <1>2, <1>3 DEF LoopsOf
  <1>6. Past(q)' \/ result'[q] \in {"ok", "unknown"} =>
          Passed(q, Len(cart[q]))' /\ total'[q] = Cost(price', cart'[q], Len(cart'[q]))
    <2> SUFFICES ASSUME Past(q) \/ result[q] \in {"ok", "unknown"}
                 PROVE  /\ Passed(q, Len(cart[q]))'
                        /\ total[q] = Cost(price', cart[q], Len(cart[q]))
      BY <1>2
    <2>1. Len(cart[q]) \in 0 .. Len(cart[q]) BY <1>1
    <2>2. Passed(q, Len(cart[q])) /\ total[q] = Cost(price, cart[q], Len(cart[q]))
      BY <1>2 DEF LoopsOf
    <2>3. Passed(q, Len(cart[q]))' BY <2>2 DEF Passed
    <2> QED BY <2>1, <2>2, <2>3, <1>3
  <1>7. Past(q)' => \A p \in Products : Deducted(q, p)' = UnitsUpTo(cart'[q], p, i'[q] - 1)
    BY <1>2 DEF LoopsOf
  <1> QED BY <1>4, <1>5, <1>6, <1>7 DEF LoopsOf

\* No order, no charge, and no request joins or leaves those that are charged only.
LEMMA BalanceKept ==
    ASSUME TypeOK, Answers, BalanceBooked, up' => up, balance' = balance,
           Revenue(orders') = Revenue(orders), ChargedOnly' = ChargedOnly,
           \A q \in ChargedOnly : total'[q] = total[q]
    PROVE  BalanceBooked'
  <1>1. IsFiniteSet(ChargedOnly) BY ChargedFinite
  <1>2. SumOf(total', ChargedOnly) = SumOf(total, ChargedOnly) BY <1>1, SumSame
  <1> QED BY <1>2 DEF BalanceBooked

LEMMA BeginBooks ==
    ASSUME GoodsInv, BooksInv, NEW r \in Requests, Begin(r)
    PROVE  BooksInv'
  <1> USE DEF GoodsInv, BooksInv
  <1>a. /\ pc[r] = "idle" /\ i' = [i EXCEPT ![r] = 1] /\ total' = [total EXCEPT ![r] = 0]
        /\ \/ pc' = [pc EXCEPT ![r] = "check"] /\ UNCHANGED result
           \/ pc' = [pc EXCEPT ![r] = "done"] /\ result' = [result EXCEPT ![r] = "error"]
        /\ \E c \in Carts : cart' = [cart EXCEPT ![r] = c]
        /\ UNCHANGED <<up, listed, price, seed, holder, taken, stock, orders, sold, orderSeq,
                       balance, orderId>>
    BY DEF Begin, offerVars, lockVars, tblVars
  <1>b. \A q \in Requests : q # r =>
          pc'[q] = pc[q] /\ i'[q] = i[q] /\ cart'[q] = cart[q] /\ total'[q] = total[q]
          /\ result'[q] = result[q]
    BY <1>a DEF TypeOK, Answers
  <1>c. /\ result[r] = "none" /\ orderId[r] = 0 /\ cart'[r] \in Seq(Items)
        /\ i'[r] = 1 /\ total'[r] = 0
        /\ \/ pc'[r] = "check" /\ result'[r] = "none"
           \/ pc'[r] = "done" /\ result'[r] = "error"
    BY <1>a, CartAssumption DEF TypeOK, Answers
  <1>1. Answers'
    <2>1. Begun' = Begun \cup {r} BY <1>b, <1>c DEF Begun
    <2>2. IsFiniteSet(Begun') BY <2>1, FS_AddElement DEF Answers
    <2>3. result' \in [Requests -> {"none", "ok", "error", "unknown", "killed", "wiped"}]
      BY <1>a DEF Answers
    <2> QED BY <2>2, <2>3, <1>a, <1>b, <1>c DEF Answers, Past
  <1>2. OrderRows' BY <1>a, RowsKept DEF TypeOK
  <1>3. OrderIds' BY <1>a, <1>b, <1>c, IdsKept DEF Current, Past
  <1>4. Loops'
    <2>1. ASSUME NEW q \in Requests, q # r PROVE LoopsOf(q)'
      BY <2>1, <1>a, <1>b, LoopKept DEF Deducted
    <2>2. LoopsOf(r)' BY <1>a, <1>c, CostZero DEF LoopsOf, Past
    <2> QED BY <2>1, <2>2 DEF Loops
  <1>5. OkHasRow' BY <1>a, <1>b, <1>c DEF OkHasRow
  <1>6. SoldIsOrdered' BY <1>a DEF SoldIsOrdered
  <1>7. BalanceBooked'
    <2>1. ChargedOnly' = ChargedOnly BY <1>a, <1>b, <1>c DEF ChargedOnly
    <2>2. r \notin ChargedOnly BY <1>a, <1>c DEF ChargedOnly
    <2>3. \A q \in ChargedOnly : total'[q] = total[q] BY <2>2, <1>b DEF ChargedOnly
    <2> QED BY <2>1, <2>3, <1>a, BalanceKept
  <1> QED BY <1>1, <1>2, <1>3, <1>4, <1>5, <1>6, <1>7

LEMMA CheckItemBooks ==
    ASSUME GoodsInv, BooksInv, NEW r \in Requests, CheckItem(r)
    PROVE  BooksInv'
  <1> USE DEF GoodsInv, BooksInv
  <1>a. /\ pc[r] = "check" /\ HasItem(r) /\ i' = [i EXCEPT ![r] = @ + 1]
        /\ total' = [total EXCEPT ![r] = @ + price[Item(r).product] * Item(r).quantity]
        /\ UNCHANGED <<up, listed, price, seed, holder, taken, stock, orders, sold, orderSeq,
                       balance, orderId, pc, cart, result>>
    BY DEF CheckItem, offerVars, lockVars, tblVars
  <1>b. \A q \in Requests : q # r => i'[q] = i[q] /\ total'[q] = total[q] BY <1>a DEF TypeOK
  <1>1. Answers' BY <1>a DEF Answers, Begun, Past
  <1>2. OrderRows' BY <1>a, RowsKept DEF TypeOK
  <1>3. OrderIds' BY <1>a, IdsKept DEF Current, Past
  <1>4. Loops'
    <2>1. ASSUME NEW q \in Requests, q # r PROVE LoopsOf(q)'
      BY <2>1, <1>a, <1>b, LoopKept DEF Deducted
    <2>2. LoopsOf(r)'
      <3>0. TypeOK /\ cart[r] \in Seq(Items) /\ price \in [Products -> Int] BY DEF TypeOK
      <3>1. i[r] \in 1 .. Len(cart[r]) /\ Item(r) = cart[r][i[r]] BY <1>a, <3>0, ItemType
      <3>2. Cost(price, cart[r], i[r]) =
              Cost(price, cart[r], i[r] - 1) + price[Item(r).product] * Item(r).quantity
        BY <3>0, <3>1, CostNext
      <3>3. total[r] = Cost(price, cart[r], i[r] - 1) BY <1>a DEF Loops, LoopsOf
      <3>4. i'[r] - 1 = i[r] /\
            total'[r] = total[r] + price[Item(r).product] * Item(r).quantity
        BY <1>a, <3>1 DEF TypeOK
      <3>5. result[r] = "none" /\ pc'[r] = "check" BY <1>a DEF Answers
      <3> QED BY <3>2, <3>3, <3>4, <3>5, <1>a DEF LoopsOf, Past
    <2> QED BY <2>1, <2>2 DEF Loops
  <1>5. OkHasRow'
    <2>1. result[r] = "none" BY <1>a DEF Answers
    <2> QED BY <2>1, <1>a, <1>b DEF OkHasRow
  <1>6. SoldIsOrdered' BY <1>a DEF SoldIsOrdered
  <1>7. BalanceBooked'
    <2>1. ChargedOnly' = ChargedOnly BY <1>a DEF ChargedOnly
    <2>2. result[r] = "none" BY <1>a DEF Answers
    <2>3. \A q \in ChargedOnly : total'[q] = total[q] BY <2>2, <1>a, <1>b DEF ChargedOnly
    <2> QED BY <2>1, <2>3, <1>a, BalanceKept
  <1> QED BY <1>1, <1>2, <1>3, <1>4, <1>5, <1>6, <1>7

LEMMA RollbackBooks ==
    ASSUME GoodsInv, BooksInv, NEW r \in Requests, Rollback(r), pc[r] \in {"check", "read", "save"}
    PROVE  BooksInv'
  <1> USE DEF GoodsInv, BooksInv
  <1>a. /\ pc' = [pc EXCEPT ![r] = "done"] /\ result' = [result EXCEPT ![r] = "error"]
        /\ holder' = [p \in Products |-> IF holder[p] = r THEN NoOne ELSE holder[p]]
        /\ UNCHANGED <<up, listed, price, seed, taken, stock, orders, sold, orderSeq, balance,
                       orderId, cart, i, total>>
    BY DEF Rollback, Release, offerVars, tblVars, locals
  <1>b. \A q \in Requests : q # r => pc'[q] = pc[q] /\ result'[q] = result[q]
    BY <1>a DEF TypeOK, Answers
  <1>c. pc'[r] = "done" /\ result'[r] = "error" /\ result[r] = "none" /\ r \in Begun
    BY <1>a DEF TypeOK, Answers, Begun
  <1>d. \A q \in Requests : q # r => \A p \in Products : Deducted(q, p)' = Deducted(q, p)
    BY <1>a, NoOneAssumption DEF Deducted, TypeOK
  <1>1. Answers'
    <2>1. Begun' = Begun BY <1>b, <1>c DEF Begun
    <2>2. result' \in [Requests -> {"none", "ok", "error", "unknown", "killed", "wiped"}]
      BY <1>a DEF Answers
    <2> QED BY <2>1, <2>2, <1>a, <1>b, <1>c DEF Answers, Past
  <1>2. OrderRows' BY <1>a, RowsKept DEF TypeOK
  <1>3. OrderIds'
    <2>1. orderId[r] # 0 => Past(r) BY DEF Past, Answers
    <2> QED BY <2>1, <1>a, <1>b, <1>c, IdsKept DEF Current, Past
  <1>4. Loops'
    <2>1. ASSUME NEW q \in Requests, q # r PROVE LoopsOf(q)'
      BY <2>1, <1>a, <1>b, <1>d, LoopKept
    <2>2. LoopsOf(r)' BY <1>c DEF LoopsOf, Past
    <2> QED BY <2>1, <2>2 DEF Loops
  <1>5. OkHasRow' BY <1>a, <1>b, <1>c DEF OkHasRow
  <1>6. SoldIsOrdered' BY <1>a DEF SoldIsOrdered
  <1>7. BalanceBooked'
    <2>1. ChargedOnly' = ChargedOnly BY <1>a, <1>b, <1>c DEF ChargedOnly
    <2> QED BY <2>1, <1>a, BalanceKept
  <1> QED BY <1>1, <1>2, <1>3, <1>4, <1>5, <1>6, <1>7

LEMMA CreateRowBooks ==
    ASSUME GoodsInv, BooksInv, NEW r \in Requests, CreateRow(r)
    PROVE  BooksInv'
  <1> USE DEF GoodsInv, BooksInv
  <1>a. /\ pc[r] = "check" /\ ~HasItem(r)
        /\ orderSeq' = orderSeq + 1 /\ orderId' = [orderId EXCEPT ![r] = orderSeq + 1]
        /\ pc' = [pc EXCEPT ![r] = "read"] /\ i' = [i EXCEPT ![r] = 1]
        /\ UNCHANGED <<up, listed, price, seed, holder, taken, stock, orders, sold, balance,
                       cart, total, result>>
    BY DEF CreateRow, offerVars, lockVars, tblVars
  <1>b. \A q \in Requests : q # r => pc'[q] = pc[q] /\ i'[q] = i[q] /\ orderId'[q] = orderId[q]
    BY <1>a DEF TypeOK
  <1>c. /\ pc'[r] = "read" /\ i'[r] = 1 /\ orderId'[r] = orderSeq + 1 /\ orderSeq \in Nat
        /\ result[r] = "none" /\ r \in Begun /\ ~Current(r)
    BY <1>a DEF TypeOK, Answers, Begun, Current
  <1>1. Answers'
    <2>1. Begun' = Begun BY <1>b, <1>c DEF Begun
    <2>2. orderId'[r] # 0 BY <1>c
    <2> QED BY <2>1, <2>2, <1>a, <1>b, <1>c DEF Answers, Past
  <1>2. OrderRows' BY <1>a, <1>c, RowsKept
  <1>3. OrderIds'
    <2>1. \A q \in Requests : Current(q)' => q = r \/ Current(q)
      BY <1>a, <1>b DEF Current, Past
    <2>2. \A q \in Requests : q # r /\ Current(q) => orderId'[q] \in 1 .. orderSeq
      BY <1>b DEF OrderIds
    <2>3. \A o \in orders : o.id \in 1 .. orderSeq BY DEF OrderRows
    <2>4. \A q \in Requests : Current(q)' => orderId'[q] \in 1 .. orderSeq'
      BY <2>1, <2>2, <1>a, <1>c
    <2>5. \A q, t \in Requests : Current(q)' /\ Current(t)' /\ orderId'[q] = orderId'[t] => q = t
      BY <2>1, <2>2, <1>b, <1>c DEF OrderIds
    <2>6. \A q \in Requests : Current(q)' /\ (Past(q)' \/ result'[q] = "error") =>
            \A o \in orders' : o.id # orderId'[q]
      <3> SUFFICES ASSUME NEW q \in Requests, Current(q)', Past(q)' \/ result'[q] = "error",
                          NEW o \in orders
                   PROVE  o.id # orderId'[q]
        BY <1>a
      <3>1. CASE q = r BY <3>1, <2>3, <1>c
      <3>2. CASE q # r BY <3>2, <2>1, <1>a, <1>b DEF OrderIds, Past
      <3> QED BY <3>1, <3>2
    <2> QED BY <2>4, <2>5, <2>6 DEF OrderIds
  <1>4. Loops'
    <2>1. ASSUME NEW q \in Requests, q # r PROVE LoopsOf(q)'
      BY <2>1, <1>a, <1>b, LoopKept DEF Deducted
    <2>2. LoopsOf(r)'
      <3>1. cart[r] \in Seq(Items) /\ Len(cart[r]) \in Nat /\ i[r] \in Nat BY DEF TypeOK
      <3>2. i[r] = Len(cart[r]) + 1 /\ Passed(r, i[r] - 1)
        BY <1>a, <3>1 DEF ItemsChecked, HasItem
      <3>3. i[r] - 1 = Len(cart[r]) BY <3>1, <3>2
      <3>4. total[r] = Cost(price, cart[r], Len(cart[r])) BY <1>a, <3>3 DEF Loops, LoopsOf
      <3>5. Passed(r, Len(cart[r]))' BY <1>a, <3>2, <3>3 DEF Passed
      <3>6. \A p \in Products : Deducted(r, p)' = 0 BY <1>a, NoOneAssumption DEF Deducted, LocksOwned
      <3>7. i'[r] - 1 = 0 /\ i'[r] <= Len(cart[r]) + 1 BY <1>c, <3>1
      <3> QED BY <1>a, <1>c, <3>4, <3>5, <3>6, <3>7, UnitsZero DEF LoopsOf, Past
    <2> QED BY <2>1, <2>2 DEF Loops
  <1>5. OkHasRow' BY <1>a, <1>b, <1>c DEF OkHasRow
  <1>6. SoldIsOrdered' BY <1>a DEF SoldIsOrdered
  <1>7. BalanceBooked'
    <2>1. ChargedOnly' = ChargedOnly BY <1>a, <1>b, <1>c DEF ChargedOnly
    <2> QED BY <2>1, <1>a, BalanceKept
  <1> QED BY <1>1, <1>2, <1>3, <1>4, <1>5, <1>6, <1>7

LEMMA ReadOfferBooks ==
    ASSUME GoodsInv, BooksInv, NEW r \in Requests, ReadOffer(r)
    PROVE  BooksInv'
  <1> USE DEF GoodsInv, BooksInv
  <1>a. /\ pc[r] = "read" /\ HasItem(r) /\ pc' = [pc EXCEPT ![r] = "save"]
        /\ UNCHANGED <<up, listed, price, seed, holder, taken, stock, orders, sold, balance,
                       orderSeq, orderId, i, cart, total, result>>
    BY DEF ReadOffer, offerVars, lockVars, tblVars
  <1>b. \A q \in Requests : q # r => pc'[q] = pc[q] BY <1>a DEF TypeOK
  <1>c. pc'[r] = "save" /\ result[r] = "none" BY <1>a DEF TypeOK, Answers
  <1>d. \A q \in Requests : Past(q)' <=> Past(q) BY <1>a, <1>b, <1>c DEF Past
  <1>1. Answers'
    <2>1. Begun' = Begun BY <1>a, <1>b, <1>c DEF Begun
    <2> QED BY <2>1, <1>a, <1>b, <1>c DEF Answers, Past
  <1>2. OrderRows' BY <1>a, RowsKept DEF TypeOK
  <1>3. OrderIds' BY <1>a, <1>d, IdsKept DEF Current
  <1>4. Loops'
    <2>1. ASSUME NEW q \in Requests, q # r PROVE LoopsOf(q)'
      BY <2>1, <1>a, <1>b, LoopKept DEF Deducted
    <2>2. LoopsOf(r)' BY <1>a, <1>c DEF LoopsOf, Loops, Past, Passed, Deducted
    <2> QED BY <2>1, <2>2 DEF Loops
  <1>5. OkHasRow' BY <1>a DEF OkHasRow
  <1>6. SoldIsOrdered' BY <1>a DEF SoldIsOrdered
  <1>7. BalanceBooked'
    <2>1. ChargedOnly' = ChargedOnly BY <1>a, <1>b, <1>c DEF ChargedOnly
    <2> QED BY <2>1, <1>a, BalanceKept
  <1> QED BY <1>1, <1>2, <1>3, <1>4, <1>5, <1>6, <1>7

\* What SaveOffer does to what the request has deducted.
LEMMA SaveOfferDeducts ==
    ASSUME GoodsInv, NEW r \in Requests, SaveOffer(r)
    PROVE  /\ HasItem(r) /\ i[r] \in 1 .. Len(cart[r]) /\ Item(r) = cart[r][i[r]]
           /\ Item(r) \in Items /\ Item(r).product \in listed /\ Item(r).product \in Products
           /\ i'[r] = i[r] + 1 /\ pc'[r] = "read"
           /\ \A q \in Requests : q # r => pc'[q] = pc[q] /\ i'[q] = i[q] /\
                \A p \in Products : Deducted(q, p)' = Deducted(q, p)
           /\ \A p \in Products : Deducted(r, p)' =
                Deducted(r, p) + (IF Item(r).product = p THEN Item(r).quantity ELSE 0)
  <1> USE DEF GoodsInv
  <1> DEFINE p == Item(r).product
             n == Item(r).quantity
  <1>a. /\ pc[r] = "save" /\ holder[p] \in {r, NoOne} /\ holder' = [holder EXCEPT ![p] = r]
        /\ taken' = [taken EXCEPT ![p] = n + (IF holder[p] = r THEN @ ELSE 0)]
        /\ pc' = [pc EXCEPT ![r] = "read"] /\ i' = [i EXCEPT ![r] = @ + 1]
    BY DEF SaveOffer
  <1>b. HasItem(r) BY <1>a DEF ItemsChecked
  <1>c. p \in Products /\ n \in Int /\ p \in listed BY <1>a, <1>b, PassedItem
  <1>d. i[r] \in 1 .. Len(cart[r]) /\ Item(r) = cart[r][i[r]] /\ Item(r) \in Items
    BY <1>b, ItemType
  <1> HIDE DEF p, n
  <1>e. i'[r] = i[r] + 1 /\ pc'[r] = "read" BY <1>a DEF TypeOK
  <1>f. \A q \in Requests : q # r => pc'[q] = pc[q] /\ i'[q] = i[q] BY <1>a DEF TypeOK
  <1>g. ASSUME NEW q \in Requests, q # r, NEW o \in Products
        PROVE  Deducted(q, o)' = Deducted(q, o)
    BY <1>a, <1>c, <1>g, NoOneAssumption DEF Deducted, TypeOK
  <1>h. ASSUME NEW o \in Products
        PROVE  Deducted(r, o)' = Deducted(r, o) + (IF p = o THEN n ELSE 0)
    <2>1. CASE o = p
      <3>1. holder'[p] = r /\ taken'[p] = n + Deducted(r, p)
        BY <1>a, <1>c DEF TypeOK, Deducted
      <3>2. Deducted(r, p) \in Int BY <1>c DEF Deducted, TypeOK
      <3> QED BY <2>1, <3>1, <3>2, <1>c DEF Deducted
    <2>2. CASE o # p
      <3>1. holder'[o] = holder[o] /\ taken'[o] = taken[o] BY <2>2, <1>a, <1>c DEF TypeOK
      <3>2. Deducted(r, o) \in Int BY DEF Deducted, TypeOK
      <3> QED BY <2>2, <3>1, <3>2 DEF Deducted
    <2> QED BY <2>1, <2>2
  <1> QED BY <1>b, <1>c, <1>d, <1>e, <1>f, <1>g, <1>h DEF p, n

LEMMA SaveOfferBooks ==
    ASSUME GoodsInv, BooksInv, NEW r \in Requests, SaveOffer(r)
    PROVE  BooksInv'
  <1> USE DEF GoodsInv, BooksInv
  <1>a. /\ pc[r] = "save" /\ pc' = [pc EXCEPT ![r] = "read"]
        /\ UNCHANGED <<up, listed, price, seed, stock, orders, sold, balance, orderSeq,
                       orderId, cart, total, result>>
    BY DEF SaveOffer, offerVars, tblVars
  <1>b. /\ HasItem(r) /\ i[r] \in 1 .. Len(cart[r]) /\ Item(r) = cart[r][i[r]]
        /\ i'[r] = i[r] + 1 /\ pc'[r] = "read"
        /\ \A q \in Requests : q # r => pc'[q] = pc[q] /\ i'[q] = i[q] /\
             \A p \in Products : Deducted(q, p)' = Deducted(q, p)
        /\ \A p \in Products : Deducted(r, p)' =
             Deducted(r, p) + (IF Item(r).product = p THEN Item(r).quantity ELSE 0)
    BY SaveOfferDeducts
  <1>c. result[r] = "none" BY <1>a DEF Answers
  <1>d. \A q \in Requests : Past(q)' <=> Past(q) BY <1>a, <1>b DEF Past
  <1>1. Answers'
    <2>1. Begun' = Begun BY <1>a, <1>b DEF Begun
    <2> QED BY <2>1, <1>a, <1>b, <1>c DEF Answers, Past
  <1>2. OrderRows' BY <1>a, RowsKept DEF TypeOK
  <1>3. OrderIds' BY <1>a, <1>d, IdsKept DEF Current
  <1>4. Loops'
    <2>1. ASSUME NEW q \in Requests, q # r PROVE LoopsOf(q)'
      BY <2>1, <1>a, <1>b, LoopKept
    <2>2. LoopsOf(r)'
      <3>1. cart[r] \in Seq(Items) /\ Len(cart[r]) \in Nat BY DEF TypeOK
      <3>2. i'[r] - 1 = i[r] /\ i'[r] <= Len(cart[r]) + 1 BY <1>b, <3>1
      <3>3. ASSUME NEW p \in Products PROVE Deducted(r, p)' = UnitsUpTo(cart[r], p, i[r])
        <4>1. Deducted(r, p) = UnitsUpTo(cart[r], p, i[r] - 1) BY <1>a DEF Loops, LoopsOf, Past
        <4> QED BY <4>1, <1>b, <3>1, UnitsNext
      <3>4. /\ Passed(r, Len(cart[r])) /\ total[r] = Cost(price, cart[r], Len(cart[r]))
        BY <1>a DEF Loops, LoopsOf, Past
      <3>5. Passed(r, Len(cart[r]))' BY <1>a, <3>4 DEF Passed
      <3> QED BY <1>a, <1>b, <3>2, <3>3, <3>4, <3>5 DEF LoopsOf, Past
    <2> QED BY <2>1, <2>2 DEF Loops
  <1>5. OkHasRow' BY <1>a DEF OkHasRow
  <1>6. SoldIsOrdered' BY <1>a DEF SoldIsOrdered
  <1>7. BalanceBooked'
    <2>1. ChargedOnly' = ChargedOnly BY <1>a, <1>b DEF ChargedOnly
    <2> QED BY <2>1, <1>a, BalanceKept
  <1> QED BY <1>1, <1>2, <1>3, <1>4, <1>5, <1>6, <1>7

LEMMA ChargeMarketBooks ==
    ASSUME GoodsInv, BooksInv, NEW r \in Requests, ChargeMarket(r)
    PROVE  BooksInv'
  <1> USE DEF GoodsInv, BooksInv
  <1>a. /\ pc[r] = "read" /\ ~HasItem(r) /\ pc' = [pc EXCEPT ![r] = "commit"]
        /\ balance' = balance - total[r]
        /\ UNCHANGED <<up, listed, price, seed, holder, taken, stock, orders, sold,
                       orderSeq, orderId, i, cart, total, result>>
    BY DEF ChargeMarket, offerVars, lockVars, tblVars, locals
  <1>b. \A q \in Requests : q # r => pc'[q] = pc[q] BY <1>a DEF TypeOK
  <1>c. pc'[r] = "commit" /\ result[r] = "none" BY <1>a DEF TypeOK, Answers
  <1>d. \A q \in Requests : Past(q)' <=> Past(q) BY <1>a, <1>b, <1>c DEF Past
  <1>1. Answers'
    <2>1. Begun' = Begun BY <1>a, <1>b, <1>c DEF Begun
    <2> QED BY <2>1, <1>a, <1>b, <1>c DEF Answers, Past
  <1>2. OrderRows' BY <1>a, RowsKept DEF TypeOK
  <1>3. OrderIds' BY <1>a, <1>d, IdsKept DEF Current
  <1>4. Loops'
    <2>1. ASSUME NEW q \in Requests, q # r PROVE LoopsOf(q)'
      BY <2>1, <1>a, <1>b, LoopKept DEF Deducted
    <2>2. LoopsOf(r)' BY <1>a, <1>c DEF LoopsOf, Loops, Past, Passed, Deducted, HasItem
    <2> QED BY <2>1, <2>2 DEF Loops
  <1>5. OkHasRow' BY <1>a DEF OkHasRow
  <1>6. SoldIsOrdered' BY <1>a DEF SoldIsOrdered
  <1>7. BalanceBooked'
    <2>1. ChargedOnly' = ChargedOnly \cup {r} /\ r \notin ChargedOnly
      BY <1>a, <1>b, <1>c DEF ChargedOnly
    <2>2. IsFiniteSet(ChargedOnly) BY ChargedFinite
    <2>3. \A q \in ChargedOnly : total[q] \in Int BY DEF ChargedOnly, TypeOK
    <2>4. total[r] \in Int BY DEF TypeOK
    <2>5. SumOf(total, ChargedOnly \cup {r}) = SumOf(total, ChargedOnly) + total[r]
      BY <2>1, <2>2, <2>3, <2>4, SumAdd
    <2>6. SumOf(total, ChargedOnly) \in Int BY <2>2, <2>3, SumType
    <2>7. Revenue(orders) \in Int BY OrdersAreRows, SumsOfRows
    <2>8. SumOf(total', ChargedOnly') = SumOf(total, ChargedOnly) + total[r]
      BY <2>1, <2>5, <1>a
    <2> QED BY <2>4, <2>6, <2>7, <2>8, <1>a DEF BalanceBooked, OpeningBalance
  <1> QED BY <1>1, <1>2, <1>3, <1>4, <1>5, <1>6, <1>7

\* A commit that is installed adds the order of its request and what it deducted.
LEMMA InstallBooks ==
    ASSUME GoodsInv, BooksInv, NEW r \in Requests, pc[r] = "commit", Install(r)
    PROVE  /\ Current(r) /\ NewOrder(r) \notin orders /\ Rows({NewOrder(r)})
           /\ NewOrder(r) \in [id : 1 .. orderSeq, status : {"pending"} \cup Statuses,
                               total : Int, items : Seq(Items)]
           /\ \A o \in orders : o.id # orderId[r]
           /\ \A j \in DOMAIN cart[r] : cart[r][j].product \in listed
           /\ \A p \in Products : sold'[p] = sold[p] + UnitsIn(cart[r], p)
           /\ \A p \in Products : Ordered(orders', p) = Ordered(orders, p) + UnitsIn(cart[r], p)
           /\ Revenue(orders') = Revenue(orders) + total[r]
           /\ total[r] = Cost(price, cart[r], Len(cart[r]))
  <1> USE DEF GoodsInv, BooksInv
  <1> DEFINE n == NewOrder(r)
  <1>1. Current(r) /\ Past(r) BY DEF Current, Past, Answers
  <1>2. \A o \in orders : o.id # orderId[r] BY <1>1 DEF OrderIds
  <1>3. cart[r] \in Seq(Items) /\ total[r] \in Int /\ orderId[r] \in 1 .. orderSeq
    BY <1>1 DEF TypeOK, OrderIds
  <1>4. n.id = orderId[r] /\ n.items = cart[r] /\ n.total = total[r] BY DEF NewOrder
  <1>5. n \in [id : 1 .. orderSeq, status : {"pending"} \cup Statuses, total : Int,
               items : Seq(Items)]
    BY <1>3 DEF NewOrder
  <1> HIDE DEF n
  <1>6. n \notin orders BY <1>2, <1>4
  <1>7. Rows({n}) BY <1>3, <1>4, FS_Singleton DEF Rows
  <1>8. /\ Passed(r, Len(cart[r])) /\ total[r] = Cost(price, cart[r], Len(cart[r]))
        /\ i[r] <= Len(cart[r]) + 1 /\ ~HasItem(r)
        /\ \A p \in Products : Deducted(r, p) = UnitsUpTo(cart[r], p, i[r] - 1)
    BY <1>1 DEF Loops, LoopsOf
  <1>9. i[r] - 1 = Len(cart[r])
    <2>1. Len(cart[r]) \in Nat /\ i[r] \in Nat BY <1>3 DEF TypeOK
    <2> QED BY <2>1, <1>8 DEF HasItem
  <1>10. \A j \in DOMAIN cart[r] : cart[r][j].product \in listed BY <1>3, <1>8 DEF Passed
  <1>11. \A p \in Products : sold'[p] = sold[p] + UnitsIn(cart[r], p)
    BY <1>8, <1>9 DEF Install, Deducted, UnitsIn
  <1>12. orders' = orders \cup {n} BY DEF Install, n
  <1>13. ASSUME NEW p
         PROVE  /\ Ordered(orders', p) = Ordered(orders, p) + UnitsIn(cart[r], p)
                /\ Revenue(orders') = Revenue(orders) + total[r]
    BY <1>4, <1>6, <1>7, <1>12, OrdersAreRows, SumsAddRow
  <1> QED BY <1>1, <1>2, <1>5, <1>6, <1>7, <1>8, <1>10, <1>11, <1>13 DEF n

\* Committed or not, the request is answered and gives up its locks.
LEMMA CommitFrame ==
    ASSUME GoodsInv, BooksInv, NEW r \in Requests, Commit(r)
    PROVE  /\ pc[r] = "commit" /\ pc' = [pc EXCEPT ![r] = "done"]
           /\ \/ Install(r) /\ result' = [result EXCEPT ![r] = "ok"]
              \/ Install(r) /\ result' = [result EXCEPT ![r] = "unknown"]
              \/ UNCHANGED tblVars /\ result' = [result EXCEPT ![r] = "unknown"]
           /\ UNCHANGED <<up, listed, price, seed, taken, orderSeq, balance, orderId, cart, i,
                          total>>
           /\ \A q \in Requests : q # r => pc'[q] = pc[q] /\ result'[q] = result[q] /\
                \A p \in Products : Deducted(q, p)' = Deducted(q, p)
           /\ pc'[r] = "done" /\ result'[r] \in {"ok", "unknown"} /\ result[r] = "none"
           /\ Answers'
  <1> USE DEF GoodsInv, BooksInv
  <1>a. /\ pc[r] = "commit" /\ pc' = [pc EXCEPT ![r] = "done"]
        /\ \/ Install(r) /\ result' = [result EXCEPT ![r] = "ok"]
           \/ Install(r) /\ result' = [result EXCEPT ![r] = "unknown"]
           \/ UNCHANGED tblVars /\ result' = [result EXCEPT ![r] = "unknown"]
        /\ holder' = [p \in Products |-> IF holder[p] = r THEN NoOne ELSE holder[p]]
        /\ UNCHANGED <<up, listed, price, seed, taken, orderSeq, balance, orderId, cart, i,
                       total>>
    BY DEF Commit, Release, offerVars, locals
  <1>b. \A q \in Requests : q # r => pc'[q] = pc[q] /\ result'[q] = result[q]
    BY <1>a DEF TypeOK, Answers
  <1>c. pc'[r] = "done" /\ result'[r] \in {"ok", "unknown"} /\ result[r] = "none"
    BY <1>a DEF TypeOK, Answers
  <1>d. \A q \in Requests : q # r => \A p \in Products : Deducted(q, p)' = Deducted(q, p)
    BY <1>a, NoOneAssumption DEF Deducted, TypeOK
  <1>e. Answers'
    <2>1. Begun' = Begun BY <1>a, <1>b, <1>c DEF Begun
    <2>2. result' \in [Requests -> {"none", "ok", "error", "unknown", "killed", "wiped"}]
      BY <1>a DEF Answers
    <2> QED BY <2>1, <2>2, <1>a, <1>b, <1>c DEF Answers, Past
  <1> QED BY <1>a, <1>b, <1>c, <1>d, <1>e

LEMMA CommitBooks ==
    ASSUME GoodsInv, BooksInv, NEW r \in Requests, Commit(r)
    PROVE  BooksInv'
  <1> USE DEF GoodsInv, BooksInv
  <1>a. /\ pc[r] = "commit" /\ pc' = [pc EXCEPT ![r] = "done"]
        /\ \/ Install(r) /\ result' = [result EXCEPT ![r] = "ok"]
           \/ Install(r) /\ result' = [result EXCEPT ![r] = "unknown"]
           \/ UNCHANGED tblVars /\ result' = [result EXCEPT ![r] = "unknown"]
        /\ UNCHANGED <<up, listed, price, seed, taken, orderSeq, balance, orderId, cart, i,
                       total>>
        /\ \A q \in Requests : q # r => pc'[q] = pc[q] /\ result'[q] = result[q] /\
             \A p \in Products : Deducted(q, p)' = Deducted(q, p)
        /\ pc'[r] = "done" /\ result'[r] \in {"ok", "unknown"} /\ result[r] = "none"
        /\ Answers'
    BY CommitFrame
  <1>b. Current(r) /\ Past(r) BY <1>a DEF Current, Past, Answers
  <1>c. \A q \in Requests : Current(q)' => Current(q) BY <1>a, <1>b DEF Current, Past
  <1>d. \A q \in Requests : Current(q)' /\ (Past(q)' \/ result'[q] = "error") =>
          q # r /\ (Past(q) \/ result[q] = "error")
    BY <1>a DEF Past
  <1>e. \A q \in Requests : q # r => LoopsOf(q)'
    BY <1>a, LoopKept
  <1>f. LoopsOf(r)'
    <2>1. Passed(r, Len(cart[r])) /\ total[r] = Cost(price, cart[r], Len(cart[r]))
      BY <1>b DEF Loops, LoopsOf
    <2>2. Passed(r, Len(cart[r]))' BY <2>1, <1>a DEF Passed
    <2> QED BY <2>1, <2>2, <1>a DEF LoopsOf, Past
  <1>g. Loops' BY <1>e, <1>f DEF Loops
  <1>1. CASE Install(r)
    <2> DEFINE n == NewOrder(r)
    <2>0. orders' = orders \cup {n} BY <1>1 DEF Install
    <2>a. n.id = orderId[r] /\ n.items = cart[r] /\ n.total = total[r] BY DEF NewOrder
    <2>b. /\ n \in [id : 1 .. orderSeq, status : {"pending"} \cup Statuses, total : Int,
                    items : Seq(Items)]
          /\ \A o \in orders : o.id # orderId[r]
          /\ \A j \in DOMAIN cart[r] : cart[r][j].product \in listed
          /\ \A p \in Products : sold'[p] = sold[p] + UnitsIn(cart[r], p)
          /\ \A p \in Products : Ordered(orders', p) = Ordered(orders, p) + UnitsIn(cart[r], p)
          /\ Revenue(orders') = Revenue(orders) + total[r]
      BY <1>1, <1>a, InstallBooks
    <2> HIDE DEF n
    <2>2. OrderRows'
      <3>1. IsFiniteSet(orders') BY <2>0, FS_AddElement DEF OrderRows
      <3>2. ASSUME NEW o \in orders'
            PROVE  /\ o \in [id : 1 .. orderSeq, status : {"pending"} \cup Statuses,
                             total : Int, items : Seq(Items)]
                   /\ \A j \in DOMAIN o.items : o.items[j].product \in listed
        <4>1. CASE o = n BY <4>1, <2>a, <2>b
        <4>2. CASE o \in orders BY <4>2 DEF OrderRows
        <4> QED BY <4>1, <4>2, <2>0
      <3>3. \A o, u \in orders' : o.id = u.id => o = u BY <2>0, <2>a, <2>b DEF OrderRows
      <3> QED BY <3>1, <3>2, <3>3, <1>a DEF OrderRows
    <2>3. OrderIds'
      <3>1. \A q \in Requests : Current(q)' /\ (Past(q)' \/ result'[q] = "error") =>
              \A o \in orders' : o.id # orderId'[q]
        BY <1>a, <1>b, <1>c, <1>d, <2>0, <2>a DEF OrderIds
      <3> QED BY <3>1, <1>a, <1>c DEF OrderIds
    <2>5. OkHasRow'
      <3> SUFFICES ASSUME NEW q \in Requests, result'[q] = "ok"
                   PROVE  \E o \in orders' : o.id = orderId'[q] /\ o.items = cart'[q]
                                             /\ o.total = total'[q]
        BY DEF OkHasRow
      <3>1. CASE q = r BY <3>1, <2>0, <2>a, <1>a
      <3>2. CASE q # r BY <3>2, <2>0, <1>a DEF OkHasRow
      <3> QED BY <3>1, <3>2
    <2>6. SoldIsOrdered' BY <2>b DEF SoldIsOrdered
    <2>7. BalanceBooked'
      <3>1. ChargedOnly' = ChargedOnly \ {r} /\ r \in ChargedOnly
        <4>1. r \in ChargedOnly /\ r \notin ChargedOnly' BY <1>a, <2>0, <2>a DEF ChargedOnly
        <4>2. ASSUME NEW q \in Requests, q # r, result[q] = "unknown"
              PROVE  orderId[r] # orderId[q]
          BY <4>2, <1>b DEF OrderIds, Current
        <4>3. \A q \in Requests : q # r => (q \in ChargedOnly' <=> q \in ChargedOnly)
          BY <4>2, <1>a, <2>0, <2>a DEF ChargedOnly
        <4>4. ChargedOnly' \subseteq Requests /\ ChargedOnly \subseteq Requests
          BY DEF ChargedOnly
        <4> QED BY <4>1, <4>3, <4>4
      <3>2. IsFiniteSet(ChargedOnly) BY ChargedFinite
      <3>3. \A q \in ChargedOnly : total[q] \in Int BY DEF ChargedOnly, TypeOK
      <3>4. SumOf(total, ChargedOnly) = SumOf(total, ChargedOnly \ {r}) + total[r]
        BY <3>1, <3>2, <3>3, SumRemove
      <3>5. SumOf(total, ChargedOnly \ {r}) \in Int /\ total[r] \in Int
        <4>1. IsFiniteSet(ChargedOnly \ {r}) BY <3>2, FS_Subset
        <4> QED BY <4>1, <3>1, <3>3, SumType
      <3>6. Revenue(orders) \in Int BY OrdersAreRows, SumsOfRows
      <3>7. SumOf(total', ChargedOnly') = SumOf(total, ChargedOnly \ {r}) BY <3>1, <1>a
      <3>8. Revenue(orders') = Revenue(orders) + total[r] BY <2>b
      <3>9. up' => balance' = OpeningBalance - Revenue(orders) - SumOf(total, ChargedOnly)
        BY <1>a DEF BalanceBooked
      <3> HIDE DEF BooksInv, GoodsInv
      <3> QED BY <3>4, <3>5, <3>6, <3>7, <3>8, <3>9 DEF BalanceBooked, OpeningBalance
    <2> QED BY <1>a, <1>g, <2>2, <2>3, <2>5, <2>6, <2>7
  <1>2. CASE UNCHANGED tblVars /\ result' = [result EXCEPT ![r] = "unknown"]
    <2>0. orders' = orders /\ sold' = sold /\ result'[r] = "unknown"
      BY <1>2 DEF tblVars, Answers
    <2>2. OrderRows' BY <2>0, <1>a, RowsKept DEF TypeOK
    <2>3. OrderIds' BY <2>0, <1>a, <1>c, <1>d, IdsKept
    <2>5. OkHasRow' BY <2>0, <1>a DEF OkHasRow
    <2>6. SoldIsOrdered' BY <2>0 DEF SoldIsOrdered
    <2>7. BalanceBooked'
      <3>1. \A o \in orders : o.id # orderId[r] BY <1>b DEF OrderIds
      <3>2. ChargedOnly' = ChargedOnly BY <3>1, <2>0, <1>a DEF ChargedOnly
      <3> QED BY <3>2, <2>0, <1>a, BalanceKept
    <2> QED BY <1>a, <1>g, <2>2, <2>3, <2>5, <2>6, <2>7
  <1> QED BY <1>a, <1>1, <1>2

\* Orders that name no unit of a product have none in sum.
LEMMA OrderedNone ==
    ASSUME NEW os, Rows(os), NEW p,
           \A o \in os : \A j \in DOMAIN o.items : o.items[j].product # p
    PROVE  Ordered(os, p) = 0
  <1> DEFINE u == [o \in os |-> UnitsIn(o.items, p)]
  <1>1. ASSUME NEW o \in os PROVE UnitsIn(o.items, p) = 0
    <2> DEFINE c == o.items
               f == [j \in DOMAIN c |-> IF c[j].product = p THEN c[j].quantity ELSE 0]
    <2>1. c \in Seq(Items) BY DEF Rows
    <2>2. \A j \in 1 .. Len(c) : f[j] = 0 BY <2>1
    <2>3. IsFiniteSet(1 .. Len(c)) BY <2>1, FS_Interval
    <2> HIDE DEF f
    <2>4. SumOf(f, 1 .. Len(c)) = 0 BY <2>2, <2>3, SumZero
    <2> QED BY <2>4 DEF UnitsIn, UnitsUpTo, f
  <1>2. \A o \in os : u[o] = 0 BY <1>1
  <1> HIDE DEF u
  <1>3. SumOf(u, os) = 0 BY <1>2, SumZero DEF Rows
  <1> QED BY <1>3 DEF Ordered, u

LEMMA AddOfferBooks ==
    ASSUME GoodsInv, BooksInv,
           NEW id \in 0 .. MaxOffer, NEW q \in NewStock, NEW c \in NewPrice, AddOffer(id, q, c)
    PROVE  BooksInv'
  <1> USE DEF GoodsInv, BooksInv
  <1> DEFINE new == IF id = 0 THEN offerSeq + 1 ELSE id
  <1>a. /\ new \in Products
        /\ UNCHANGED <<up, holder, taken, orders, orderSeq, balance, pc, cart, i, total,
                       orderId, result>>
        /\ \/ UNCHANGED <<listed, price, sold>>
           \/ /\ new \notin listed /\ listed' = listed \cup {new}
              /\ price' = [price EXCEPT ![new] = c] /\ sold' = [sold EXCEPT ![new] = 0]
    BY DEF AddOffer, lockVars, locals
  <1> HIDE DEF new
  <1>b. listed \subseteq listed' /\ \A p \in listed : price'[p] = price[p]
    BY <1>a DEF TypeOK
  <1>1. Answers' BY <1>a DEF Answers, Begun, Past
  <1>2. OrderRows' BY <1>a, <1>b, RowsKept DEF TypeOK
  <1>3. OrderIds' BY <1>a, IdsKept DEF Current, Past
  <1>4. Loops'
    <2>1. ASSUME NEW r \in Requests PROVE LoopsOf(r)' BY <1>a, <1>b, LoopKept DEF Deducted
    <2> QED BY <2>1 DEF Loops
  <1>5. OkHasRow' BY <1>a DEF OkHasRow
  <1>6. SoldIsOrdered'
    <2> SUFFICES ASSUME NEW p \in Products PROVE sold'[p] = Ordered(orders, p)
      BY <1>a DEF SoldIsOrdered
    <2>1. CASE sold'[p] = sold[p] BY <2>1 DEF SoldIsOrdered
    <2>2. CASE sold'[p] # sold[p]
      <3>1. p = new /\ new \notin listed /\ sold'[p] = 0 BY <2>2, <1>a DEF TypeOK
      <3>2. \A o \in orders : \A j \in DOMAIN o.items : o.items[j].product # p
        BY <3>1 DEF OrderRows
      <3> QED BY <3>1, <3>2, OrdersAreRows, OrderedNone
    <2> QED BY <2>1, <2>2
  <1>7. BalanceBooked'
    <2>1. ChargedOnly' = ChargedOnly BY <1>a DEF ChargedOnly
    <2> QED BY <2>1, <1>a, BalanceKept
  <1> QED BY <1>1, <1>2, <1>3, <1>4, <1>5, <1>6, <1>7

LEMMA UpdateOrderStatusBooks ==
    ASSUME GoodsInv, BooksInv,
           NEW id \in 1 .. orderSeq, NEW s \in Statuses, UpdateOrderStatus(id, s)
    PROVE  BooksInv'
  <1> USE DEF GoodsInv, BooksInv
  <1> DEFINE ids == 1 .. orderSeq
             st  == {"pending"} \cup Statuses
             Row == [id : ids, status : st, total : Int, items : Seq(Items)]
  <1>a. /\ orders' = {Restated(o, id, s) : o \in orders}
        /\ UNCHANGED <<up, listed, price, holder, taken, sold, orderSeq, balance, pc, cart, i,
                       total, orderId, result>>
    BY DEF UpdateOrderStatus, Restated, offerVars, lockVars, locals
  <1>b. /\ IsFiniteSet(orders) /\ orders \subseteq Row
        /\ \A o, u \in orders : o.id = u.id => o = u
    BY DEF OrderRows
  <1>c. \A p : /\ IsFiniteSet(orders') /\ Ordered(orders', p) = Ordered(orders, p)
               /\ Revenue(orders') = Revenue(orders)
    <2>1. orders' = AllRestated(orders, id, s) BY <1>a DEF AllRestated
    <2> HIDE DEF Row, BooksInv
    <2>2. \A p : /\ IsFiniteSet(AllRestated(orders, id, s))
                 /\ Ordered(AllRestated(orders, id, s), p) = Ordered(orders, p)
                 /\ Revenue(AllRestated(orders, id, s)) = Revenue(orders)
      BY <1>b, SumsRestated DEF Row
    <2> QED BY <2>1, <2>2
  <1>d. ASSUME NEW o \in orders
        PROVE  /\ Restated(o, id, s).id = o.id /\ Restated(o, id, s).items = o.items
               /\ Restated(o, id, s).total = o.total /\ Restated(o, id, s) \in Row
    <2>1. o \in Row /\ s \in st BY <1>b
    <2> HIDE DEF Row, ids, st
    <2> QED BY <2>1, RestatedRow DEF Row
  <1>e. \A o \in orders' : \E u \in orders :
          o = Restated(u, id, s) /\ o.id = u.id /\ o.items = u.items
    BY <1>a, <1>d
  <1>1. Answers' BY <1>a DEF Answers, Begun, Past
  <1>2. OrderRows'
    <2>1. \A o \in orders' : o \in Row BY <1>a, <1>d
    <2>2. ASSUME NEW o \in orders', NEW j \in DOMAIN o.items PROVE o.items[j].product \in listed
      BY <1>e DEF OrderRows
    <2>3. \A o, u \in orders' : o.id = u.id => o = u BY <1>b, <1>e
    <2>4. IsFiniteSet(orders') BY <1>c
    <2> QED BY <2>1, <2>2, <2>3, <2>4, <1>a DEF OrderRows
  <1>3. OrderIds' BY <1>a, <1>e, IdsKept DEF Current, Past
  <1>4. Loops'
    <2>1. ASSUME NEW r \in Requests PROVE LoopsOf(r)' BY <1>a, LoopKept DEF Deducted
    <2> QED BY <2>1 DEF Loops
  <1>5. OkHasRow'
    <2> SUFFICES ASSUME NEW r \in Requests, result[r] = "ok"
                 PROVE  \E o \in orders' : o.id = orderId[r] /\ o.items = cart[r]
                                           /\ o.total = total[r]
      BY <1>a DEF OkHasRow
    <2>1. PICK o \in orders : o.id = orderId[r] /\ o.items = cart[r] /\ o.total = total[r]
      BY DEF OkHasRow
    <2>2. Restated(o, id, s) \in orders' BY <1>a
    <2> QED BY <2>1, <2>2, <1>d
  <1>6. SoldIsOrdered' BY <1>a, <1>c DEF SoldIsOrdered
  <1>7. BalanceBooked'
    <2>1. \A r : (\A o \in orders' : o.id # orderId[r]) <=> (\A o \in orders : o.id # orderId[r])
      <3>1. \A o \in orders : \E u \in orders' : u.id = o.id BY <1>a, <1>d
      <3> QED BY <3>1, <1>e
    <2>2. ChargedOnly' = ChargedOnly BY <2>1, <1>a DEF ChargedOnly
    <2> QED BY <2>2, <1>a, <1>c, BalanceKept
  <1> QED BY <1>1, <1>2, <1>3, <1>4, <1>5, <1>6, <1>7

LEMMA CrashBooks ==
    ASSUME GoodsInv, BooksInv, Crash
    PROVE  BooksInv'
  <1> USE DEF GoodsInv, BooksInv
  <1>a. /\ up' = FALSE
        /\ pc' = [r \in Requests |-> IF InTx(r) THEN "done" ELSE pc[r]]
        /\ result' = [r \in Requests |-> IF InTx(r) THEN "killed" ELSE result[r]]
        /\ UNCHANGED <<listed, price, orders, sold, orderSeq, orderId, cart, i, total>>
    BY DEF Crash, offerVars, tblVars, locals
  <1>b. \A r \in Requests : InTx(r) => pc'[r] = "done" /\ result'[r] = "killed" /\ r \in Begun
    BY <1>a DEF InTx, Begun
  <1>c. \A r \in Requests : ~InTx(r) => pc'[r] = pc[r] /\ result'[r] = result[r] /\ ~Past(r)
    BY <1>a DEF InTx, Past
  <1>1. Answers'
    <2>1. Begun' = Begun BY <1>b, <1>c DEF Begun
    <2>2. result' \in [Requests -> {"none", "ok", "error", "unknown", "killed", "wiped"}]
      BY <1>a DEF Answers
    <2> QED BY <2>1, <2>2, <1>a, <1>b, <1>c DEF Answers, Past
  <1>2. OrderRows' BY <1>a, RowsKept DEF TypeOK
  <1>3. OrderIds' BY <1>a, <1>b, <1>c, IdsKept DEF Current, Past
  <1>4. Loops'
    <2>1. ASSUME NEW r \in Requests, InTx(r) PROVE LoopsOf(r)'
      BY <2>1, <1>b DEF LoopsOf, Past
    <2>2. ASSUME NEW r \in Requests, ~InTx(r) PROVE LoopsOf(r)'
      BY <2>2, <1>a, <1>c, LoopKept
    <2> QED BY <2>1, <2>2 DEF Loops
  <1>5. OkHasRow' BY <1>a, <1>b, <1>c DEF OkHasRow
  <1>6. SoldIsOrdered' BY <1>a DEF SoldIsOrdered
  <1>7. BalanceBooked' BY <1>a DEF BalanceBooked
  <1> QED BY <1>1, <1>2, <1>3, <1>4, <1>5, <1>6, <1>7

LEMMA BootBooks ==
    ASSUME GoodsInv, BooksInv, Boot \/ BootFails
    PROVE  BooksInv'
  <1> USE DEF GoodsInv, BooksInv
  <1>a. /\ ~up /\ orders' = {} /\ orderSeq' = 0 /\ balance' = OpeningBalance
        /\ sold' = [p \in Products |-> 0]
        /\ result' = [r \in Requests |->
                        IF result[r] \in {"ok", "error", "unknown"} THEN "wiped" ELSE result[r]]
        /\ UNCHANGED <<pc, cart, orderId>>
    BY DEF Boot, BootFails, ResetDatabase, locals
  <1>b. \A r \in Requests : pc[r] \notin {"check", "read", "save", "commit"}
    BY <1>a DEF DownIsQuiet, InTx
  <1>c. \A r \in Requests : result'[r] \notin {"ok", "error", "unknown"}
                            /\ (result'[r] = "none" <=> result[r] = "none")
    BY <1>a
  <1>1. Answers'
    <2>1. result' \in [Requests -> {"none", "ok", "error", "unknown", "killed", "wiped"}]
      BY <1>a DEF Answers
    <2> QED BY <2>1, <1>a, <1>c DEF Answers, Begun, Past
  <1>2. OrderRows' BY <1>a, FS_EmptySet DEF OrderRows
  <1>3. OrderIds' BY <1>a, <1>b, <1>c DEF OrderIds, Current, Past
  <1>4. Loops' BY <1>a, <1>b, <1>c DEF Loops, LoopsOf, Past
  <1>5. OkHasRow' BY <1>c DEF OkHasRow
  <1>6. SoldIsOrdered' BY <1>a, SumsOfNone DEF SoldIsOrdered
  <1>7. BalanceBooked'
    <2>1. ChargedOnly' = {} BY <1>a, <1>b, <1>c DEF ChargedOnly
    <2>2. SumOf(total', ChargedOnly') = 0 BY <2>1, SumEmpty
    <2>3. Revenue(orders') = 0 BY <1>a, SumsOfNone
    <2> QED BY <2>2, <2>3, <1>a DEF BalanceBooked, OpeningBalance
  <1> QED BY <1>1, <1>2, <1>3, <1>4, <1>5, <1>6, <1>7

LEMMA StutterBooks ==
    ASSUME GoodsInv, BooksInv,
           UNCHANGED <<up, offerVars, lockVars, tblVars, orderSeq, balance, pc, locals, result>>
    PROVE  BooksInv'
  <1> USE DEF GoodsInv, BooksInv
  <1>a. UNCHANGED <<up, listed, price, holder, taken, sold, orders, orderSeq, balance, pc, cart,
                    i, total, orderId, result>>
    BY DEF offerVars, lockVars, tblVars, locals
  <1>1. Answers' BY <1>a DEF Answers, Begun, Past
  <1>2. OrderRows' BY <1>a DEF OrderRows
  <1>3. OrderIds' BY <1>a, IdsKept DEF Current, Past
  <1>4. Loops'
    <2>1. ASSUME NEW r \in Requests PROVE LoopsOf(r)' BY <1>a, LoopKept DEF Deducted
    <2> QED BY <2>1 DEF Loops
  <1>5. OkHasRow' BY <1>a DEF OkHasRow
  <1>6. SoldIsOrdered' BY <1>a DEF SoldIsOrdered
  <1>7. BalanceBooked'
    <2>1. ChargedOnly' = ChargedOnly BY <1>a DEF ChargedOnly
    <2> QED BY <2>1, <1>a, BalanceKept
  <1> QED BY <1>1, <1>2, <1>3, <1>4, <1>5, <1>6, <1>7

LEMMA NextBooks == GoodsInv /\ BooksInv /\ [Next]_vars => BooksInv'
  <1> SUFFICES ASSUME GoodsInv, BooksInv, [Next]_vars PROVE BooksInv' OBVIOUS
  <1>1. ASSUME NEW r \in Requests, Begin(r) PROVE BooksInv' BY <1>1, BeginBooks
  <1>2. ASSUME NEW r \in Requests, Step(r) PROVE BooksInv'
    <2>1. CASE RefuseItem(r) BY <2>1, RollbackBooks DEF RefuseItem
    <2> QED BY <1>2, <2>1, CheckItemBooks, CreateRowBooks, ReadOfferBooks, SaveOfferBooks,
               ChargeMarketBooks, CommitBooks DEF Step
  <1>3. ASSUME NEW r \in Requests, DBError(r) \/ DeadlockAbort(r) PROVE BooksInv'
    <2>1. CASE DBError(r) BY <2>1, RollbackBooks DEF DBError
    <2>2. CASE DeadlockAbort(r)
      <3>1. pc[r] = "save" BY <2>2 DEF DeadlockAbort, Deadlock, Closed, Waiting
      <3> QED BY <2>2, <3>1, RollbackBooks DEF DeadlockAbort
    <2> QED BY <1>3, <2>1, <2>2
  <1>4. CASE Admin
    <2>1. ASSUME NEW id \in 1 .. orderSeq, NEW s \in Statuses, UpdateOrderStatus(id, s)
          PROVE BooksInv'
      BY <2>1, UpdateOrderStatusBooks
    <2>2. CASE Dashboard
      BY <2>2, StutterBooks DEF Dashboard, DashOffers, DashOrders, DashBalance
    <2> QED BY <1>4, <2>1, <2>2, AddOfferBooks DEF Admin
  <1>5. CASE UNCHANGED vars BY <1>5, StutterBooks DEF vars
  <1> QED BY <1>1, <1>2, <1>3, <1>4, <1>5, CrashBooks, BootBooks DEF Next

----------------------------------------------------------------------------
(* The dashboard: DashInv *)

\* With no negative price, what a request past its check will charge is not negative.
LEMMA ChargeNonNegative ==
    ASSUME GoodsInv, BooksInv, NoNegativePrice, NEW r \in Requests,
           Past(r) \/ result[r] \in {"ok", "unknown"}
    PROVE  total[r] \in Int /\ total[r] >= 0
  <1> USE DEF GoodsInv, BooksInv
  <1>1. total[r] \in Int /\ cart[r] \in Seq(Items) /\ price \in [Products -> Int] BY DEF TypeOK
  <1>2. Passed(r, Len(cart[r])) /\ total[r] = Cost(price, cart[r], Len(cart[r]))
    BY DEF Loops, LoopsOf
  <1>3. Len(cart[r]) \in 0 .. Len(cart[r]) BY <1>1
  <1>4. \A j \in 1 .. Len(cart[r]) :
          price[cart[r][j].product] >= 0 /\ cart[r][j].quantity > 0
    BY <1>2 DEF Passed, NoNegativePrice
  <1>5. Cost(price, cart[r], Len(cart[r])) >= 0 BY <1>1, <1>3, <1>4, CostNonNegative
  <1> QED BY <1>1, <1>2, <1>5

\* A step while the process runs: listed offers keep their seed and price and only
\* sell, and the balance only falls.
Steady ==
    /\ up' = up /\ listed \subseteq listed'
    /\ \A p \in listed : sold'[p] >= sold[p] /\ seed'[p] = seed[p] /\ price'[p] = price[p]
    /\ NoNegativePrice => balance' <= balance

LEMMA SteadyDash ==
    ASSUME GoodsInv, GoodsInv', DashInv, Steady, dash' = dash
    PROVE  DashInv'
  <1> USE DEF DashInv, Steady
  <1>1. NoNegativePrice' => NoNegativePrice BY DEF NoNegativePrice
  <1>2. \A p \in Products : sold[p] \in Int /\ sold'[p] \in Int /\ seed[p] \in Int
    BY DEF GoodsInv, TypeOK
  <1>3. dash.at # "idle" => \A p \in DOMAIN dash.offers :
          p \in listed /\ p \in Products /\ dash.offers[p] \in Int
    BY DEF GoodsInv, TypeOK
  <1>4. dash'.at = "orders" =>
          \A p \in DOMAIN dash'.offers : dash'.offers[p] + sold'[p] >= seed'[p]
    BY <1>2, <1>3
  <1>5. dash'.at = "balance" /\ NoNegativePrice' =>
          balance' <= OpeningBalance - Revenue(dash'.orders)
    <2>1. balance \in Int /\ balance' \in Int BY DEF GoodsInv, TypeOK
    <2> QED BY <1>1, <2>1 DEF OpeningBalance
  <1>6. DashboardStock' BY <1>3 DEF DashboardStock
  <1>7. DashboardCharged' BY <1>1 DEF DashboardCharged
  <1>8. dash'.at # "idle" => up' /\ dash'.offers \in [DOMAIN dash'.offers -> Int]
                                /\ DOMAIN dash'.offers \subseteq listed'
    OBVIOUS
  <1> QED BY <1>4, <1>5, <1>6, <1>7, <1>8

LEMMA ReadsDash ==
    ASSUME GoodsInv, BooksInv, DashInv, Dashboard
    PROVE  DashInv'
  <1> USE DEF GoodsInv, BooksInv, DashInv
  <1>1. CASE DashOffers
    <2> DEFINE f == [p \in listed |-> stock[p]]
    <2>1. /\ up' /\ dash' = [dash EXCEPT !.at = "orders", !.offers = f]
          /\ UNCHANGED <<listed, price, seed, sold, balance>>
      BY <1>1 DEF DashOffers, offerVars, tblVars
    <2>2. dash'.at = "orders" /\ dash'.offers = f BY <2>1
    <2>3. \A p \in listed : stock[p] + sold[p] >= seed[p] /\ stock[p] \in Int
      BY DEF GoodsAccounted, TypeOK
    <2> QED BY <2>1, <2>2, <2>3 DEF DashboardStock, DashboardCharged
  <1>2. CASE DashOrders
    <2>1. /\ dash.at = "orders" /\ up' = up /\ dash' = [dash EXCEPT !.at = "balance", !.orders = orders]
          /\ UNCHANGED <<listed, price, seed, sold, balance>>
      BY <1>2 DEF DashOrders, offerVars, tblVars
    <2>2. dash'.at = "balance" /\ dash'.offers = dash.offers /\ dash'.orders = orders
      BY <2>1
    <2>3. Revenue(orders) \in Int BY OrdersAreRows, SumsOfRows
    <2>4. \A p \in DOMAIN dash.offers : dash.offers[p] + Ordered(orders, p) >= seed[p]
      BY <2>1 DEF SoldIsOrdered, TypeOK
    <2>5. NoNegativePrice => balance <= OpeningBalance - Revenue(orders)
      <3> SUFFICES ASSUME NoNegativePrice PROVE balance <= OpeningBalance - Revenue(orders)
        OBVIOUS
      <3>1. \A r \in ChargedOnly : total[r] \in Int /\ total[r] >= 0
        BY ChargeNonNegative DEF ChargedOnly, Past
      <3>2. IsFiniteSet(ChargedOnly) BY ChargedFinite
      <3>3. SumOf(total, ChargedOnly) \in Int /\ SumOf(total, ChargedOnly) >= 0
        BY <3>1, <3>2, SumType, SumNonNegative
      <3>4. balance = OpeningBalance - Revenue(orders) - SumOf(total, ChargedOnly)
        BY <2>1 DEF BalanceBooked
      <3> QED BY <2>3, <3>3, <3>4 DEF OpeningBalance
    <2>6. NoNegativePrice' => NoNegativePrice BY <2>1 DEF NoNegativePrice
    <2> QED BY <2>1, <2>2, <2>3, <2>4, <2>5, <2>6 DEF DashboardStock, DashboardCharged
  <1>3. CASE DashBalance
    <2>1. /\ dash.at = "balance" /\ up' = up /\ dash' = [dash EXCEPT !.at = "shown", !.balance = balance]
          /\ UNCHANGED <<listed, price, seed, sold, balance>>
      BY <1>3 DEF DashBalance, offerVars, tblVars
    <2>2. /\ dash'.at = "shown" /\ dash'.offers = dash.offers /\ dash'.orders = dash.orders
          /\ dash'.balance = balance
      BY <2>1
    <2>3. NoNegativePrice' => NoNegativePrice BY <2>1 DEF NoNegativePrice
    <2> QED BY <2>1, <2>2, <2>3 DEF DashboardStock, DashboardCharged
  <1> QED BY <1>1, <1>2, <1>3 DEF Dashboard

\* Every other step of a running process is steady.
LEMMA RunsSteady ==
    ASSUME GoodsInv, BooksInv, up,
           \/ \E r \in Requests : Begin(r) \/ Step(r) \/ DBError(r) \/ DeadlockAbort(r)
           \/ \E id \in 0 .. MaxOffer, q \in NewStock, c \in NewPrice : AddOffer(id, q, c)
           \/ \E id \in 1 .. orderSeq, s \in Statuses : UpdateOrderStatus(id, s)
           \/ UNCHANGED vars
    PROVE  Steady /\ dash' = dash
  <1> USE DEF GoodsInv
  <1>1. \A p \in Products : sold[p] \in Int BY DEF TypeOK
  <1>2. balance \in Int /\ listed \subseteq Products BY DEF TypeOK
  <1>3. ASSUME UNCHANGED <<up, offerVars, sold, balance, dash>> PROVE Steady /\ dash' = dash
    BY <1>1, <1>2, <1>3 DEF Steady, offerVars
  <1>4. ASSUME NEW r \in Requests, Rollback(r) PROVE Steady /\ dash' = dash
    BY <1>3, <1>4 DEF Rollback, tblVars
  <1>5. ASSUME NEW r \in Requests, Step(r) PROVE Steady /\ dash' = dash
    <2>1. CASE CheckItem(r) BY <1>3, <2>1 DEF CheckItem, tblVars
    <2>2. CASE RefuseItem(r) BY <1>4, <2>2 DEF RefuseItem
    <2>3. CASE CreateRow(r) BY <1>3, <2>3 DEF CreateRow, tblVars
    <2>4. CASE ReadOffer(r) BY <1>3, <2>4 DEF ReadOffer, tblVars
    <2>5. CASE SaveOffer(r) BY <1>3, <2>5 DEF SaveOffer, tblVars
    <2>6. CASE ChargeMarket(r)
      <3>1. /\ pc[r] = "read" /\ balance' = balance - total[r]
            /\ UNCHANGED <<up, listed, price, seed, sold, dash>>
        BY <2>6 DEF ChargeMarket, offerVars, tblVars
      <3>2. NoNegativePrice => total[r] \in Int /\ total[r] >= 0
        BY <3>1, ChargeNonNegative DEF Past
      <3> QED BY <3>1, <3>2, <1>1, <1>2 DEF Steady
    <2>7. CASE Commit(r)
      <3>1. UNCHANGED <<up, listed, price, seed, balance, dash>>
        BY <2>7 DEF Commit, offerVars
      <3>2. \A p \in Products : sold'[p] >= sold[p]
        <4>1. CASE Install(r) BY <4>1, InstallAccounts
        <4>2. CASE UNCHANGED tblVars BY <4>2, <1>1 DEF tblVars
        <4> QED BY <4>1, <4>2, <2>7 DEF Commit
      <3> QED BY <3>1, <3>2, <1>2 DEF Steady
    <2> QED BY <1>5, <2>1, <2>2, <2>3, <2>4, <2>5, <2>6, <2>7 DEF Step
  <1>6. ASSUME NEW id \in 0 .. MaxOffer, NEW q \in NewStock, NEW c \in NewPrice,
               AddOffer(id, q, c)
        PROVE  Steady /\ dash' = dash
    <2> DEFINE new == IF id = 0 THEN offerSeq + 1 ELSE id
    <2>1. /\ UNCHANGED <<up, balance, dash>>
          /\ \/ UNCHANGED <<listed, price, seed, sold>>
             \/ /\ new \notin listed /\ listed' = listed \cup {new}
                /\ price' = [price EXCEPT ![new] = c]
                /\ seed' = [seed EXCEPT ![new] = q] /\ sold' = [sold EXCEPT ![new] = 0]
      BY <1>6 DEF AddOffer
    <2> HIDE DEF new
    <2>2. listed \subseteq listed' BY <2>1
    <2>3. \A p \in listed : sold'[p] = sold[p] /\ seed'[p] = seed[p] /\ price'[p] = price[p]
      BY <2>1 DEF TypeOK
    <2> QED BY <2>1, <2>2, <2>3, <1>1, <1>2 DEF Steady
  <1>7. ASSUME NEW r \in Requests, Begin(r) PROVE Steady /\ dash' = dash
    BY <1>3, <1>7 DEF Begin, tblVars
  <1>8. ASSUME NEW r \in Requests, DBError(r) \/ DeadlockAbort(r) PROVE Steady /\ dash' = dash
    BY <1>4, <1>8 DEF DBError, DeadlockAbort
  <1>9. ASSUME NEW id, NEW s, UpdateOrderStatus(id, s) PROVE Steady /\ dash' = dash
    BY <1>3, <1>9 DEF UpdateOrderStatus
  <1>10. CASE UNCHANGED vars BY <1>3, <1>10 DEF vars, tblVars
  <1> QED BY <1>5, <1>6, <1>7, <1>8, <1>9, <1>10

LEMMA NextDash == GoodsInv /\ GoodsInv' /\ BooksInv /\ DashInv /\ [Next]_vars => DashInv'
  <1> SUFFICES ASSUME GoodsInv, GoodsInv', BooksInv, DashInv, [Next]_vars PROVE DashInv'
    OBVIOUS
  <1>1. CASE Crash
    <2>1. dash' = NoDash BY <1>1 DEF Crash
    <2>2. DashboardStock' /\ DashboardCharged'
      BY <2>1 DEF NoDash, DashboardStock, DashboardCharged
    <2> QED BY <2>1, <2>2 DEF NoDash, DashInv
  <1>2. CASE Boot \/ BootFails
    <2>1. dash' = dash /\ dash.at = "idle" BY <1>2 DEF Boot, BootFails, ResetDatabase, DashInv
    <2>2. DashboardStock' /\ DashboardCharged' BY <2>1 DEF DashboardStock, DashboardCharged
    <2> QED BY <2>1, <2>2 DEF DashInv
  <1>3. CASE Dashboard BY <1>3, ReadsDash
  <1>4. CASE UNCHANGED vars \/ ~(Crash \/ Boot \/ BootFails \/ Dashboard)
    <2>1. CASE up BY <1>4, <2>1, RunsSteady, SteadyDash DEF Next, Admin
    <2>2. CASE ~up
      <3>1. ASSUME NEW r \in Requests, Step(r) \/ DBError(r) \/ DeadlockAbort(r) PROVE FALSE
        <4>1. ~InTx(r) BY <2>2 DEF GoodsInv, DownIsQuiet
        <4>2. Step(r) => InTx(r)
          BY DEF Step, CheckItem, RefuseItem, CreateRow, ReadOffer, SaveOffer, ChargeMarket,
                 Commit, InTx
        <4>3. DBError(r) \/ DeadlockAbort(r) => InTx(r)
          BY DEF DBError, DeadlockAbort, Deadlock, Closed, Waiting, InTx
        <4> QED BY <3>1, <4>1, <4>2, <4>3
      <3>2. UNCHANGED vars
        BY <1>4, <2>2, <3>1 DEF Next, Admin, Begin, AddOffer, UpdateOrderStatus
      <3>3. dash' = dash /\ dash.at = "idle" BY <2>2, <3>2 DEF vars, DashInv
      <3>4. DashboardStock' /\ DashboardCharged' BY <3>3 DEF DashboardStock, DashboardCharged
      <3> QED BY <3>3, <3>4 DEF DashInv
    <2> QED BY <2>1, <2>2
  <1> QED BY <1>1, <1>2, <1>3, <1>4

----------------------------------------------------------------------------
(* A product with one asker: AloneInv *)

\* A cart is written once, when its request begins.
CartsKept == \A q \in Requests : cart'[q] = cart[q] \/ cart[q] = <<>>

LEMMA AloneBefore ==
    ASSUME CartsKept, NEW p
    PROVE  (Alone(p)' => Alone(p)) /\ (Once(p)' => Once(p))
  <1>1. \A q \in Askers(p) : q \in Requests /\ cart'[q] = cart[q] /\ q \in Askers(p)'
    BY DEF Askers, CartsKept
  <1>2. Alone(p)' => Alone(p) BY <1>1 DEF Alone
  <1>3. Once(p)' => Once(p) BY <1>1 DEF Once
  <1> QED BY <1>2, <1>3

\* Whoever holds the lock of a product, is about to save it or has it to save asks for it.
LEMMA WhoAsks ==
    ASSUME GoodsInv, BooksInv, LocksAsked, NEW p \in Products
    PROVE  /\ holder[p] # NoOne => holder[p] \in Askers(p)
           /\ \A q \in Requests : pc[q] = "save" /\ Item(q).product = p => q \in Askers(p)
           /\ \A q \in Requests : \A j \in Unsaved(q) :
                j \in DOMAIN cart[q] /\ cart[q][j].product \in listed /\ cart[q][j].quantity > 0
                /\ (cart[q][j].product = p => q \in Askers(p))
  <1> USE DEF GoodsInv
  <1>0. \A q \in Requests : cart[q] \in Seq(Items) /\ i[q] \in Nat \ {0} /\ Len(cart[q]) \in Nat
    BY DEF TypeOK
  <1>1. holder[p] # NoOne => holder[p] \in Askers(p)
    <2> SUFFICES ASSUME holder[p] # NoOne PROVE holder[p] \in Askers(p) OBVIOUS
    <2> DEFINE q == holder[p]
    <2>1. q \in Requests /\ pc[q] \in {"read", "save", "commit"} BY DEF TypeOK, LocksOwned
    <2>2. PICK j \in 1 .. i[q] - 1 : cart[q][j].product = p BY DEF LocksAsked
    <2>3. i[q] <= Len(cart[q]) + 1 BY <2>1 DEF BooksInv, Loops, LoopsOf, Past
    <2> HIDE DEF q
    <2>4. j \in DOMAIN cart[q] BY <1>0, <2>1, <2>2, <2>3
    <2>5. q \in Askers(p) BY <2>1, <2>2, <2>4 DEF Askers
    <2> QED BY <2>5 DEF q
  <1>2. ASSUME NEW q \in Requests, pc[q] = "save", Item(q).product = p PROVE q \in Askers(p)
    <2>1. i[q] \in DOMAIN cart[q] /\ cart[q][i[q]].product = p
      BY <1>2, ItemType DEF ItemsChecked
    <2> QED BY <2>1 DEF Askers
  <1>3. ASSUME NEW q \in Requests, NEW j \in Unsaved(q)
        PROVE  j \in DOMAIN cart[q] /\ cart[q][j].product \in listed /\ cart[q][j].quantity > 0
    <2>1. CASE pc[q] = "check"
      <3>1. j \in 1 .. i[q] - 1 BY <2>1 DEF Unsaved
      <3>2. i[q] <= Len(cart[q]) + 1 /\ Passed(q, i[q] - 1) BY <2>1 DEF ItemsChecked
      <3>3. j \in 1 .. Len(cart[q]) BY <1>0, <3>1, <3>2
      <3> QED BY <1>0, <3>1, <3>2, <3>3 DEF Passed
    <2>2. CASE pc[q] \in {"read", "save"}
      <3>1. j \in i[q] .. Len(cart[q]) BY <2>2 DEF Unsaved
      <3>2. Passed(q, Len(cart[q])) BY <2>2 DEF ItemsChecked
      <3>3. j \in 1 .. Len(cart[q]) BY <1>0, <3>1
      <3> QED BY <1>0, <3>2, <3>3 DEF Passed
    <2> QED BY <2>1, <2>2 DEF Unsaved
  <1> QED BY <1>1, <1>2, <1>3 DEF Askers

\* The locks that are left are old, and their holders have not moved.
LocksStay ==
    \A p \in Products : holder'[p] # NoOne =>
      /\ holder'[p] = holder[p] /\ dirty'[p] = dirty[p] /\ taken'[p] = taken[p]
      /\ cart'[holder[p]] = cart[holder[p]] /\ i'[holder[p]] = i[holder[p]]

SavesStay ==
    \A q \in Requests : pc'[q] = "save" =>
      /\ pc[q] = "save" /\ cart'[q] = cart[q] /\ i'[q] = i[q] /\ seen'[q] = seen[q]
      /\ \A p \in Products : Deducted(q, p)' = Deducted(q, p)

UnsavedStay ==
    \A q \in Requests : \A j \in Unsaved(q)' : j \in Unsaved(q) /\ cart'[q] = cart[q]

LEMMA LocksKept == ASSUME LocksAsked, LocksStay PROVE LocksAsked'
  <1> QED BY DEF LocksAsked, LocksStay

LEMMA ExactKept ==
    ASSUME CartsKept, LocksStay, SavesStay, ExactAlone, UNCHANGED <<stock, sold, seed>>
    PROVE  ExactAlone'
  <1> SUFFICES ASSUME NEW p \in Products, Alone(p)'
               PROVE  /\ stock'[p] + sold'[p] = seed'[p]
                      /\ holder'[p] # NoOne => dirty'[p] + taken'[p] + sold'[p] = seed'[p]
                      /\ \A r \in Requests : pc'[r] = "save" /\ Item(r)'.product = p =>
                           seen'[r] + Deducted(r, p)' + sold'[p] = seed'[p]
    BY DEF ExactAlone
  <1>1. Alone(p) BY AloneBefore
  <1>2. \A r \in Requests : pc'[r] = "save" => Item(r)' = Item(r) BY DEF SavesStay, Item
  <1> QED BY <1>1, <1>2 DEF ExactAlone, LocksStay, SavesStay

LEMMA InStockKept ==
    ASSUME CartsKept, LocksStay, UnsavedStay, InStockAlone, UNCHANGED <<stock, seed>>
    PROVE  InStockAlone'
  <1> SUFFICES ASSUME NEW p \in Products, Alone(p)', Once(p)', seed'[p] >= 0
               PROVE  /\ stock'[p] >= 0 /\ (holder'[p] # NoOne => dirty'[p] >= 0)
                      /\ \A r \in Requests : \A j \in Unsaved(r)' :
                           cart'[r][j].product = p => cart'[r][j].quantity <= stock'[p]
    BY DEF InStockAlone
  <1>1. Alone(p) /\ Once(p) BY AloneBefore
  <1> QED BY <1>1 DEF InStockAlone, LocksStay, UnsavedStay

LEMMA AloneKept ==
    ASSUME CartsKept, LocksStay, SavesStay, UnsavedStay, AloneInv,
           UNCHANGED <<stock, sold, seed>>
    PROVE  AloneInv'
  <1> QED BY LocksKept, ExactKept, InStockKept DEF AloneInv

LEMMA AloneInit == Init => AloneInv
  <1> SUFFICES ASSUME Init PROVE AloneInv OBVIOUS
  <1> USE DEF Init
  <1>1. LocksAsked BY DEF LocksAsked
  <1>2. ExactAlone BY DEF ExactAlone
  <1>3. InStockAlone BY DEF InStockAlone, Unsaved
  <1> QED BY <1>1, <1>2, <1>3 DEF AloneInv

LEMMA BeginAlone ==
    ASSUME GoodsInv, BooksInv, AloneInv, NEW r \in Requests, Begin(r)
    PROVE  AloneInv'
  <1> USE DEF GoodsInv
  <1>a. /\ pc[r] = "idle" /\ cart[r] = <<>>
        /\ UNCHANGED <<stock, sold, seed, holder, dirty, taken, seen>>
        /\ \E c \in Carts : cart' = [cart EXCEPT ![r] = c]
        /\ i' = [i EXCEPT ![r] = 1]
        /\ pc' = [pc EXCEPT ![r] = "check"] \/ pc' = [pc EXCEPT ![r] = "done"]
    BY DEF Begin, offerVars, lockVars, tblVars, BooksInv, Answers
  <1>b. \A q \in Requests : q # r => pc'[q] = pc[q] /\ cart'[q] = cart[q] /\ i'[q] = i[q]
    BY <1>a DEF TypeOK
  <1>c. pc'[r] \in {"check", "done"} /\ i'[r] = 1 BY <1>a DEF TypeOK
  <1>1. CartsKept BY <1>a, <1>b DEF CartsKept
  <1>2. LocksStay
    <2>1. \A p \in Products : holder[p] # NoOne => holder[p] \in Requests /\ holder[p] # r
      BY <1>a DEF LocksOwned, TypeOK
    <2> QED BY <2>1, <1>a, <1>b DEF LocksStay
  <1>3. SavesStay BY <1>a, <1>b, <1>c DEF SavesStay, Deducted
  <1>4. UnsavedStay
    <2>1. Unsaved(r)' = {} BY <1>c DEF Unsaved
    <2>2. \A q \in Requests : q # r => Unsaved(q)' = Unsaved(q) BY <1>b DEF Unsaved
    <2> QED BY <2>1, <2>2, <1>b DEF UnsavedStay
  <1> QED BY <1>a, <1>1, <1>2, <1>3, <1>4, AloneKept

LEMMA CheckItemAlone ==
    ASSUME GoodsInv, BooksInv, AloneInv, NEW r \in Requests, CheckItem(r)
    PROVE  AloneInv'
  <1> USE DEF GoodsInv
  <1>a. /\ pc[r] = "check" /\ HasItem(r) /\ Acceptable(r) /\ i' = [i EXCEPT ![r] = @ + 1]
        /\ UNCHANGED <<stock, sold, seed, holder, dirty, taken, seen, pc, cart>>
    BY DEF CheckItem, offerVars, lockVars, tblVars
  <1>b. \A q \in Requests : q # r => i'[q] = i[q] BY <1>a DEF TypeOK
  <1>c. i'[r] = i[r] + 1 /\ i[r] \in Nat \ {0} BY <1>a DEF TypeOK
  <1>1. CartsKept BY <1>a DEF CartsKept
  <1>2. LocksStay
    <2>1. \A p \in Products : holder[p] # NoOne => holder[p] \in Requests /\ holder[p] # r
      BY <1>a DEF LocksOwned, TypeOK
    <2> QED BY <2>1, <1>a, <1>b DEF LocksStay
  <1>3. SavesStay BY <1>a, <1>b DEF SavesStay, Deducted
  <1>4. InStockAlone'
    <2> SUFFICES ASSUME NEW p \in Products, Alone(p)', Once(p)', seed[p] >= 0
                 PROVE  /\ stock[p] >= 0 /\ (holder[p] # NoOne => dirty[p] >= 0)
                        /\ \A q \in Requests : \A j \in Unsaved(q)' :
                             cart[q][j].product = p => cart[q][j].quantity <= stock[p]
      BY <1>a DEF InStockAlone
    <2>1. Alone(p) /\ Once(p) BY <1>1, AloneBefore
    <2>2. \A q \in Requests : q # r => Unsaved(q)' = Unsaved(q) BY <1>a, <1>b DEF Unsaved
    <2>3. \A j \in Unsaved(r)' : j \in Unsaved(r) \/ j = i[r] BY <1>a, <1>c DEF Unsaved
    <2>4. Item(r).product = p => Item(r).quantity <= stock[p]
      <3>1. holder[p] # r BY <1>a, NoOneAssumption DEF LocksOwned
      <3> QED BY <3>1, <1>a DEF Acceptable, Visible
    <2> QED BY <2>1, <2>2, <2>3, <2>4 DEF AloneInv, InStockAlone, Item
  <1> QED BY <1>a, <1>1, <1>2, <1>3, <1>4, LocksKept, ExactKept DEF AloneInv

LEMMA RollbackAlone ==
    ASSUME GoodsInv, BooksInv, AloneInv, NEW r \in Requests, Rollback(r)
    PROVE  AloneInv'
  <1> USE DEF GoodsInv
  <1>a. /\ pc' = [pc EXCEPT ![r] = "done"]
        /\ holder' = [p \in Products |-> IF holder[p] = r THEN NoOne ELSE holder[p]]
        /\ UNCHANGED <<stock, sold, seed, dirty, taken, seen, cart, i>>
    BY DEF Rollback, Release, offerVars, tblVars, locals
  <1>b. \A q \in Requests : q # r => pc'[q] = pc[q] BY <1>a DEF TypeOK
  <1>c. pc'[r] = "done" BY <1>a DEF TypeOK
  <1>1. CartsKept BY <1>a DEF CartsKept
  <1>2. LocksStay BY <1>a DEF LocksStay
  <1>3. SavesStay BY <1>a, <1>b, <1>c, NoOneAssumption DEF SavesStay, Deducted
  <1>4. UnsavedStay
    <2>1. Unsaved(r)' = {} BY <1>c DEF Unsaved
    <2>2. \A q \in Requests : q # r => Unsaved(q)' = Unsaved(q) BY <1>a, <1>b DEF Unsaved
    <2> QED BY <2>1, <2>2, <1>a DEF UnsavedStay
  <1> QED BY <1>a, <1>1, <1>2, <1>3, <1>4, AloneKept

LEMMA CreateRowAlone ==
    ASSUME GoodsInv, BooksInv, AloneInv, NEW r \in Requests, CreateRow(r)
    PROVE  AloneInv'
  <1> USE DEF GoodsInv
  <1>a. /\ pc[r] = "check" /\ ~HasItem(r) /\ pc' = [pc EXCEPT ![r] = "read"]
        /\ i' = [i EXCEPT ![r] = 1]
        /\ UNCHANGED <<stock, sold, seed, holder, dirty, taken, seen, cart>>
    BY DEF CreateRow, offerVars, lockVars, tblVars
  <1>b. \A q \in Requests : q # r => pc'[q] = pc[q] /\ i'[q] = i[q] BY <1>a DEF TypeOK
  <1>c. pc'[r] = "read" /\ i'[r] = 1 BY <1>a DEF TypeOK
  <1>1. CartsKept BY <1>a DEF CartsKept
  <1>2. LocksStay
    <2>1. \A p \in Products : holder[p] # NoOne => holder[p] \in Requests /\ holder[p] # r
      BY <1>a DEF LocksOwned, TypeOK
    <2> QED BY <2>1, <1>a, <1>b DEF LocksStay
  <1>3. SavesStay BY <1>a, <1>b, <1>c DEF SavesStay, Deducted
  <1>4. UnsavedStay
    <2>1. Len(cart[r]) \in Nat /\ i[r] \in Nat BY DEF TypeOK
    <2>2. Unsaved(r)' = 1 .. Len(cart[r]) BY <1>a, <1>c DEF Unsaved
    <2>3. Unsaved(r) = 1 .. i[r] - 1 BY <1>a DEF Unsaved
    <2>4. \A j \in Unsaved(r)' : j \in Unsaved(r) BY <2>1, <2>2, <2>3, <1>a DEF HasItem
    <2>5. \A q \in Requests : q # r => Unsaved(q)' = Unsaved(q) BY <1>a, <1>b DEF Unsaved
    <2> QED BY <2>4, <2>5, <1>a DEF UnsavedStay
  <1> QED BY <1>a, <1>1, <1>2, <1>3, <1>4, AloneKept

LEMMA ReadOfferAlone ==
    ASSUME GoodsInv, BooksInv, AloneInv, NEW r \in Requests, ReadOffer(r)
    PROVE  AloneInv'
  <1> USE DEF GoodsInv
  <1> DEFINE p == Item(r).product
  <1>a. /\ pc[r] = "read" /\ HasItem(r) /\ pc' = [pc EXCEPT ![r] = "save"]
        /\ seen' = [seen EXCEPT ![r] = Visible(r, p)]
        /\ UNCHANGED <<stock, sold, seed, holder, dirty, taken, cart, i>>
    BY DEF ReadOffer, offerVars, lockVars, tblVars
  <1>b. \A q \in Requests : q # r => pc'[q] = pc[q] /\ seen'[q] = seen[q] BY <1>a DEF TypeOK
  <1>c. pc'[r] = "save" /\ seen'[r] = Visible(r, p) BY <1>a DEF TypeOK
  <1>1. CartsKept BY <1>a DEF CartsKept
  <1>2. LocksStay BY <1>a DEF LocksStay
  <1>3. UnsavedStay
    <2>1. \A q \in Requests : Unsaved(q)' = Unsaved(q) BY <1>a, <1>b, <1>c DEF Unsaved
    <2> QED BY <2>1, <1>a DEF UnsavedStay
  <1>4. ExactAlone'
    <2> SUFFICES ASSUME NEW o \in Products, Alone(o)'
                 PROVE  /\ stock[o] + sold[o] = seed[o]
                        /\ holder[o] # NoOne => dirty[o] + taken[o] + sold[o] = seed[o]
                        /\ \A q \in Requests : pc'[q] = "save" /\ Item(q).product = o =>
                             seen'[q] + Deducted(q, o) + sold[o] = seed[o]
      BY <1>a DEF ExactAlone, Item, Deducted
    <2>1. Alone(o) BY <1>1, AloneBefore
    <2>2. /\ stock[o] + sold[o] = seed[o]
          /\ holder[o] # NoOne => dirty[o] + taken[o] + sold[o] = seed[o]
          /\ \A q \in Requests : pc[q] = "save" /\ Item(q).product = o =>
               seen[q] + Deducted(q, o) + sold[o] = seed[o]
      BY <2>1 DEF AloneInv, ExactAlone
    <2>3. o = p => Visible(r, o) + Deducted(r, o) + sold[o] = seed[o]
      BY <2>2, NoOneAssumption DEF Visible, Deducted, TypeOK
    <2> HIDE DEF p
    <2>4. ASSUME NEW q \in Requests, pc'[q] = "save", Item(q).product = o
          PROVE  seen'[q] + Deducted(q, o) + sold[o] = seed[o]
      <3>1. CASE q = r BY <3>1, <2>3, <2>4, <1>c DEF p
      <3>2. CASE q # r BY <3>2, <2>2, <2>4, <1>b
      <3> QED BY <3>1, <3>2
    <2> QED BY <2>2, <2>4
  <1> QED BY <1>a, <1>1, <1>2, <1>3, <1>4, LocksKept, InStockKept DEF AloneInv

LEMMA SaveOfferAlone ==
    ASSUME GoodsInv, BooksInv, AloneInv, NEW r \in Requests, SaveOffer(r)
    PROVE  AloneInv'
  <1> USE DEF GoodsInv
  <1> DEFINE p == Item(r).product
             n == Item(r).quantity
  <1>a. /\ pc[r] = "save" /\ holder[p] \in {r, NoOne} /\ holder' = [holder EXCEPT ![p] = r]
        /\ dirty' = [dirty EXCEPT ![p] = seen[r] - n]
        /\ UNCHANGED <<stock, sold, seed, seen, cart>>
    BY DEF SaveOffer, offerVars, tblVars
  <1>b. /\ HasItem(r) /\ i[r] \in 1 .. Len(cart[r]) /\ Item(r) = cart[r][i[r]]
        /\ Item(r) \in Items /\ i'[r] = i[r] + 1 /\ pc'[r] = "read"
        /\ \A q \in Requests : q # r => pc'[q] = pc[q] /\ i'[q] = i[q] /\
             \A o \in Products : Deducted(q, o)' = Deducted(q, o)
        /\ \A o \in Products : Deducted(r, o)' = Deducted(r, o) + (IF p = o THEN n ELSE 0)
    BY SaveOfferDeducts
  <1>c. p \in Products /\ n \in Int /\ i[r] \in Nat /\ Len(cart[r]) \in Nat
    <2>1. cart[r] \in Seq(Items) /\ i[r] \in Nat BY DEF TypeOK
    <2>2. Item(r).product \in Products /\ Item(r).quantity \in Int BY <1>b DEF Items
    <2> QED BY <2>1, <2>2
  <1> HIDE DEF p, n
  <1>d. holder'[p] = r /\ dirty'[p] = seen[r] - n /\ taken'[p] = Deducted(r, p) + n
    BY <1>a, <1>b, <1>c DEF TypeOK, Deducted
  <1>e. \A o \in Products : o # p =>
          holder'[o] = holder[o] /\ dirty'[o] = dirty[o] /\ taken'[o] = taken[o]
    BY <1>a, <1>c DEF TypeOK, SaveOffer, p
  <1>1. CartsKept BY <1>a DEF CartsKept
  <1>2. LocksAsked'
    <2> SUFFICES ASSUME NEW o \in Products, holder'[o] # NoOne
                 PROVE  \E j \in 1 .. i'[holder'[o]] - 1 : cart[holder'[o]][j].product = o
      BY <1>a DEF LocksAsked
    <2>1. CASE o = p
      <3>1. i[r] \in 1 .. i'[r] - 1 /\ cart[r][i[r]].product = p BY <1>b, <1>c DEF p
      <3> QED BY <3>1, <2>1, <1>d
    <2>2. CASE o # p
      <3>1. holder'[o] = holder[o] /\ holder[o] \in Requests BY <2>2, <1>e DEF TypeOK
      <3>2. PICK j \in 1 .. i[holder[o]] - 1 : cart[holder[o]][j].product = o
        BY <3>1 DEF AloneInv, LocksAsked
      <3>3. i[holder[o]] \in Nat BY <3>1 DEF TypeOK
      <3>4. j \in 1 .. i'[holder[o]] - 1 BY <3>1, <3>3, <1>b
      <3> QED BY <3>1, <3>2, <3>4
    <2> QED BY <2>1, <2>2
  <1>3. ExactAlone'
    <2> SUFFICES ASSUME NEW o \in Products, Alone(o)'
                 PROVE  /\ stock[o] + sold[o] = seed[o]
                        /\ holder'[o] # NoOne => dirty'[o] + taken'[o] + sold[o] = seed[o]
                        /\ \A q \in Requests : pc'[q] = "save" /\ Item(q)'.product = o =>
                             seen[q] + Deducted(q, o)' + sold[o] = seed[o]
      BY <1>a DEF ExactAlone
    <2>1. Alone(o) BY <1>1, AloneBefore
    <2>2. /\ stock[o] + sold[o] = seed[o]
          /\ holder[o] # NoOne => dirty[o] + taken[o] + sold[o] = seed[o]
          /\ \A q \in Requests : pc[q] = "save" /\ Item(q).product = o =>
               seen[q] + Deducted(q, o) + sold[o] = seed[o]
      BY <2>1 DEF AloneInv, ExactAlone
    <2>3. holder'[o] # NoOne => dirty'[o] + taken'[o] + sold[o] = seed[o]
      <3>1. CASE o = p
        <4>1. seen[r] + Deducted(r, p) + sold[p] = seed[p] BY <3>1, <2>2, <1>a DEF p
        <4>2. seen[r] \in Int /\ Deducted(r, p) \in Int /\ sold[p] \in Int /\ seed[p] \in Int
          BY <1>c DEF TypeOK, Deducted
        <4> QED BY <3>1, <4>1, <4>2, <1>c, <1>d
      <3>2. CASE o # p BY <3>2, <1>e, <2>2
      <3> QED BY <3>1, <3>2
    <2>4. \A q \in Requests : pc'[q] = "save" => q # r /\ pc[q] = "save" /\ Item(q)' = Item(q)
      BY <1>a, <1>b DEF Item
    <2> QED BY <2>2, <2>3, <2>4, <1>b
  <1>4. InStockAlone'
    <2> SUFFICES ASSUME NEW o \in Products, Alone(o)', Once(o)', seed[o] >= 0
                 PROVE  /\ stock[o] >= 0 /\ (holder'[o] # NoOne => dirty'[o] >= 0)
                        /\ \A q \in Requests : \A j \in Unsaved(q)' :
                             cart[q][j].product = o => cart[q][j].quantity <= stock[o]
      BY <1>a DEF InStockAlone
    <2>1. Alone(o) /\ Once(o) BY <1>1, AloneBefore
    <2>2. /\ stock[o] >= 0 /\ (holder[o] # NoOne => dirty[o] >= 0)
          /\ \A q \in Requests : \A j \in Unsaved(q) :
               cart[q][j].product = o => cart[q][j].quantity <= stock[o]
      BY <2>1 DEF AloneInv, InStockAlone
    <2>3. \A q \in Requests : \A j \in Unsaved(q)' : j \in Unsaved(q)
      <3>1. Unsaved(r) = i[r] .. Len(cart[r]) /\ Unsaved(r)' = i[r] + 1 .. Len(cart[r])
        BY <1>a, <1>b DEF Unsaved
      <3>2. \A q \in Requests : q # r => Unsaved(q)' = Unsaved(q) BY <1>a, <1>b DEF Unsaved
      <3> QED BY <3>1, <3>2, <1>c
    <2>4. o = p => dirty'[p] >= 0
      <3> SUFFICES ASSUME o = p PROVE dirty'[p] >= 0 OBVIOUS
      <3>1. i[r] \in DOMAIN cart[r] /\ cart[r][i[r]].product = p /\ cart[r][i[r]].quantity = n
        BY <1>b, <1>c DEF p, n, TypeOK
      <3>2. r \in Askers(p) BY <3>1 DEF Askers
      <3>3. holder[p] # r
        <4> SUFFICES ASSUME holder[p] = r PROVE FALSE OBVIOUS
        <4>1. PICK j \in 1 .. i[r] - 1 : cart[r][j].product = p
          BY <1>c, NoOneAssumption DEF AloneInv, LocksAsked
        <4>2. j \in DOMAIN cart[r] /\ j # i[r] BY <4>1, <1>b, <1>c DEF TypeOK
        <4> QED BY <4>1, <4>2, <3>1, <3>2, <2>1 DEF Once
      <3>4. i[r] \in Unsaved(r) BY <1>a, <1>b DEF Unsaved
      <3>5. n <= stock[p] BY <3>1, <3>4, <2>2
      <3>6. seen[r] + 0 + sold[p] = seed[p] /\ stock[p] + sold[p] = seed[p]
        BY <3>3, <2>1, <1>a, <1>c DEF AloneInv, ExactAlone, Deducted, p
      <3>7. seen[r] \in Int /\ stock[p] \in Int /\ sold[p] \in Int /\ seed[p] \in Int
        BY <1>c DEF TypeOK
      <3> QED BY <3>5, <3>6, <3>7, <1>c, <1>d
    <2> QED BY <2>2, <2>3, <2>4, <1>e
  <1> QED BY <1>2, <1>3, <1>4 DEF AloneInv

LEMMA ChargeMarketAlone ==
    ASSUME GoodsInv, BooksInv, AloneInv, NEW r \in Requests, ChargeMarket(r)
    PROVE  AloneInv'
  <1> USE DEF GoodsInv
  <1>a. /\ pc' = [pc EXCEPT ![r] = "commit"]
        /\ UNCHANGED <<stock, sold, seed, holder, dirty, taken, seen, cart, i>>
    BY DEF ChargeMarket, offerVars, lockVars, tblVars, locals
  <1>b. pc'[r] = "commit" /\ \A q \in Requests : q # r => pc'[q] = pc[q] BY <1>a DEF TypeOK
  <1>1. CartsKept BY <1>a DEF CartsKept
  <1>2. LocksStay BY <1>a DEF LocksStay
  <1>3. SavesStay BY <1>a, <1>b DEF SavesStay, Deducted
  <1>4. UnsavedStay
    <2>1. Unsaved(r)' = {} BY <1>b DEF Unsaved
    <2>2. \A q \in Requests : q # r => Unsaved(q)' = Unsaved(q) BY <1>a, <1>b DEF Unsaved
    <2> QED BY <2>1, <2>2, <1>a DEF UnsavedStay
  <1> QED BY <1>a, <1>1, <1>2, <1>3, <1>4, AloneKept

LEMMA CommitAlone ==
    ASSUME GoodsInv, BooksInv, AloneInv, NEW r \in Requests, Commit(r)
    PROVE  AloneInv'
  <1> USE DEF GoodsInv
  <1>a. /\ pc[r] = "commit" /\ pc' = [pc EXCEPT ![r] = "done"]
        /\ holder' = [p \in Products |-> IF holder[p] = r THEN NoOne ELSE holder[p]]
        /\ Install(r) \/ UNCHANGED tblVars
        /\ UNCHANGED <<seed, dirty, taken, seen, cart, i>>
    BY DEF Commit, Release, offerVars, locals
  <1>b. pc'[r] = "done" /\ \A q \in Requests : q # r => pc'[q] = pc[q] BY <1>a DEF TypeOK
  <1>1. CartsKept BY <1>a DEF CartsKept
  <1>2. LocksStay BY <1>a DEF LocksStay
  <1>3. SavesStay BY <1>a, <1>b, NoOneAssumption DEF SavesStay, Deducted
  <1>4. UnsavedStay
    <2>1. Unsaved(r)' = {} BY <1>b DEF Unsaved
    <2>2. \A q \in Requests : q # r => Unsaved(q)' = Unsaved(q) BY <1>a, <1>b DEF Unsaved
    <2> QED BY <2>1, <2>2, <1>a DEF UnsavedStay
  <1>5. CASE Install(r)
    <2>1. /\ stock' = [p \in Products |-> IF holder[p] = r THEN dirty[p] ELSE stock[p]]
          /\ sold' = [p \in Products |-> sold[p] + (IF holder[p] = r THEN taken[p] ELSE 0)]
      BY <1>5 DEF Install
    <2>2. ASSUME NEW p \in Products, holder[p] # r
          PROVE  stock'[p] = stock[p] /\ sold'[p] = sold[p]
      BY <2>1, <2>2 DEF TypeOK
    \* Of a product r alone asks for nobody else holds or is about to save anything.
    <2>3. ASSUME NEW p \in Products, Alone(p), holder[p] = r
          PROVE  /\ \A q \in Requests : pc'[q] = "save" => Item(q).product # p
                 /\ \A q \in Requests : \A j \in Unsaved(q)' : cart[q][j].product # p
      <3>1. r \in Askers(p) BY <2>3, WhoAsks, NoOneAssumption DEF AloneInv
      <3>2. \A q \in Requests : pc[q] = "save" /\ Item(q).product = p => q \in Askers(p)
        BY WhoAsks DEF AloneInv
      <3>3. \A q \in Requests : \A j \in Unsaved(q) : cart[q][j].product = p => q \in Askers(p)
        BY WhoAsks DEF AloneInv
      <3>4. \A q \in Askers(p) : q = r BY <3>1, <2>3 DEF Alone
      <3>5. \A q \in Requests : pc'[q] = "save" => q # r /\ pc[q] = "save" BY <1>b
      <3>6. \A q \in Requests : \A j \in Unsaved(q)' : q # r /\ j \in Unsaved(q)
        BY <1>4, <1>b DEF UnsavedStay, Unsaved
      <3> QED BY <3>2, <3>3, <3>4, <3>5, <3>6
    <2>4. \A q \in Requests : Item(q)' = Item(q) BY <1>a DEF Item
    <2>5. ExactAlone'
      <3> SUFFICES ASSUME NEW p \in Products, Alone(p)'
                   PROVE  /\ stock'[p] + sold'[p] = seed[p]
                          /\ holder'[p] # NoOne => dirty[p] + taken[p] + sold'[p] = seed[p]
                          /\ \A q \in Requests : pc'[q] = "save" /\ Item(q).product = p =>
                               seen[q] + Deducted(q, p)' + sold'[p] = seed[p]
        BY <1>a, <2>4 DEF ExactAlone
      <3>1. Alone(p) BY <1>1, AloneBefore
      <3>2. /\ stock[p] + sold[p] = seed[p]
            /\ holder[p] # NoOne => dirty[p] + taken[p] + sold[p] = seed[p]
            /\ \A q \in Requests : pc[q] = "save" /\ Item(q).product = p =>
                 seen[q] + Deducted(q, p) + sold[p] = seed[p]
        BY <3>1 DEF AloneInv, ExactAlone
      <3>3. CASE holder[p] = r
        <4>1. stock'[p] = dirty[p] /\ sold'[p] = sold[p] + taken[p] /\ holder'[p] = NoOne
          BY <3>3, <2>1, <1>a
        <4>2. dirty[p] \in Int /\ taken[p] \in Int /\ sold[p] \in Int BY DEF TypeOK
        <4> QED BY <4>1, <4>2, <3>1, <3>2, <3>3, <2>3, NoOneAssumption
      <3>4. CASE holder[p] # r
        <4>1. stock'[p] = stock[p] /\ sold'[p] = sold[p] /\ holder'[p] = holder[p]
          BY <3>4, <2>2, <1>a
        <4> QED BY <4>1, <3>2, <1>3 DEF SavesStay
      <3> QED BY <3>3, <3>4
    <2>6. InStockAlone'
      <3> SUFFICES ASSUME NEW p \in Products, Alone(p)', Once(p)', seed[p] >= 0
                   PROVE  /\ stock'[p] >= 0 /\ (holder'[p] # NoOne => dirty[p] >= 0)
                          /\ \A q \in Requests : \A j \in Unsaved(q)' :
                               cart[q][j].product = p => cart[q][j].quantity <= stock'[p]
        BY <1>a DEF InStockAlone
      <3>1. Alone(p) /\ Once(p) BY <1>1, AloneBefore
      <3>2. /\ stock[p] >= 0 /\ (holder[p] # NoOne => dirty[p] >= 0)
            /\ \A q \in Requests : \A j \in Unsaved(q) :
                 cart[q][j].product = p => cart[q][j].quantity <= stock[p]
        BY <3>1 DEF AloneInv, InStockAlone
      <3>3. CASE holder[p] = r
        <4>1. stock'[p] = dirty[p] /\ holder'[p] = NoOne BY <3>3, <2>1, <1>a
        <4> QED BY <4>1, <3>1, <3>2, <3>3, <2>3, NoOneAssumption
      <3>4. CASE holder[p] # r
        <4>1. stock'[p] = stock[p] /\ holder'[p] = holder[p] BY <3>4, <2>2, <1>a
        <4> QED BY <4>1, <3>2, <1>4 DEF UnsavedStay
      <3> QED BY <3>3, <3>4
    <2> QED BY <1>2, <2>5, <2>6, LocksKept DEF AloneInv
  <1>6. CASE UNCHANGED tblVars
    BY <1>6, <1>a, <1>1, <1>2, <1>3, <1>4, AloneKept DEF tblVars
  <1> QED BY <1>a, <1>5, <1>6

\* A new offer is one no request has passed its check for.
LEMMA AddOfferAlone ==
    ASSUME GoodsInv, BooksInv, AloneInv,
           NEW id \in 0 .. MaxOffer, NEW q \in NewStock, NEW c \in NewPrice, AddOffer(id, q, c)
    PROVE  AloneInv'
  <1> USE DEF GoodsInv
  <1> DEFINE new == IF id = 0 THEN offerSeq + 1 ELSE id
  <1>a. /\ new \in Products /\ UNCHANGED <<holder, dirty, taken, pc, cart, i, seen>>
        /\ \/ UNCHANGED <<stock, sold, seed>>
           \/ /\ new \notin listed /\ stock' = [stock EXCEPT ![new] = q]
              /\ seed' = [seed EXCEPT ![new] = q] /\ sold' = [sold EXCEPT ![new] = 0]
    BY DEF AddOffer, lockVars, locals
  <1> HIDE DEF new
  <1>b. q \in Int BY NewOfferAssumption
  <1>1. CartsKept /\ LocksStay BY <1>a DEF CartsKept, LocksStay
  <1>2. SavesStay BY <1>a DEF SavesStay, Deducted
  <1>3. UnsavedStay BY <1>a DEF UnsavedStay, Unsaved
  <1>4. CASE UNCHANGED <<stock, sold, seed>> BY <1>1, <1>2, <1>3, <1>4, AloneKept
  <1>5. CASE /\ new \notin listed /\ stock' = [stock EXCEPT ![new] = q]
             /\ seed' = [seed EXCEPT ![new] = q] /\ sold' = [sold EXCEPT ![new] = 0]
    <2>1. stock'[new] = q /\ seed'[new] = q /\ sold'[new] = 0 BY <1>5, <1>a DEF TypeOK
    <2>2. \A p \in Products : p # new =>
            stock'[p] = stock[p] /\ seed'[p] = seed[p] /\ sold'[p] = sold[p]
      BY <1>5 DEF TypeOK
    <2>3. /\ holder[new] = NoOne
          /\ \A r \in Requests : pc[r] = "save" => Item(r).product # new
          /\ \A r \in Requests : \A j \in Unsaved(r) : cart[r][j].product # new
      <3>1. holder[new] = NoOne BY <1>5, <1>a DEF LocksOwned
      <3>2. \A r \in Requests : pc[r] = "save" => Item(r).product \in listed
        BY PassedItem DEF ItemsChecked
      <3>3. \A r \in Requests : \A j \in Unsaved(r) : cart[r][j].product \in listed
        BY <1>a, WhoAsks DEF AloneInv
      <3> QED BY <1>5, <3>1, <3>2, <3>3
    <2>4. \A r \in Requests : /\ Item(r)' = Item(r) /\ Unsaved(r)' = Unsaved(r)
                              /\ \A p \in Products : Deducted(r, p)' = Deducted(r, p)
      BY <1>a DEF Item, Unsaved, Deducted
    <2>5. \A p \in Products : (Alone(p)' => Alone(p)) /\ (Once(p)' => Once(p))
      BY <1>1, AloneBefore
    <2>6. ExactAlone'
      <3> SUFFICES ASSUME NEW p \in Products, Alone(p)
                   PROVE  /\ stock'[p] + sold'[p] = seed'[p]
                          /\ holder[p] # NoOne => dirty[p] + taken[p] + sold'[p] = seed'[p]
                          /\ \A r \in Requests : pc[r] = "save" /\ Item(r).product = p =>
                               seen[r] + Deducted(r, p) + sold'[p] = seed'[p]
        BY <1>a, <2>4, <2>5 DEF ExactAlone
      <3>1. CASE p = new BY <3>1, <2>1, <2>3, <1>b
      <3>2. CASE p # new BY <3>2, <2>2 DEF AloneInv, ExactAlone
      <3> QED BY <3>1, <3>2
    <2>7. InStockAlone'
      <3> SUFFICES ASSUME NEW p \in Products, Alone(p), Once(p), seed'[p] >= 0
                   PROVE  /\ stock'[p] >= 0 /\ (holder[p] # NoOne => dirty[p] >= 0)
                          /\ \A r \in Requests : \A j \in Unsaved(r) :
                               cart[r][j].product = p => cart[r][j].quantity <= stock'[p]
        BY <1>a, <2>4, <2>5 DEF InStockAlone
      <3>1. CASE p = new BY <3>1, <2>1, <2>3
      <3>2. CASE p # new BY <3>2, <2>2 DEF AloneInv, InStockAlone
      <3> QED BY <3>1, <3>2
    <2> QED BY <1>1, <2>6, <2>7, LocksKept DEF AloneInv
  <1> QED BY <1>a, <1>4, <1>5

LEMMA CrashAlone ==
    ASSUME GoodsInv, BooksInv, AloneInv, Crash
    PROVE  AloneInv'
  <1>a. /\ holder' = [p \in Products |-> NoOne]
        /\ pc' = [r \in Requests |-> IF InTx(r) THEN "done" ELSE pc[r]]
        /\ UNCHANGED <<stock, sold, seed, dirty, taken, seen, cart, i>>
    BY DEF Crash, offerVars, tblVars, locals
  <1>b. \A r \in Requests : pc'[r] \notin {"check", "read", "save"} BY <1>a DEF InTx
  <1>1. CartsKept /\ LocksStay BY <1>a DEF CartsKept, LocksStay
  <1>2. SavesStay BY <1>b DEF SavesStay
  <1>3. \A r \in Requests : Unsaved(r)' = {} BY <1>b DEF Unsaved
  <1>4. UnsavedStay BY <1>3 DEF UnsavedStay
  <1> QED BY <1>a, <1>1, <1>2, <1>4, AloneKept

LEMMA BootAlone ==
    ASSUME GoodsInv, BooksInv, AloneInv, Boot \/ BootFails
    PROVE  AloneInv'
  <1> USE DEF GoodsInv
  <1>a. /\ ~up /\ seed' = stock' /\ sold' = [p \in Products |-> 0]
        /\ UNCHANGED <<holder, pc>>
    BY DEF Boot, BootFails, ResetDatabase, lockVars
  <1>b. stock' \in [Products -> Int] BY BootInv DEF TypeOK
  <1>c. \A r \in Requests : pc'[r] \notin {"check", "read", "save", "commit"}
    BY <1>a DEF DownIsQuiet, InTx
  <1>d. \A p \in Products : holder'[p] = NoOne BY <1>a, <1>c DEF LocksOwned, TypeOK
  <1>1. LocksAsked' BY <1>d DEF LocksAsked
  <1>2. ExactAlone' BY <1>a, <1>b, <1>c, <1>d DEF ExactAlone
  <1>3. \A r \in Requests : Unsaved(r)' = {} BY <1>c DEF Unsaved
  <1>4. InStockAlone' BY <1>a, <1>d, <1>3 DEF InStockAlone
  <1> QED BY <1>1, <1>2, <1>4 DEF AloneInv

LEMMA StutterAlone ==
    ASSUME AloneInv, UNCHANGED <<stock, sold, seed, lockVars, pc, cart, i, seen>>
    PROVE  AloneInv'
  <1>1. CartsKept /\ LocksStay BY DEF CartsKept, LocksStay, lockVars
  <1>2. SavesStay BY DEF SavesStay, Deducted, lockVars
  <1>3. UnsavedStay BY DEF UnsavedStay, Unsaved
  <1> QED BY <1>1, <1>2, <1>3, AloneKept

LEMMA NextAlone == GoodsInv /\ BooksInv /\ AloneInv /\ [Next]_vars => AloneInv'
  <1> SUFFICES ASSUME GoodsInv, BooksInv, AloneInv, [Next]_vars PROVE AloneInv' OBVIOUS
  <1>1. ASSUME NEW r \in Requests, Step(r) PROVE AloneInv'
    <2>1. CASE RefuseItem(r) BY <2>1, RollbackAlone DEF RefuseItem
    <2> QED BY <1>1, <2>1, CheckItemAlone, CreateRowAlone, ReadOfferAlone, SaveOfferAlone,
               ChargeMarketAlone, CommitAlone DEF Step
  <1>2. ASSUME NEW r \in Requests, DBError(r) \/ DeadlockAbort(r) PROVE AloneInv'
    BY <1>2, RollbackAlone DEF DBError, DeadlockAbort
  <1>3. CASE Admin
    <2>1. ASSUME NEW id, NEW s, UpdateOrderStatus(id, s) PROVE AloneInv'
      BY <2>1, StutterAlone DEF UpdateOrderStatus, offerVars, locals
    <2>2. CASE Dashboard
      BY <2>2, StutterAlone DEF Dashboard, DashOffers, DashOrders, DashBalance, offerVars,
                                tblVars, locals
    <2> QED BY <1>3, <2>1, <2>2, AddOfferAlone DEF Admin
  <1>4. CASE UNCHANGED vars BY <1>4, StutterAlone DEF vars, offerVars, tblVars, locals
  <1> QED BY <1>1, <1>2, <1>3, <1>4, BeginAlone, CrashAlone, BootAlone DEF Next

----------------------------------------------------------------------------
(* Theorems *)

\* The books of the market are an invariant of every run: every order is the cart of one
\* request at the listed prices, and the stock sold and the balance are sums over the
\* orders (CreateOrder, UpdateMarketBalance, ResetDatabase).
THEOREM BooksStayInOrder == Spec => []BooksInv
  <1>1. GoodsInv /\ BooksInv /\ [Next]_vars => BooksInv' BY NextBooks
  <1> QED BY BooksInit, StockNeverVanishes, <1>1, PTL DEF Spec

\* The units deducted by committed transactions are the units of the items of the
\* committed orders, whatever interleaves, fails or crashes.
THEOREM OrdersAreDeducted == Spec => []SoldIsOrdered
  <1>1. BooksInv => SoldIsOrdered BY DEF BooksInv
  <1> QED BY BooksStayInOrder, <1>1, PTL

\* The in-memory balance is the opening balance less the committed orders, less what is
\* charged and not committed: a failed Commit is the only way to lose money.
THEOREM BalanceAddsUp == Spec => []BalanceBooked
  <1>1. BooksInv => BalanceBooked BY DEF BooksInv
  <1> QED BY BooksStayInOrder, <1>1, PTL

\* A client answered 200 has its order, once and with its cart and its price; a client
\* answered with a rollback has none.
THEOREM AnswersAreTrue == Spec => []AnsweredOrders
  <1>1. BooksInv => AnsweredOrders
    <2> SUFFICES ASSUME BooksInv, NEW r \in Requests
                 PROVE  LET mine == {o \in orders : o.id = orderId[r]}
                        IN  /\ result[r] = "ok" =>
                                 \E o \in mine : mine = {o} /\ o.items = cart[r]
                                   /\ o.total = Cost(price, cart[r], Len(cart[r]))
                            /\ result[r] = "error" /\ orderId[r] # 0 => mine = {}
      BY DEF AnsweredOrders
    <2> DEFINE mine == {o \in orders : o.id = orderId[r]}
    <2>1. ASSUME result[r] = "ok"
          PROVE  \E o \in mine : mine = {o} /\ o.items = cart[r]
                   /\ o.total = Cost(price, cart[r], Len(cart[r]))
      <3>1. PICK o \in orders : o.id = orderId[r] /\ o.items = cart[r] /\ o.total = total[r]
        BY <2>1 DEF BooksInv, OkHasRow
      <3>2. mine = {o} BY <3>1 DEF BooksInv, OrderRows
      <3>3. total[r] = Cost(price, cart[r], Len(cart[r])) BY <2>1 DEF BooksInv, Loops, LoopsOf
      <3> QED BY <3>1, <3>2, <3>3
    <2>2. ASSUME result[r] = "error", orderId[r] # 0 PROVE mine = {}
      BY <2>2 DEF BooksInv, OrderIds, Current
    <2> QED BY <2>1, <2>2
  <1> QED BY BooksStayInOrder, <1>1, PTL

\* What the dashboard has read and what it will read account for each other.
THEOREM DashboardConsistent == Spec => []DashInv
  <1>1. Init => DashInv
    BY DEF Init, DashInv, NoDash, DashboardStock, DashboardCharged
  <1>2. GoodsInv /\ GoodsInv' /\ BooksInv /\ DashInv /\ [Next]_vars => DashInv' BY NextDash
  <1> QED BY <1>1, <1>2, StockNeverVanishes, BooksStayInOrder, PTL DEF Spec

\* GetDashboardData reads the balance last: no order it shows is missing from the balance
\* it shows, when no offer has a negative price.
THEOREM DashboardShowsCharges == Spec => []DashboardCharged
  <1>1. DashInv => DashboardCharged BY DEF DashInv
  <1> QED BY DashboardConsistent, <1>1, PTL

\* GetDashboardData reads the offers first: the stock and the orders it shows account
\* for the goods put on sale.
THEOREM DashboardShowsStock == Spec => []DashboardStock
  <1>1. DashInv => DashboardStock BY DEF DashInv
  <1> QED BY DashboardConsistent, <1>1, PTL

\* A product that one request asks for is exact at every step of its transaction.
THEOREM AloneStaysExact == Spec => []AloneInv
  <1>1. GoodsInv /\ BooksInv /\ AloneInv /\ [Next]_vars => AloneInv' BY NextAlone
  <1> QED BY AloneInit, <1>1, StockNeverVanishes, BooksStayInOrder, PTL DEF Spec

\* Without overlapping carts CreateOrder loses no update and never sells below zero.
THEOREM NoOverlapNoLoss == Spec => []ExactWhenAlone
  <1>1. GoodsInv /\ BooksInv /\ AloneInv => ExactWhenAlone
    <2> SUFFICES ASSUME GoodsInv, BooksInv, AloneInv, NEW p \in Products, Cardinality(Askers(p)) <= 1
                 PROVE  /\ stock[p] + sold[p] = seed[p]
                        /\ seed[p] >= 0 /\ (\A r \in Askers(p) : Times(r, p) = 1) => stock[p] >= 0
      BY DEF ExactWhenAlone
    <2>1. Alone(p)
      <3>1. Askers(p) \subseteq Begun BY DEF Askers, Begun, BooksInv, Answers
      <3>2. IsFiniteSet(Askers(p)) BY <3>1, FS_Subset DEF BooksInv, Answers
      <3>3. Cardinality(Askers(p)) = 0 \/ Cardinality(Askers(p)) = 1
        BY <3>2, FS_CardinalityType
      <3>4. Askers(p) = {} \/ \E r : Askers(p) = {r}
        BY <3>2, <3>3, FS_EmptySet, FS_Singleton
      <3> QED BY <3>4 DEF Alone
    <2>2. (\A r \in Askers(p) : Times(r, p) = 1) => Once(p)
      <3> SUFFICES ASSUME NEW r \in Askers(p), Times(r, p) = 1
                   PROVE  \A j, k \in DOMAIN cart[r] :
                            cart[r][j].product = p /\ cart[r][k].product = p => j = k
        BY DEF Once
      <3> DEFINE S == {j \in DOMAIN cart[r] : cart[r][j].product = p}
      <3>1. cart[r] \in Seq(Items) BY DEF GoodsInv, TypeOK, Askers
      <3>2. IsFiniteSet(1 .. Len(cart[r])) BY <3>1, FS_Interval
      <3>3. S \subseteq 1 .. Len(cart[r]) BY <3>1
      <3>4. IsFiniteSet(S) BY <3>2, <3>3, FS_Subset
      <3>5. \E j : S = {j} BY <3>4, FS_Singleton DEF Times
      <3> QED BY <3>5
    <2> QED BY <2>1, <2>2 DEF AloneInv, ExactAlone, InStockAlone
  <1> QED BY <1>1, StockNeverVanishes, BooksStayInOrder, AloneStaysExact, PTL

----------------------------------------------------------------------------
(* The transaction is atomic: Market implements AtomicMarket *)

LEMMA SameSums ==
    /\ \A c, p : Atomic!UnitsIn(c, p) = UnitsIn(c, p)
    /\ \A os, p : Atomic!Ordered(os, p) = Ordered(os, p)
    /\ \A list, c, n : Atomic!Cost(list, c, n) = Cost(list, c, n)
  <1>1. \A f, S : Atomic!SumOf(f, S) = SumOf(f, S)
    BY DEF Atomic!SumOf, SumOf, Atomic!MapThenSumSet, MapThenSumSet, Atomic!MapThenFoldSet,
           MapThenFoldSet
  <1>2. \A c, p : Atomic!UnitsIn(c, p) = UnitsIn(c, p)
    BY <1>1 DEF Atomic!UnitsIn, Atomic!UnitsUpTo, UnitsIn, UnitsUpTo
  <1>3. \A os, p : Atomic!Ordered(os, p) = Ordered(os, p)
    BY <1>1, <1>2 DEF Atomic!Ordered, Ordered
  <1>4. \A list, c, n : Atomic!Cost(list, c, n) = Cost(list, c, n)
    BY <1>1 DEF Atomic!Cost, Cost
  <1> QED BY <1>2, <1>3, <1>4

shopVars == <<Atomic!offers, orders, cart, result>>

\* A request that is in its transaction, or has not begun, has no answer.
LEMMA Unanswered ==
    ASSUME BooksInv, NEW r \in Requests, pc[r] # "done"
    PROVE  result[r] = "none"
  <1> QED BY DEF BooksInv, Answers

LEMMA BeginAsks ==
    ASSUME BooksInv, NEW r \in Requests, Begin(r)
    PROVE  \E c \in Carts : Atomic!Ask(r, c)
  <1>1. PICK c \in Carts : cart' = [cart EXCEPT ![r] = c] BY DEF Begin
  <1>2. cart[r] = <<>> /\ result[r] = "none" BY Unanswered DEF Begin, BooksInv, Answers
  <1>3. UNCHANGED <<listed, stock, price, seed, orders>> BY DEF Begin, offerVars, tblVars
  <1>4. UNCHANGED result \/ result' = [result EXCEPT ![r] = "error"] BY DEF Begin
  <1> QED BY <1>1, <1>2, <1>3, <1>4 DEF Atomic!Ask, Atomic!offers

LEMMA OneFails ==
    ASSUME BooksInv, NEW r \in Requests, pc[r] # "done",
           NEW a \in {"error", "unknown", "killed"}, result' = [result EXCEPT ![r] = a],
           UNCHANGED <<listed, stock, price, seed, orders, cart>>
    PROVE  Atomic!Fail({r})
  <1>1. result = [q \in Requests |-> result[q]] BY DEF BooksInv, Answers
  <1>2. result' = [q \in Requests |-> IF q \in {r} THEN a ELSE result[q]] BY <1>1
  <1> QED BY <1>2, Unanswered DEF Atomic!Fail, Atomic!offers

LEMMA RollbackFails ==
    ASSUME BooksInv, NEW r \in Requests, pc[r] # "done", Rollback(r)
    PROVE  Atomic!Fail({r})
  <1> QED BY OneFails DEF Rollback, offerVars, tblVars, locals

\* The committed rows are those of the order's items, and of nothing else.
LEMMA InstallPlaces ==
    ASSUME GoodsInv, GoodsInv', BooksInv, BooksInv', AloneInv, AloneInv',
           NEW r \in Requests, pc[r] = "commit", Install(r),
           NEW a \in {"ok", "unknown"}, result' = [result EXCEPT ![r] = a],
           UNCHANGED <<listed, price, seed, cart>>
    PROVE  \E o \in orders' : Atomic!Place(r, o)
  <1> USE DEF GoodsInv, BooksInv
  <1> DEFINE o == NewOrder(r)
             c == cart[r]
  <1>1. /\ o.id = orderId[r] /\ o.status = "pending" /\ o.items = c /\ o.total = total[r]
        /\ orders' = orders \cup {o}
    BY DEF NewOrder, Install
  <1>2. Past(r) /\ result[r] = "none" BY Unanswered DEF Past
  <1>3. Current(r) BY <1>2 DEF Current, Answers
  <1>4. \A u \in orders : u.id # o.id BY <1>1, <1>2, <1>3 DEF OrderIds
  <1>5. total[r] = Cost(price, c, Len(c)) BY <1>2 DEF Loops, LoopsOf
  <1>6. c \in Seq(Items) BY DEF TypeOK
  <1>7. \A j \in DOMAIN c : c[j].product \in listed /\ c[j].quantity > 0
    BY <1>2, <1>6 DEF Loops, LoopsOf, Passed
  <1>8. ASSUME NEW p \in Products, ~Atomic!Names(c, p) PROVE stock'[p] = stock[p]
    <2>1. holder[p] # r
      <3> SUFFICES ASSUME holder[p] = r PROVE FALSE OBVIOUS
      <3>1. r \in Askers(p) BY WhoAsks, NoOneAssumption DEF AloneInv
      <3> QED BY <3>1, <1>8 DEF Askers, Atomic!Names
    <2> QED BY <2>1 DEF Install
  <1>9. ASSUME NEW p \in Products
        PROVE  Ordered(orders, p) \in Int /\ UnitsIn(c, p) \in Int
               /\ Ordered(orders', p) = Ordered(orders, p) + UnitsIn(c, p)
    <2>1. Rows(orders) /\ Rows(orders') BY DEF Rows, OrderRows
    <2>2. Rows({o}) BY <2>1, <1>1, FS_Singleton DEF Rows
    <2>3. o \notin orders BY <1>4
    <2>4. Ordered(orders \cup {o}, p) = Ordered(orders, p) + UnitsIn(o.items, p)
      BY <2>1, <2>2, <2>3, SumsAddRow
    <2>5. Len(c) \in 0 .. Len(c) BY <1>6
    <2>6. UnitsIn(c, p) \in Int BY <1>6, <2>5, UnitsType DEF UnitsIn
    <2> QED BY <2>1, <2>4, <2>6, <1>1, SumsOfRows
  <1>10. ASSUME NEW p \in Products, Atomic!Sole(p)
         PROVE  stock'[p] = stock[p] - UnitsIn(c, p)
    <2>1. Alone(p) BY <1>10 DEF Atomic!Sole, Atomic!Names, Alone, Askers
    <2>2. Alone(p)' BY <2>1 DEF Alone, Askers
    <2>3. stock[p] + sold[p] = seed[p] /\ stock'[p] + sold'[p] = seed[p]
      BY <2>1, <2>2 DEF AloneInv, ExactAlone
    <2>4. sold[p] = Ordered(orders, p) /\ sold'[p] = Ordered(orders', p) BY DEF SoldIsOrdered
    <2>5. stock[p] \in Int /\ stock'[p] \in Int /\ seed[p] \in Int BY DEF TypeOK
    <2> QED BY <2>3, <2>4, <2>5, <1>9
  <1>11. \A p \in Products : stock'[p] + Ordered(orders', p) >= seed[p]
    BY DEF SoldIsOrdered, GoodsAccounted
  <1> HIDE DEF o, c
  <1>12. /\ o.total = Atomic!Cost(price, c, Len(c))
         /\ \A p \in Products :
              /\ ~Atomic!Names(c, p) => stock'[p] = stock[p]
              /\ Atomic!Sole(p) => stock'[p] = stock[p] - Atomic!UnitsIn(c, p)
              /\ stock'[p] + Atomic!Ordered(orders', p) >= seed[p]
    BY <1>1, <1>5, <1>8, <1>10, <1>11, SameSums
  <1>13. Atomic!Place(r, o) BY <1>1, <1>2, <1>4, <1>7, <1>12 DEF Atomic!Place, c
  <1> QED BY <1>1, <1>13

LEMMA CommitPlacesOrFails ==
    ASSUME GoodsInv, GoodsInv', BooksInv, BooksInv', AloneInv, AloneInv',
           NEW r \in Requests, Commit(r)
    PROVE  (\E o \in orders' : Atomic!Place(r, o)) \/ Atomic!Fail({r})
  <1>1. pc[r] = "commit" /\ UNCHANGED <<listed, price, seed, cart>>
    BY DEF Commit, offerVars, locals
  <1>2. CASE Install(r) /\ \E a \in {"ok", "unknown"} : result' = [result EXCEPT ![r] = a]
    BY <1>1, <1>2, InstallPlaces
  <1>3. CASE UNCHANGED tblVars /\ result' = [result EXCEPT ![r] = "unknown"]
    BY <1>1, <1>3, OneFails DEF tblVars
  <1> QED BY <1>2, <1>3 DEF Commit

LEMMA CrashFails ==
    ASSUME BooksInv, Crash
    PROVE  \E S \in SUBSET Requests : Atomic!Fail(S)
  <1> DEFINE S == {r \in Requests : InTx(r)}
  <1>1. \A r \in S : result[r] = "none" BY Unanswered DEF InTx
  <1>2. result' = [r \in Requests |-> IF r \in S THEN "killed" ELSE result[r]] BY DEF Crash
  <1>3. UNCHANGED <<listed, stock, price, seed, orders, cart>>
    BY DEF Crash, offerVars, tblVars, locals
  <1> HIDE DEF S
  <1>4. Atomic!Fail(S) BY <1>1, <1>2, <1>3 DEF Atomic!Fail, Atomic!offers
  <1> QED BY <1>4 DEF S

LEMMA AddOfferOffers ==
    ASSUME GoodsInv, NEW id, NEW q, NEW c, AddOffer(id, q, c)
    PROVE  (\E p \in Products : Atomic!Offer(p, stock'[p], price'[p])) \/ UNCHANGED shopVars
  <1> DEFINE new == IF id = 0 THEN offerSeq + 1 ELSE id
  <1>1. new \in Products /\ UNCHANGED <<orders, cart, result>>
    BY DEF AddOffer, locals
  <1>2. \/ UNCHANGED <<listed, stock, price, seed>>
        \/ /\ new \notin listed /\ listed' = listed \cup {new}
           /\ stock' = [stock EXCEPT ![new] = q] /\ price' = [price EXCEPT ![new] = c]
           /\ seed' = [seed EXCEPT ![new] = q]
    BY DEF AddOffer
  <1> HIDE DEF new
  <1>3. CASE UNCHANGED <<listed, stock, price, seed>>
    BY <1>1, <1>3 DEF shopVars, Atomic!offers
  <1>4. CASE /\ new \notin listed /\ listed' = listed \cup {new}
             /\ stock' = [stock EXCEPT ![new] = q] /\ price' = [price EXCEPT ![new] = c]
             /\ seed' = [seed EXCEPT ![new] = q]
    <2>1. stock'[new] = q /\ price'[new] = c BY <1>1, <1>4 DEF GoodsInv, TypeOK
    <2>2. Atomic!Offer(new, stock'[new], price'[new]) BY <1>1, <1>4, <2>1 DEF Atomic!Offer
    <2> QED BY <1>1, <2>2
  <1> QED BY <1>2, <1>3, <1>4

LEMMA UpdateRestates ==
    ASSUME NEW id, NEW s \in Statuses, UpdateOrderStatus(id, s)
    PROVE  (\E o \in orders : Atomic!Restate(o.id, s)) \/ UNCHANGED shopVars
  <1>1. /\ orders' = {IF o.id = id THEN [o EXCEPT !.status = s] ELSE o : o \in orders}
        /\ UNCHANGED <<listed, stock, price, seed, cart, result>>
    BY DEF UpdateOrderStatus, offerVars, locals
  <1>2. CASE \E o \in orders : o.id = id
    BY <1>1, <1>2 DEF Atomic!Restate, Atomic!offers
  <1>3. CASE \A o \in orders : o.id # id
    <2>1. orders' = orders BY <1>1, <1>3
    <2> QED BY <1>1, <2>1 DEF shopVars, Atomic!offers
  <1> QED BY <1>2, <1>3

LEMMA BootResets == Boot \/ BootFails => Atomic!Reset
  <1> QED BY DEF Boot, BootFails, ResetDatabase, locals, Atomic!Reset

LEMMA ShopStep ==
    GoodsInv /\ GoodsInv' /\ BooksInv /\ BooksInv' /\ AloneInv /\ AloneInv' /\ [Next]_vars
      => [Atomic!Next]_shopVars
  <1> SUFFICES ASSUME GoodsInv, GoodsInv', BooksInv, BooksInv', AloneInv, AloneInv', [Next]_vars
               PROVE  [Atomic!Next]_shopVars
    OBVIOUS
  <1>1. ASSUME UNCHANGED <<offerVars, tblVars, cart, result>> PROVE UNCHANGED shopVars
    BY <1>1 DEF offerVars, tblVars, shopVars, Atomic!offers
  <1>2. ASSUME NEW r \in Requests, Rollback(r), pc[r] # "done" PROVE Atomic!Next
    BY <1>2, RollbackFails DEF Atomic!Next
  <1>3. ASSUME NEW r \in Requests, Begin(r) PROVE Atomic!Next
    BY <1>3, BeginAsks DEF Atomic!Next
  <1>4. ASSUME NEW r \in Requests, Step(r) PROVE Atomic!Next \/ UNCHANGED shopVars
    <2>1. CASE Commit(r) BY <2>1, CommitPlacesOrFails DEF Atomic!Next
    <2>2. CASE RefuseItem(r) BY <2>2, <1>2 DEF RefuseItem
    <2>3. CASE CheckItem(r) BY <2>3, <1>1 DEF CheckItem
    <2>4. CASE CreateRow(r) BY <2>4, <1>1 DEF CreateRow
    <2>5. CASE ReadOffer(r) BY <2>5, <1>1 DEF ReadOffer
    <2>6. CASE SaveOffer(r) BY <2>6, <1>1 DEF SaveOffer
    <2>7. CASE ChargeMarket(r) BY <2>7, <1>1 DEF ChargeMarket, locals
    <2> QED BY <1>4, <2>1, <2>2, <2>3, <2>4, <2>5, <2>6, <2>7 DEF Step
  <1>5. ASSUME NEW r \in Requests, DBError(r) \/ DeadlockAbort(r) PROVE Atomic!Next
    <2>1. Rollback(r) /\ pc[r] # "done"
      BY <1>5 DEF DBError, DeadlockAbort, Deadlock, Closed, Waiting
    <2> QED BY <2>1, <1>2
  <1>6. CASE Admin
    <2>1. ASSUME NEW id, NEW q, NEW c, AddOffer(id, q, c) PROVE Atomic!Next \/ UNCHANGED shopVars
      BY <2>1, AddOfferOffers DEF Atomic!Next
    <2>2. ASSUME NEW id, NEW s \in Statuses, UpdateOrderStatus(id, s)
          PROVE  Atomic!Next \/ UNCHANGED shopVars
      BY <2>2, UpdateRestates DEF Atomic!Next
    <2>3. CASE Dashboard
      BY <2>3, <1>1 DEF Dashboard, DashOffers, DashOrders, DashBalance, locals
    <2> QED BY <1>6, <2>1, <2>2, <2>3 DEF Admin
  <1>7. CASE Crash BY <1>7, CrashFails DEF Atomic!Next
  <1>8. CASE Boot \/ BootFails BY <1>8, BootResets DEF Atomic!Next
  <1>9. CASE UNCHANGED vars BY <1>9, <1>1 DEF vars, locals
  <1> QED BY <1>3, <1>4, <1>5, <1>6, <1>7, <1>8, <1>9 DEF Next

\* CreateOrder implements an atomic checkout: every step of the market places one whole
\* order, refuses or loses a request without a trace, or changes nothing of the tables.
THEOREM CheckoutIsAtomic == Spec => ImplementsAtomicMarket
  <1>1. Init => Atomic!Init BY DEF Init, Atomic!Init
  <1> QED BY <1>1, ShopStep, StockNeverVanishes, BooksStayInOrder, AloneStaysExact, PTL
          DEF Spec, ImplementsAtomicMarket, Atomic!Spec, shopVars

=============================================================================
