SPECIFICATION FairSpec
CONSTANTS
    MaxOffer = 3
    NumSeeds = 2
    Supplies <- BootStock
    SeedPrice <- PriceList
    Requests = {r1, r2}
    Carts <- OddCarts
    NewStock = {1}
    NewPrice = {5}
    Statuses = {"shipped"}
    NoOne = NoOne
INVARIANTS GoodsInv SoldIsOrdered BooksInv DashInv AloneInv BalanceBooked AnsweredOrders DashboardCharged DashboardStock ExactWhenAlone
PROPERTIES CheckoutsEnd ImplementsAtomicMarket
