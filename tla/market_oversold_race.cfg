SPECIFICATION Spec
CONSTANTS
    MaxOffer = 1
    NumSeeds = 1
    Supplies <- OneUnit
    SeedPrice <- PriceList
    Requests = {r1, r2}
    Carts <- OneCart
    NewStock = {}
    NewPrice = {}
    Statuses = {}
    NoOne = NoOne
INVARIANT NeverOversold
