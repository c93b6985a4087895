\* No symmetry: it is not sound for liveness.
SPECIFICATION VenueSpec
CONSTANTS
  Orders = {o1, o2, o3}
  Prices = {1, 2}
  Quantities = {1, 2}
  Prompt = TRUE
INVARIANTS VenueTypeOK NothingCarriedOver OpenOrdersAreKept
PROPERTIES AuctionKeepsPriority AuctionTradesAll BatchIsExecuted
