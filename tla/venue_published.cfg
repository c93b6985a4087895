SPECIFICATION VenueSafeSpec
CONSTANTS
  Orders = {o1, o2}
  Prices = {1, 2}
  Quantities = {1}
  Prompt = TRUE
INVARIANT TradesPublished
