SPECIFICATION BoundedSpec
CONSTANTS
  o1 = o1
  p1 = p1
  d1 = d1
  d2 = d2
  r1 = r1
  Orders = {o1}
  Products = {p1}
  Lines <- TwoLines
  Slots = {d1, d2}
  NoEvent = none
  Quantities = {2}
  MaxCopies = 1
  MaxLosses = 1
  Requests = {r1}
  Identified = {r1}
  Asked <- Wants
  Calls = {1, 2}
  NoRequest = none
  MaxCalls = 2
INVARIANTS MessagesAccounted AppliedOnce RetriesAgree
PROPERTIES NeverOversold QueueDrains
