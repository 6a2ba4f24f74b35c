SPECIFICATION Spec
CONSTANTS
  c1 = c1
  c2 = c2
  a1 = a1
  a2 = a2
  Container = {c1, c2}
  Address = {a1}
  AddressesOf <- Reused
  MaxBytes = 3
  NoClient = NoClient
  NoCounter = NoCounter
  NoAddress = NoAddress
  NoTotal = NoTotal
  NoBaseline = NoBaseline
INVARIANTS
  NeverOvercounts
  
