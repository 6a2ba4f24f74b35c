SPECIFICATION Spec
CONSTANTS
  c1 = c1
  c2 = c2
  a1 = a1
  a2 = a2
  Container = {c1}
  Address = {a1, a2}
  AddressesOf <- Moving
  MaxBytes = 2
  NoClient = NoClient
  NoCounter = NoCounter
  NoAddress = NoAddress
  NoTotal = NoTotal
  NoBaseline = NoBaseline
PROPERTIES
  MovedClientStartsAtZero
