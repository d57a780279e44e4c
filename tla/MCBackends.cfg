\* Three clients, two keys, each backend and each table.
CONSTANTS
  c1 = c1
  c2 = c2
  c3 = c3
  k1 = k1
  k2 = k2
  Clients <- MCClients
  Keys <- MCKeys
  NoView = NoView
SPECIFICATION Spec
INVARIANTS NoDoubleClaim LoadsMeetContract RowsReachable
SYMMETRY MCSymmetry
