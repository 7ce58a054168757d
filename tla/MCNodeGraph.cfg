CONSTANTS
  n1 = n1
  n2 = n2
  n3 = n3
  n1i = n1i
  n1o = n1o
  n2i = n2i
  n2o = n2o
  n3i = n3i
  n3o = n3o
  Node = {n1, n2, n3}
  Pin = {n1i, n1o, n2i, n2o, n3i, n3o}
  SourcePin = {n1o, n2o, n3o}
  Owner <- OwnerOfPin
  Key <- SameKey
  Link = {l1, l2, l3, l4}
  NoPin = NoPin
SPECIFICATION GraphSpec
INVARIANTS LinksAndPinsAgree SortFindsAnOrder
PROPERTY UnregisterUnlinks
