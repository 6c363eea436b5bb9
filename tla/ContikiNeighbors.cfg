CONSTANTS
  Slot = {0, 1}
  Lladdr = {a, b, c}
  Table = {neighbors, routes, parents}
  None = None
  Route = {r1, r2, r3}
  h1 = h1
  h2 = h2
  net = net
  Dest = {h1, h2, net}
  Covers <- HostsAndNet
  ds6_neighbors = neighbors
  nbr_routes = routes
SPECIFICATION MCSpec
SYMMETRY Alike
INVARIANTS
  ItemsOfTheirNeighbor
  RoutesOfTheirNeighbor
  AllRoutesWalked
PROPERTIES
  NeighborTablesSpec
