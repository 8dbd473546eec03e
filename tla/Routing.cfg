SPECIFICATION Spec
CONSTANTS
  o1 = o1
  o2 = o2
  pool = pool
  sendii = sendii
  bike = bike
  car = car
  van = van
  n1 = n1
  n2 = n2
  a1 = a1
  a2 = a2
  Orders = {o1, o2}
  Admins = {a1, a2}
  Providers = {pool, sendii}
  Vehicles = {bike, car, van}
  Nodes = {n1, n2}
  InHouse = pool
  Registered = {pool, sendii}
  Offers <- MCOffers
  KeyOrder <- MCKeyOrder
  Parcels <- MCParcels
  Parcel <- MCParcel
  Origin <- MCOrigin
  Km <- MCKm
  Earlier = {o2}
  FirstSettings <- MCFirstSettings
  FirstRules <- MCFirstRules
  Edits <- MCEdits
  RuleEdits <- MCRuleEdits
  MaxEdits = 2
  NoVehicle = NoVehicle
  NoProvider = NoProvider
  NoLimit = NoLimit
INVARIANTS
  WaitsOnlyWhenTried
  CarrierHasTheVehicle
SYMMETRY Symmetric
CHECK_DEADLOCK FALSE
