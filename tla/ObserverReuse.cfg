CONSTANTS
  c1 = c1  c2 = c2
  o1 = o1  o2 = o2  k1 = k1
  None = None
  Calls = {c1, c2}
  Observers = {o1, o2}
  Contracts = {k1}
  ObserverOf <- MCOwnObservers
  Ids = {0, 1, 2}
  IdOf <- MCReusedId
  ContractOf <- MCContractOf
  AutoAllowed = {}
  Faults = {"append"}
SPECIFICATION Spec
INVARIANTS EachObserverIsTold
