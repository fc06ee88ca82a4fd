CONSTANTS
  Users = {u1, u2}
  Domains = {d1, d2}
  Ids = {i1, i2}
  Hostnames = {h1, h2}
  Calls = {c1, c2}
  MaxDomains = 1
  None = None
SPECIFICATION DomainsSpec
SYMMETRY Symmetry
INVARIANTS TypeOK LimitsHold ServedIsProven StoresAgree
