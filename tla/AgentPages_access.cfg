CONSTANTS
  owner = owner  viewer = viewer  alice = alice  bob = bob
  chosen = chosen  made = made  g1 = g1  g2 = g2
  r1 = r1  r2 = r2
  Requests = {r1, r2}
  Keys = {owner, viewer}
  Emails = {alice, bob}
  Codes = {chosen, made, g1, g2}
  Edits <- AllEdits
  Pairable = {owner}
  Asks <- AllAsks
  None = None
  Broken = Broken
SPECIFICATION PageSpec
SYMMETRY Symmetry
INVARIANTS TypeOK ServedWhenEntitled OwnersWordLasts
