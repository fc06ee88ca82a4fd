CONSTANTS
  name = name
  Users = {u1, u2}
  Names = {name}
  NameOf <- SameName
  ApiTokens = {t1}
  Requests = {r1}
  SigningKeys = {k1, k2}
  Life = 2
  None = None
SPECIFICATION Spec
INVARIANTS TypeOK RevokedNeverPasses LapsedStayOut
PROPERTY TokensAcceptedAgain
