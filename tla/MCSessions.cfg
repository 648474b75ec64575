SPECIFICATION Spec
CONSTANTS
  r1 = r1
  r2 = r2
  u1 = u1
  jwt1 = jwt1
  raw1 = raw1
  None = None
  Reqs <- TwoRequests
  Users <- OneUser
  Tokens <- JwtAndRaw
  Raw <- OneRaw
  Roles <- UserOnly
SYMMETRY RequestsAreAlike
INVARIANTS
  TypeOK
  GrantsAreJustified
  TokensPinTheirUser
PROPERTIES
  ImplementsApprovals
