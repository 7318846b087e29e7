SPECIFICATION Spec
CONSTANTS
  Accounts = {u1, c1}
  Contracts = {c1}
  NullAddress = null
  Allowlists = {al, al2}
  ActiveAllowlists = {al}
  AllowlistUsers = {u1}
  Texts = {x, y}
  MaxTerms = 2
  AllowlistAdmins = {c1}
  AllowlistSetters = {c1}
  Blocklists = {bl}
  SanctionsLists = {sl}
  Listable = {u1}
  Amounts = {1}
  UintMax = 2
  Owners = {u1}
  Spenders = {c1}
  MaxSupply = 1
  MaxEntitled = 2
  Minters = {c1}
  Burners = {c1}
  Pausers = {c1}
  ListConfigurers = {c1}
INVARIANTS SpentWithinApprovals ConsentedToAValidTerm
PROPERTIES RestrictedBalancesStay ImplementsRestrictions
