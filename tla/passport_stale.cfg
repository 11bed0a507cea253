SPECIFICATION Spec
CONSTANTS
  k1 = k1
  k2 = k2
  k3 = k3
  july = july
  august = august
  TemplateKid = july
  NoKey = NoKey
  NoKid = NoKid
  NoJwk = NoJwk
  Keys = {k1, k2, k3}
  KidOf <- MCKidOf
  Modes <- Both
  Verifiers = {v1}
  MaxDeploys = 1
INVARIANT DashboardKeyWins
CHECK_DEADLOCK FALSE
