SPECIFICATION Spec
CONSTANTS
  None = None
  x1 = x1
  x2 = x2
  Proxies = {x1, x2}
  Workers = {w1, w2}
  KeyOf <- MCKeyOf
  Authorized = {x1}
  Repositories = {r1, r2}
  Configs <- MCConfigs
  Realms = {"auth"}
  IncludeUpstreamAuth = TRUE
  StoreKeys = {k1, k2}
  Lifetimes = {0, 3}
  DefaultTTL = 1
  Skew = 1
  MaxEntries = 2
  MaxUpdates = 1
  MaxTime = 1
SYMMETRY Symmetry
INVARIANTS SecretsStayWithTheirHost BundleForItsProxy TokensKeptApart TokenCacheBounded
PROPERTY LiveTokensKept
