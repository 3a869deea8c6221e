SPECIFICATION Spec
CONSTANTS
  r1 = r1
  r2 = r2
  r3 = r3
  NoReq = NoReq
  Reqs = {r1, r2, r3}
  Blocks = {1, 2, 3}
  BlockSize = 2
  Window = 2
  MaxEntries = 2
  MaxBytes = 6
  Trimmable = TRUE
  Tiers = {"trie", "paged"}
  Prompt <- Growing
  Vocab = {2}
  Embedder = TRUE
  RetryAfterOutput = FALSE
  MaxOut = 1
  MaxFaults = 1
  MaxCalls = 3
INVARIANTS
  TypeOK
  TrieAccounts
  TrieOwnRows
  KeyedByTokens
  PagedAccounts
PROPERTIES
  SharedIsStable
  PinnedStays
CHECK_DEADLOCK FALSE
