\* One query, a provider disabled after one failure: which provider is called?
SPECIFICATION Spec
CONSTANTS
  FailureThreshold = 1
  AuthThreshold = 1
  BaseCooldown = 1
  MaxCooldown = 1
  Requests = {a}
  Kinds = {"query"}
  Providers = {"groq", "mistral"}
  Deployed = {"groq", "mistral"}
  Limited = {}
  NoProvider = NoProvider
  CommitAt = 1
  MaxChunks = 0
INVARIANTS OnlyOrderedProviders
CHECK_DEADLOCK FALSE
