\* Two requests of the three routes at a time over two providers, one of them litellm's choice:
\* disabled after each failure, longer from the second on; a stream is committed at its second chunk.
SPECIFICATION FairSpec
CONSTANTS
  FailureThreshold = 1
  AuthThreshold = 1
  BaseCooldown = 1
  MaxCooldown = 2
  Requests = {a, b}
  Kinds = {"query", "chat", "stream"}
  Providers = {"groq", "mistral"}
  Deployed = {"groq"}
  Limited = {}
  NoProvider = NoProvider
  CommitAt = 2
  MaxChunks = 3
INVARIANTS TypeOK RenewalsBounded
PROPERTIES CooldownRunsOff Recovers FollowsStream
CHECK_DEADLOCK FALSE
