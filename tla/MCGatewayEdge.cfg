SPECIFICATION LiveEdgeSpec
CONSTANTS
  Exchanges = {e1, e2, e3}
  Pool = 2
  Limit = 2
  MaxChunk = 3
  CredentialFiles <- MCFiles
  Tokens = {"t1", "t2", "t3"}
  RequestIds = {r1, r2}
  None = None
  Unsafe = Unsafe
INVARIANTS AnswersNameTheirRequest
PROPERTIES QueuedAnswered SweepsRun
