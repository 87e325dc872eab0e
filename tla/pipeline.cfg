SPECIFICATION FairSpec
CONSTANTS
  oss = oss
  lfm = lfm
  coder = coder
  llama = llama
  groq = groq
  openrouter = openrouter
  NoModel = NoModel
  NoSession = NoSession
  CloudModels = {oss, lfm}
  LocalModels = {coder, llama}
  Provider <- MCProvider
  Openrouter = openrouter
  Cheapest = lfm
  Offload = oss
  Role <- MCRole
  Default <- MCDefault
  Alias = llama
  Template <- MCTemplate
  NameTemplate <- MCNameTemplate
  Bodies <- FewBodies
  Errors <- FewErrors
  Tasks = {"coding", "image"}
  MaxResults = 2
INVARIANT OfflineAnswered
INVARIANT FailureIsLastAnswer
INVARIANT KeptIsUnfinished
INVARIANT LocalIsLast
PROPERTY Answered
