SPECIFICATION Spec
CONSTANTS
  oss = oss
  lfm = lfm
  coder = coder
  llama = llama
  groq = groq
  openrouter = openrouter
  NoModel = NoModel
  NoSession = NoSession
  CloudModels = {oss, lfm}
  LocalModels = {coder, llama}
  Provider <- MCProvider
  Openrouter = openrouter
  Cheapest = lfm
  Offload = oss
  Role <- MCRole
  Default <- MCDefault
  Alias = llama
  Template <- MCTemplate
  NameTemplate <- MCNameTemplate
  Bodies <- OneOfEach
  Errors <- AllErrors
  Tasks = {"coding", "image"}
  MaxResults = 1
\* Each of these is refuted; check one at a time.
INVARIANT ErrorBlocksCompletion
\* INVARIANT PromptFitsModel
\* INVARIANT ExhaustedIsLocal
\* PROPERTY ReductionIsSent
