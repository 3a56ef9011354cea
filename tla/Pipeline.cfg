SPECIFICATION Spec
CONSTANTS
  Keys = {"DATABASE_URL", "ANTHROPIC_API_KEY"}
  NoRequest = NoRequest
  Required = {"DATABASE_URL"}
  Files <- AllFiles
  Environments <- AllEnvironments
INVARIANTS TypeOK SettingsComeFromTheirSource ListensOnlyWhenReady LoggedAsSent AllowedOriginReadsEveryAnswer
