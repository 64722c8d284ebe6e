SPECIFICATION Spec
CONSTANTS
  MaxTokens = 33
  Texts <- MCTexts
  Number <- MCNumber
  GoodKeys = {"K"}
  ShortKeys = {"short"}
  Default = "default"
  Blank = "blank"
  Noise = "noise"
  LongName = {"long"}
  Hash <- MCHash
  Addresses <- MCAddresses
  Garbage <- MCGarbage
  Files <- MCFiles
INVARIANTS TypeOK TokensRight InOrder LosesOnlyLast AcceptedIff RegistrySound
CHECK_DEADLOCK FALSE
