SPECIFICATION FairSpec
CONSTANTS
  a = a
  b = b
  Ids = {a}
  Articles <- MCArticles
  Fixtures <- MCFixtures
  NoArticle = NoArticle
  Credentials <- MCCredentials
  Profiles <- MCProfiles
  Options <- MCOptions
  EmptyId = ""
  EnableTestControl = TRUE
  StorageFails = TRUE
  Commands <- MCCommands
  Pipelined <- MCPipelined
  Window = 2
INVARIANTS TypeOK ReadsBackWhatWasPosted OnlyControlChannelsUncounted
PROPERTIES StoredAsPosted LinesKeepTheirMeaning OnlyWhileLoggedIn ReauthenticationBinds ChaosAsWritten HangUpEndsSession
