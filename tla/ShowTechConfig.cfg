SPECIFICATION VtyshSpec
CONSTANTS
  Files <- MCFiles
  None = None
  Uncopied = {"f1", "a"}
  Talkative <- MCTalkative
  Daemons = {"d1", "d2"}
  Levels = {"info", "dbg"}
  Default <- MCDefault
  Mappings <- MCMappings
  Commands <- MCCommands
  Blank = Blank
  MaxTroubles = 2
INVARIANTS
  TypeOK
  ConfigIsFile
  
  LevelsAreShown
  AllAreAsked
PROPERTY
  CommandReturns
CHECK_DEADLOCK FALSE
