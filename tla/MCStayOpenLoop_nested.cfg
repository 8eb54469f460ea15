SPECIFICATION Spec
CONSTANTS
  NL = NL
  NoOption = NoOption
  Executes = {"-execute", "-execute7"}
  Numbered = {"-execute7"}
  PlainOptions = {"-o"}
  CommonArgs <- OneCommonArg
  Raising <- OneBadCommand
  Main = "A"
  Scripts <- GoodScripts
  Counts <- OneToTwenty
  MaxDepth = 4
CHECK_DEADLOCK FALSE
INVARIANTS TypeOK RunsAsOrdered StacksAgree ReplayAsOrdered DriversAgree NoLostWakeup
PROPERTIES AllOrdersObeyed LineByLine
