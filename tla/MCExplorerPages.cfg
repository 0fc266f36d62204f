SPECIFICATION Spec
CONSTANTS
  Channels = {c1, c2}
  Default = c1
  Pages = {"dashboard", "info", "blocks", "transactions", "orderers", "peers", "cas", "channels"}
  Panels = {"blocks", "transactions"}
  Names <- TheNames
  Blank = Blank
  Refused = Refused
  Before <- TheBlocks
  MaxHeight = 2
  MaxEvents = 2
CHECK_DEADLOCK FALSE
INVARIANTS
  FiguresOfSelected
  FiguresAddUp
  TablesAreWhole
  HashesNotOlder
