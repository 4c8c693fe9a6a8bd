\* Two places, ids up to 3, of which 3 is temporary; sessions of 5 commands.
SPECIFICATION Spec
CONSTANTS
  Spots = {a, b}
  NoNode = NoNode
  Torn = Torn
  TempId = 2
  MaxId = 3
  MaxCommands = 5
INVARIANTS GraphInv PathsAreShortest
PROPERTY IdsKeepTheirPlace
