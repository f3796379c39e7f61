SPECIFICATION Spec
CONSTANTS
  Size = 3
  Keys = {"up", "sharp", "star"}
  Items <- Menu
  Rows = 1
  Fields = 1
  Grace = 1
  Timeout = 2
PROPERTY SecondSharpActs
