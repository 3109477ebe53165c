SPECIFICATION ConsoleSpec
CONSTANTS
  TEXT_WIDTH = 4
  TEXT_HEIGHT = 4
  Prompt <- MCPrompt
  Outputs <- MCOutputs
  MaxTyped = 4
INVARIANTS
  FrameShowsLine
  ConsoleInv
PROPERTY ImplementsLineEditor
CHECK_DEADLOCK FALSE
