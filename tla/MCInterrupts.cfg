SPECIFICATION FairSpec
CONSTANTS
  Processes = {1, 2, 3}
  Irqs <- IrqLines
  Faults <- RaisedFaults
INVARIANTS
  NoInterruptTooEarly
  FrameTrue
  RegistersOwn
  InterruptsInv
PROPERTY EveryRequestServed
