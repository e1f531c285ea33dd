SPECIFICATION PartSpec
CONSTANTS
  t1 = t1
  t2 = t2
  a = a
  b = b
  Threads <- MCThreads
  Bytes <- MCBytes
  Messages <- MCMessages
  NoThread = NoThread
  MaxBytes = 1
  CodecArrays <- MCArrays
  CodecTexts <- MCTexts
  CodecNumbers <- MCNumbers
  PtrSize = 2
  Garbage <- MCGarbage
  Commands <- MCCommands
  Errors <- MCErrors
  Bodies <- MCBodies
  MaxRead = 8
SYMMETRY MCSymmetry
INVARIANTS IoInv TextIsBack FramesAgree
PROPERTY AtomicQueues
