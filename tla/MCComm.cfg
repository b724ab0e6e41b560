\* A ring of four slots, a table with two overflow slots used by two clients, two files.
SPECIFICATION CommSpec
CONSTANTS
  Cap = 4
  Items = {a, b}
  NoItem = NoItem
  f1 = f1
  f2 = f2
  r1 = r1
  r2 = r2
  r3 = r3
  Files <- MCFiles
  Readers <- MCReaders
  File <- MCFile
  NonBlock <- MCNonBlock
  QueueMax = 2
  MaxMsgs = 3
  Clients = {c1, c2}
  Ids <- MCIds
  Cpu <- MCCpu
  Word = 0
  Primary = 2
  Overflow = 2
  Ops <- AllOps
  MaxAdds = 5
CHECK_DEADLOCK FALSE
CONSTRAINT AddsTogether
SYMMETRY Symmetry
INVARIANTS
  TypesOK
  ReadNotOverwritten
  CommitNeverRefused
  WatermarkBrackets
  CountAccurate
  ChainsAcyclic
  FindableUntilRemoval
  EveryMessageAccounted
  DeliveryOrder
  ReaderNotMissed
PROPERTIES
  Refines
