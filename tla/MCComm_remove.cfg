\* One client, two overflow slots and removals.
SPECIFICATION TableOnly
CONSTANTS
  Cap = 4
  Items = {a, b}
  NoItem = NoItem
  f1 = f1
  f2 = f2
  r1 = r1
  r2 = r2
  r3 = r3
  Files <- MCFiles
  Readers <- MCReaders
  File <- MCFile
  NonBlock <- MCNonBlock
  QueueMax = 2
  MaxMsgs = 3
  Clients = {c1}
  Ids <- MCTwo
  Cpu <- MCCpu
  Word = 0
  Primary = 2
  Overflow = 2
  Ops = {"remove"}
  MaxAdds = 6
CHECK_DEADLOCK FALSE
INVARIANTS
  RegisteredFindable
