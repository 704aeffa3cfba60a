SPECIFICATION FairSpec
CONSTANTS
  Texts = {"t1", "t2", "t3"}
  Images = {"i1", "i2"}
  Files = {"f1", "f2"}
  Hash <- MCHash
  Chunks <- MCChunks
  MaxRecvBuf = 1
  LocalUser = {"t3", "i1", "f1"}
  RemoteUser = {"t1", "t2", "i2", "f2"}
  MaxCopies = 2
  MaxArrivals = 2
INVARIANTS SendsDrained NeverForgotten
PROPERTIES NoEcho CopyIsSent
