SPECIFICATION FairSpec
CONSTANTS
  Session = {s1, s2}
  Offer = {f1, f2}
  MaxChunks = 2
  NumChunks <- MCNumChunks
  Digest <- MCDigest
  Overlap = TRUE
  MaxFaults = 0
  f1 = f1  f2 = f2  f3 = f3  d1 = d1  d2 = d2
  NoOffer = NoOffer
  Absent = Absent  Torn = Torn  Rot = Rot  Changed = Changed
  NoMeta = NoMeta  BadMeta = BadMeta
INVARIANTS NoForeignChunk
PROPERTIES EventuallyDelivered
