SPECIFICATION FairSpec
CONSTANTS
  Session = {s1}
  Offer = {f1, f2, f3}
  MaxChunks = 2
  NumChunks <- MCNumChunks
  Digest <- MCDigest
  Overlap = FALSE
  MaxFaults = 3
  f1 = f1  f2 = f2  f3 = f3  d1 = d1  d2 = d2
  NoOffer = NoOffer
  Absent = Absent  Torn = Torn  Rot = Rot  Changed = Changed
  NoMeta = NoMeta  BadMeta = BadMeta
INVARIANTS TypeOK AckedDurable AcksSurvive NoSpuriousFailure
PROPERTIES ConfirmedDelivered OnlyReplacedByOther ServerPromise EventuallyDelivered
