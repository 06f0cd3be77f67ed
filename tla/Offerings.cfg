\* Two GetInstanceTypes calls, which may overlap, and a failing launch.
CONSTANTS
  r1 = r1  r2 = r2  m1 = m1  m2 = m2
  None = None
  Readers = {r1, r2}
  Markers = {m1}
  MaxSeq = 2
SPECIFICATION FairSpec
INVARIANTS
  TypeOK
  StaleOfferNeedsRace
  NoStaleRefusal
  NeverOffersSoldOut
PROPERTIES
  OffersRecover
