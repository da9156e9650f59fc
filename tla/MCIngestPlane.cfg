SPECIFICATION MCSpec
CONSTANTS
  Receipts = {first, again}
  Hashes = {page, junk, blank}
  Malformed = {junk}
  Empty = {blank}
  Units = {latest, top}
  Correlations = {crawl, rerun}
  Reapers = {sweep, resweep}
  NoReceipt = NoReceipt
  MaxOrphans = 2
SYMMETRY MCSymmetry
CHECK_DEADLOCK FALSE
INVARIANTS
  TypeOK
  PairTogether
  OnePagePerRevision
  EndedNeverCommits
  EvidenceTracked
  DeletedAlone
PROPERTIES
  KeepsPromise
