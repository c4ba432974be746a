\* Two jobs, one owner with a cap of one, Kill and Teardown at any point; an
\* explicit id beyond what the counter of automatic ids can reach here.
SPECIFICATION Spec
CONSTANTS
  Entries = {j1, j2}
  Owners = {alice}
  NoOwner = NoOwner
  NoId = NoId
  ExplicitIds = {9}
  CapSettings = {}
  DefaultCap = 1
SYMMETRY JobSymmetry
INVARIANTS
  TypeOK
  SlotsAccounted
  NoticeAgreesWithRecord
  FeedShowsEveryJob
PROPERTIES
  AdmittedUnderCap
  RecordStable
CHECK_DEADLOCK FALSE
