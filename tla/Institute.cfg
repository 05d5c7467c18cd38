SPECIFICATION Spec
CONSTANTS
  None = None
  Inactive = Inactive
  a1 = a1
  a2 = a2
  a3 = a3
  a4 = a4
  a5 = a5
  Rows = {"school", "programme", "department", "batch", "batch of programme",
          "subject", "exam", "answer", "faculty"}
  Kind <- KindOf
  Link <- LinkOf
  Deleters = {1}
  MaxKills = 2
  Lists = {"schools", "subjects"}
  Readers = {r1, r2}
  Writers = {r3, r4}
  MaxWrites = 2
  Actors = {a1, a2, a3, a4, a5}
  Work <- WorkOf
  LoginIds = {1, 2}
  MaxStops = 1
  Requests = {r1, r2, r3, r4}
  Students = {"student"}
  Teachers = {"teacher1", "teacher2"}
  Subjects = {"subject1", "subject2"}
  SubjectLists <- Wishes
  Institutes <- InstituteOf
  Calls = {"faculty call", "student call"}
  Tracked = {"faculty call"}
  Tokens <- TokensOf
  Reconciler = Reconciler
  Targets <- OneOwner
  Legacy <- LegacyOf
  Attempts = 2
  MaxFaults = 1
SYMMETRY Symmetry
INVARIANTS
  TypeOK
  AnomaliesMeanRaces
  MaterialsForEnrolled
  LedgerExact
PROPERTIES
  CascadesAreComplete
CHECK_DEADLOCK FALSE
