SPECIFICATION Spec
CONSTANTS
  None = None
  Inactive = Inactive
  PaperIds = {p1}
  Editors = {q1, q2}
  MaxEdits = 2
  Evaluations = {q1, q2}
  Texts = {t1, t2, plain}
  Objective = {t1, t2}
  Letters = {A, B}
  MaxReplacements = 2
  Callers = {q1, q2}
  NumBatches = 2
  MaxChanges = 1
  MaxPages = 2
  MaxMark = 1
  NRows = 4
  RowMax = 2
  RubricForms <- MarkingForms
  Watched = {1}
  Optional = TRUE
  NParts = 3
  PartMax = 3
  QuestionForms <- QuestionParts
SYMMETRY Symmetry
INVARIANTS
  TypeOK
  PapersKept
  QuestionsAsMeant
  ScriptsMarkedByOwnPaper
  PaidForOnce
  MarksAreBest
PROPERTIES
  BatchesBoughtOnce
  OvertakenWritesNothing
CHECK_DEADLOCK FALSE
