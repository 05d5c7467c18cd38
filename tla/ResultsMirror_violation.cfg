SPECIFICATION Spec
CONSTANTS
  None = None
  Inactive = Inactive
  Files = {file1, file2}
  Students = {x1, x2}
  Names = {n1, n2, m1, m2}
  StudentOf <- OwnerOf
  ManualName <- ManualNames
  FileName <- FileNames
  Requests = {r1, r2, r3}
  Old = Old
  OldName = n2
  Graduates = {y1, y2}
  Subjects = {ma, ph}
  TotalSemesters = 2
  SemesterOf <- TaughtIn
  Publishers = {p1, p2}
  MaxChanges = 1
  Class = {x1, x2, x3}
  Courses = {ma, ph}
  Assessments = {quiz, finals, lab}
  CourseOf <- ExamSubject
  Share <- ExamShare
  CreditsFor <- SubjectCredits
  Percentages = {20, 60, 80}
  FirstAnswers <- MarkedAnswers
  Offered <- AllSchemes
  Imports <- TwoSheets
  Staff = {1, 2}
  MaxCorrections = 1
  x1 = x1
  x2 = x2
  x3 = x3
  ma = ma
  ph = ph
  quiz = quiz
  finals = finals
  lab = lab
  n1 = n1
  n2 = n2
  m1 = m1
  m2 = m2
  co1 = co1
  co2 = co2
  po1 = po1
  po2 = po2
  classTest = classTest
  endType = endType
SYMMETRY Symmetry
INVARIANTS
  ReportIsMirrored
CHECK_DEADLOCK FALSE
