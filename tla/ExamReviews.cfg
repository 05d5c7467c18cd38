SPECIFICATION Spec
CONSTANTS
    s1 = s1
    s2 = s2
    n1 = n1
    e1 = e1
    e2 = e2
    p1 = p1
    p2 = p2
    m1 = m1
    m2 = m2
    u1 = u1
    u2 = u2
    x1 = x1
    x2 = x2
    None = None
    Scripts = {s1}
    Manuals = {}
    Evaluations = {e1, e2}
    Reviews = {p1, p2}
    Entries = {}
    Uploads = {}
    Edits = {}
INVARIANTS
    HistoryDoesNotFork
    ReviewReportIsStored
PROPERTIES
    ReviewedMarksAreProtected
    ScriptReviewsAreExact
SYMMETRY ProcessSymmetry
CHECK_DEADLOCK FALSE
