---------------------------- MODULE ScriptReading ----------------------------
(***************************************************************************)
(* From the PDF of an answer script to marks (app/services/grading.py and  *)
(* evaluate_answer_script_job): every page is read by provider calls of    *)
(* its own, the text is graded and, side by side, written up as a          *)
(* transcript, and the marks are checked and corrected.  The claims on     *)
(* exam, answer and paper around it are in ExamResults.                    *)
(*                                                                         *)
(* One question of the rubric stands for all: nothing that is done here to *)
(* its row depends on another one.                                         *)
(***************************************************************************)
EXTENDS Naturals, FiniteSets

CONSTANTS
  MaxPages,  \* pages of a script (the code takes 1 to 100)
  MaxMark,   \* what the question carries
  Letters,   \* options of a multiple-choice question
  None

VARIABLES
  script,   \* its pages, the answer key of the question, whether a transcript is asked for
  phase,    \* of the job
  page,     \* the page being read, and which attempt at it
  seen,     \* selections read for the question, whole pages, an unreadable passage
  ledger,   \* billing events: of each page, of grading and of the transcript
  sent,     \* calls the provider may charge for, of each event
  reply,    \* row of the question in the grading, when it came
  row       \* what the script gets

vars == <<script, phase, page, seen, ledger, sent, reply, row>>

Pages == 1 .. MaxPages
Grading == 0
Transcript == MaxPages + 1
Events == 0 .. MaxPages + 1
Readings == Letters \cup {"blank", "unclear"}

\* "open": not multiple choice; "unsure": no answer the key is confident of.
Keys == Letters \cup {"open", "unsure"}

Replies == [marks : 0 .. MaxMark + 1, unanswered : BOOLEAN, quoted : BOOLEAN]
Malformed == [marks |-> MaxMark + 1, unanswered |-> FALSE, quoted |-> FALSE]
Contradictory == [marks |-> MaxMark, unanswered |-> TRUE, quoted |-> TRUE]

(* safe_json_parse and validate_grading.                                   *)
Valid(r) == r.marks \in 0 .. MaxMark /\ (r.unanswered => r.marks = 0)

Charges == [calls : 0 .. 2, known : BOOLEAN]
Started == [calls |-> 0, known |-> FALSE]
Marked == [marks : 0 .. MaxMark, unanswered : BOOLEAN, flagged : BOOLEAN]

ConstantsOK ==
  /\ MaxPages \in Nat \ {0}
  /\ MaxMark \in Nat \ {0}
  /\ {"open", "unsure", "blank", "unclear", "none"} \cap Letters = {}
  /\ None \notin Charges \cup Replies \cup Marked

Init ==
  /\ script \in [pages : Pages, key : Keys, transcript : BOOLEAN]
  /\ phase = "split"
  /\ page = [no |-> 1, attempt |-> 1, known |-> TRUE]
  /\ seen = [selections |-> {}, whole |-> {}, unreadable |-> FALSE]
  /\ ledger = [e \in Events |-> None]
  /\ sent = [e \in Events |-> 0]
  /\ reply = None
  /\ row = None

Sends(e) == sent' = [sent EXCEPT ![e] = @ + 1]
Records(e, calls, known) == ledger' = [ledger EXCEPT ![e] = [calls |-> calls, known |-> known]]

-----------------------------------------------------------------------------
(* Reading                                                                 *)

(* split_answer_pdf: a file whose pages cannot be told apart ends the job. *)
Split ==
  /\ phase = "split"
  /\ phase' \in {"reading", "failed"}
  /\ UNCHANGED <<script, page, seen, ledger, sent, reply, row>>

(* tracked_faculty_call: the event is there before the first attempt.      *)
OpenPage ==
  /\ phase = "reading"
  /\ ledger[page.no] = None
  /\ Records(page.no, 0, FALSE)
  /\ UNCHANGED <<script, phase, page, seen, sent, reply, row>>

AtPage == phase = "reading" /\ ledger[page.no] # None

NextPage ==
  /\ page' = [no |-> page.no + 1, attempt |-> 1, known |-> TRUE]
  /\ phase' = IF page.no = script.pages THEN "grading" ELSE "reading"

(* Known usage of one attempt with known usage of those before it.         *)
Knows(known) == page.known /\ known

(* _strip_page_marker finds the closing marker and the answer was not cut: *)
(* the page is whole.  It shows the question or does not.                  *)
ReadWhole(selection, unreadable, known) ==
  /\ AtPage
  /\ Sends(page.no)
  /\ Records(page.no, page.attempt, Knows(known))
  /\ seen' = [selections |-> seen.selections \cup selection,
              whole |-> seen.whole \cup {page.no},
              unreadable |-> seen.unreadable \/ unreadable]
  /\ NextPage
  /\ UNCHANGED <<script, reply, row>>

(* A page without its marker is asked for once more.                       *)
ReadAgain(known) ==
  /\ AtPage
  /\ page.attempt = 1
  /\ Sends(page.no)
  /\ page' = [page EXCEPT !.attempt = 2, !.known = known]
  /\ UNCHANGED <<script, phase, seen, ledger, reply, row>>

(* One that was cut off is not, nor one without its marker for the second  *)
(* time; every attempt is charged, and no marks come of the script.        *)
RejectPage(cut, known) ==
  /\ AtPage
  /\ cut \/ page.attempt = 2
  /\ Sends(page.no)
  /\ Records(page.no, page.attempt, Knows(known))
  /\ phase' = "failed"
  /\ UNCHANGED <<script, page, seen, reply, row>>

(* Mutant: what was spent before the call that failed is taken for all.    *)
KnownAfterError_Previous == page.attempt = 2 /\ page.known

(* A call that fails has no usage: what was spent is unknown.              *)
KnownAfterError == FALSE

PageFails ==
  /\ AtPage
  /\ Sends(page.no)
  /\ Records(page.no, page.attempt - 1, KnownAfterError)
  /\ phase' = "failed"
  /\ UNCHANGED <<script, page, seen, reply, row>>

-----------------------------------------------------------------------------
(* Grading, and the transcript side by side                                *)

Open(e) ==
  /\ phase = "grading"
  /\ e = Transcript => script.transcript
  /\ ledger[e] = None
  /\ Records(e, 0, FALSE)
  /\ UNCHANGED <<script, phase, page, seen, sent, reply, row>>

Waiting(e) == phase = "grading" /\ ledger[e] = Started /\ sent[e] = 0

(* generate_text: a request that never left is repeated, a timeout is not; *)
(* a call that was answered and could not be used is charged all the same. *)
(* grade_with_claude turns every failure into a text that is no grading.   *)
Answered(e) == \E known \in BOOLEAN : Records(e, 1, known)
Unanswered(e) == UNCHANGED ledger

GradeReply(graded) ==
  /\ Waiting(Grading)
  /\ Sends(Grading)
  /\ reply' = graded
  /\ Answered(Grading) \/ (graded = Malformed /\ Unanswered(Grading))
  /\ UNCHANGED <<script, phase, page, seen, row>>

(* A transcript that fails is replaced by a plain one.                     *)
TranscriptReply ==
  /\ Waiting(Transcript)
  /\ Sends(Transcript)
  /\ Answered(Transcript) \/ Unanswered(Transcript)
  /\ UNCHANGED <<script, phase, page, seen, reply, row>>

(* parse_mcq_answers_from_ocr_text: readings of two pages that differ are  *)
(* not readable.                                                           *)
Selection ==
  IF seen.selections = {} THEN "none"
  ELSE IF Cardinality(seen.selections) > 1 THEN "unclear"
  ELSE CHOOSE s \in seen.selections : TRUE

(* score_mcq_answer and apply_deterministic_mcq_overrides: all or nothing  *)
(* where the key is sure and the letter was read; otherwise the marks of   *)
(* the model stay, flagged.                                                *)
Scored ==
  CASE script.key = "open" ->
         [marks |-> reply.marks, unanswered |-> reply.unanswered,
          flagged |-> reply.marks > 0 /\ ~reply.quoted]
    [] script.key = "unsure" \/ (script.key # "open" /\ Selection \in {"none", "unclear"}) ->
         [marks |-> reply.marks, unanswered |-> reply.unanswered, flagged |-> TRUE]
    [] OTHER ->
         [marks |-> IF Selection = script.key THEN MaxMark ELSE 0,
          unanswered |-> Selection = "blank", flagged |-> FALSE]

(* Both calls have to be over.  A passage nobody could read flags the row. *)
Mark ==
  /\ phase = "grading"
  /\ reply # None
  /\ script.transcript => sent[Transcript] = 1
  /\ IF Valid(reply)
     THEN /\ row' = [Scored EXCEPT !.flagged = @ \/ seen.unreadable]
          /\ phase' = "marked"
     ELSE UNCHANGED row /\ phase' = "failed"
  /\ UNCHANGED <<script, page, seen, ledger, sent, reply>>

(* The worker is stopped.                                                  *)
Interrupt ==
  /\ phase \in {"split", "reading", "grading"}
  /\ phase' = "interrupted"
  /\ UNCHANGED <<script, page, seen, ledger, sent, reply, row>>

Next ==
  \/ Split
  \/ OpenPage
  \/ \E selection \in {{}} \cup {{r} : r \in Readings}, unreadable, known \in BOOLEAN :
       ReadWhole(selection, unreadable, known)
  \/ \E known \in BOOLEAN : ReadAgain(known)
  \/ \E cut, known \in BOOLEAN : RejectPage(cut, known)
  \/ PageFails
  \/ \E e \in {Grading, Transcript} : Open(e)
  \/ \E graded \in {r \in Replies : Valid(r)} \cup {Malformed, Contradictory} : GradeReply(graded)
  \/ TranscriptReply
  \/ Mark
  \/ Interrupt

Spec == Init /\ [][Next]_vars

-----------------------------------------------------------------------------
TypeOK ==
  /\ script \in [pages : Pages, key : Keys, transcript : BOOLEAN]
  /\ phase \in {"split", "reading", "grading", "marked", "failed", "interrupted"}
  /\ page \in [no : 1 .. MaxPages + 1, attempt : {1, 2}, known : BOOLEAN]
  /\ seen \in [selections : SUBSET Readings, whole : SUBSET Pages, unreadable : BOOLEAN]
  /\ ledger \in [Events -> Charges \cup {None}]
  /\ sent \in [Events -> 0 .. 2]
  /\ reply \in Replies \cup {None}
  /\ row \in Marked \cup {None}

(* "Every attempt's tokens are counted": what an event says was spent is   *)
(* what the provider was asked for, retries and rejected pages included;   *)
(* where that cannot be known the event says so.  Grading and transcript   *)
(* are asked for once.                                                     *)
ChargesAreExact ==
  \A e \in Events :
    /\ sent[e] > 0 => ledger[e] # None
    /\ ledger[e] # None /\ ledger[e].known => ledger[e].calls = sent[e]
    /\ e \notin Pages => sent[e] <= 1

(* Marks come of a script of which every page was read to its end.  They   *)
(* rest on a passage of the script, on one selection that is the answer of *)
(* a sure key, or are flagged for the faculty.                             *)
MarksAreSupported ==
  row # None =>
    /\ seen.whole = 1 .. script.pages
    /\ row.marks > 0 =>
         \/ row.flagged
         \/ reply.quoted /\ script.key = "open"
         \/ seen.selections = {script.key}
    /\ row.unanswered => row.marks = 0
=============================================================================
