--------------------------- MODULE AnswerUploads ---------------------------
(***************************************************************************)
(* Answer scripts of one exam: uploading a file, saving the answer it is a *)
(* script of, renaming, deleting, and manual entries beside them.          *)
(*                                                                         *)
(* The backend keeps a receipt (storageAssets) of every file it uploaded.  *)
(* A save binds the receipt to a new answer, a deletion leaves the receipt *)
(* as a tombstone; both are transactions that the exam's write counter     *)
(* serialises, so each is one step here, whose confirmation may be lost.   *)
(* Renaming is not a transaction, and files are removed after one.         *)
(***************************************************************************)
EXTENDS Naturals, FiniteSets

CONSTANTS
    Files,          \* files the faculty uploads
    Students,
    Names,          \* file names of answers
    StudentOf,      \* student_id_from_filename
    ManualName,     \* "MANUAL-" and the student id
    FileName,       \* the name each file is uploaded under
    Requests,       \* requests on saved answers
    Old,            \* an answer from before student ids were stored
    OldName,
    None

\* What the constants of an instance satisfy.
ConstantsOK ==
  /\ StudentOf \in [Names -> Students]
  /\ ManualName \in [Students -> Names]
  /\ FileName \in [Files -> Names]
  /\ FileName \in [Files -> Names]
  /\ Old \notin Requests
  /\ OldName \in Names
  /\ None \notin Files \cup Students \cup Names \cup Requests \cup {Old}

\* An answer's id is drawn by the request that inserts it.
Ids == Requests \cup {Old}

VARIABLES
    exam,       \* whether the exam exists
    store,      \* files in the file store
    receipt,    \* storageAssets
    answers,    \* answerDetails of the exam
    request,    \* what each request does and has read
    deleted     \* files whose answer was deleted (history)

vars == <<exam, store, receipt, answers, request, deleted>>

Answer == [student: Students \cup {None}, name: Names, file: Files \cup {None}]
NoAnswer == [student |-> None, name |-> None, file |-> None]

Receipt == [state: {"absent", "uploaded", "saved", "deleted"}, answer: Ids \cup {None}]

Request == [at: {"idle", "remove", "files", "identity", "write", "done"}, id: Ids,
            seen: Answer]

Init ==
    /\ exam = TRUE
    /\ store = {}
    /\ receipt = [f \in Files |-> [state |-> "absent", answer |-> None]]
    /\ answers \in [Ids -> {NoAnswer, [student |-> None, name |-> OldName, file |-> None]}]
    /\ \A r \in Requests : answers[r] = NoAnswer
    /\ request = [r \in Requests |->
                     [at |-> "idle", id |-> Old,
                      seen |-> [student |-> None, name |-> OldName, file |-> None]]]
    /\ deleted = {}

Exists(i) == answers[i] # NoAnswer
Saved == {i \in Ids : Exists(i)}

\* answer_student_id: the stored id, or else what the name says.
Identity(a) == IF a.student # None THEN a.student ELSE StudentOf[a.name]

\* require_unique_identity
UniqueIdentity(s, i) ==
    \A j \in Saved \ {i} : Identity(answers[j]) # s

Finish(r) == request' = [request EXCEPT ![r].at = "done"]

-----------------------------------------------------------------------------
\* Upload: the file first, its receipt second; the request may stop between.

StoreFile(f) ==
    /\ exam /\ receipt[f].state = "absent" /\ f \notin store
    /\ store' = store \cup {f}
    /\ UNCHANGED <<exam, receipt, answers, request, deleted>>

InsertReceipt(f) ==
    /\ receipt[f].state = "absent" /\ f \in store
    /\ receipt' = [receipt EXCEPT ![f].state = "uploaded"]
    /\ UNCHANGED <<exam, store, answers, request, deleted>>

-----------------------------------------------------------------------------
\* save_uploaded_answer

\* Mutant: a file may be saved once more after its answer was deleted.
Bindable_Deleted(f) == receipt[f].state \in {"uploaded", "deleted"}

\* Never resurrect a deleted answer.
Bindable(f) == receipt[f].state = "uploaded" /\ receipt[f].answer = None

\* The client may send a save again, whatever became of the first one.
Save(r, f) ==
    LET s == StudentOf[FileName[f]] IN
    /\ request[r].at = "idle" /\ exam
    /\ Bindable(f) /\ UniqueIdentity(s, r)
    /\ answers' = [answers EXCEPT ![r] = [student |-> s, name |-> FileName[f], file |-> f]]
    /\ receipt' = [receipt EXCEPT ![f] = [state |-> "saved", answer |-> r]]
    /\ Finish(r)
    /\ UNCHANGED <<exam, store, deleted>>

-----------------------------------------------------------------------------
\* Requests that read an answer first

ReadAnswer(r, i) ==
    /\ request[r].at = "idle" /\ exam /\ Exists(i)
    /\ \E to \in {"remove", "identity"} :
          request' = [request EXCEPT ![r] = [at |-> to, id |-> i, seen |-> answers[i]]]
    /\ UNCHANGED <<exam, store, receipt, answers, deleted>>

\* Mutant: the answer that was read is taken to exist.
Confirmed_Read(r) == TRUE

\* Both a deletion and a renaming look the answer up again.
Confirmed(r) == exam /\ Exists(request[r].id)

\* remove_answer; the files go only when its commit was confirmed.
Remove(r) ==
    LET i == request[r].id
        f == answers[i].file IN
    /\ request[r].at = "remove" /\ Confirmed(r)
    /\ answers' = [answers EXCEPT ![i] = NoAnswer]
    /\ IF f # None
         THEN /\ receipt' = [receipt EXCEPT ![f].state = IF receipt[f].answer = i THEN "deleted" ELSE @]
              /\ deleted' = deleted \cup {f}
         ELSE UNCHANGED <<receipt, deleted>>
    /\ \E to \in {"files", "done"} :
          request' = [request EXCEPT ![r].at = to, ![r].seen = answers[i]]
    /\ UNCHANGED <<exam, store>>

\* delete_imagekit_file, whose failure is only reported.
RemoveFiles(r) ==
    /\ request[r].at = "files"
    /\ store' \in {store, store \ {request[r].seen.file}}
    /\ Finish(r)
    /\ UNCHANGED <<exam, receipt, answers, deleted>>

\* rename_file: the identity is checked, then the answer is written if its name
\* and student id are still those that were read.
CheckIdentity(r) ==
    /\ request[r].at = "identity"
    /\ UniqueIdentity(Identity(request[r].seen), request[r].id)
    /\ request' = [request EXCEPT ![r].at = "write"]
    /\ UNCHANGED <<exam, store, receipt, answers, deleted>>

RenamedIdentity(a, n) == Identity(a)

Rename(r, n) ==
    LET i == request[r].id
        a == request[r].seen IN
    /\ request[r].at = "write" /\ Confirmed(r)
    /\ answers[i].name = a.name /\ answers[i].student = a.student
    /\ answers' = [answers EXCEPT ![i].name = n, ![i].student = RenamedIdentity(a, n)]
    /\ Finish(r)
    /\ UNCHANGED <<exam, store, receipt, deleted>>

\* A request is refused, or stops.
GiveUp(r) ==
    /\ request[r].at \in {"remove", "files", "identity", "write"}
    /\ Finish(r)
    /\ UNCHANGED <<exam, store, receipt, answers, deleted>>

-----------------------------------------------------------------------------
\* manual_marks_entry finds an answer by the name a manual entry has.

ManualEntry(s) == {i \in Saved : answers[i].name = ManualName[s]}

EnterManually(r, s) ==
    /\ request[r].at = "idle" /\ exam
    /\ \/ \E i \in ManualEntry(s) :
             /\ UniqueIdentity(s, i)
             /\ answers' = [answers EXCEPT ![i].student = s]
       \/ /\ ManualEntry(s) = {}
          /\ UniqueIdentity(s, r)
          /\ answers' = [answers EXCEPT ![r] =
                 [student |-> s, name |-> ManualName[s], file |-> None]]
    /\ Finish(r)
    /\ UNCHANGED <<exam, store, receipt, deleted>>

\* delete_folder: the receipts stay as they are.
DeleteExam ==
    /\ exam
    /\ exam' = FALSE
    /\ answers' = [i \in Ids |-> NoAnswer]
    /\ deleted' = (deleted \cup {answers[i].file : i \in Saved}) \ {None}
    /\ UNCHANGED <<store, receipt, request>>

Next ==
    \/ \E f \in Files : StoreFile(f) \/ InsertReceipt(f)
    \/ \E r \in Requests :
          \/ \E f \in Files : Save(r, f)
          \/ \E i \in Ids : ReadAnswer(r, i)
          \/ \E n \in Names : Rename(r, n)
          \/ \E s \in Students : EnterManually(r, s)
          \/ Remove(r) \/ RemoveFiles(r) \/ CheckIdentity(r) \/ GiveUp(r)
    \/ DeleteExam

Spec == Init /\ [][Next]_vars

-----------------------------------------------------------------------------
\* Properties

TypeOK ==
    /\ exam \in BOOLEAN
    /\ store \subseteq Files
    /\ receipt \in [Files -> Receipt]
    /\ answers \in [Ids -> Answer \cup {NoAnswer}]
    /\ request \in [Requests -> Request]
    /\ deleted \subseteq Files

\* However uploads, renames and manual entries interleave, a student has one
\* answer in the exam.
OneAnswerPerStudent ==
    \A i, j \in Saved : Identity(answers[i]) = Identity(answers[j]) => i = j

\* "Never resurrect them": the answer of a file that was deleted, alone or with
\* its exam, does not come back, however often its save is repeated.
DeletedStaysDeleted ==
    \A i \in Saved : answers[i].file \notin deleted

\* The script an answer refers to is in the file store.
ScriptIsStored ==
    \A i \in Saved : answers[i].file # None => answers[i].file \in store

\* A receipt and the answer it was bound to name each other.
ReceiptMatchesAnswer ==
    \A i \in Saved, f \in Files :
        answers[i].file = f => receipt[f] = [state |-> "saved", answer |-> i]

\* However uploads, repeated saves, renames, manual entries and deletions
\* interleave.
AnswersStay ==
    /\ OneAnswerPerStudent /\ DeletedStaysDeleted
    /\ ScriptIsStored /\ ReceiptMatchesAnswer

-----------------------------------------------------------------------------
\* What the documentation says beyond this and the code does not keep: the model
\* has behaviours against it (README, "Divergences").

\* "Stable student identities, independent of subsequent display-file renames":
\* whose answer it is never changes.
IdentityIsStable ==
    [][\A i \in Saved : Exists(i)' => Identity(answers[i])' = Identity(answers[i])]_vars
=============================================================================
