--------------------------- MODULE Results_proofs ---------------------------
(***************************************************************************)
(* Theorems about saved answers (AnswerUploads), about the results of a    *)
(* subject and of a semester (SubjectResults, GradeArithmetic) and about   *)
(* the transcripts that are published from their marks (Transcripts), for  *)
(* any number of files, students, requests, exams, subjects, semesters and *)
(* publications, any marks, weights, credits and grading schemes.          *)
(***************************************************************************)
EXTENDS Results, FiniteSetTheorems, WellFoundedInduction, TLAPS

-----------------------------------------------------------------------------
\* Answer uploads: the inductive invariant

\* The answer of a request is there only after it was inserted, and the file a
\* request is about to remove is one of a deleted answer.
RequestInv ==
  \A r \in Requests :
    /\ onAnswer[r].at = "idle" => stored[r] = Uploads!NoAnswer
    /\ onAnswer[r].at = "files" => onAnswer[r].seen.file \in deleted \cup {None}

\* A receipt that can still be bound is of a stored file nobody deleted.
ReceiptInv ==
  \A f \in Files :
    /\ receipt[f].state = "uploaded" => f \in store
    /\ f \in deleted => receipt[f].state \in {"saved", "deleted"}

UploadsInv ==
  /\ Uploads!TypeOK
  /\ RequestInv
  /\ ReceiptInv
  /\ Uploads!OneAnswerPerStudent
  /\ Uploads!DeletedStaysDeleted
  /\ Uploads!ScriptIsStored
  /\ Uploads!ReceiptMatchesAnswer

LEMMA UploadsMean ==
  ASSUME Uploads!ConstantsOK
  PROVE  /\ \A n \in Names : StudentOf[n] \in Students
         /\ \A s \in Students : ManualName[s] \in Names
         /\ None \notin Students /\ None \notin Names /\ None \notin Files
         /\ Old \notin Requests /\ OldName \in Names
         /\ FileName \in [Files -> Names]
BY DEF Uploads!ConstantsOK

\* Whoever has an answer, it is about a student, and it is not the empty one.
LEMMA AnswerMeans ==
  ASSUME Uploads!ConstantsOK, NEW a \in Uploads!Answer
  PROVE  Uploads!Identity(a) \in Students /\ a # Uploads!NoAnswer /\ a.file \in Files \cup {None}
<1>1. a.name \in Names /\ a.student \in Students \cup {None} /\ a.file \in Files \cup {None}
  BY DEF Uploads!Answer
<1>2. Uploads!Identity(a) \in Students
  BY <1>1, UploadsMean DEF Uploads!Identity
<1>3. a # Uploads!NoAnswer
  BY <1>1, UploadsMean DEF Uploads!NoAnswer
<1> QED
  BY <1>1, <1>2, <1>3

LEMMA SavedAnswers ==
  ASSUME UploadsInv, NEW i \in Uploads!Saved
  PROVE  i \in Uploads!Ids /\ stored[i] \in Uploads!Answer
BY DEF UploadsInv, Uploads!TypeOK, Uploads!Saved, Uploads!Exists

\* The receipt of an answer's file is bound to that answer.
LEMMA BoundReceipt ==
  ASSUME UploadsInv, NEW i \in Uploads!Saved, NEW f \in Files, stored[i].file = f
  PROVE  /\ receipt[f] = [state |-> "saved", answer |-> i]
         /\ receipt[f].state = "saved" /\ receipt[f].answer = i
<1>1. receipt[f] = [state |-> "saved", answer |-> i]
  BY DEF UploadsInv, Uploads!ReceiptMatchesAnswer
<1> QED
  BY <1>1

LEMMA UploadsInit ==
  ASSUME Uploads!ConstantsOK, Uploads!Init
  PROVE  UploadsInv
<1> DEFINE a == [student |-> None, name |-> OldName, file |-> None]
<1>1. a \in Uploads!Answer /\ a.file = None
  BY UploadsMean DEF Uploads!Answer
<1>2. stored \in [Uploads!Ids -> {Uploads!NoAnswer, a}] /\ \A r \in Requests : stored[r] = Uploads!NoAnswer
  BY DEF Uploads!Init
<1>3. \A i \in Uploads!Saved : i = Old /\ stored[i] = a
  BY <1>2 DEF Uploads!Saved, Uploads!Exists, Uploads!Ids
<1>4. stored \in [Uploads!Ids -> Uploads!Answer \cup {Uploads!NoAnswer}]
  BY <1>1, <1>2
<1>5. onAnswer \in [Requests -> Uploads!Request]
  BY <1>1 DEF Uploads!Init, Uploads!Request, Uploads!Ids
<1>6. receipt \in [Files -> Uploads!Receipt]
  BY DEF Uploads!Init, Uploads!Receipt
<1>7. Uploads!TypeOK
  BY <1>4, <1>5, <1>6 DEF Uploads!Init, Uploads!TypeOK
<1>8. RequestInv
  BY <1>2 DEF Uploads!Init, RequestInv
<1>9. ReceiptInv
  BY DEF Uploads!Init, ReceiptInv
<1>10. Uploads!OneAnswerPerStudent
  BY <1>3 DEF Uploads!OneAnswerPerStudent
<1>11. Uploads!DeletedStaysDeleted
  BY DEF Uploads!Init, Uploads!DeletedStaysDeleted
<1>12. Uploads!ScriptIsStored
  BY <1>1, <1>3 DEF Uploads!ScriptIsStored
<1>13. Uploads!ReceiptMatchesAnswer
  BY <1>1, <1>3, UploadsMean DEF Uploads!ReceiptMatchesAnswer
<1> QED
  BY <1>7, <1>8, <1>9, <1>10, <1>11, <1>12, <1>13 DEF UploadsInv

-----------------------------------------------------------------------------
\* Steps that leave the answers alone

LEMMA StepUpload ==
  ASSUME Uploads!ConstantsOK, UploadsInv, NEW f \in Files, Uploads!StoreFile(f) \/ Uploads!InsertReceipt(f)
  PROVE  UploadsInv'
<1>0. UNCHANGED <<exam, stored, onAnswer, deleted>> /\ Uploads!Saved' = Uploads!Saved
  BY DEF Uploads!StoreFile, Uploads!InsertReceipt, Uploads!Saved, Uploads!Exists
<1>1. CASE Uploads!StoreFile(f)
  <2>1. store' = store \cup {f} /\ receipt' = receipt
    BY <1>1 DEF Uploads!StoreFile
  <2> QED
    BY <1>0, <2>1 DEF UploadsInv, Uploads!TypeOK, RequestInv, ReceiptInv, Uploads!OneAnswerPerStudent, Uploads!UniqueIdentity,
       Uploads!DeletedStaysDeleted, Uploads!ScriptIsStored, Uploads!ReceiptMatchesAnswer
<1>2. CASE Uploads!InsertReceipt(f)
  <2>1. /\ f \in store /\ store' = store /\ receipt[f].state = "absent"
        /\ receipt' = [receipt EXCEPT ![f].state = "uploaded"]
    BY <1>2 DEF Uploads!InsertReceipt
  <2>2. receipt \in [Files -> Uploads!Receipt] /\ receipt' \in [Files -> Uploads!Receipt]
    BY <2>1 DEF UploadsInv, Uploads!TypeOK, Uploads!Receipt
  <2>3. /\ receipt'[f].state = "uploaded"
        /\ \A g \in Files \ {f} : receipt'[g] = receipt[g]
    BY <2>1, <2>2 DEF Uploads!Receipt
  <2>4. f \notin deleted
    BY <2>1 DEF UploadsInv, ReceiptInv
  <2>5. ReceiptInv'
    BY <1>0, <2>1, <2>3, <2>4 DEF UploadsInv, ReceiptInv
  <2>6. Uploads!ReceiptMatchesAnswer'
    <3>1. \A i \in Uploads!Saved : stored[i].file # f
      BY <2>1, BoundReceipt
    <3> QED
      BY <1>0, <2>3, <3>1 DEF UploadsInv, Uploads!ReceiptMatchesAnswer
  <2> QED
    BY <1>0, <2>1, <2>2, <2>5, <2>6
    DEF UploadsInv, Uploads!TypeOK, RequestInv, Uploads!OneAnswerPerStudent, Uploads!DeletedStaysDeleted, Uploads!ScriptIsStored
<1> QED
  BY <1>1, <1>2

\* A request moves on, and only the store may change.
LEMMA StepMoves ==
  ASSUME Uploads!ConstantsOK, UploadsInv, NEW r \in Requests, NEW q \in Uploads!Request,
         onAnswer' = [onAnswer EXCEPT ![r] = q],
         onAnswer[r].at = "idle" => q.at # "idle",
         q.at = "idle" => onAnswer[r].at = "idle",
         q.at # "files",
         store' \subseteq store,
         \A f \in store : f \notin store' => f \in deleted,
         UNCHANGED <<exam, receipt, stored, deleted>>
  PROVE  UploadsInv'
<1>0. Uploads!Saved' = Uploads!Saved /\ onAnswer \in [Requests -> Uploads!Request]
  BY DEF Uploads!Saved, Uploads!Exists, UploadsInv, Uploads!TypeOK
<1>1. onAnswer'[r] = q /\ \A p \in Requests \ {r} : onAnswer'[p] = onAnswer[p]
  BY <1>0
<1>2. Uploads!TypeOK'
  BY <1>0 DEF UploadsInv, Uploads!TypeOK
<1>3. RequestInv'
  BY <1>1 DEF UploadsInv, RequestInv
<1>4. ReceiptInv'
  BY DEF UploadsInv, ReceiptInv
<1>5. Uploads!ScriptIsStored'
  BY <1>0 DEF UploadsInv, Uploads!ScriptIsStored, Uploads!DeletedStaysDeleted
<1> QED
  BY <1>0, <1>2, <1>3, <1>4, <1>5
  DEF UploadsInv, Uploads!OneAnswerPerStudent, Uploads!DeletedStaysDeleted, Uploads!ReceiptMatchesAnswer

LEMMA RequestGoes ==
  ASSUME NEW q \in Uploads!Request,
         NEW at \in {"idle", "remove", "files", "identity", "write", "done"}
  PROVE  LET p == [q EXCEPT !.at = at] IN
         p \in Uploads!Request /\ p.at = at /\ p.seen = q.seen /\ p.id = q.id
BY DEF Uploads!Request

LEMMA StepRequest ==
  ASSUME Uploads!ConstantsOK, UploadsInv, NEW r \in Requests,
         \/ \E i \in Uploads!Ids : Uploads!ReadAnswer(r, i)
         \/ Uploads!RemoveFiles(r) \/ Uploads!CheckIdentity(r) \/ Uploads!GiveUp(r)
  PROVE  UploadsInv'
<1>0. UNCHANGED <<exam, receipt, stored, deleted>> /\ onAnswer[r] \in Uploads!Request
  BY DEF Uploads!ReadAnswer, Uploads!RemoveFiles, Uploads!CheckIdentity, Uploads!GiveUp, UploadsInv, Uploads!TypeOK
<1>1. ASSUME NEW i \in Uploads!Ids, Uploads!ReadAnswer(r, i) PROVE UploadsInv'
  <2>1. stored[i] \in Uploads!Answer /\ store' = store
    BY <1>1 DEF Uploads!ReadAnswer, Uploads!Exists, UploadsInv, Uploads!TypeOK
  <2>2. PICK to \in {"remove", "identity"} :
          onAnswer' = [onAnswer EXCEPT ![r] = [at |-> to, id |-> i, seen |-> stored[i]]]
    BY <1>1 DEF Uploads!ReadAnswer
  <2> DEFINE q == [at |-> to, id |-> i, seen |-> stored[i]]
  <2>3. q \in Uploads!Request /\ q.at = to
    BY <2>1 DEF Uploads!Request
  <2> HIDE DEF q
  <2> QED
    BY <1>0, <2>1, <2>2, <2>3, StepMoves DEF q
<1>2. ASSUME Uploads!RemoveFiles(r) PROVE UploadsInv'
  <2>1. /\ onAnswer[r].at = "files" /\ onAnswer' = [onAnswer EXCEPT ![r].at = "done"]
        /\ store' \in {store, store \ {onAnswer[r].seen.file}}
    BY <1>2 DEF Uploads!RemoveFiles, Uploads!Finish
  <2>2. onAnswer[r].seen.file \in deleted \cup {None}
    BY <2>1 DEF UploadsInv, RequestInv
  <2>3. None \notin store
    BY UploadsMean DEF UploadsInv, Uploads!TypeOK
  <2> DEFINE q == [onAnswer[r] EXCEPT !.at = "done"]
  <2>4. q \in Uploads!Request /\ q.at = "done" /\ onAnswer' = [onAnswer EXCEPT ![r] = q]
    BY <1>0, <2>1, RequestGoes
  <2> HIDE DEF q
  <2>5. store' \subseteq store /\ \A f \in store : f \notin store' => f \in deleted
    BY <2>1, <2>2, <2>3
  <2> QED
    BY <1>0, <2>4, <2>5, StepMoves
<1>3. ASSUME Uploads!CheckIdentity(r) PROVE UploadsInv'
  <2> DEFINE q == [onAnswer[r] EXCEPT !.at = "write"]
  <2>1. q \in Uploads!Request /\ q.at = "write" /\ onAnswer' = [onAnswer EXCEPT ![r] = q] /\ store' = store
    BY <1>0, <1>3, RequestGoes DEF Uploads!CheckIdentity
  <2> HIDE DEF q
  <2> QED
    BY <1>0, <2>1, StepMoves
<1>4. ASSUME Uploads!GiveUp(r) PROVE UploadsInv'
  <2> DEFINE q == [onAnswer[r] EXCEPT !.at = "done"]
  <2>1. q \in Uploads!Request /\ q.at = "done" /\ onAnswer' = [onAnswer EXCEPT ![r] = q] /\ store' = store
    BY <1>0, <1>4, RequestGoes DEF Uploads!GiveUp, Uploads!Finish
  <2> HIDE DEF q
  <2> QED
    BY <1>0, <2>1, StepMoves
<1> QED
  BY <1>1, <1>2, <1>3, <1>4

-----------------------------------------------------------------------------
\* Steps that change an answer

\* The request is over afterwards.
LEMMA Finished ==
  ASSUME UploadsInv, NEW r \in Requests, Uploads!Finish(r)
  PROVE  /\ onAnswer' \in [Requests -> Uploads!Request] /\ onAnswer'[r].at = "done"
         /\ \A p \in Requests \ {r} : onAnswer'[p] = onAnswer[p]
BY DEF Uploads!Finish, UploadsInv, Uploads!TypeOK, Uploads!Request

\* A new answer, with or without a file.
LEMMA StepInsert ==
  ASSUME Uploads!ConstantsOK, UploadsInv, NEW r \in Requests, onAnswer[r].at = "idle",
         NEW a \in Uploads!Answer, stored' = [stored EXCEPT ![r] = a],
         Uploads!UniqueIdentity(Uploads!Identity(a), r),
         Uploads!Finish(r), UNCHANGED <<exam, store, deleted>>,
         \/ a.file = None /\ receipt' = receipt
         \/ /\ a.file \in Files /\ Uploads!Bindable(a.file)
            /\ receipt' = [receipt EXCEPT ![a.file] = [state |-> "saved", answer |-> r]]
  PROVE  UploadsInv'
<1>0. stored[r] = Uploads!NoAnswer /\ a # Uploads!NoAnswer /\ r \in Uploads!Ids
  BY AnswerMeans DEF UploadsInv, RequestInv, Uploads!Ids
<1>1. /\ onAnswer' \in [Requests -> Uploads!Request] /\ onAnswer'[r].at = "done"
      /\ \A p \in Requests \ {r} : onAnswer'[p] = onAnswer[p]
  BY Finished
<1>2. stored \in [Uploads!Ids -> Uploads!Answer \cup {Uploads!NoAnswer}] /\ stored' \in [Uploads!Ids -> Uploads!Answer \cup {Uploads!NoAnswer}]
  BY <1>0 DEF UploadsInv, Uploads!TypeOK
<1>3. /\ stored'[r] = a /\ \A i \in Uploads!Ids \ {r} : stored'[i] = stored[i]
      /\ Uploads!Saved' = Uploads!Saved \cup {r} /\ r \notin Uploads!Saved
  BY <1>0, <1>2 DEF Uploads!Saved, Uploads!Exists
<1>4. /\ receipt \in [Files -> Uploads!Receipt] /\ receipt' \in [Files -> Uploads!Receipt]
      /\ \A f \in Files : f # a.file => receipt'[f] = receipt[f]
      /\ \A f \in Files : f = a.file => receipt'[f] = [state |-> "saved", answer |-> r]
  <2>1. receipt \in [Files -> Uploads!Receipt] /\ [state |-> "saved", answer |-> r] \in Uploads!Receipt
    BY <1>0 DEF UploadsInv, Uploads!TypeOK, Uploads!Receipt
  <2>2. CASE a.file = None
    <3>1. receipt' = receipt /\ \A f \in Files : f # a.file
      BY <2>2, UploadsMean
    <3> QED
      BY <2>1, <3>1
  <2>3. CASE a.file # None
    <3>1. receipt' = [receipt EXCEPT ![a.file] = [state |-> "saved", answer |-> r]]
      BY <2>3
    <3> QED
      BY <2>1, <3>1
  <2> QED
    BY <2>2, <2>3
<1>5. Uploads!TypeOK'
  BY <1>1, <1>2, <1>4 DEF UploadsInv, Uploads!TypeOK
<1>6. RequestInv'
  BY <1>0, <1>1, <1>3 DEF UploadsInv, RequestInv, Uploads!Ids
<1>7. ReceiptInv'
  <2> SUFFICES ASSUME NEW f \in Files
               PROVE  /\ receipt'[f].state = "uploaded" => f \in store
                      /\ f \in deleted => receipt'[f].state \in {"saved", "deleted"}
    BY DEF ReceiptInv
  <2>1. CASE f = a.file
    <3>1. receipt'[f] = [state |-> "saved", answer |-> r]
      BY <1>4, <2>1
    <3>2. receipt'[f].state = "saved"
      BY <3>1
    <3> QED
      BY <3>2
  <2>2. CASE f # a.file
    BY <1>4, <2>2 DEF UploadsInv, ReceiptInv
  <2> QED
    BY <2>1, <2>2
<1>8. Uploads!OneAnswerPerStudent'
  <2>1. \A j \in Uploads!Saved : Uploads!Identity(stored[j]) # Uploads!Identity(a)
    BY <1>3 DEF Uploads!UniqueIdentity
  <2>2. \A i \in Uploads!Saved : stored'[i] = stored[i]
    BY <1>3 DEF Uploads!Saved
  <2>3. \A i \in Uploads!Saved : Uploads!Identity(stored[i])' = Uploads!Identity(stored[i])
    BY <2>2 DEF Uploads!Identity
  <2>4. Uploads!Identity(stored[r])' = Uploads!Identity(a)
    BY <1>3 DEF Uploads!Identity
  <2> QED
    BY <1>3, <2>1, <2>3, <2>4 DEF UploadsInv, Uploads!OneAnswerPerStudent
<1>9. a.file \notin deleted /\ (a.file # None => a.file \in store)
  BY UploadsMean DEF UploadsInv, Uploads!TypeOK, ReceiptInv, Uploads!Bindable
<1>10. Uploads!DeletedStaysDeleted' /\ Uploads!ScriptIsStored'
  BY <1>3, <1>9 DEF UploadsInv, Uploads!DeletedStaysDeleted, Uploads!ScriptIsStored, Uploads!Saved
<1>11. Uploads!ReceiptMatchesAnswer'
  <2> SUFFICES ASSUME NEW i \in Uploads!Saved', NEW f \in Files, stored'[i].file = f
               PROVE  receipt'[f] = [state |-> "saved", answer |-> i]
    BY DEF Uploads!ReceiptMatchesAnswer
  <2>1. CASE i = r
    <3>1. f = a.file
      BY <1>3, <2>1
    <3> QED
      BY <1>4, <2>1, <3>1
  <2>2. CASE i # r
    <3>1. i \in Uploads!Saved /\ stored[i].file = f
      BY <1>3, <2>2 DEF Uploads!Saved
    <3>2. receipt[f] = [state |-> "saved", answer |-> i]
      BY <3>1 DEF UploadsInv, Uploads!ReceiptMatchesAnswer
    <3>3. f # a.file
      BY <3>2, UploadsMean DEF Uploads!Bindable
    <3> QED
      BY <1>4, <3>2, <3>3
  <2> QED
    BY <2>1, <2>2
<1> QED
  BY <1>5, <1>6, <1>7, <1>8, <1>10, <1>11 DEF UploadsInv

\* An answer gets another name or student; whose it is, is nobody else's.
LEMMA StepAnswer ==
  ASSUME Uploads!ConstantsOK, UploadsInv, NEW r \in Requests, onAnswer[r].at # "files",
         NEW i \in Uploads!Saved, NEW n \in Names, NEW s \in Students, Uploads!UniqueIdentity(s, i),
         stored' = [stored EXCEPT ![i].name = n, ![i].student = s],
         Uploads!Finish(r), UNCHANGED <<exam, store, receipt, deleted>>,
         r = i => onAnswer[r].at # "idle"
  PROVE  UploadsInv'
<1>0. i \in Uploads!Ids /\ stored[i] \in Uploads!Answer
  BY SavedAnswers
<1>1. /\ onAnswer' \in [Requests -> Uploads!Request] /\ onAnswer'[r].at = "done"
      /\ \A p \in Requests \ {r} : onAnswer'[p] = onAnswer[p]
  BY Finished
<1>2. stored \in [Uploads!Ids -> Uploads!Answer \cup {Uploads!NoAnswer}]
  BY DEF UploadsInv, Uploads!TypeOK
<1>3. /\ stored'[i] \in Uploads!Answer /\ stored'[i].file = stored[i].file /\ stored'[i].student = s
      /\ \A j \in Uploads!Ids \ {i} : stored'[j] = stored[j]
      /\ stored' \in [Uploads!Ids -> Uploads!Answer \cup {Uploads!NoAnswer}]
  BY <1>0, <1>2 DEF Uploads!Answer
<1>4. Uploads!Saved' = Uploads!Saved
  BY <1>0, <1>3, AnswerMeans DEF Uploads!Saved, Uploads!Exists
<1>5. Uploads!TypeOK'
  BY <1>1, <1>3 DEF UploadsInv, Uploads!TypeOK
<1>6. RequestInv'
  <2> SUFFICES ASSUME NEW p \in Requests
               PROVE  /\ onAnswer'[p].at = "idle" => stored'[p] = Uploads!NoAnswer
                      /\ onAnswer'[p].at = "files" => onAnswer'[p].seen.file \in deleted \cup {None}
    BY DEF RequestInv
  <2>1. CASE p = r
    BY <1>1, <2>1
  <2>2. CASE p # r
    <3>1. onAnswer[p].at = "idle" => p # i
      BY DEF UploadsInv, RequestInv, Uploads!Saved, Uploads!Exists
    <3> QED
      BY <1>1, <1>3, <2>2, <3>1 DEF UploadsInv, RequestInv, Uploads!Ids
  <2> QED
    BY <2>1, <2>2
<1>7. Uploads!OneAnswerPerStudent'
  <2>1. \A j \in Uploads!Saved \ {i} : Uploads!Identity(stored[j]) # s
    BY DEF Uploads!UniqueIdentity
  <2>2. \A j \in Uploads!Saved \ {i} : Uploads!Identity(stored[j])' = Uploads!Identity(stored[j])
    BY <1>3 DEF Uploads!Identity, Uploads!Saved
  <2>3. Uploads!Identity(stored[i])' = s
    BY <1>3, UploadsMean DEF Uploads!Identity
  <2> SUFFICES ASSUME NEW j \in Uploads!Saved, NEW k \in Uploads!Saved,
                      Uploads!Identity(stored[j])' = Uploads!Identity(stored[k])'
               PROVE  j = k
    BY <1>4 DEF Uploads!OneAnswerPerStudent
  <2>4. CASE j # i /\ k # i
    BY <2>2, <2>4 DEF UploadsInv, Uploads!OneAnswerPerStudent
  <2>5. CASE j = i \/ k = i
    BY <2>1, <2>2, <2>3, <2>5
  <2> QED
    BY <2>4, <2>5
<1>8. \A j \in Uploads!Saved : stored'[j].file = stored[j].file
  BY <1>3 DEF Uploads!Saved
<1>9. Uploads!DeletedStaysDeleted' /\ Uploads!ScriptIsStored' /\ Uploads!ReceiptMatchesAnswer'
  <2>1. Uploads!DeletedStaysDeleted'
    <3> SUFFICES ASSUME NEW j \in Uploads!Saved PROVE stored'[j].file \notin deleted
      BY <1>4 DEF Uploads!DeletedStaysDeleted
    <3> QED
      BY <1>8 DEF UploadsInv, Uploads!DeletedStaysDeleted
  <2>2. Uploads!ScriptIsStored'
    <3> SUFFICES ASSUME NEW j \in Uploads!Saved, stored'[j].file # None PROVE stored'[j].file \in store
      BY <1>4 DEF Uploads!ScriptIsStored
    <3> QED
      BY <1>8 DEF UploadsInv, Uploads!ScriptIsStored
  <2>3. Uploads!ReceiptMatchesAnswer'
    <3> SUFFICES ASSUME NEW j \in Uploads!Saved, NEW f \in Files, stored'[j].file = f
                 PROVE  receipt'[f] = [state |-> "saved", answer |-> j]
      BY <1>4 DEF Uploads!ReceiptMatchesAnswer
    <3> QED
      BY <1>8, BoundReceipt
  <2> QED
    BY <2>1, <2>2, <2>3
<1> QED
  BY <1>5, <1>6, <1>7, <1>9 DEF UploadsInv, ReceiptInv

LEMMA StepSave ==
  ASSUME Uploads!ConstantsOK, UploadsInv, NEW r \in Requests, NEW f \in Files,
         Uploads!Save(r, f)
  PROVE  UploadsInv'
<1> DEFINE s == StudentOf[FileName[f]]
           a == [student |-> s, name |-> FileName[f], file |-> f]
<1>1. FileName[f] \in Names /\ s \in Students
  BY UploadsMean
<1>2. a \in Uploads!Answer /\ a.file = f /\ Uploads!Identity(a) = s
  BY <1>1, UploadsMean DEF Uploads!Answer, Uploads!Identity
<1>3. /\ onAnswer[r].at = "idle" /\ Uploads!Bindable(f) /\ Uploads!UniqueIdentity(s, r)
      /\ stored' = [stored EXCEPT ![r] = a]
      /\ receipt' = [receipt EXCEPT ![f] = [state |-> "saved", answer |-> r]]
      /\ Uploads!Finish(r) /\ UNCHANGED <<exam, store, deleted>>
  BY DEF Uploads!Save
<1> HIDE DEF a, s
<1> QED
  BY <1>2, <1>3, StepInsert

LEMMA StepManual ==
  ASSUME Uploads!ConstantsOK, UploadsInv, NEW r \in Requests, NEW s \in Students, Uploads!EnterManually(r, s)
  PROVE  UploadsInv'
<1>0. onAnswer[r].at = "idle" /\ Uploads!Finish(r) /\ UNCHANGED <<exam, store, receipt, deleted>>
  BY DEF Uploads!EnterManually
<1>1. ASSUME NEW i \in Uploads!ManualEntry(s), Uploads!UniqueIdentity(s, i),
             stored' = [stored EXCEPT ![i].student = s]
      PROVE  UploadsInv'
  <2>1. i \in Uploads!Saved /\ stored[i] \in Uploads!Answer /\ stored[i].name \in Names
    BY SavedAnswers DEF Uploads!ManualEntry, Uploads!Answer
  <2>2. stored \in [Uploads!Ids -> Uploads!Answer \cup {Uploads!NoAnswer}] /\ i \in Uploads!Ids
    BY <2>1 DEF UploadsInv, Uploads!TypeOK, Uploads!Saved
  <2>3. [stored[i] EXCEPT !.student = s] = [stored[i] EXCEPT !.name = stored[i].name, !.student = s]
    BY <2>1 DEF Uploads!Answer
  <2>4. stored' = [stored EXCEPT ![i].name = stored[i].name, ![i].student = s]
    BY <1>1, <2>2, <2>3
  <2>5. r # i
    BY <1>0, <2>1 DEF UploadsInv, RequestInv, Uploads!Saved, Uploads!Exists
  <2> QED
    BY <1>0, <1>1, <2>1, <2>4, <2>5, StepAnswer
<1>2. ASSUME Uploads!UniqueIdentity(s, r),
             stored' = [stored EXCEPT ![r] = [student |-> s, name |-> ManualName[s], file |-> None]]
      PROVE  UploadsInv'
  <2> DEFINE a == [student |-> s, name |-> ManualName[s], file |-> None]
  <2>1. a \in Uploads!Answer /\ a.file = None /\ Uploads!Identity(a) = s
    BY UploadsMean DEF Uploads!Answer, Uploads!Identity
  <2>2. stored' = [stored EXCEPT ![r] = a]
    BY <1>2
  <2> HIDE DEF a
  <2> QED
    BY <1>0, <1>2, <2>1, <2>2, StepInsert
<1> QED
  BY <1>1, <1>2 DEF Uploads!EnterManually

LEMMA StepRename ==
  ASSUME Uploads!ConstantsOK, UploadsInv, NEW r \in Requests, NEW n \in Names, Uploads!Rename(r, n)
  PROVE  UploadsInv'
<1> DEFINE i == onAnswer[r].id
           a == onAnswer[r].seen
<1>1. /\ onAnswer[r].at = "write" /\ Uploads!Exists(i)
      /\ stored[i].name = a.name /\ stored[i].student = a.student
      /\ stored' = [stored EXCEPT ![i].name = n, ![i].student = Uploads!Identity(a)]
      /\ Uploads!Finish(r) /\ UNCHANGED <<exam, store, receipt, deleted>>
  BY DEF Uploads!Rename, Uploads!Confirmed, Uploads!RenamedIdentity
<1>2. i \in Uploads!Ids /\ a \in Uploads!Answer
  BY DEF UploadsInv, Uploads!TypeOK, Uploads!Request
<1>3. i \in Uploads!Saved
  BY <1>1, <1>2 DEF Uploads!Saved
<1>4. Uploads!Identity(a) \in Students /\ Uploads!Identity(a) = Uploads!Identity(stored[i])
  BY <1>1, <1>2, AnswerMeans DEF Uploads!Identity
<1>5. Uploads!UniqueIdentity(Uploads!Identity(a), i)
  BY <1>3, <1>4 DEF Uploads!UniqueIdentity, UploadsInv, Uploads!OneAnswerPerStudent
<1> HIDE DEF i, a
<1> QED
  BY <1>1, <1>3, <1>4, <1>5, StepAnswer

\* Answers go, and their files are deleted.
LEMMA StepRemoved ==
  ASSUME Uploads!ConstantsOK, UploadsInv, NEW gone \in SUBSET Uploads!Saved,
         stored' = [i \in Uploads!Ids |-> IF i \in gone THEN Uploads!NoAnswer ELSE stored[i]],
         deleted' = (deleted \cup {stored[i].file : i \in gone}) \ {None},
         exam' \in BOOLEAN, store' = store,
         receipt' \in [Files -> Uploads!Receipt],
         \A f \in Files : \/ receipt'[f] = receipt[f]
                          \/ /\ receipt'[f].state = "deleted"
                             /\ \E i \in gone : stored[i].file = f,
         onAnswer' \in [Requests -> Uploads!Request],
         \A r \in Requests : \/ onAnswer'[r] = onAnswer[r]
                             \/ /\ onAnswer'[r].at \notin {"idle", "files"}
                             \/ /\ onAnswer'[r].at = "files"
                                /\ onAnswer'[r].seen.file \in deleted' \cup {None}
  PROVE  UploadsInv'
<1>0. stored \in [Uploads!Ids -> Uploads!Answer \cup {Uploads!NoAnswer}] /\ deleted \subseteq Files
  BY DEF UploadsInv, Uploads!TypeOK
<1>1. /\ stored' \in [Uploads!Ids -> Uploads!Answer \cup {Uploads!NoAnswer}]
      /\ Uploads!Saved' = Uploads!Saved \ gone /\ \A i \in Uploads!Saved' : stored'[i] = stored[i] /\ i \in Uploads!Saved
  BY <1>0 DEF Uploads!Saved, Uploads!Exists
<1>2. \A i \in gone : stored[i].file \in Files \cup {None}
  BY SavedAnswers DEF Uploads!Answer
<1>3. deleted' \subseteq Files /\ deleted \subseteq deleted'
  BY <1>0, <1>2, UploadsMean
<1>4. Uploads!TypeOK'
  BY <1>1, <1>3 DEF UploadsInv, Uploads!TypeOK
<1>5. RequestInv'
  <2> SUFFICES ASSUME NEW r \in Requests
               PROVE  /\ onAnswer'[r].at = "idle" => stored'[r] = Uploads!NoAnswer
                      /\ onAnswer'[r].at = "files" => onAnswer'[r].seen.file \in deleted' \cup {None}
    BY DEF RequestInv
  <2>1. r \in Uploads!Ids
    BY DEF Uploads!Ids
  <2> QED
    BY <1>3, <2>1 DEF UploadsInv, RequestInv
<1>6. ReceiptInv'
  <2> SUFFICES ASSUME NEW f \in Files
               PROVE  /\ receipt'[f].state = "uploaded" => f \in store
                      /\ f \in deleted' => receipt'[f].state \in {"saved", "deleted"}
    BY DEF ReceiptInv
  <2>1. ASSUME NEW i \in gone, stored[i].file = f PROVE receipt[f].state = "saved"
    <3>1. i \in Uploads!Saved
      OBVIOUS
    <3> QED
      BY <2>1, <3>1, BoundReceipt
  <2> QED
    BY <2>1 DEF UploadsInv, ReceiptInv
<1>7. Uploads!OneAnswerPerStudent'
  <2>1. \A i \in Uploads!Saved' : Uploads!Identity(stored[i])' = Uploads!Identity(stored[i])
    BY <1>1 DEF Uploads!Identity
  <2> QED
    BY <1>1, <2>1 DEF UploadsInv, Uploads!OneAnswerPerStudent
\* Two answers never have one file.
<1>8. \A i \in Uploads!Saved', j \in gone : stored[i].file # None => stored[i].file # stored[j].file
  <2> SUFFICES ASSUME NEW i \in Uploads!Saved', NEW j \in gone, stored[i].file # None,
                      stored[i].file = stored[j].file
               PROVE  FALSE
    OBVIOUS
  <2>1. stored[i].file \in Files /\ i \in Uploads!Saved /\ j \in Uploads!Saved
    BY <1>1, SavedAnswers DEF Uploads!Answer
  <2>2. receipt[stored[i].file].answer = i /\ receipt[stored[i].file].answer = j
    BY <2>1, BoundReceipt
  <2> QED
    BY <1>1, <2>2
<1>9. Uploads!DeletedStaysDeleted'
  BY <1>1, <1>8 DEF UploadsInv, Uploads!DeletedStaysDeleted
<1>10. Uploads!ScriptIsStored'
  BY <1>1 DEF UploadsInv, Uploads!ScriptIsStored
<1>11. Uploads!ReceiptMatchesAnswer'
  <2> SUFFICES ASSUME NEW i \in Uploads!Saved', NEW f \in Files, stored'[i].file = f
               PROVE  receipt'[f] = [state |-> "saved", answer |-> i]
    BY DEF Uploads!ReceiptMatchesAnswer
  <2>1. receipt[f] = [state |-> "saved", answer |-> i] /\ stored[i].file = f
    BY <1>1 DEF UploadsInv, Uploads!ReceiptMatchesAnswer
  <2>2. \A j \in gone : stored[j].file # f
    BY <1>8, <2>1, UploadsMean
  <2> QED
    BY <2>1, <2>2
<1> QED
  BY <1>4, <1>5, <1>6, <1>7, <1>9, <1>10, <1>11 DEF UploadsInv

LEMMA StepRemove ==
  ASSUME Uploads!ConstantsOK, UploadsInv, NEW r \in Requests, Uploads!Remove(r)
  PROVE  UploadsInv'
<1> DEFINE i == onAnswer[r].id
           f == stored[i].file
<1>0. /\ exam' = exam /\ store' = store /\ Uploads!Exists(i)
      /\ stored' = [stored EXCEPT ![i] = Uploads!NoAnswer]
      /\ f # None => /\ receipt' = [receipt EXCEPT ![f].state = IF receipt[f].answer = i THEN "deleted" ELSE @]
                     /\ deleted' = deleted \cup {f}
      /\ f = None => UNCHANGED <<receipt, deleted>>
  BY DEF Uploads!Remove, Uploads!Confirmed
<1>1. PICK to \in {"files", "done"} :
        onAnswer' = [onAnswer EXCEPT ![r].at = to, ![r].seen = stored[i]]
  BY DEF Uploads!Remove
<1>2. onAnswer \in [Requests -> Uploads!Request] /\ receipt \in [Files -> Uploads!Receipt] /\ deleted \subseteq Files
      /\ stored \in [Uploads!Ids -> Uploads!Answer \cup {Uploads!NoAnswer}] /\ i \in Uploads!Ids
  BY DEF UploadsInv, Uploads!TypeOK, Uploads!Request
<1>3. i \in Uploads!Saved /\ stored[i] \in Uploads!Answer /\ f \in Files \cup {None}
  BY <1>0, <1>2 DEF Uploads!Saved, Uploads!Exists, Uploads!Answer
<1>4. /\ onAnswer' \in [Requests -> Uploads!Request] /\ onAnswer'[r].at = to /\ onAnswer'[r].seen = stored[i]
      /\ \A p \in Requests \ {r} : onAnswer'[p] = onAnswer[p]
  BY <1>1, <1>2, <1>3 DEF Uploads!Request
<1>5. stored' = [j \in Uploads!Ids |-> IF j \in {i} THEN Uploads!NoAnswer ELSE stored[j]]
  BY <1>0, <1>2
<1>6. deleted' = (deleted \cup {stored[j].file : j \in {i}}) \ {None}
  <2>1. None \notin deleted
    BY <1>2, UploadsMean
  <2>2. {stored[j].file : j \in {i}} = {f}
    OBVIOUS
  <2> QED
    BY <1>0, <2>1, <2>2
<1>7. receipt' \in [Files -> Uploads!Receipt]
      /\ \A g \in Files : \/ receipt'[g] = receipt[g]
                          \/ receipt'[g].state = "deleted" /\ \E j \in {i} : stored[j].file = g
  <2>1. CASE f = None
    BY <1>0, <1>2, <2>1
  <2>2. CASE f # None
    <3>1. f \in Files /\ receipt[f] = [state |-> "saved", answer |-> i]
      BY <1>3, <2>2 DEF UploadsInv, Uploads!ReceiptMatchesAnswer
    <3>2. receipt' = [receipt EXCEPT ![f].state = "deleted"]
      BY <1>0, <2>2, <3>1
    <3> QED
      BY <1>2, <3>1, <3>2 DEF Uploads!Receipt
  <2> QED
    BY <2>1, <2>2
<1>8. \A p \in Requests : \/ onAnswer'[p] = onAnswer[p]
                          \/ onAnswer'[p].at \notin {"idle", "files"}
                          \/ /\ onAnswer'[p].at = "files"
                             /\ onAnswer'[p].seen.file \in deleted' \cup {None}
  <2>1. onAnswer'[r].seen.file \in deleted' \cup {None}
    BY <1>0, <1>4
  <2> QED
    BY <1>4, <2>1
<1>9. exam' \in BOOLEAN /\ {i} \in SUBSET Uploads!Saved
  BY <1>0, <1>3 DEF UploadsInv, Uploads!TypeOK
<1> HIDE DEF i, f
<1> QED
  BY <1>0, <1>4, <1>5, <1>6, <1>7, <1>8, <1>9, StepRemoved

LEMMA StepDeleteExam ==
  ASSUME Uploads!ConstantsOK, UploadsInv, Uploads!DeleteExam
  PROVE  UploadsInv'
<1>1. /\ exam' = FALSE /\ stored' = [i \in Uploads!Ids |-> Uploads!NoAnswer]
      /\ deleted' = (deleted \cup {stored[i].file : i \in Uploads!Saved}) \ {None}
      /\ UNCHANGED <<store, receipt, onAnswer>>
  BY DEF Uploads!DeleteExam
<1>2. stored' = [i \in Uploads!Ids |-> IF i \in Uploads!Saved THEN Uploads!NoAnswer ELSE stored[i]]
  BY <1>1 DEF Uploads!Saved, Uploads!Exists
<1>3. receipt \in [Files -> Uploads!Receipt] /\ onAnswer \in [Requests -> Uploads!Request]
  BY DEF UploadsInv, Uploads!TypeOK
<1> QED
  BY <1>1, <1>2, <1>3, StepRemoved

LEMMA UploadsStep ==
  ASSUME Uploads!ConstantsOK, UploadsInv, [Uploads!Next]_Uploads!vars
  PROVE  UploadsInv'
<1>1. ASSUME NEW f \in Files, Uploads!StoreFile(f) \/ Uploads!InsertReceipt(f) PROVE UploadsInv'
  BY <1>1, StepUpload
<1>2. ASSUME NEW r \in Requests, NEW f \in Files, Uploads!Save(r, f) PROVE UploadsInv'
  BY <1>2, StepSave
<1>3. ASSUME NEW r \in Requests,
             (\E i \in Uploads!Ids : Uploads!ReadAnswer(r, i)) \/ Uploads!RemoveFiles(r) \/ Uploads!CheckIdentity(r) \/ Uploads!GiveUp(r)
      PROVE  UploadsInv'
  BY <1>3, StepRequest
<1>4. ASSUME NEW r \in Requests, NEW n \in Names, Uploads!Rename(r, n) PROVE UploadsInv'
  BY <1>4, StepRename
<1>5. ASSUME NEW r \in Requests, NEW s \in Students, Uploads!EnterManually(r, s) PROVE UploadsInv'
  BY <1>5, StepManual
<1>6. ASSUME NEW r \in Requests, Uploads!Remove(r) PROVE UploadsInv'
  BY <1>6, StepRemove
<1>7. CASE Uploads!DeleteExam
  BY <1>7, StepDeleteExam
<1>8. CASE UNCHANGED Uploads!vars
  <2>1. Uploads!Saved' = Uploads!Saved /\ \A i \in Uploads!Saved : Uploads!Identity(stored[i])' = Uploads!Identity(stored[i])
    BY <1>8 DEF Uploads!vars, Uploads!Saved, Uploads!Exists, Uploads!Identity
  <2> QED
    BY <1>8, <2>1 DEF Uploads!vars, UploadsInv, Uploads!TypeOK, RequestInv, ReceiptInv, Uploads!OneAnswerPerStudent,
       Uploads!DeletedStaysDeleted, Uploads!ScriptIsStored, Uploads!ReceiptMatchesAnswer
<1> QED
  BY <1>1, <1>2, <1>3, <1>4, <1>5, <1>6, <1>7, <1>8 DEF Uploads!Next


-----------------------------------------------------------------------------
\* Transcripts: the inductive invariant

\* A row was published by somebody, counts no later semester, and is flagged
\* when its own results are out of date.  One that is not flagged counts the
\* rows before it as they are.
RowFits(table, m, x) ==
  table[m][x] # Transcript!NoRow =>
    /\ table[m][x].by # None
    /\ table[m][x].results_stale => table[m][x].is_stale
    /\ \A k \in Transcript!Semesters : k > m => table[m][x].counted[k] = None
    /\ ~table[m][x].is_stale =>
         \A k \in Transcript!Semesters : k <= m /\ table[k][x] # Transcript!NoRow => table[m][x].counted[k] = table[k][x].by

\* No row is ahead of an earlier one that is out of date.
InOrder(table) ==
  \A x \in Graduates, k, m \in Transcript!Semesters :
    k < m /\ table[k][x] # Transcript!NoRow /\ table[m][x] # Transcript!NoRow /\ table[k][x].results_stale
      => table[m][x].is_stale

\* A semester is of one publication.
OneSet(table) ==
  \A m \in Transcript!Semesters, x, y \in Graduates :
    table[m][x] # Transcript!NoRow /\ table[m][y] # Transcript!NoRow => table[m][x].by = table[m][y].by

Sound(table) ==
  /\ table \in [Transcript!Semesters -> [Graduates -> Transcript!Row]]
  /\ \A m \in Transcript!Semesters, x \in Graduates : RowFits(table, m, x)
  /\ InOrder(table)
  /\ OneSet(table)

\* A row whose results are not flagged shows the marks ms.
Shows(table, ms) ==
  \A m \in Transcript!Semesters, x \in Graduates :
    table[m][x] # Transcript!NoRow /\ ~table[m][x].results_stale =>
      \A s \in Transcript!Taught(m) : table[m][x].basis[s] = ms[s][x]

\* A publisher knows the marks that it read, until the source revision moves on.
TaskFits(t) ==
  /\ t.source <= source
  /\ t.at = "idle" => t.semester = 0
  /\ t.at \in {"idle", "existing"} => t.read = {}
  /\ t.at \in {"existing", "reading"} => t.semester # 0
  /\ t.at = "computed" /\ t.semester # 0 => t.read = Transcript!Taught(t.semester)
  /\ t.at \in {"reading", "computed"} /\ t.source = source /\ deletion = "none" =>
       \A s \in Subjects : t.semester = 0 \/ s \in t.read => t.basis[s] = marks[s]

TranscriptsInv ==
  /\ Transcript!TypeOK
  /\ Sound(rows)
  /\ deletion = "none" => Shows(rows, marks)
  /\ \A p \in Publishers : TaskFits(task[p])

LEMMA TranscriptsMean ==
  ASSUME Transcript!ConstantsOK
  PROVE  /\ TotalSemesters \in Nat /\ Transcript!Semesters \subseteq Nat /\ 0 \notin Transcript!Semesters
         /\ \A s \in Subjects : SemesterOf[s] \in Transcript!Semesters
         /\ None \notin Publishers /\ MaxChanges \in Nat
BY DEF Transcript!ConstantsOK, Transcript!Semesters

\* What is not there is a row, of nobody.
LEMMA NothingThere ==
  ASSUME Transcript!ConstantsOK
  PROVE  /\ Transcript!NoRow \in Transcript!Row
         /\ Transcript!NoRow.by = None /\ Transcript!NoRow.is_stale = FALSE /\ Transcript!NoRow.results_stale = FALSE
         /\ Transcript!NoRow.cgpa_stale = FALSE /\ \A k \in Transcript!Semesters : Transcript!NoRow.counted[k] = None
<1>1. /\ [s \in Subjects |-> 0] \in [Subjects -> Nat]
      /\ [m \in Transcript!Semesters |-> None] \in [Transcript!Semesters -> Publishers \cup {None}]
  OBVIOUS
<1> QED
  BY <1>1 DEF Transcript!NoRow, Transcript!Row

-----------------------------------------------------------------------------
\* Flagging

LEMMA TouchedRow ==
  ASSUME Transcript!ConstantsOK, NEW table, Sound(table), NEW n \in Transcript!Semesters,
         NEW k \in Transcript!Semesters, NEW x \in Graduates,
         NEW new, new = Transcript!Touched(table, n)
  PROVE  /\ new[k][x] \in Transcript!Row
         /\ new[k][x] = Transcript!NoRow <=> table[k][x] = Transcript!NoRow
         /\ new[k][x].by = table[k][x].by
         /\ new[k][x].basis = table[k][x].basis
         /\ new[k][x].counted = table[k][x].counted
         /\ table[k][x].is_stale => new[k][x].is_stale
         /\ table[k][x].results_stale => new[k][x].results_stale
         /\ new[k][x].results_stale => table[k][x].results_stale \/ k = n
         /\ table[k][x] # Transcript!NoRow /\ k = n => new[k][x].is_stale /\ new[k][x].results_stale
         /\ table[k][x] # Transcript!NoRow /\ k > n => new[k][x].is_stale
<1> PICK row \in Transcript!Row : row = table[k][x]
  BY DEF Sound
<1>1. row # Transcript!NoRow => row.by # None
  BY DEF Sound, RowFits
<1>2. Transcript!NoRow.by = None
  BY NothingThere
<1> PICK outdated : outdated = [row EXCEPT !.is_stale = TRUE, !.results_stale = TRUE]
  OBVIOUS
<1> PICK behind : behind = [row EXCEPT !.is_stale = TRUE, !.cgpa_stale = TRUE]
  OBVIOUS
<1>3. new[k][x] = IF row = Transcript!NoRow \/ k < n THEN row ELSE IF k = n THEN outdated ELSE behind
  BY DEF Transcript!Touched
<1>4. /\ outdated \in Transcript!Row /\ outdated.is_stale /\ outdated.results_stale
      /\ outdated.by = row.by /\ outdated.basis = row.basis /\ outdated.counted = row.counted
  BY DEF Transcript!Row
<1>5. /\ behind \in Transcript!Row /\ behind.is_stale /\ behind.results_stale = row.results_stale
      /\ behind.by = row.by /\ behind.basis = row.basis /\ behind.counted = row.counted
  BY DEF Transcript!Row
<1>6. k \in Nat /\ n \in Nat
  BY TranscriptsMean
<1>7. row # Transcript!NoRow => outdated # Transcript!NoRow /\ behind # Transcript!NoRow
  BY <1>1, <1>2, <1>4, <1>5
<1> QED
  BY <1>3, <1>4, <1>5, <1>6, <1>7

LEMMA TouchedSound ==
  ASSUME Transcript!ConstantsOK, NEW table, Sound(table), NEW n \in Transcript!Semesters
  PROVE  Sound(Transcript!Touched(table, n))
<1> PICK new : new = Transcript!Touched(table, n)
  OBVIOUS
<1>1. \A k \in Transcript!Semesters, x \in Graduates :
         /\ new[k][x] \in Transcript!Row
         /\ new[k][x] = Transcript!NoRow <=> table[k][x] = Transcript!NoRow
         /\ new[k][x].by = table[k][x].by
         /\ new[k][x].counted = table[k][x].counted
         /\ table[k][x].is_stale => new[k][x].is_stale
         /\ new[k][x].results_stale => table[k][x].results_stale \/ k = n
         /\ table[k][x] # Transcript!NoRow /\ k = n => new[k][x].is_stale /\ new[k][x].results_stale
         /\ table[k][x] # Transcript!NoRow /\ k > n => new[k][x].is_stale
  BY TouchedRow
<1>2. new \in [Transcript!Semesters -> [Graduates -> Transcript!Row]]
  <2>1. \A k \in Transcript!Semesters, x \in Graduates :
           (IF table[k][x] = Transcript!NoRow \/ k < n THEN table[k][x]
            ELSE IF k = n
              THEN [table[k][x] EXCEPT !.is_stale = TRUE, !.results_stale = TRUE]
              ELSE [table[k][x] EXCEPT !.is_stale = TRUE, !.cgpa_stale = TRUE]) = new[k][x]
    BY DEF Transcript!Touched
  <2> QED
    BY <1>1, <2>1 DEF Transcript!Touched
<1>3. ASSUME NEW m \in Transcript!Semesters, NEW x \in Graduates PROVE RowFits(new, m, x)
  <2>1. RowFits(table, m, x)
    BY DEF Sound
  <2>2. new[m][x] \in Transcript!Row
    BY <1>1
  <2> QED
    BY <1>1, <2>1, <2>2 DEF RowFits
<1>4. InOrder(new)
  <2> SUFFICES ASSUME NEW x \in Graduates, NEW k \in Transcript!Semesters, NEW m \in Transcript!Semesters,
                      k < m, new[k][x] # Transcript!NoRow, new[m][x] # Transcript!NoRow, new[k][x].results_stale
               PROVE  new[m][x].is_stale
    BY DEF InOrder
  <2>1. CASE table[k][x].results_stale
    BY <1>1, <2>1 DEF Sound, InOrder
  <2>2. CASE k = n
    BY <1>1, <2>2, TranscriptsMean
  <2> QED
    BY <1>1, <2>1, <2>2
<1>5. OneSet(new)
  BY <1>1 DEF Sound, OneSet
<1> QED
  BY <1>2, <1>3, <1>4, <1>5 DEF Sound

\* Marks that change in semester n alone.
LEMMA TouchedShows ==
  ASSUME Transcript!ConstantsOK, NEW table, Sound(table), NEW n \in Transcript!Semesters,
         NEW ms, NEW moved, Shows(table, ms),
         \A s \in Subjects, x \in Graduates : SemesterOf[s] # n => moved[s][x] = ms[s][x]
  PROVE  Shows(Transcript!Touched(table, n), moved)
<1> PICK new : new = Transcript!Touched(table, n)
  OBVIOUS
<1>1. \A k \in Transcript!Semesters, x \in Graduates :
         /\ new[k][x] = Transcript!NoRow <=> table[k][x] = Transcript!NoRow
         /\ new[k][x].basis = table[k][x].basis
         /\ table[k][x].results_stale => new[k][x].results_stale
         /\ table[k][x] # Transcript!NoRow /\ k = n => new[k][x].results_stale
  BY TouchedRow
<1> QED
  BY <1>1 DEF Shows, Transcript!Taught

-----------------------------------------------------------------------------
\* Publishing

LEMMA ReplacedRow ==
  ASSUME Transcript!ConstantsOK, TranscriptsInv, NEW p \in Publishers, NEW roster,
         NEW m \in Transcript!Semesters, NEW x \in Graduates, NEW table, table = Transcript!Replaced(p, roster)
  PROVE  /\ table[m][x] \in Transcript!Row
         /\ m \notin Transcript!Scope(task[p].semester) => table[m][x] = rows[m][x]
         /\ m \in Transcript!Scope(task[p].semester) /\ x \notin roster[m] => table[m][x] = Transcript!NoRow
         /\ m \in Transcript!Scope(task[p].semester) /\ x \in roster[m] =>
              /\ table[m][x] # Transcript!NoRow /\ table[m][x].by = p
              /\ ~table[m][x].is_stale /\ ~table[m][x].results_stale
              /\ \A k \in Transcript!Semesters : table[m][x].counted[k] = None
              /\ \A s \in Transcript!Taught(m) : table[m][x].basis[s] = task[p].basis[s][x]
<1> PICK basis : basis = [s \in Subjects |-> IF SemesterOf[s] = m THEN task[p].basis[s][x] ELSE 0]
  OBVIOUS
<1>1. basis \in [Subjects -> Nat]
  BY TranscriptsMean DEF TranscriptsInv, Transcript!TypeOK, Transcript!Versions
<1> PICK row : row = [Transcript!NoRow EXCEPT !.by = p, !.basis = basis]
  OBVIOUS
<1>2. /\ row \in Transcript!Row /\ row.by = p /\ row.basis = basis
      /\ ~row.is_stale /\ ~row.results_stale /\ \A k \in Transcript!Semesters : row.counted[k] = None
  BY <1>1, NothingThere DEF Transcript!NoRow, Transcript!Row
<1>3. table[m][x] = IF m \notin Transcript!Scope(task[p].semester) THEN rows[m][x]
                    ELSE IF x \notin roster[m] THEN Transcript!NoRow ELSE row
  BY DEF Transcript!Replaced
<1>4. rows[m][x] \in Transcript!Row /\ Transcript!NoRow \in Transcript!Row
  BY NothingThere DEF TranscriptsInv, Sound
<1>5. row # Transcript!NoRow
  BY <1>2, NothingThere, TranscriptsMean
<1>6. \A s \in Transcript!Taught(m) : basis[s] = task[p].basis[s][x]
  BY DEF Transcript!Taught
<1> QED
  BY <1>2, <1>3, <1>4, <1>5, <1>6

LEMMA RepairedRow ==
  ASSUME Transcript!ConstantsOK, NEW p \in Publishers, task[p].semester \in Nat,
         NEW m \in Transcript!Semesters, NEW x \in Graduates, NEW students,
         NEW table, table \in [Transcript!Semesters -> [Graduates -> Transcript!Row]],
         table[m][x] # Transcript!NoRow => table[m][x].by # None,
         NEW new, new = Transcript!Repaired(p, table, students)
  PROVE  /\ new[m][x] \in Transcript!Row
         /\ new[m][x] = Transcript!NoRow <=> table[m][x] = Transcript!NoRow
         /\ new[m][x].by = table[m][x].by
         /\ new[m][x].basis = table[m][x].basis
         /\ new[m][x].results_stale = table[m][x].results_stale
         /\ x \notin students \/ m < task[p].semester => new[m][x] = table[m][x]
         /\ table[m][x] # Transcript!NoRow /\ x \in students /\ m >= task[p].semester =>
              /\ Transcript!Blocked(table, m, x) => /\ new[m][x].is_stale
                                                    /\ new[m][x].counted = table[m][x].counted
              /\ ~Transcript!Blocked(table, m, x) =>
                    \A k \in Transcript!Semesters :
                      new[m][x].counted[k] = IF k <= m THEN table[k][x].by ELSE None
<1> PICK row \in Transcript!Row : row = table[m][x]
  OBVIOUS
<1> PICK counted : counted = [k \in Transcript!Semesters |-> IF k <= m THEN table[k][x].by ELSE None]
  OBVIOUS
<1>1. counted \in [Transcript!Semesters -> Publishers \cup {None}]
  BY DEF Transcript!Row
<1> PICK blocked \in BOOLEAN : blocked <=> Transcript!Blocked(table, m, x)
  OBVIOUS
<1>2. new[m][x] = IF x \notin students \/ row = Transcript!NoRow \/ m < task[p].semester THEN row
                  ELSE IF blocked THEN [row EXCEPT !.is_stale = TRUE, !.cgpa_stale = TRUE]
                  ELSE [row EXCEPT !.counted = counted, !.is_stale = FALSE, !.cgpa_stale = FALSE]
  BY DEF Transcript!Repaired
<1> PICK flagged : flagged = [row EXCEPT !.is_stale = TRUE, !.cgpa_stale = TRUE]
  OBVIOUS
<1> PICK mended : mended = [row EXCEPT !.counted = counted, !.is_stale = FALSE, !.cgpa_stale = FALSE]
  OBVIOUS
<1>3. /\ flagged \in Transcript!Row /\ flagged.is_stale /\ flagged.counted = row.counted
      /\ flagged.by = row.by /\ flagged.basis = row.basis /\ flagged.results_stale = row.results_stale
  BY DEF Transcript!Row
<1>4. /\ mended \in Transcript!Row /\ mended.counted = counted
      /\ mended.by = row.by /\ mended.basis = row.basis /\ mended.results_stale = row.results_stale
  BY <1>1 DEF Transcript!Row
<1>5. row # Transcript!NoRow => flagged # Transcript!NoRow /\ mended # Transcript!NoRow
  BY <1>3, <1>4, NothingThere
<1>6. m \in Nat
  BY TranscriptsMean
<1> QED
  BY <1>2, <1>3, <1>4, <1>5, <1>6

\* The rows of a publication, with the cumulative values repaired.
LEMMA PublishedSound ==
  ASSUME Transcript!ConstantsOK, TranscriptsInv, NEW p \in Publishers, NEW roster, NEW students,
         students = UNION {roster[m] : m \in Transcript!Scope(task[p].semester)}
  PROVE  Sound(Transcript!Repaired(p, Transcript!Replaced(p, roster), students))
<1> PICK n \in 0 .. TotalSemesters : n = task[p].semester
  BY DEF TranscriptsInv, Transcript!TypeOK
<1> PICK old : old = rows
  OBVIOUS
<1> PICK table : table = Transcript!Replaced(p, roster)
  OBVIOUS
<1> PICK new : new = Transcript!Repaired(p, table, students)
  OBVIOUS
<1>1. /\ n \in Nat /\ \A m \in Transcript!Semesters : m \in Nat /\ (m \in Transcript!Scope(n) <=> n = 0 \/ m = n) /\ (n > m => m \notin Transcript!Scope(n))
      /\ Sound(old) /\ p # None /\ \A m \in Transcript!Semesters : m \in 1 .. m
  BY TranscriptsMean DEF TranscriptsInv, Transcript!Scope, Transcript!Semesters
<1>2. \A m \in Transcript!Semesters, x \in Graduates :
        /\ table[m][x] \in Transcript!Row
        /\ m \notin Transcript!Scope(n) => table[m][x] = old[m][x]
        /\ m \in Transcript!Scope(n) /\ x \notin roster[m] => table[m][x] = Transcript!NoRow
        /\ m \in Transcript!Scope(n) /\ x \in roster[m] =>
             /\ table[m][x] # Transcript!NoRow /\ table[m][x].by = p
             /\ ~table[m][x].is_stale /\ ~table[m][x].results_stale
             /\ \A k \in Transcript!Semesters : table[m][x].counted[k] = None
  BY ReplacedRow
<1>3. table \in [Transcript!Semesters -> [Graduates -> Transcript!Row]]
  <2>1. /\ table = [m \in Transcript!Semesters |-> [x \in Graduates |-> table[m][x]]]
    BY DEF Transcript!Replaced
  <2> QED
    BY <1>2, <2>1
<1>4. \A m \in Transcript!Semesters, x \in Graduates :
        /\ table[m][x] # Transcript!NoRow => table[m][x].by # None
        /\ table[m][x] # Transcript!NoRow /\ m \in Transcript!Scope(n) => x \in roster[m] /\ x \in students
        /\ table[m][x] # Transcript!NoRow /\ m \notin Transcript!Scope(n) => old[m][x] # Transcript!NoRow /\ table[m][x] = old[m][x]
        /\ \A k \in Transcript!Semesters : table[m][x] # Transcript!NoRow /\ k > m => table[m][x].counted[k] = None
  BY <1>1, <1>2 DEF Sound, RowFits
<1>5. \A m \in Transcript!Semesters, x \in Graduates :
         /\ new[m][x] \in Transcript!Row
         /\ new[m][x] = Transcript!NoRow <=> table[m][x] = Transcript!NoRow
         /\ new[m][x].by = table[m][x].by
         /\ new[m][x].results_stale = table[m][x].results_stale
         /\ x \notin students \/ m < n => new[m][x] = table[m][x]
         /\ table[m][x] # Transcript!NoRow /\ x \in students /\ m >= n =>
              /\ Transcript!Blocked(table, m, x) => /\ new[m][x].is_stale
                                                    /\ new[m][x].counted = table[m][x].counted
              /\ ~Transcript!Blocked(table, m, x) =>
                    \A k \in Transcript!Semesters :
                      new[m][x].counted[k] = IF k <= m THEN table[k][x].by ELSE None
  BY <1>1, <1>3, <1>4, RepairedRow
<1>6. new \in [Transcript!Semesters -> [Graduates -> Transcript!Row]]
  <2>1. new = [m \in Transcript!Semesters |-> [x \in Graduates |-> new[m][x]]]
    BY DEF Transcript!Repaired
  <2> QED
    BY <1>5, <2>1
<1>7. ASSUME NEW m \in Transcript!Semesters, NEW x \in Graduates, NEW k \in Transcript!Semesters, k <= m,
             table[k][x] # Transcript!NoRow, table[k][x].results_stale
      PROVE  Transcript!Blocked(table, m, x)
  BY <1>1, <1>7 DEF Transcript!Blocked, Transcript!OwnStale, Transcript!Semesters
\* A row the repair leaves alone is one of before, like the earlier ones.
<1>8. ASSUME NEW m \in Transcript!Semesters, NEW x \in Graduates, table[m][x] # Transcript!NoRow,
             x \notin students \/ m < n,
             NEW k \in Transcript!Semesters, k <= m, table[k][x] # Transcript!NoRow
      PROVE  /\ new[m][x] = old[m][x] /\ new[k][x] = old[k][x]
             /\ old[m][x] # Transcript!NoRow /\ old[k][x] # Transcript!NoRow
  BY <1>1, <1>2, <1>4, <1>5, <1>8
<1>9. ASSUME NEW m \in Transcript!Semesters, NEW x \in Graduates PROVE RowFits(new, m, x)
  <2> SUFFICES ASSUME table[m][x] # Transcript!NoRow PROVE RowFits(new, m, x)
    BY <1>5 DEF RowFits
  <2>1. CASE x \notin students \/ m < n
    <3>1. /\ new[m][x] = old[m][x] /\ old[m][x] # Transcript!NoRow
          /\ \A k \in Transcript!Semesters : k <= m /\ new[k][x] # Transcript!NoRow =>
                new[k][x] = old[k][x] /\ old[k][x] # Transcript!NoRow
      BY <1>1, <1>5, <1>8, <2>1
    <3>2. RowFits(old, m, x)
      BY <1>1 DEF Sound
    <3> QED
      BY <3>1, <3>2 DEF RowFits
  <2>2. CASE x \in students /\ m >= n /\ Transcript!Blocked(table, m, x)
    BY <1>4, <1>5, <2>2 DEF RowFits
  <2>3. CASE x \in students /\ m >= n /\ ~Transcript!Blocked(table, m, x)
    <3>1. ~table[m][x].results_stale
      BY <1>1, <1>7, <2>3
    <3>2. \A k \in Transcript!Semesters : k > m => ~(k <= m)
      BY <1>1
    <3> QED
      BY <1>4, <1>5, <2>3, <3>1, <3>2 DEF RowFits
  <2> QED
    BY <1>1, <2>1, <2>2, <2>3
<1>10. InOrder(new)
  <2> SUFFICES ASSUME NEW x \in Graduates, NEW k \in Transcript!Semesters, NEW m \in Transcript!Semesters,
                      k < m, new[k][x] # Transcript!NoRow, new[m][x] # Transcript!NoRow, new[k][x].results_stale
               PROVE  new[m][x].is_stale
    BY DEF InOrder
  <2>1. table[k][x] # Transcript!NoRow /\ table[m][x] # Transcript!NoRow /\ table[k][x].results_stale /\ k <= m
    BY <1>1, <1>5
  <2>2. CASE x \notin students \/ m < n
    <3>1. /\ new[m][x] = old[m][x] /\ new[k][x] = old[k][x]
          /\ old[m][x] # Transcript!NoRow /\ old[k][x] # Transcript!NoRow
      BY <1>8, <2>1, <2>2
    <3> QED
      BY <1>1, <3>1 DEF Sound, InOrder
  <2>3. CASE x \in students /\ m >= n
    BY <1>5, <1>7, <2>1, <2>3
  <2> QED
    BY <1>1, <2>2, <2>3
<1>11. OneSet(new)
  <2> SUFFICES ASSUME NEW m \in Transcript!Semesters, NEW x \in Graduates, NEW y \in Graduates,
                      table[m][x] # Transcript!NoRow, table[m][y] # Transcript!NoRow
               PROVE  table[m][x].by = table[m][y].by
    BY <1>5 DEF OneSet
  <2>1. CASE m \in Transcript!Scope(n)
    BY <1>2, <1>4, <2>1
  <2>2. CASE m \notin Transcript!Scope(n)
    BY <1>1, <1>4, <2>2 DEF Sound, OneSet
  <2> QED
    BY <2>1, <2>2
<1> QED
  BY <1>6, <1>9, <1>10, <1>11 DEF Sound

\* A publisher whose snapshot still holds publishes the marks as they are.
LEMMA PublishedShows ==
  ASSUME Transcript!ConstantsOK, TranscriptsInv, NEW p \in Publishers, NEW roster, NEW students,
         task[p].at = "computed", task[p].source = source, deletion = "none"
  PROVE  Shows(Transcript!Repaired(p, Transcript!Replaced(p, roster), students), marks)
<1> PICK n \in 0 .. TotalSemesters : n = task[p].semester
  BY DEF TranscriptsInv, Transcript!TypeOK
<1> PICK table : table = Transcript!Replaced(p, roster)
  OBVIOUS
<1> PICK new : new = Transcript!Repaired(p, table, students)
  OBVIOUS
<1>1. /\ n \in Nat /\ \A m \in Transcript!Semesters : m \in Transcript!Scope(n) <=> n = 0 \/ m = n
      /\ Sound(rows) /\ Shows(rows, marks) /\ p # None
  BY TranscriptsMean DEF TranscriptsInv, Transcript!Scope, Transcript!Semesters
<1>2. \A m \in Transcript!Semesters, x \in Graduates :
        /\ table[m][x] \in Transcript!Row
        /\ m \notin Transcript!Scope(n) => table[m][x] = rows[m][x]
        /\ m \in Transcript!Scope(n) /\ x \notin roster[m] => table[m][x] = Transcript!NoRow
        /\ m \in Transcript!Scope(n) /\ x \in roster[m] =>
             /\ table[m][x].by = p
             /\ \A s \in Transcript!Taught(m) : table[m][x].basis[s] = task[p].basis[s][x]
  BY ReplacedRow
<1>3. table \in [Transcript!Semesters -> [Graduates -> Transcript!Row]]
  <2>1. /\ table = [m \in Transcript!Semesters |-> [x \in Graduates |-> table[m][x]]]
    BY DEF Transcript!Replaced
  <2> QED
    BY <1>2, <2>1
<1>4. \A m \in Transcript!Semesters, x \in Graduates : table[m][x] # Transcript!NoRow => table[m][x].by # None
  BY <1>1, <1>2 DEF Sound, RowFits
<1>5. \A m \in Transcript!Semesters, x \in Graduates :
         /\ new[m][x] = Transcript!NoRow <=> table[m][x] = Transcript!NoRow
         /\ new[m][x].basis = table[m][x].basis
         /\ new[m][x].results_stale = table[m][x].results_stale
  BY <1>1, <1>3, <1>4, RepairedRow
<1>6. ASSUME NEW m \in Transcript!Semesters, m \in Transcript!Scope(n), NEW s \in Transcript!Taught(m)
      PROVE  task[p].basis[s] = marks[s]
  BY <1>1, <1>6 DEF TranscriptsInv, TaskFits, Transcript!Taught
<1>7. ASSUME NEW m \in Transcript!Semesters, NEW x \in Graduates, table[m][x] # Transcript!NoRow,
             ~table[m][x].results_stale, NEW s \in Transcript!Taught(m)
      PROVE  table[m][x].basis[s] = marks[s][x]
  <2>1. CASE m \in Transcript!Scope(n)
    BY <1>2, <1>6, <1>7, <2>1
  <2>2. CASE m \notin Transcript!Scope(n)
    BY <1>1, <1>2, <1>7, <2>2 DEF Shows
  <2> QED
    BY <2>1, <2>2
<1> QED
  BY <1>5, <1>7 DEF Shows

-----------------------------------------------------------------------------
\* The steps

Publication == [at: Transcript!Places, semester: 0..TotalSemesters, source: Nat, writes: Nat,
                read: SUBSET Subjects, basis: [Subjects -> [Graduates -> Transcript!Versions]]]

LEMMA TranscriptsInit ==
  ASSUME Transcript!ConstantsOK, Transcript!Init
  PROVE  TranscriptsInv
<1>1. 0 \in Transcript!Versions /\ 0 \in 0 .. TotalSemesters
  BY TranscriptsMean DEF Transcript!Versions
<1>2. Transcript!Idle \in Publication /\ Transcript!Idle.source = 0 /\ Transcript!Idle.at = "idle" /\ Transcript!Idle.semester = 0 /\ Transcript!Idle.read = {}
  <2>1. [s \in Subjects |-> [x \in Graduates |-> 0]] \in [Subjects -> [Graduates -> Transcript!Versions]]
    BY <1>1
  <2> QED
    BY <1>1, <2>1 DEF Transcript!Idle, Publication, Transcript!Places
<1>3. Transcript!TypeOK
  BY <1>1, <1>2, NothingThere DEF Transcript!Init, Transcript!TypeOK, Publication
<1>4. Sound(rows)
  BY NothingThere DEF Transcript!Init, Sound, RowFits, InOrder, OneSet
<1>5. Shows(rows, marks)
  BY DEF Transcript!Init, Shows
<1>6. \A p \in Publishers : TaskFits(task[p])
  BY <1>2 DEF Transcript!Init, TaskFits
<1> QED
  BY <1>3, <1>4, <1>5, <1>6 DEF TranscriptsInv

\* A step of a publisher that writes nothing.
LEMMA TaskGoes ==
  ASSUME Transcript!ConstantsOK, TranscriptsInv, NEW p \in Publishers, NEW t \in Publication, TaskFits(t),
         task' = [task EXCEPT ![p] = t],
         UNCHANGED <<marks, changes, source, writes, deletion, rows>>
  PROVE  TranscriptsInv'
<1>1. Transcript!TypeOK'
  BY DEF TranscriptsInv, Transcript!TypeOK, Publication
<1>2. \A q \in Publishers : task'[q] = task[q] \/ task'[q] = t
  BY DEF TranscriptsInv, Transcript!TypeOK
<1>3. ASSUME NEW q \in Publishers PROVE TaskFits(task[q])'
  BY <1>2 DEF TranscriptsInv, TaskFits
<1>4. Sound(rows)' /\ (deletion = "none" => Shows(rows, marks))'
  BY DEF TranscriptsInv, Sound, InOrder, OneSet, RowFits, Shows
<1> QED
  BY <1>1, <1>3, <1>4 DEF TranscriptsInv

\* When marks change, every snapshot is out of date.
LEMMA MarksMove ==
  ASSUME Transcript!ConstantsOK, TranscriptsInv,
         source' \in Nat, source' > source, UNCHANGED <<deletion, task>>,
         NEW p \in Publishers
  PROVE  TaskFits(task[p])'
<1>1. /\ TaskFits(task[p]) /\ task'[p] = task[p]
      /\ source \in Nat /\ task[p].source \in Nat
  BY DEF TranscriptsInv, Transcript!TypeOK
<1> QED
  BY <1>1 DEF TaskFits

LEMMA StepChange ==
  ASSUME Transcript!ConstantsOK, TranscriptsInv, NEW s \in Subjects, NEW x \in Graduates, Transcript!ChangeMarks(s, x)
  PROVE  TranscriptsInv'
<1> PICK n \in Transcript!Semesters : n = SemesterOf[s]
  BY TranscriptsMean
<1>1. source' \in Nat /\ source' > source /\ source' = source + 1
  BY DEF Transcript!ChangeMarks, TranscriptsInv, Transcript!TypeOK
<1>2. changes' \in Transcript!Versions /\ 0 \in Transcript!Versions
  BY TranscriptsMean DEF Transcript!ChangeMarks, TranscriptsInv, Transcript!TypeOK, Transcript!Versions
<1>3. PICK v \in Transcript!Versions : marks' = [marks EXCEPT ![s][x] = v]
  BY <1>2 DEF Transcript!ChangeMarks
<1>4. marks' \in [Subjects -> [Graduates -> Transcript!Versions]]
  BY <1>3 DEF TranscriptsInv, Transcript!TypeOK
<1>5. rows' = Transcript!Touched(rows, n) /\ Sound(rows)
  BY DEF Transcript!ChangeMarks, TranscriptsInv
<1>6. Sound(rows)'
  <2>1. Sound(Transcript!Touched(rows, n))
    BY <1>5, TouchedSound
  <2> QED
    BY <1>5, <2>1 DEF Sound, InOrder, OneSet, RowFits
<1>7. ASSUME deletion = "none" PROVE Shows(rows, marks)'
  <2>1. \A u \in Subjects, y \in Graduates : SemesterOf[u] # n => marks'[u][y] = marks[u][y]
    BY <1>3 DEF TranscriptsInv, Transcript!TypeOK
  <2>2. Shows(Transcript!Touched(rows, n), marks')
    BY <1>5, <1>7, <2>1, TouchedShows DEF TranscriptsInv
  <2> QED
    BY <1>5, <2>2 DEF Shows
<1>8. Transcript!TypeOK'
  BY <1>1, <1>2, <1>4, <1>6 DEF Transcript!ChangeMarks, TranscriptsInv, Transcript!TypeOK, Sound
<1>9. UNCHANGED <<deletion, task>>
  BY DEF Transcript!ChangeMarks
<1>10. \A p \in Publishers : TaskFits(task[p])'
  BY <1>1, <1>9, MarksMove
<1> QED
  BY <1>6, <1>7, <1>8, <1>9, <1>10 DEF TranscriptsInv

\* The instance counts as this module does.
LEMMA SameCardinality == \A S : Transcript!Cardinality(S) = Cardinality(S)
BY DEF Transcript!Cardinality, Cardinality

LEMMA StepExam ==
  ASSUME Transcript!ConstantsOK, TranscriptsInv, NEW s \in Subjects, NEW t \in Subjects, Transcript!EditExam(s, t)
  PROVE  TranscriptsInv'
<1> PICK n \in Transcript!Semesters : n = SemesterOf[s]
  BY TranscriptsMean
<1> PICK m \in Transcript!Semesters : m = SemesterOf[t]
  BY TranscriptsMean
<1>1. source' \in Nat /\ source' > source
  <2>1. Cardinality({s, t}) \in Nat /\ Cardinality({s, t}) >= 1
    <3>1. IsFiniteSet({s}) /\ IsFiniteSet({t}) /\ {s, t} = {s} \cup {t}
      BY FS_Singleton
    <3>2. IsFiniteSet({s, t})
      BY <3>1, FS_Union
    <3>3. Cardinality({s, t}) \in Nat /\ Cardinality({s, t}) # 0
      BY <3>2, FS_CardinalityType, FS_EmptySet
    <3> QED
      BY <3>3
  <2> QED
    BY <2>1, SameCardinality DEF Transcript!EditExam, TranscriptsInv, Transcript!TypeOK
<1>2. changes' \in Transcript!Versions /\ 0 \in Transcript!Versions /\ {0, changes + 1} \subseteq Transcript!Versions
  BY TranscriptsMean DEF Transcript!EditExam, TranscriptsInv, Transcript!TypeOK, Transcript!Versions
<1>3. PICK v \in [{s, t} -> {0, changes + 1}] :
         marks' = [u \in Subjects |->
                      IF u \in {s, t} THEN [x \in Graduates |-> v[u]] ELSE marks[u]]
  BY DEF Transcript!EditExam
<1>4. marks' \in [Subjects -> [Graduates -> Transcript!Versions]]
  <2>1. \A u \in {s, t} : [x \in Graduates |-> v[u]] \in [Graduates -> Transcript!Versions]
    BY <1>2, <1>3
  <2> QED
    BY <1>3, <2>1 DEF TranscriptsInv, Transcript!TypeOK
<1>5. rows' = Transcript!Touched(Transcript!Touched(rows, n), m) /\ Sound(rows)
  BY DEF Transcript!EditExam, TranscriptsInv
<1>6. Sound(Transcript!Touched(rows, n)) /\ Sound(Transcript!Touched(Transcript!Touched(rows, n), m))
  BY <1>5, TouchedSound
<1>7. Sound(rows)'
  BY <1>5, <1>6 DEF Sound, InOrder, OneSet, RowFits
<1>8. ASSUME deletion = "none" PROVE Shows(rows, marks)'
  <2> PICK between : between = [u \in Subjects |-> IF SemesterOf[u] = n THEN marks'[u] ELSE marks[u]]
    OBVIOUS
  <2>1. \A u \in Subjects, y \in Graduates : SemesterOf[u] # n => between[u][y] = marks[u][y]
    OBVIOUS
  <2>2. \A u \in Subjects, y \in Graduates : SemesterOf[u] # m => marks'[u][y] = between[u][y]
    BY <1>3 DEF TranscriptsInv, Transcript!TypeOK
  <2>3. Shows(Transcript!Touched(rows, n), between)
    BY <1>5, <1>8, <2>1, TouchedShows DEF TranscriptsInv
  <2>4. Shows(Transcript!Touched(Transcript!Touched(rows, n), m), marks')
    BY <1>6, <2>2, <2>3, TouchedShows
  <2> QED
    BY <1>5, <2>4 DEF Shows
<1>9. Transcript!TypeOK'
  BY <1>1, <1>2, <1>4, <1>7 DEF Transcript!EditExam, TranscriptsInv, Transcript!TypeOK, Sound
<1>10. UNCHANGED <<deletion, task>>
  BY DEF Transcript!EditExam
<1>11. \A p \in Publishers : TaskFits(task[p])'
  BY <1>1, <1>10, MarksMove
<1> QED
  BY <1>7, <1>8, <1>9, <1>10, <1>11 DEF TranscriptsInv

LEMMA StepStart ==
  ASSUME Transcript!ConstantsOK, TranscriptsInv, NEW p \in Publishers,
         \/ Transcript!StartImport(p) \/ Transcript!SnapshotRefresh(p)
         \/ \E m \in Transcript!Semesters : Transcript!StartGeneration(p, m) \/ Transcript!StartRefresh(p, m)
  PROVE  TranscriptsInv'
<1> PICK old \in Publication : old = task[p]
  BY DEF TranscriptsInv, Transcript!TypeOK, Publication
<1>1. /\ TaskFits(old) /\ source \in Nat /\ writes \in Nat
      /\ marks \in [Subjects -> [Graduates -> Transcript!Versions]]
  BY DEF TranscriptsInv, Transcript!TypeOK
<1>2. \A m \in Transcript!Semesters : m \in 0 .. TotalSemesters /\ m # 0
  BY TranscriptsMean DEF Transcript!Semesters
<1>3. ASSUME Transcript!StartImport(p) PROVE TranscriptsInv'
  <2> PICK t : t = [old EXCEPT !.at = "computed", !.source = source,
                               !.writes = writes, !.basis = marks]
    OBVIOUS
  <2>1. /\ t \in Publication /\ t.at = "computed" /\ t.source = source /\ t.basis = marks
        /\ t.semester = old.semester
    BY <1>1 DEF Publication, Transcript!Places
  <2>2. old.semester = 0
    BY <1>1, <1>3 DEF Transcript!StartImport, TaskFits
  <2>3. TaskFits(t)
    BY <1>1, <2>1, <2>2 DEF TaskFits
  <2>4. /\ task' = [task EXCEPT ![p] = t]
        /\ UNCHANGED <<marks, changes, source, writes, deletion, rows>>
    BY <1>3 DEF Transcript!StartImport
  <2> QED
    BY <2>1, <2>3, <2>4, TaskGoes
<1>4. ASSUME NEW m \in Transcript!Semesters, old.at \in {"idle", "existing"}, Transcript!Snapshot(p, m, "reading"),
             UNCHANGED <<marks, changes, source, writes, deletion, rows>>
      PROVE  TranscriptsInv'
  <2> PICK t : t = [old EXCEPT !.at = "reading", !.semester = m,
                               !.source = source, !.writes = writes]
    OBVIOUS
  <2>1. /\ t \in Publication /\ t.at = "reading" /\ t.source = source /\ t.semester = m
        /\ t.read = old.read
    BY <1>1, <1>2 DEF Publication, Transcript!Places
  <2>2. old.read = {}
    BY <1>1, <1>4 DEF TaskFits
  <2>3. TaskFits(t)
    BY <1>1, <1>2, <2>1, <2>2 DEF TaskFits
  <2>4. task' = [task EXCEPT ![p] = t]
    BY <1>4 DEF Transcript!Snapshot
  <2> QED
    BY <1>4, <2>1, <2>3, <2>4, TaskGoes
<1>5. ASSUME NEW m \in Transcript!Semesters, Transcript!StartRefresh(p, m) PROVE TranscriptsInv'
  <2> PICK t : t = [old EXCEPT !.at = "existing", !.semester = m]
    OBVIOUS
  <2>1. /\ t \in Publication /\ t.at = "existing" /\ t.source = old.source /\ t.semester = m
        /\ t.read = old.read
    BY <1>1, <1>2 DEF Publication, Transcript!Places
  <2>2. old.read = {}
    BY <1>1, <1>5 DEF Transcript!StartRefresh, TaskFits
  <2>3. TaskFits(t)
    BY <1>1, <1>2, <2>1, <2>2 DEF TaskFits
  <2>4. task' = [task EXCEPT ![p] = t]
    BY <1>5 DEF Transcript!StartRefresh, TranscriptsInv, Transcript!TypeOK
  <2>5. UNCHANGED <<marks, changes, source, writes, deletion, rows>>
    BY <1>5 DEF Transcript!StartRefresh
  <2> QED
    BY <2>1, <2>3, <2>4, <2>5, TaskGoes
<1>6. ASSUME Transcript!SnapshotRefresh(p) PROVE TranscriptsInv'
  <2>1. old.semester \in Transcript!Semesters
    BY <1>1, <1>6 DEF Transcript!SnapshotRefresh, TaskFits, Publication, Transcript!Semesters
  <2> QED
    BY <1>4, <1>6, <2>1 DEF Transcript!SnapshotRefresh
<1>7. ASSUME NEW m \in Transcript!Semesters, Transcript!StartGeneration(p, m) PROVE TranscriptsInv'
  BY <1>4, <1>7 DEF Transcript!StartGeneration
<1> QED
  BY <1>3, <1>5, <1>6, <1>7

LEMMA StepRead ==
  ASSUME Transcript!ConstantsOK, TranscriptsInv, NEW p \in Publishers, NEW s \in Subjects,
         Transcript!ReadSubject(p, s)
  PROVE  TranscriptsInv'
<1> PICK old \in Publication : old = task[p]
  BY DEF TranscriptsInv, Transcript!TypeOK, Publication
<1>1. TaskFits(old) /\ marks \in [Subjects -> [Graduates -> Transcript!Versions]]
  BY DEF TranscriptsInv, Transcript!TypeOK
<1> PICK basis : basis = [old.basis EXCEPT ![s] = marks[s]]
  OBVIOUS
<1> PICK t : t = [old EXCEPT !.read = @ \cup {s}, !.basis = basis]
  OBVIOUS
<1>2. basis \in [Subjects -> [Graduates -> Transcript!Versions]]
  BY <1>1 DEF Publication
<1>3. /\ t \in Publication /\ t.at = old.at /\ t.source = old.source /\ t.semester = old.semester
      /\ t.read = old.read \cup {s} /\ t.basis = basis
  BY <1>2 DEF Publication
<1>4. basis[s] = marks[s] /\ \A u \in Subjects \ {s} : basis[u] = old.basis[u]
  BY DEF Publication
<1>5. old.at = "reading"
  BY DEF Transcript!ReadSubject
<1>6. TaskFits(t)
  BY <1>1, <1>3, <1>4, <1>5 DEF TaskFits
<1>7. task' = [task EXCEPT ![p] = t]
  <2>1. task' = [task EXCEPT ![p].read = @ \cup {s}, ![p].basis[s] = marks[s]]
    BY DEF Transcript!ReadSubject
  <2>2. task \in [Publishers -> Publication]
    BY DEF TranscriptsInv, Transcript!TypeOK, Publication
  <2> QED
    BY <2>1, <2>2 DEF Publication
<1>8. UNCHANGED <<marks, changes, source, writes, deletion, rows>>
  BY DEF Transcript!ReadSubject
<1> QED
  BY <1>3, <1>6, <1>7, <1>8, TaskGoes

\* A publisher that has read every subject of its semester, or is refused.
LEMMA StepGoes ==
  ASSUME Transcript!ConstantsOK, TranscriptsInv, NEW p \in Publishers, Transcript!Compute(p) \/ Transcript!Fail(p)
  PROVE  TranscriptsInv'
<1> PICK old \in Publication : old = task[p]
  BY DEF TranscriptsInv, Transcript!TypeOK, Publication
<1>1. TaskFits(old) /\ UNCHANGED <<marks, changes, source, writes, deletion, rows>>
  BY DEF TranscriptsInv, Transcript!Compute, Transcript!Fail
<1>2. PICK place \in {"refused", "computed"} :
        /\ task' = [task EXCEPT ![p].at = place]
        /\ place = "computed" => old.at = "reading" /\ old.read = Transcript!Taught(old.semester)
  BY DEF Transcript!Compute, Transcript!Fail, Transcript!Goto
<1> PICK t : t = [old EXCEPT !.at = place]
  OBVIOUS
<1>3. /\ t \in Publication /\ t.at = place /\ t.source = old.source /\ t.semester = old.semester
      /\ t.read = old.read /\ t.basis = old.basis
  BY DEF Publication, Transcript!Places
<1>4. TaskFits(t)
  BY <1>1, <1>2, <1>3 DEF TaskFits
<1>5. task' = [task EXCEPT ![p] = t]
  BY <1>2 DEF TranscriptsInv, Transcript!TypeOK
<1> QED
  BY <1>1, <1>3, <1>4, <1>5, TaskGoes

LEMMA StepCommit ==
  ASSUME Transcript!ConstantsOK, TranscriptsInv, NEW p \in Publishers, Transcript!Commit(p)
  PROVE  TranscriptsInv'
<1>1. PICK roster \in Transcript!Rosters(p) : Transcript!Publish(p, roster)
  BY DEF Transcript!Commit
<1> PICK students : students = UNION {roster[m] : m \in Transcript!Scope(task[p].semester)}
  OBVIOUS
<1>2. /\ rows' = Transcript!Repaired(p, Transcript!Replaced(p, roster), students)
      /\ writes' = writes + 1
      /\ task' = [task EXCEPT ![p].at = "published"]
      /\ UNCHANGED <<marks, changes, source, deletion>>
  BY <1>1 DEF Transcript!Publish, Transcript!Goto
<1>3. Sound(rows)'
  <2>1. PICK table : table = Transcript!Repaired(p, Transcript!Replaced(p, roster), students)
    OBVIOUS
  <2>2. Sound(table)
    BY <2>1, PublishedSound
  <2>3. rows' = table
    BY <1>2, <2>1
  <2>4. rows' \in [Transcript!Semesters -> [Graduates -> Transcript!Row]]
    BY <2>2, <2>3 DEF Sound
  <2>5. \A m \in Transcript!Semesters, x \in Graduates : RowFits(rows, m, x)'
    BY <2>2, <2>3 DEF Sound, RowFits
  <2>6. InOrder(rows)'
    BY <2>2, <2>3 DEF Sound, InOrder
  <2>7. OneSet(rows)'
    BY <2>2, <2>3 DEF Sound, OneSet
  <2> QED
    BY <2>4, <2>5, <2>6, <2>7 DEF Sound
<1>4. ASSUME deletion = "none" PROVE Shows(rows, marks)'
  <2>1. task[p].at = "computed" /\ task[p].source = source
    BY DEF Transcript!Commit, Transcript!Unchanged
  <2>2. Shows(Transcript!Repaired(p, Transcript!Replaced(p, roster), students), marks)
    BY <1>4, <2>1, PublishedShows
  <2> QED
    BY <1>2, <2>2 DEF Shows
<1>5. task' \in [Publishers -> Publication]
  <2>1. task \in [Publishers -> Publication] /\ "published" \in Transcript!Places
    BY DEF TranscriptsInv, Transcript!TypeOK, Publication, Transcript!Places
  <2>2. ASSUME NEW old \in Publication PROVE [old EXCEPT !.at = "published"] \in Publication
    BY <2>1 DEF Publication
  <2>3. task[p] \in Publication
    BY <2>1
  <2> QED
    BY <1>2, <2>1, <2>2, <2>3
<1>6. Transcript!TypeOK'
  <2>1. rows' \in [Transcript!Semesters -> [Graduates -> Transcript!Row]]
    BY <1>3 DEF Sound
  <2>2. writes' \in Nat
    BY <1>2 DEF TranscriptsInv, Transcript!TypeOK
  <2>3. /\ marks' \in [Subjects -> [Graduates -> Transcript!Versions]] /\ changes' \in Transcript!Versions
        /\ source' \in Nat /\ deletion' \in {"none", "answers", "exams", "gone"}
    BY <1>2 DEF TranscriptsInv, Transcript!TypeOK
  <2> QED
    BY <1>5, <2>1, <2>2, <2>3 DEF Transcript!TypeOK, Publication
<1>7. ASSUME NEW q \in Publishers PROVE TaskFits(task[q])'
  <2> PICK old \in Publication : old = task[q]
    BY DEF TranscriptsInv, Transcript!TypeOK, Publication
  <2>1. TaskFits(old)
    BY DEF TranscriptsInv
  <2>2. CASE q # p
    BY <1>2, <2>1, <2>2 DEF TranscriptsInv, Transcript!TypeOK, TaskFits
  <2>3. CASE q = p
    <3>1. /\ task'[q].at = "published" /\ task'[q].source = old.source
      BY <1>2, <2>3 DEF TranscriptsInv, Transcript!TypeOK, Publication
    <3> QED
      BY <1>2, <2>1, <3>1 DEF TaskFits
  <2> QED
    BY <2>2, <2>3
<1> QED
  BY <1>2, <1>3, <1>4, <1>6, <1>7 DEF TranscriptsInv

LEMMA StepCascade ==
  ASSUME Transcript!ConstantsOK, TranscriptsInv, Transcript!DeleteAnswers \/ Transcript!DeleteExams \/ Transcript!DeleteBatch
  PROVE  TranscriptsInv'
<1>1. /\ deletion' # "none" /\ deletion' \in {"answers", "exams", "gone"}
      /\ UNCHANGED <<changes, source, writes, rows, task>>
  BY DEF Transcript!DeleteAnswers, Transcript!DeleteExams, Transcript!DeleteBatch
<1>2. marks' \in [Subjects -> [Graduates -> Transcript!Versions]]
  <2>1. 0 \in Transcript!Versions
    BY TranscriptsMean DEF Transcript!Versions
  <2> QED
    BY <2>1 DEF Transcript!DeleteAnswers, Transcript!DeleteExams, Transcript!DeleteBatch, TranscriptsInv, Transcript!TypeOK
<1>3. Transcript!TypeOK' /\ Sound(rows)'
  BY <1>1, <1>2 DEF TranscriptsInv, Transcript!TypeOK, Sound, InOrder, OneSet, RowFits
<1>4. \A p \in Publishers : TaskFits(task[p])'
  BY <1>1 DEF TranscriptsInv, TaskFits
<1> QED
  BY <1>1, <1>3, <1>4 DEF TranscriptsInv

LEMMA TranscriptsStep ==
  ASSUME Transcript!ConstantsOK, TranscriptsInv, [Transcript!Next]_Transcript!vars
  PROVE  TranscriptsInv'
<1>1. ASSUME NEW s \in Subjects, NEW x \in Graduates, Transcript!ChangeMarks(s, x) PROVE TranscriptsInv'
  BY <1>1, StepChange
<1>2. ASSUME NEW s \in Subjects, NEW t \in Subjects, Transcript!EditExam(s, t) PROVE TranscriptsInv'
  BY <1>2, StepExam
<1>3. ASSUME NEW p \in Publishers, Transcript!PublisherStep(p) PROVE TranscriptsInv'
  BY <1>3, StepStart, StepRead, StepGoes, StepCommit DEF Transcript!PublisherStep
<1>4. CASE Transcript!DeleteAnswers \/ Transcript!DeleteExams \/ Transcript!DeleteBatch
  BY <1>4, StepCascade
<1>5. CASE UNCHANGED Transcript!vars
  BY <1>5 DEF Transcript!vars, TranscriptsInv, Transcript!TypeOK, Sound, InOrder, OneSet, RowFits, Shows, TaskFits
<1> QED
  BY <1>1, <1>2, <1>3, <1>4, <1>5 DEF Transcript!Next

\* What may be read of a transcript.
LEMMA TranscriptsKnown ==
  ASSUME Transcript!ConstantsOK, TranscriptsInv
  PROVE  Transcript!ReadableIsCurrent /\ Transcript!CumulativeIsCurrent /\ Transcript!NeverAheadOfStale /\ Transcript!OneSetPerSemester
<1>1. Transcript!NeverAheadOfStale /\ Transcript!OneSetPerSemester
  BY DEF TranscriptsInv, Sound, InOrder, OneSet, Transcript!NeverAheadOfStale, Transcript!OneSetPerSemester, Transcript!Recorded
<1>2. Transcript!ReadableIsCurrent
  BY DEF TranscriptsInv, Sound, RowFits, Shows, Transcript!ReadableIsCurrent, Transcript!Readable, Transcript!Recorded
<1>3. Transcript!CumulativeIsCurrent
  <2> SUFFICES ASSUME NEW x \in Graduates, Transcript!Readable(x), NEW m \in Transcript!Semesters, NEW k \in Transcript!Semesters,
                      Transcript!Recorded(m, x), Transcript!Recorded(k, x)
               PROVE  rows[m][x].counted[k] = IF k <= m THEN rows[k][x].by ELSE None
    BY DEF Transcript!CumulativeIsCurrent
  <2>1. RowFits(rows, m, x) /\ ~rows[m][x].is_stale
    BY DEF TranscriptsInv, Sound, Transcript!Readable
  <2>2. k <= m \/ k > m
    BY TranscriptsMean
  <2>3. k > m => ~(k <= m)
    BY TranscriptsMean
  <2> QED
    BY <2>1, <2>2, <2>3 DEF RowFits, Transcript!Recorded
<1> QED
  BY <1>1, <1>2, <1>3

-----------------------------------------------------------------------------
\* Sums over finite sets
\*
\* The sums of the model are folds: a function over the subsets of a set, each
\* computed from a smaller one.  What holds of them is shown by the smallest
\* subset that would be an exception.

Some(s) == CHOOSE x \in s : TRUE

\* g adds up h over each subset of T, as the folds do.
Adds(g, h, T) ==
  g = [s \in SUBSET T |-> IF s = {} THEN 0 ELSE h[Some(s)] + g[s \ {Some(s)}]]

\* All that h gives over T are numbers.
Numbers(h, T) == \A t \in T : h[t] \in Int

\* A set of numbers that is not empty has a least one.
LEMMA SmallestNumber ==
  ASSUME NEW S, S \subseteq Nat, S # {} PROVE \E m \in S : \A k \in S : m <= k
<1>1. IsWellFoundedOn(OpToRel(<,Nat), Nat)
  BY NatLessThanWellFounded
<1>2. PICK m \in S : \A k \in S : <<k, m>> \notin OpToRel(<,Nat)
  BY <1>1, WFMin
<1>3. \A k \in S : ~(k < m)
  BY <1>2 DEF OpToRel
<1> QED
  BY <1>3

LEMMA Chosen == ASSUME NEW s, s # {} PROVE Some(s) \in s
  BY DEF Some

\* There is such a function for every finite set.
LEMMA AddsExists == ASSUME NEW T, IsFiniteSet(T), NEW h PROVE \E g : Adds(g, h, T)
<1> DEFINE Level(k) == {s \in SUBSET T : Cardinality(s) <= k}
           Sums(g, k) == g = [s \in Level(k) |-> IF s = {} THEN 0 ELSE h[Some(s)] + g[s \ {Some(s)}]]
           Bad == {k \in Nat : ~\E g : Sums(g, k)}
<1>1. \A s \in SUBSET T : IsFiniteSet(s) /\ Cardinality(s) \in Nat /\ Cardinality(s) <= Cardinality(T)
  BY FS_Subset, FS_CardinalityType
<1>2. \A s \in SUBSET T : s # {} =>
        Cardinality(s \ {Some(s)}) = Cardinality(s) - 1 /\ s \ {Some(s)} \in SUBSET T
  <2> TAKE s \in SUBSET T
  <2> HAVE s # {}
  <2>1. Some(s) \in s
    BY Chosen
  <2> QED
    BY <1>1, <2>1, FS_RemoveElement
<1>3. Bad = {}
  <2> SUFFICES ASSUME Bad # {} PROVE FALSE
    OBVIOUS
  <2>1. PICK k \in Bad : \A i \in Bad : k <= i
    BY SmallestNumber
  <2>2. CASE k = 0
    <3>1. PICK g : g = [s \in Level(0) |-> 0]
      OBVIOUS
    <3>2. \A s \in Level(0) : s = {}
      BY <1>1, FS_EmptySet
    <3>3. Sums(g, 0)
      <4>1. \A s \in Level(0) : (IF s = {} THEN 0 ELSE h[Some(s)] + g[s \ {Some(s)}]) = 0
        BY <3>2
      <4> HIDE DEF Level
      <4> QED
        BY <3>1, <4>1
    <3> QED
      BY <2>1, <2>2, <3>3
  <2>3. CASE k # 0
    <3>1. k \in Nat /\ k - 1 \in Nat /\ k - 1 \notin Bad
      <4>1. k \in Nat
        BY <2>1
      <4>2. k - 1 \in Nat /\ ~(k <= k - 1)
        BY <2>3, <4>1
      <4> HIDE DEF Bad
      <4> QED
        BY <2>1, <4>1, <4>2
    <3>2. PICK g : Sums(g, k - 1)
      BY <3>1
    <3>3. PICK f : f = [s \in Level(k) |-> IF s = {} THEN 0 ELSE h[Some(s)] + g[s \ {Some(s)}]]
      OBVIOUS
    <3>4. \A u \in Level(k - 1) : f[u] = g[u]
      <4>1. Level(k - 1) \subseteq Level(k)
        BY <1>1, <3>1
      <4> HIDE DEF Level
      <4> QED
        BY <3>2, <3>3, <4>1
    <3>5. \A s \in Level(k) : s # {} => s \ {Some(s)} \in Level(k - 1)
      BY <1>1, <1>2, <3>1
    <3>6. Sums(f, k)
      <4>1. \A s \in Level(k) :
              (IF s = {} THEN 0 ELSE h[Some(s)] + g[s \ {Some(s)}])
                = (IF s = {} THEN 0 ELSE h[Some(s)] + f[s \ {Some(s)}])
        <5> HIDE DEF Level
        <5> QED
          BY <3>4, <3>5
      <4> HIDE DEF Level
      <4> QED
        BY <3>3, <4>1
    <3> QED
      BY <2>1, <3>6
  <2> QED
    BY <2>2, <2>3
<1>4. PICK g : Sums(g, Cardinality(T))
  BY <1>1, <1>3
<1>5. Level(Cardinality(T)) = SUBSET T
  BY <1>1
<1>6. Adds(g, h, T)
  <2> HIDE DEF Level
  <2> QED
    BY <1>4, <1>5 DEF Adds
<1> QED
  BY <1>6

Steps(g, h, T) ==
  g[{}] = 0 /\ \A s \in SUBSET T : s # {} => g[s] = h[Some(s)] + g[s \ {Some(s)}]

LEMMA AddsStep == ASSUME NEW T, NEW h, NEW g, Adds(g, h, T) PROVE Steps(g, h, T)
  BY DEF Adds, Steps

\* Whatever is shown of {} and carried from s without an element to s holds of every subset.
LEMMA SmallestSubset ==
  ASSUME NEW T, IsFiniteSet(T), NEW Bad, Bad \subseteq SUBSET T, Bad # {}
  PROVE  \E s \in Bad : \A u \in Bad : ~(u \subseteq s /\ u # s)
<1>1. IsWellFoundedOn(StrictSubsetOrdering(T), FiniteSubsetsOf(T)) /\ FiniteSubsetsOf(T) = SUBSET T
  BY FS_StrictSubsetOrderingWellFounded, FS_FiniteSubsetsOfFinite
<1>2. PICK s \in Bad : \A u \in Bad : <<u, s>> \notin StrictSubsetOrdering(T)
  BY <1>1, WFMin
<1>3. \A u \in Bad : u \subseteq s /\ u # s => <<u, s>> \in StrictSubsetOrdering(T)
  BY DEF StrictSubsetOrdering
<1>4. \A u \in Bad : ~(u \subseteq s /\ u # s)
  BY <1>2, <1>3
<1> QED
  BY <1>4

\* A sum of numbers is a number.
LEMMA AddsInt ==
  ASSUME NEW T, IsFiniteSet(T), NEW h, Numbers(h, T), NEW g, Adds(g, h, T)
  PROVE  \A s \in SUBSET T : g[s] \in Int
<1> DEFINE Bad == {s \in SUBSET T : g[s] \notin Int}
<1> SUFFICES ASSUME Bad # {} PROVE FALSE
  OBVIOUS
<1>1. PICK s \in Bad : \A u \in Bad : ~(u \subseteq s /\ u # s)
  <2> HIDE DEF Bad
  <2>1. Bad \subseteq SUBSET T
    BY DEF Bad
  <2> QED
    BY <2>1, SmallestSubset
<1> s \in SUBSET T
  BY <1>1
<1>0. g[{}] = 0 /\ \A u \in SUBSET T : u # {} => g[u] = h[Some(u)] + g[u \ {Some(u)}]
  <2>1. Steps(g, h, T)
    BY AddsStep
  <2> QED
    BY <2>1 DEF Steps
<1>2. s # {}
  <2> SUFFICES ASSUME s = {} PROVE FALSE
    OBVIOUS
  <2>1. g[s] = 0
    BY <1>0
  <2>2. g[s] \in Int
    BY <2>1
  <2> QED
    BY <1>1, <2>2
<1>3. Some(s) \in s
  BY <1>2, Chosen
<1>4. g[s \ {Some(s)}] \in Int
  BY <1>1, <1>3
<1>5. g[s] = h[Some(s)] + g[s \ {Some(s)}]
  BY <1>0, <1>2
<1>6. h[Some(s)] \in Int
  BY <1>3 DEF Numbers
<1> QED
  BY <1>1, <1>4, <1>5, <1>6

\* The order does not matter.
InAnyOrder(g, h, T) == \A s \in SUBSET T : \A x \in s : g[s] = h[x] + g[s \ {x}]

\* The order does not matter: any element may be added last.
LEMMA AddsAny ==
  ASSUME NEW T, IsFiniteSet(T), NEW h, Numbers(h, T), NEW g, Adds(g, h, T)
  PROVE  InAnyOrder(g, h, T)
<1> DEFINE Bad == {s \in SUBSET T : \E x \in s : g[s] # h[x] + g[s \ {x}]}
<1> SUFFICES ASSUME Bad # {} PROVE FALSE
  BY DEF InAnyOrder
<1>1. PICK s \in Bad : \A u \in Bad : ~(u \subseteq s /\ u # s)
  <2> HIDE DEF Bad
  <2>1. Bad \subseteq SUBSET T
    BY DEF Bad
  <2> QED
    BY <2>1, SmallestSubset
<1>2. PICK x \in s : g[s] # h[x] + g[s \ {x}]
  BY <1>1
<1>3. PICK y : y = Some(s) /\ y \in s
  BY <1>2, Chosen
<1>4. g[s] = h[y] + g[s \ {y}]
  <2>1. \A u \in SUBSET T : u # {} => g[u] = h[Some(u)] + g[u \ {Some(u)}]
    BY AddsStep DEF Steps
  <2> QED
    BY <1>1, <1>3, <2>1
<1>5. x # y
  BY <1>2, <1>4
<1>6. s \ {y} \in SUBSET T /\ s \ {y} \notin Bad /\ x \in s \ {y}
  BY <1>1, <1>2, <1>3, <1>5
<1>7. g[s \ {y}] = h[x] + g[(s \ {y}) \ {x}]
  BY <1>6
<1>8. s \ {x} \in SUBSET T /\ s \ {x} \notin Bad /\ y \in s \ {x}
  BY <1>1, <1>2, <1>3, <1>5
<1>9. g[s \ {x}] = h[y] + g[(s \ {x}) \ {y}]
  BY <1>8
<1>10. (s \ {y}) \ {x} = (s \ {x}) \ {y}
  OBVIOUS
<1>11. PICK rest : rest = g[(s \ {x}) \ {y}] /\ rest \in Int
  <2>1. (s \ {x}) \ {y} \in SUBSET T
    BY <1>1
  <2> QED
    BY <2>1, AddsInt
<1>12. h[x] \in Int /\ h[y] \in Int
  BY <1>1, <1>2, <1>3 DEF Numbers
<1>13. g[s \ {y}] = h[x] + rest /\ g[s \ {x}] = h[y] + rest
  BY <1>7, <1>9, <1>10, <1>11
<1>14. g[s] = h[x] + g[s \ {x}]
  BY <1>4, <1>12, <1>13, <1>11
<1> QED
  BY <1>2, <1>14

\* A sum of at least a times the other, entry by entry, is at least a times the other.
LEMMA AddsMonotone ==
  ASSUME NEW T, IsFiniteSet(T), NEW v, NEW w, NEW f, Adds(f, v, T), NEW g, Adds(g, w, T)
  PROVE  \A a \in Int :
           Numbers(v, T) /\ Numbers(w, T) /\ (\A t \in T : a * w[t] <= v[t])
             => a * g[T] <= f[T]
<1>2a. f[{}] = 0 /\ \A u \in SUBSET T : u # {} => f[u] = v[Some(u)] + f[u \ {Some(u)}]
  <2>1. Steps(f, v, T)
    BY AddsStep
  <2> QED
    BY <2>1 DEF Steps
<1>2. g[{}] = 0 /\ \A u \in SUBSET T : u # {} => g[u] = w[Some(u)] + g[u \ {Some(u)}]
  <2>1. Steps(g, w, T)
    BY AddsStep
  <2> QED
    BY <2>1 DEF Steps
<1> SUFFICES ASSUME NEW a \in Int, Numbers(v, T), Numbers(w, T),
                    \A t \in T : a * w[t] <= v[t]
             PROVE  a * g[T] <= f[T]
  OBVIOUS
<1> DEFINE Bad == {s \in SUBSET T : ~(a * g[s] <= f[s])}
<1> SUFFICES ASSUME Bad # {} PROVE FALSE
  <2>1. T \in SUBSET T
    OBVIOUS
  <2> QED
    BY <2>1
<1>1. PICK s \in Bad : \A u \in Bad : ~(u \subseteq s /\ u # s)
  <2> HIDE DEF Bad
  <2>1. Bad \subseteq SUBSET T
    BY DEF Bad
  <2> QED
    BY <2>1, SmallestSubset
<1>3. s \in SUBSET T /\ ~(a * g[s] <= f[s])
  BY <1>1
<1>4. s # {}
  <2> SUFFICES ASSUME s = {} PROVE FALSE
    OBVIOUS
  <2>1. f[s] = 0 /\ g[s] = 0
    BY <1>2a, <1>2
  <2>2. a * 0 <= 0
    OBVIOUS
  <2> QED
    BY <1>3, <2>1, <2>2
<1>5. PICK x : x = Some(s) /\ x \in s
  BY <1>4, Chosen
<1>6. PICK r : r = s \ {x}
  OBVIOUS
<1>6a. r \in SUBSET T /\ r \subseteq s /\ r # s
  BY <1>3, <1>5, <1>6
<1>6b. r \notin Bad
  <2> HIDE DEF Bad
  <2> QED
    BY <1>1, <1>6a
<1>7. a * g[r] <= f[r]
  BY <1>6a, <1>6b
<1>8. f[s] = v[x] + f[r] /\ g[s] = w[x] + g[r]
  BY <1>2a, <1>2, <1>3, <1>4, <1>5, <1>6
<1>9. f[r] \in Int /\ g[r] \in Int
  <2>1. \A u \in SUBSET T : f[u] \in Int
    BY AddsInt
  <2>2. \A u \in SUBSET T : g[u] \in Int
    BY AddsInt
  <2> QED
    BY <1>6a, <2>1, <2>2
<1>10. v[x] \in Int /\ w[x] \in Int /\ a * w[x] <= v[x]
  BY <1>3, <1>5 DEF Numbers
<1>11. a * (w[x] + g[r]) = a * w[x] + a * g[r]
  BY <1>9, <1>10
<1>12. a * w[x] \in Int /\ a * g[r] \in Int
  BY <1>9, <1>10
<1> HIDE DEF Bad
<1> QED
  BY <1>3, <1>7, <1>8, <1>9, <1>10, <1>11, <1>12

\* There is one such function.
LEMMA AddsSame ==
  ASSUME NEW T, IsFiniteSet(T), NEW h, NEW f, Adds(f, h, T), NEW g, Adds(g, h, T)
  PROVE  f = g
<1>1. f[{}] = 0 /\ \A u \in SUBSET T : u # {} => f[u] = h[Some(u)] + f[u \ {Some(u)}]
  <2>1. Steps(f, h, T)
    BY AddsStep
  <2> QED
    BY <2>1 DEF Steps
<1>2. g[{}] = 0 /\ \A u \in SUBSET T : u # {} => g[u] = h[Some(u)] + g[u \ {Some(u)}]
  <2>1. Steps(g, h, T)
    BY AddsStep
  <2> QED
    BY <2>1 DEF Steps
<1> DEFINE Bad == {s \in SUBSET T : f[s] # g[s]}
<1>3. Bad = {}
  <2> SUFFICES ASSUME Bad # {} PROVE FALSE
    OBVIOUS
  <2>1. PICK s \in Bad : \A u \in Bad : ~(u \subseteq s /\ u # s)
    <3> HIDE DEF Bad
    <3>1. Bad \subseteq SUBSET T
      BY DEF Bad
    <3> QED
      BY <3>1, SmallestSubset
  <2>2. s \in SUBSET T /\ f[s] # g[s]
    BY <2>1
  <2>3. s # {}
    BY <1>1, <1>2, <2>2
  <2>4. PICK x : x = Some(s) /\ x \in s
    BY <2>3, Chosen
  <2>5. s \ {x} \in SUBSET T /\ s \ {x} \notin Bad
    BY <2>1, <2>2, <2>4
  <2>6. f[s \ {x}] = g[s \ {x}]
    BY <2>5
  <2>7. f[s] = h[x] + f[s \ {x}] /\ g[s] = h[x] + g[s \ {x}]
    BY <1>1, <1>2, <2>2, <2>3, <2>4
  <2> QED
    BY <2>2, <2>6, <2>7
<1>4. ASSUME NEW s \in SUBSET T PROVE f[s] = g[s]
  <2>1. s \notin Bad
    <3> HIDE DEF Bad
    <3> QED
      BY <1>3
  <2>2. f[s] # g[s] => s \in Bad
    OBVIOUS
  <2> HIDE DEF Bad
  <2> QED
    BY <2>1, <2>2
<1> HIDE DEF Bad
<1>5. \A s \in SUBSET T : (IF s = {} THEN 0 ELSE h[Some(s)] + f[s \ {Some(s)}])
                              = (IF s = {} THEN 0 ELSE h[Some(s)] + g[s \ {Some(s)}])
  BY <1>4
<1> QED
  BY <1>5 DEF Adds

\* The sum over T of what h gives.
Sum(h, T) == (CHOOSE g : Adds(g, h, T))[T]

LEMMA SumAdds == ASSUME NEW T, IsFiniteSet(T), NEW h PROVE \E g : Adds(g, h, T) /\ Sum(h, T) = g[T]
  BY AddsExists DEF Sum

\* A sum of numbers is a number.
LEMMA SumInt ==
  ASSUME NEW T, IsFiniteSet(T), NEW h, Numbers(h, T) PROVE Sum(h, T) \in Int
<1>1. PICK g : Adds(g, h, T) /\ Sum(h, T) = g[T]
  BY SumAdds
<1>2. \A s \in SUBSET T : g[s] \in Int
  BY <1>1, AddsInt
<1> QED
  BY <1>1, <1>2

\* A sum of numbers that are no less is no less.
LEMMA SumMonotone ==
  ASSUME NEW T, IsFiniteSet(T), NEW v, NEW w, NEW a \in Int,
         Numbers(v, T), Numbers(w, T), \A t \in T : a * w[t] <= v[t]
  PROVE  a * Sum(w, T) <= Sum(v, T)
<1>1. PICK f : Adds(f, v, T) /\ Sum(v, T) = f[T]
  BY SumAdds
<1>2. PICK g : Adds(g, w, T) /\ Sum(w, T) = g[T]
  BY SumAdds
<1>3. a * g[T] <= f[T]
  BY <1>1, <1>2, AddsMonotone
<1> QED
  BY <1>1, <1>2, <1>3

\* Sums over numbers that agree are equal.
LEMMA SumSame ==
  ASSUME NEW T, IsFiniteSet(T), NEW v, NEW w,
         Numbers(v, T), Numbers(w, T), \A t \in T : v[t] = w[t]
  PROVE  Sum(v, T) = Sum(w, T)
<1>1. 1 * Sum(w, T) <= Sum(v, T)
  <2>1. \A t \in T : 1 * w[t] <= v[t]
    BY DEF Numbers
  <2> QED
    BY <2>1, SumMonotone
<1>2. 1 * Sum(v, T) <= Sum(w, T)
  <2>1. \A t \in T : 1 * v[t] <= w[t]
    BY DEF Numbers
  <2> QED
    BY <2>1, SumMonotone
<1>3. Sum(v, T) \in Int /\ Sum(w, T) \in Int
  BY SumInt
<1> QED
  BY <1>1, <1>2, <1>3

\* As many ones as there are elements.
LEMMA SumOnes == ASSUME NEW T, IsFiniteSet(T) PROVE Sum([t \in T |-> 1], T) = Cardinality(T)
<1>1. PICK one : one = [t \in T |-> 1]
  OBVIOUS
<1>2. PICK g : Adds(g, one, T) /\ Sum(one, T) = g[T]
  BY SumAdds
<1>2a. g[{}] = 0 /\ \A u \in SUBSET T : u # {} => g[u] = one[Some(u)] + g[u \ {Some(u)}]
  <2>1. Steps(g, one, T)
    BY <1>2, AddsStep
  <2> QED
    BY <2>1 DEF Steps
<1> DEFINE Bad == {s \in SUBSET T : g[s] # Cardinality(s)}
<1>3. Bad = {}
  <2> SUFFICES ASSUME Bad # {} PROVE FALSE
    OBVIOUS
  <2>1. PICK s \in Bad : \A u \in Bad : ~(u \subseteq s /\ u # s)
    <3> HIDE DEF Bad
    <3>1. Bad \subseteq SUBSET T
      BY DEF Bad
    <3> QED
      BY <3>1, SmallestSubset
  <2>3. s \in SUBSET T /\ IsFiniteSet(s) /\ g[s] # Cardinality(s)
    BY <2>1, FS_Subset
  <2>4. s # {}
    BY <1>2a, <2>3, FS_EmptySet
  <2>5. PICK x : x = Some(s) /\ x \in s
    BY <2>4, Chosen
  <2>6. s \ {x} \in SUBSET T /\ s \ {x} \notin Bad
    BY <2>1, <2>3, <2>5
  <2>7. g[s \ {x}] = Cardinality(s \ {x})
    BY <2>6
  <2>8. Cardinality(s \ {x}) = Cardinality(s) - 1 /\ Cardinality(s) \in Nat
    BY <2>3, <2>5, FS_RemoveElement, FS_CardinalityType
  <2>9. g[s] = 1 + g[s \ {x}]
    BY <1>1, <1>2a, <2>3, <2>4, <2>5
  <2> QED
    BY <2>3, <2>7, <2>8, <2>9
<1>4. T \in SUBSET T /\ T \notin Bad
  BY <1>3
<1> QED
  BY <1>1, <1>2, <1>4

\* The same sum over pairs of an element and its value.
Pairs(v, T) == {<<t, v[t]>> : t \in T}
TakesSecond(h, P) == \A p \in P : h[p] = p[2]

\* Numbers summed as pairs of an index and a number.
LEMMA SumPairs ==
  ASSUME NEW T, IsFiniteSet(T), NEW v, Numbers(v, T),
         NEW P, P = Pairs(v, T), NEW h, TakesSecond(h, P)
  PROVE  IsFiniteSet(P) /\ Sum(h, P) = Sum(v, T)
<1>1. IsFiniteSet(P)
  <2> DEFINE Pair(t) == <<t, v[t]>>
  <2>1. PICK f : f = [t \in T |-> Pair(t)]
    OBVIOUS
  <2>2. f \in Surjection(T, P)
    BY <2>1 DEF Surjection, Pairs
  <2> QED
    BY <2>2, FS_Surjection
<1>2. PICK g : Adds(g, v, T) /\ Sum(v, T) = g[T]
  BY SumAdds
<1>2a. g[{}] = 0 /\ \A u \in SUBSET T : u # {} => g[u] = v[Some(u)] + g[u \ {Some(u)}]
  <2>1. Steps(g, v, T)
    BY <1>2, AddsStep
  <2> QED
    BY <2>1 DEF Steps
<1>3. PICK f : Adds(f, h, P) /\ Sum(h, P) = f[P]
  BY <1>1, SumAdds
<1>3a. InAnyOrder(f, h, P)
  <2>1. Numbers(h, P)
    BY DEF Numbers, Pairs, TakesSecond
  <2> QED
    BY <1>1, <1>3, <2>1, AddsAny
<1>3b. f[{}] = 0
  <2>1. Steps(f, h, P)
    BY <1>3, AddsStep
  <2> QED
    BY <2>1 DEF Steps
<1> DEFINE Of(s) == {<<t, v[t]>> : t \in s}
           Bad == {s \in SUBSET T : g[s] # f[Of(s)]}
<1>4. Bad = {}
  <2> SUFFICES ASSUME Bad # {} PROVE FALSE
    OBVIOUS
  <2>1. PICK s \in Bad : \A u \in Bad : ~(u \subseteq s /\ u # s)
    <3> HIDE DEF Bad
    <3>1. Bad \subseteq SUBSET T
      BY DEF Bad
    <3> QED
      BY <3>1, SmallestSubset
  <2>3. s \in SUBSET T /\ g[s] # f[Of(s)]
    BY <2>1
  <2>4. s # {}
    <3> SUFFICES ASSUME s = {} PROVE FALSE
      OBVIOUS
    <3>1. Of(s) = {}
      OBVIOUS
    <3> HIDE DEF Of, Bad
    <3> QED
      BY <1>2a, <2>3, <1>3b, <3>1
  <2>5. PICK x : x = Some(s) /\ x \in s
    BY <2>4, Chosen
  <2>6. s \ {x} \in SUBSET T /\ s \ {x} \notin Bad
    BY <2>1, <2>3, <2>5
  <2>7. g[s \ {x}] = f[Of(s \ {x})]
    BY <2>6
  <2>8. g[s] = v[x] + g[s \ {x}]
    BY <1>2a, <2>3, <2>4, <2>5
  <2>9. Of(s \ {x}) = Of(s) \ {<<x, v[x]>>} /\ <<x, v[x]>> \in Of(s)
    BY <2>5
  <2>10. Of(s) \in SUBSET P
    BY <2>3 DEF Pairs
  <2>13. f[Of(s)] = h[<<x, v[x]>>] + f[Of(s) \ {<<x, v[x]>>}]
    <3> HIDE DEF Of
    <3> QED
      BY <1>3a, <2>9, <2>10 DEF InAnyOrder
  <2>14. h[<<x, v[x]>>] = v[x]
    BY <2>3, <2>5 DEF Pairs, TakesSecond
  <2> HIDE DEF Of, Bad
  <2> QED
    BY <2>3, <2>7, <2>8, <2>9, <2>13, <2>14
<1>5. T \in SUBSET T /\ T \notin Bad
  BY <1>4
<1>6. Of(T) = P
  BY DEF Pairs
<1>7. g[T] = f[Of(T)]
  BY <1>5
<1> HIDE DEF Of, Bad
<1> QED
  BY <1>1, <1>2, <1>3, <1>6, <1>7

-----------------------------------------------------------------------------
\* Relative grades: the arithmetic

IsScheme(f) == f \in [Subject!Grades -> Int]
IsTotals(total) == IsFiniteSet(DOMAIN total) /\ \A x \in DOMAIN total : total[x] \in Int

LEMMA SubjectCardinality == \A S : Subject!Cardinality(S) = Cardinality(S)
  BY DEF Subject!Cardinality, Cardinality

Small(S) == \A y \in S : y \in 0 .. 10
Least(m, S) == m \in S /\ \A y \in S : m <= y
Most(m, S) == m \in S /\ \A y \in S : m >= y

\* What Min and Max choose in a set of bands.
LEMMA MinOf ==
  ASSUME NEW S, Small(S), S # {} PROVE Least(Subject!Min(S), S)
<1>1. \E m \in S : \A y \in S : m <= y
  <2>1. S \subseteq Nat
    BY DEF Small
  <2> QED
    BY <2>1, SmallestNumber
<1> QED
  BY <1>1 DEF Subject!Min, Least

LEMMA MaxOf ==
  ASSUME NEW S, Small(S), S # {} PROVE Most(Subject!Max(S), S)
<1> DEFINE Left == {10 - y : y \in S}
<1>1. Left \subseteq Nat /\ Left # {}
  <2>1. \A y \in S : 10 - y \in Nat
    BY DEF Small
  <2>2. PICK y : y \in S
    OBVIOUS
  <2>3. 10 - y \in Left
    BY <2>2
  <2> QED
    BY <2>1, <2>3
<1>2. PICK m \in Left : \A k \in Left : m <= k
  <2> HIDE DEF Left
  <2> QED
    BY <1>1, SmallestNumber
<1>3. PICK x \in S : m = 10 - x
  OBVIOUS
<1>4. \A y \in S : x >= y
  <2> TAKE y \in S
  <2>1. 10 - y \in Left
    OBVIOUS
  <2>2. m <= 10 - y
    BY <1>2, <2>1
  <2>3. x \in 0 .. 10 /\ y \in 0 .. 10
    BY DEF Small
  <2> QED
    BY <1>3, <2>2, <2>3
<1> HIDE DEF Left
<1> QED
  BY <1>3, <1>4 DEF Subject!Max, Most

\* The cutoff of every band is a number, whatever the scheme.
LEMMA CutoffsAreNumbers ==
  ASSUME NEW f, IsScheme(f) PROVE \A b \in Subject!Bands : Subject!Cutoff(f, b) \in Int
<1> DEFINE Part(n) == IF f[n] > 0 THEN f[n] ELSE 0
           UpTo(g) == g = [n \in 0 .. 10 |-> IF n = 0 THEN 0 ELSE g[n - 1] + Part(n)]
           Till(k) == {g \in [0 .. 10 -> Int] : g[0] = 0 /\ \A n \in 1 .. k : g[n] = g[n - 1] + Part(n)}
           Bad == {k \in 0 .. 10 : Till(k) = {}}
<1>1. \A n \in 1 .. 10 : Part(n) \in Int
  BY DEF IsScheme, Subject!Grades
<1>2. Bad = {}
  <2> SUFFICES ASSUME Bad # {} PROVE FALSE
    OBVIOUS
  <2>1. PICK k \in Bad : \A i \in Bad : k <= i
    <3>1. Bad \subseteq Nat
      OBVIOUS
    <3> HIDE DEF Bad
    <3> QED
      BY <3>1, SmallestNumber
  <2>2. k \in 0 .. 10 /\ Till(k) = {}
    BY <2>1
  <2>3. k # 0
    <3> SUFFICES ASSUME k = 0 PROVE FALSE
      OBVIOUS
    <3>1. [n \in 0 .. 10 |-> 0] \in Till(0)
      OBVIOUS
    <3> HIDE DEF Till
    <3> QED
      BY <2>2, <3>1
  <2>4. k - 1 \in 0 .. 10 /\ k - 1 \notin Bad
    <3>1. k - 1 \in 0 .. 10 /\ ~(k <= k - 1)
      BY <2>2, <2>3
    <3> HIDE DEF Bad
    <3> QED
      BY <2>1, <3>1
  <2>5. PICK g : g \in Till(k - 1)
    BY <2>4
  <2>6. PICK h : h = [g EXCEPT ![k] = g[k - 1] + Part(k)]
    OBVIOUS
  <2>7. g \in [0 .. 10 -> Int] /\ g[0] = 0 /\ \A n \in 1 .. k - 1 : g[n] = g[n - 1] + Part(n)
    BY <2>5
  <2> HIDE DEF Part
  <2>8. k \in 1 .. 10 /\ g[k - 1] \in Int /\ Part(k) \in Int
    BY <1>1, <2>2, <2>3, <2>7
  <2>9. h \in [0 .. 10 -> Int] /\ h[0] = 0 /\ h[k] = g[k - 1] + Part(k)
         /\ \A n \in 0 .. 10 : n # k => h[n] = g[n]
    BY <2>6, <2>7, <2>8
  <2>10. \A n \in 1 .. k : h[n] = h[n - 1] + Part(n)
    <3> TAKE n \in 1 .. k
    <3>1. CASE n = k
      BY <2>8, <2>9, <3>1
    <3>2. CASE n # k
      <4>1. n \in 1 .. k - 1 /\ n \in 0 .. 10 /\ n - 1 \in 0 .. 10 /\ n - 1 # k
        BY <2>8, <3>2
      <4>2. h[n] = g[n] /\ h[n - 1] = g[n - 1] /\ g[n] = g[n - 1] + Part(n)
        BY <2>7, <2>9, <4>1
      <4> QED
        BY <4>2
    <3> QED
      BY <3>1, <3>2
  <2>11. h \in Till(k)
    BY <2>9, <2>10
  <2> HIDE DEF Till
  <2> QED
    BY <2>2, <2>11
<1>3. PICK g : g \in Till(10)
  <2>1. 10 \notin Bad
    BY <1>2
  <2> QED
    BY <2>1
<1>4. UpTo(g)
  <2>1. \A n \in 0 .. 10 : g[n] = (IF n = 0 THEN 0 ELSE g[n - 1] + Part(n))
    <3> HIDE DEF Part
    <3> QED
      BY <1>3
  <2> HIDE DEF Part
  <2> QED
    BY <1>3, <2>1
<1> DEFINE it == CHOOSE h : UpTo(h)
<1>5. UpTo(it)
  <2> HIDE DEF UpTo
  <2> QED
    BY <1>4
<1>6. \A b \in Subject!Bands : Subject!Cutoff(f, b) = it[b]
  BY DEF Subject!Cutoff
<1>7. PICK h : h = it
  OBVIOUS
<1>8. h[0] = 0 /\ \A n \in 1 .. 10 : h[n] = h[n - 1] + Part(n)
  <2>1. UpTo(h)
    <3> HIDE DEF UpTo
    <3> QED
      BY <1>5, <1>7
  <2> HIDE DEF Part
  <2> QED
    BY <2>1
<1>9. \A n \in 0 .. 10 : h[n] \in Int
  <2> HIDE DEF Part
  <2>1. h[0] \in Int /\ h[1] \in Int /\ h[2] \in Int /\ h[3] \in Int
    BY <1>1, <1>8
  <2>2. h[4] \in Int /\ h[5] \in Int /\ h[6] \in Int
    BY <1>1, <1>8, <2>1
  <2>3. h[7] \in Int /\ h[8] \in Int /\ h[9] \in Int /\ h[10] \in Int
    BY <1>1, <1>8, <2>2
  <2>4. \A n \in 0 .. 10 : n \in {0, 1, 2, 3, 4, 5, 6, 7, 8, 9, 10}
    OBVIOUS
  <2> QED
    BY <2>1, <2>2, <2>3, <2>4
<1> HIDE DEF it
<1> QED
  BY <1>6, <1>7, <1>9 DEF Subject!Bands

\* A better rank is in no worse a band.
LEMMA BandsFollow ==
  ASSUME NEW f, IsScheme(f), Subject!UsedBands(f) # {}, NEW n \in Nat,
         NEW q \in Nat, NEW r \in Nat, q <= r
  PROVE  /\ Subject!BandOf(f, q, n) \in Subject!Bands
         /\ Subject!BandOf(f, q, n) <= Subject!BandOf(f, r, n)
<1>1. PICK used : used = Subject!UsedBands(f)
  OBVIOUS
<1>2. used \subseteq 1 .. 10 /\ used # {}
  BY <1>1 DEF Subject!UsedBands, Subject!Bands
<1>3. PICK c : c = [b \in Subject!Bands |-> Subject!Cutoff(f, b) * n]
  OBVIOUS
<1>4. \A b \in used : c[b] \in Int
  BY <1>2, <1>3, CutoffsAreNumbers DEF Subject!Bands
<1>5. PICK fq : fq = {b \in used : (q - 1) * 100 < c[b]}
  OBVIOUS
<1>6. PICK fr : fr = {b \in used : (r - 1) * 100 < c[b]}
  OBVIOUS
<1>7. Subject!BandOf(f, q, n) = IF fq = {} THEN Subject!Max(used) ELSE Subject!Min(fq)
  <2>1. fq = {b \in used : (q - 1) * 100 < Subject!Cutoff(f, b) * n}
    BY <1>2, <1>3, <1>5 DEF Subject!Bands
  <2> QED
    BY <1>1, <2>1 DEF Subject!BandOf
<1>8. Subject!BandOf(f, r, n) = IF fr = {} THEN Subject!Max(used) ELSE Subject!Min(fr)
  <2>1. fr = {b \in used : (r - 1) * 100 < Subject!Cutoff(f, b) * n}
    BY <1>2, <1>3, <1>6 DEF Subject!Bands
  <2> QED
    BY <1>1, <2>1 DEF Subject!BandOf
<1>9. fr \subseteq fq
  BY <1>4, <1>5, <1>6
<1>9a. Small(used) /\ Small(fq) /\ Small(fr)
  BY <1>2, <1>5, <1>6 DEF Small
<1>10. Subject!Max(used) \in used /\ \A b \in used : Subject!Max(used) >= b
  <2>1. Most(Subject!Max(used), used)
    BY <1>2, <1>9a, MaxOf
  <2> QED
    BY <2>1 DEF Most
<1>11. fq # {} => Subject!Min(fq) \in fq /\ \A b \in fq : Subject!Min(fq) <= b
  <2>1. fq # {} => Least(Subject!Min(fq), fq)
    BY <1>9a, MinOf
  <2> QED
    BY <2>1 DEF Least
<1>12. fr # {} => Subject!Min(fr) \in fr
  <2>1. fr # {} => Least(Subject!Min(fr), fr)
    BY <1>9a, MinOf
  <2> QED
    BY <2>1 DEF Least
<1>13. fq \subseteq used /\ \A b \in used : b \in Int
  BY <1>2, <1>5
<1>14. Subject!BandOf(f, q, n) \in Subject!Bands
  BY <1>2, <1>7, <1>10, <1>11, <1>13 DEF Subject!Bands
<1>15. Subject!BandOf(f, q, n) <= Subject!BandOf(f, r, n)
  <2>1. CASE fq = {}
    BY <1>7, <1>8, <1>9, <1>10, <1>13, <2>1
  <2>2. CASE fq # {} /\ fr = {}
    BY <1>7, <1>8, <1>10, <1>11, <1>13, <2>2
  <2>3. CASE fq # {} /\ fr # {}
    BY <1>7, <1>8, <1>9, <1>11, <1>12, <1>13, <2>3
  <2> QED
    BY <2>1, <2>2, <2>3
<1> QED
  BY <1>14, <1>15

\* A higher total has no worse a rank.
LEMMA RanksFollow ==
  ASSUME NEW total, IsTotals(total), NEW x \in DOMAIN total, NEW y \in DOMAIN total, total[x] >= total[y]
  PROVE  /\ Subject!RankOf(total, x) \in Nat /\ Subject!RankOf(total, y) \in Nat
         /\ Subject!RankOf(total, x) <= Subject!RankOf(total, y)
<1>1. PICK above : above = {z \in DOMAIN total : total[z] > total[x]}
  OBVIOUS
<1>2. PICK over : over = {z \in DOMAIN total : total[z] > total[y]}
  OBVIOUS
<1>3. above \subseteq over
  BY <1>1, <1>2 DEF IsTotals
<1>4. IsFiniteSet(over)
  BY <1>2, FS_Subset DEF IsTotals
<1>5. IsFiniteSet(above) /\ Cardinality(above) <= Cardinality(over)
  BY <1>3, <1>4, FS_Subset
<1>6. Cardinality(above) \in Nat /\ Cardinality(over) \in Nat
  BY <1>4, <1>5, FS_CardinalityType
<1>7. Subject!RankOf(total, x) = 1 + Cardinality(above) /\ Subject!RankOf(total, y) = 1 + Cardinality(over)
  BY <1>1, <1>2, SubjectCardinality DEF Subject!RankOf
<1> QED
  BY <1>5, <1>6, <1>7

\* Whoever has at least the total of another has at least the grade, and only
\* those below 30 % fail.
LEMMA GradesFollow ==
  ASSUME NEW f, IsScheme(f), Subject!UsedBands(f) # {}, NEW total, IsTotals(total), NEW max \in Int,
         NEW grade, grade = Subject!RelativeGrades(f, total, max)
  PROVE  /\ DOMAIN grade = DOMAIN total
         /\ Subject!Ordered(total, grade)
         /\ \A x \in DOMAIN total : /\ grade[x] \in Subject!Grades
                                    /\ grade[x] = Subject!U <=> total[x] * 100 < 30 * max
<1>1. PICK n \in Nat : n = Subject!Cardinality(DOMAIN total)
  BY SubjectCardinality, FS_CardinalityType DEF IsTotals
<1>2. \A x \in DOMAIN total :
        grade[x] = IF total[x] * 100 < 30 * max THEN 11
                   ELSE Subject!BandOf(f, Subject!RankOf(total, x), n)
  BY <1>1 DEF Subject!RelativeGrades, Subject!Fails, Subject!U
<1>3. DOMAIN grade = DOMAIN total
  BY DEF Subject!RelativeGrades
<1>4. \A x \in DOMAIN total : Subject!BandOf(f, Subject!RankOf(total, x), n) \in 1 .. 10
  <2> TAKE x \in DOMAIN total
  <2>1. total[x] >= total[x]
    BY DEF IsTotals
  <2>2. Subject!RankOf(total, x) \in Nat /\ Subject!RankOf(total, x) <= Subject!RankOf(total, x)
    BY <2>1, RanksFollow
  <2> QED
    BY <2>2, BandsFollow DEF Subject!Bands
<1>5. Subject!Ordered(total, grade)
  <2> SUFFICES ASSUME NEW x \in DOMAIN total, NEW y \in DOMAIN total, total[x] >= total[y]
               PROVE  grade[x] <= grade[y]
    BY <1>3 DEF Subject!Ordered
  <2>1. total[x] \in Int /\ total[y] \in Int
    BY DEF IsTotals
  <2>2. total[x] * 100 < 30 * max => total[y] * 100 < 30 * max
    BY <2>1
  <2>3. PICK gx : gx = Subject!BandOf(f, Subject!RankOf(total, x), n)
    OBVIOUS
  <2>4. PICK gy : gy = Subject!BandOf(f, Subject!RankOf(total, y), n)
    OBVIOUS
  <2>5. gx \in 1 .. 10 /\ gy \in 1 .. 10
    BY <1>4, <2>3, <2>4
  <2>6. gx <= gy
    <3>1. /\ Subject!RankOf(total, x) \in Nat /\ Subject!RankOf(total, y) \in Nat
          /\ Subject!RankOf(total, x) <= Subject!RankOf(total, y)
      BY RanksFollow
    <3> QED
      BY <2>3, <2>4, <3>1, BandsFollow
  <2>7. /\ grade[x] = IF total[x] * 100 < 30 * max THEN 11 ELSE gx
        /\ grade[y] = IF total[y] * 100 < 30 * max THEN 11 ELSE gy
    BY <1>2, <2>3, <2>4
  <2>8. CASE total[x] * 100 < 30 * max
    BY <2>2, <2>7, <2>8
  <2>9. CASE ~(total[x] * 100 < 30 * max) /\ total[y] * 100 < 30 * max
    BY <2>5, <2>7, <2>9
  <2>10. CASE ~(total[x] * 100 < 30 * max) /\ ~(total[y] * 100 < 30 * max)
    BY <2>6, <2>7, <2>10
  <2> QED
    BY <2>8, <2>9, <2>10
<1>6. \A x \in DOMAIN total : /\ grade[x] \in Subject!Grades
                              /\ grade[x] = Subject!U <=> total[x] * 100 < 30 * max
  BY <1>2, <1>4 DEF Subject!Grades, Subject!U
<1> QED
  BY <1>3, <1>5, <1>6

-----------------------------------------------------------------------------
\* Composites and credits as sums

LEMMA SubjectFinite == \A S : Subject!IsFiniteSet(S) <=> IsFiniteSet(S)
  BY DEF Subject!IsFiniteSet, IsFiniteSet

\* What the assumption on the constants says.
LEMMA SubjectMeans ==
  /\ IsFiniteSet(Class) /\ IsFiniteSet(Courses) /\ IsFiniteSet(Assessments)
  /\ \A e \in Assessments : CourseOf[e] \in Courses /\ Share[e] \in Nat
  /\ \A c \in Courses : CreditsFor[c] \in Nat
  /\ \A m \in Percentages : m \in 0 .. 100
  /\ \A f \in Offered : IsScheme(f)
  /\ \A sheet \in Imports : \A s \in DOMAIN sheet : s \in Class /\ sheet[s] \in 0 .. 100
  BY SubjectConstants, SubjectFinite DEF Subject!ConstantsOK, IsScheme

\* The answers of the exams of a subject are ones that can be saved.
IsRead(ans, sub) == \A e \in Subject!ExamsOf(sub), s \in Class : ans[<<e, s>>] \in Subject!Answers

LEMMA OfSubject == ASSUME NEW sub PROVE Subject!ExamsOf(sub) \subseteq Assessments /\ IsFiniteSet(Subject!ExamsOf(sub))
  BY SubjectMeans, FS_Subset DEF Subject!ExamsOf

LEMMA WeightsSummed ==
  ASSUME NEW T PROVE Subject!WeightOf(T) = Sum(Share, T)
  BY DEF Subject!WeightOf, Subject!MapThenSumSet, Subject!MapThenFoldSet, Sum, Adds, Some

LEMMA WeightsAreNumbers ==
  ASSUME NEW T, T \subseteq Assessments PROVE Subject!WeightOf(T) \in Int
<1>1. IsFiniteSet(T)
  BY SubjectMeans, FS_Subset
<1>2. Numbers(Share, T)
  BY SubjectMeans DEF Numbers
<1> QED
  BY <1>1, <1>2, SumInt, WeightsSummed

Weighted(ans, s, T) == [e \in T |-> 100 * ans[<<e, s>>].mark * Share[e]]

\* The composite as a sum over the exams a student has a mark in.
LEMMA CompositeOf ==
  ASSUME NEW ans, NEW sub, NEW s, NEW T, T = Subject!Attempted(ans, sub, s), IsFiniteSet(T)
  PROVE  Subject!Composite(ans, sub, s) = Subject!RoundDiv(Sum(Weighted(ans, s, T), T), Subject!WeightOf(T))
<1>1. PICK h : h = Weighted(ans, s, T)
  OBVIOUS
<1> DEFINE Body(g) == g = [u \in SUBSET T |-> IF u = {} THEN 0
                             ELSE 100 * ans[<<Some(u), s>>].mark * Share[Some(u)] + g[u \ {Some(u)}]]
           it == CHOOSE g : Body(g)
<1>2. \A g : Adds(g, h, T) <=> Body(g)
  <2> TAKE g
  <2>1. \A u \in SUBSET T : u # {} => Some(u) \in T
    BY DEF Some
  <2>2. \A u \in SUBSET T : u # {} => h[Some(u)] = 100 * ans[<<Some(u), s>>].mark * Share[Some(u)]
    BY <1>1, <2>1 DEF Weighted
  <2>3. \A u \in SUBSET T :
           (IF u = {} THEN 0 ELSE h[Some(u)] + g[u \ {Some(u)}])
             = (IF u = {} THEN 0 ELSE 100 * ans[<<Some(u), s>>].mark * Share[Some(u)] + g[u \ {Some(u)}])
    BY <2>2
  <2> QED
    BY <2>3 DEF Adds
<1>3. Subject!Composite(ans, sub, s) = Subject!RoundDiv(it[T], Subject!WeightOf(T))
  BY DEF Subject!Composite, Subject!MapThenSumSet, Subject!MapThenFoldSet, Some
<1>4. Adds(it, h, T)
  <2>1. \E g : Body(g)
    <3> HIDE DEF Body
    <3> QED
      BY <1>2, AddsExists
  <2>2. Body(it)
    <3> HIDE DEF Body
    <3> QED
      BY <2>1
  <2> HIDE DEF Body, it
  <2> QED
    BY <1>2, <2>2
<1>5. it[T] = Sum(h, T)
  <2>1. PICK f : f = it
    OBVIOUS
  <2>2. PICK g : Adds(g, h, T) /\ Sum(h, T) = g[T]
    BY SumAdds
  <2> HIDE DEF Body, it
  <2>3. Adds(f, h, T)
    BY <1>4, <2>1
  <2> QED
    BY <2>1, <2>2, <2>3, AddsSame
<1> HIDE DEF it, Body
<1> QED
  BY <1>1, <1>3, <1>5

\* Sum of the second components of a set of pairs, as results add them up.
Seconds(P) == Subject!MapThenSumSet(LAMBDA t : t[2], P)

\* The sum of the second components of pairs.
LEMMA SecondsSummed ==
  ASSUME NEW T, IsFiniteSet(T), NEW v, Numbers(v, T), NEW P, P = Pairs(v, T)
  PROVE  Seconds(P) = Sum(v, T)
<1>1. PICK h : h = [t \in P |-> t[2]]
  OBVIOUS
<1>2. TakesSecond(h, P)
  BY <1>1 DEF TakesSecond
<1>3. IsFiniteSet(P) /\ Sum(h, P) = Sum(v, T)
  BY <1>2, SumPairs
<1> DEFINE Body(g) == g = [u \in SUBSET P |-> IF u = {} THEN 0 ELSE Some(u)[2] + g[u \ {Some(u)}]]
           it == CHOOSE g : Body(g)
<1>4. \A g : Adds(g, h, P) <=> Body(g)
  <2> TAKE g
  <2>1. \A u \in SUBSET P : u # {} => Some(u) \in P
    BY DEF Some
  <2>2. \A u \in SUBSET P : u # {} => h[Some(u)] = Some(u)[2]
    BY <1>1, <2>1
  <2>3. \A u \in SUBSET P :
           (IF u = {} THEN 0 ELSE h[Some(u)] + g[u \ {Some(u)}])
             = (IF u = {} THEN 0 ELSE Some(u)[2] + g[u \ {Some(u)}])
    BY <2>2
  <2> QED
    BY <2>3 DEF Adds
<1>5. Seconds(P) = it[P]
  BY DEF Seconds, Subject!MapThenSumSet, Subject!MapThenFoldSet, Some
<1>6. Adds(it, h, P)
  <2>1. \E g : Body(g)
    <3> HIDE DEF Body
    <3> QED
      BY <1>3, <1>4, AddsExists
  <2>2. Body(it)
    <3> HIDE DEF Body
    <3> QED
      BY <2>1
  <2> HIDE DEF Body, it
  <2> QED
    BY <1>4, <2>2
<1>7. it[P] = Sum(h, P)
  <2>1. PICK f : f = it
    OBVIOUS
  <2>2. PICK g : Adds(g, h, P) /\ Sum(h, P) = g[P]
    BY <1>3, SumAdds
  <2> HIDE DEF Body, it
  <2>3. Adds(f, h, P)
    BY <1>6, <2>1
  <2>4. f = g
    BY <1>3, <2>2, <2>3, AddsSame
  <2> QED
    BY <2>1, <2>2, <2>4
<1> HIDE DEF it, Body
<1> QED
  BY <1>3, <1>5, <1>7

CreditSum(S) == Subject!MapThenSumSet(LAMBDA c : CreditsFor[c], S)

LEMMA CreditsSummed == ASSUME NEW S PROVE CreditSum(S) = Sum(CreditsFor, S)
  BY DEF CreditSum, Subject!MapThenSumSet, Subject!MapThenFoldSet, Sum, Adds, Some

LEMMA RoundedIsNumber ==
  ASSUME NEW a \in Int, NEW b \in Int, b > 0 PROVE Subject!RoundDiv(a, b) \in Int
<1>1. a \div b \in Int /\ (a % b) \in Int
  OBVIOUS
<1> QED
  BY <1>1 DEF Subject!RoundDiv

\* A student who has weight in a subject has a composite that is a number.
LEMMA CompositeIsNumber ==
  ASSUME NEW ans, NEW sub, IsRead(ans, sub), NEW s \in Class, Subject!HasComposite(ans, sub, s)
  PROVE  Subject!Composite(ans, sub, s) \in Int
<1>1. PICK T : T = Subject!Attempted(ans, sub, s)
  OBVIOUS
<1>2. /\ T \subseteq Subject!ExamsOf(sub)
      /\ \A e \in T : ans[<<e, s>>].kind = "mark"
  BY <1>1 DEF Subject!Attempted
<1>3. T \subseteq Assessments /\ IsFiniteSet(T)
  BY <1>2, OfSubject, FS_Subset
<1>4. \A e \in T : ans[<<e, s>>].mark \in Int /\ Share[e] \in Int
  <2> TAKE e \in T
  <2>1. ans[<<e, s>>] \in Subject!Answers /\ ans[<<e, s>>].kind = "mark"
    BY <1>2 DEF IsRead
  <2>2. PICK m \in Percentages : ans[<<e, s>>] = Subject!Mark(m)
    BY <2>1 DEF Subject!Answers, Subject!Absent, Subject!Pending, Subject!Twice
  <2>3. ans[<<e, s>>].mark = m
    BY <2>2 DEF Subject!Mark
  <2> QED
    BY <1>3, <2>3, SubjectMeans
<1>5. PICK h : h = Weighted(ans, s, T)
  OBVIOUS
<1>6. Numbers(h, T)
  BY <1>4, <1>5 DEF Weighted, Numbers
<1>7. Sum(h, T) \in Int
  BY <1>3, <1>6, SumInt
<1>8. Subject!WeightOf(T) \in Int /\ Subject!WeightOf(T) > 0
  BY <1>1, <1>3, WeightsAreNumbers DEF Subject!HasComposite
<1>9. Subject!Composite(ans, sub, s) = Subject!RoundDiv(Sum(h, T), Subject!WeightOf(T))
  BY <1>1, <1>3, <1>5, CompositeOf
<1> QED
  BY <1>7, <1>8, <1>9, RoundedIsNumber

\* What is computed of a subject depends on the answers of its exams only.
LEMMA SameSubject ==
  ASSUME NEW ans, NEW kept, NEW sub,
         \A e \in Subject!ExamsOf(sub), s \in Class : kept[<<e, s>>] = ans[<<e, s>>]
  PROVE  /\ Subject!Roster(kept, sub) = Subject!Roster(ans, sub)
         /\ Subject!SubjectTotals(kept, sub) = Subject!SubjectTotals(ans, sub)
<1>1. Subject!Roster(kept, sub) = Subject!Roster(ans, sub)
  BY DEF Subject!Roster
<1>2. \A s \in Class : Subject!Attempted(kept, sub, s) = Subject!Attempted(ans, sub, s)
  BY DEF Subject!Attempted
<1>3. \A s \in Class : Subject!HasComposite(kept, sub, s) = Subject!HasComposite(ans, sub, s)
  BY <1>2 DEF Subject!HasComposite
<1>4. \A s \in Class : Subject!Partial(kept, sub, s) = Subject!Partial(ans, sub, s)
  BY <1>3 DEF Subject!Partial
<1>5. \A s \in Class : Subject!Composite(kept, sub, s) = Subject!Composite(ans, sub, s)
  <2> TAKE s \in Class
  <2>1. PICK T : T = Subject!Attempted(ans, sub, s)
    OBVIOUS
  <2>2. T = Subject!Attempted(kept, sub, s)
    BY <1>2, <2>1
  <2>3. T \subseteq Subject!ExamsOf(sub)
    BY <2>1 DEF Subject!Attempted
  <2>4. IsFiniteSet(T)
    BY <2>3, OfSubject, FS_Subset
  <2>5. Weighted(kept, s, T) = Weighted(ans, s, T)
    BY <2>3 DEF Weighted
  <2>6. Subject!Composite(ans, sub, s) = Subject!RoundDiv(Sum(Weighted(ans, s, T), T), Subject!WeightOf(T))
    BY <2>1, <2>4, CompositeOf
  <2>7. Subject!Composite(kept, sub, s) = Subject!RoundDiv(Sum(Weighted(kept, s, T), T), Subject!WeightOf(T))
    BY <2>2, <2>4, CompositeOf
  <2> QED
    BY <2>5, <2>6, <2>7
<1>6. Subject!Roster(ans, sub) \subseteq Class
  BY DEF Subject!Roster
<1>7. Subject!Gradable(kept, sub) = Subject!Gradable(ans, sub) /\ Subject!Gradable(ans, sub) \subseteq Class
  BY <1>1, <1>3, <1>4, <1>6 DEF Subject!Gradable
<1>8. Subject!SubjectTotals(kept, sub) = Subject!SubjectTotals(ans, sub)
  BY <1>5, <1>7 DEF Subject!SubjectTotals
<1> QED
  BY <1>1, <1>8

-----------------------------------------------------------------------------
\* Subject and combined results: the inductive invariant

\* The grades of a subject follow the marks they were computed from.
Follows(g, ans, sub) ==
  /\ DOMAIN g = Subject!Gradable(ans, sub)
  /\ Subject!Ordered(Subject!SubjectTotals(ans, sub), g)
  /\ \A s \in DOMAIN g : /\ g[s] \in Subject!Grades
                         /\ g[s] = 11 <=> Subject!Composite(ans, sub, s) * 100 < 300000

LEMMA GradableMeans ==
  ASSUME NEW ans, NEW sub, NEW s \in Subject!Gradable(ans, sub)
  PROVE  s \in Class /\ Subject!HasComposite(ans, sub, s)
  BY DEF Subject!Gradable, Subject!Roster

\* The totals of a subject are numbers of finitely many students.
LEMMA SubjectIsTotals ==
  ASSUME NEW ans, NEW sub, IsRead(ans, sub)
  PROVE  IsTotals(Subject!SubjectTotals(ans, sub))
<1>1. Subject!Gradable(ans, sub) \subseteq Class
  BY GradableMeans
<1>2. IsFiniteSet(Subject!Gradable(ans, sub))
  BY <1>1, SubjectMeans, FS_Subset
<1>3. \A s \in Subject!Gradable(ans, sub) : Subject!Composite(ans, sub, s) \in Int
  BY GradableMeans, CompositeIsNumber
<1> QED
  BY <1>2, <1>3 DEF Subject!SubjectTotals, IsTotals

\* The grades of a subject follow its composites.
LEMMA SubjectFollows ==
  ASSUME NEW ans, NEW sub, IsRead(ans, sub), NEW kept, kept # <<>>, IsScheme(kept[1]),
         ~Subject!SubjectRaises(kept, ans, sub)
  PROVE  Follows(Subject!SubjectGrades(kept, ans, sub), ans, sub)
<1>1. PICK total : total = Subject!SubjectTotals(ans, sub)
  OBVIOUS
<1>2. PICK g : g = Subject!SubjectGrades(kept, ans, sub)
  OBVIOUS
<1>3. g = Subject!RelativeGrades(kept[1], total, 10000)
  BY <1>1, <1>2 DEF Subject!SubjectGrades
<1>4. DOMAIN total = Subject!Gradable(ans, sub) /\ \A s \in DOMAIN total : total[s] = Subject!Composite(ans, sub, s)
  BY <1>1 DEF Subject!SubjectTotals
<1>5. IsTotals(total)
  BY <1>1, SubjectIsTotals
<1>6. CASE Subject!UsedBands(kept[1]) # {}
  <2>1. /\ DOMAIN g = DOMAIN total
        /\ Subject!Ordered(total, g)
        /\ \A x \in DOMAIN total : /\ g[x] \in Subject!Grades
                                   /\ g[x] = Subject!U <=> total[x] * 100 < 30 * 10000
    BY <1>3, <1>5, <1>6, GradesFollow
  <2>2. 30 * 10000 = 300000
    OBVIOUS
  <2> QED
    BY <1>1, <1>2, <1>4, <2>1, <2>2 DEF Follows, Subject!U
<1>7. CASE Subject!UsedBands(kept[1]) = {}
  <2>1. Subject!Gradable(ans, sub) = {}
    BY <1>7 DEF Subject!SubjectRaises
  <2>2. DOMAIN g = {}
    BY <1>3, <1>4, <2>1 DEF Subject!RelativeGrades
  <2> QED
    BY <1>2, <2>1, <2>2 DEF Follows, Subject!Ordered
<1> QED
  BY <1>6, <1>7

\* The requests that save schemes or import sheets.
RequestFits(r) ==
  \/ request[r] = Subject!Idle
  \/ /\ request[r].step = "found"
     /\ request[r].form \in Offered /\ Subject!ValidTotal(request[r].form)
     /\ request[r].existing => schemes # <<>>
  \/ request[r].step = "cleared" /\ request[r].sheet \in Imports
  \/ request[r].step = "done"

StaffInv ==
  /\ DOMAIN request = Staff
  /\ \A r \in Staff : RequestFits(r)
  /\ schemes \in Seq(Offered)
  /\ \A i \in DOMAIN schemes : Subject!ValidTotal(schemes[i])
  /\ IsFiniteSet(imported)
  /\ \A row \in imported : row.by \in Staff /\ row.student \in Class /\ row.mark \in 0 .. 100

AnswersInv ==
  /\ answers \in [Assessments \X Class -> Subject!Answers]
  /\ live \subseteq Courses
  /\ changed \in 0 .. MaxCorrections

\* What the request for the combined result has read.
Whole(c) ==
  c = [step |-> c.step, scheme |-> c.scheme, names |-> c.names, todo |-> c.todo,
       answersRead |-> c.answersRead, found |-> c.found, grades |-> c.grades]

Gathered(c) ==
  /\ Whole(c)
  /\ c.names \subseteq Courses /\ c.todo \subseteq c.names
  /\ DOMAIN c.found \subseteq c.names /\ DOMAIN c.grades = DOMAIN c.found
  /\ \A sub \in DOMAIN c.found : /\ IsRead(c.found[sub], sub)
                                 /\ Follows(c.grades[sub], c.found[sub], sub)
  /\ c.answersRead # Subject!Unset =>
       /\ c.answersRead.of \in c.todo
       /\ c.answersRead.answers \in [Assessments \X Class -> Subject!Answers]

CombineInv ==
  \/ combine = Subject!Idle
  \/ /\ combine.step \in {"scheme", "list", "subjects"}
     /\ schemes # <<>> /\ IsScheme(combine.scheme)
     /\ combine.step = "subjects" => Gathered(combine)

\* A published result is as it should be.
Fit(p) ==
  /\ p.grade \in [DOMAIN p.total -> Subject!Grades]
  /\ Subject!Ordered(p.total, p.grade)
  /\ \A sub \in DOMAIN p.grades :
       Subject!Ordered([s \in Class |-> IF Subject!HasComposite(p.found[sub], sub, s)
                                        THEN Subject!Composite(p.found[sub], sub, s) ELSE 0],
                       p.grades[sub])
  /\ \A sub \in DOMAIN p.found, s \in DOMAIN p.total :
       \A e \in Subject!ExamsOf(sub) : Share[e] > 0 => p.found[sub][<<e, s>>].kind = "mark"
  /\ p.source = "exams" /\ DOMAIN p.grades = p.names =>
       \A s \in DOMAIN p.total :
         (\A sub \in DOMAIN p.grades : p.grades[sub][s] # 11) =>
           p.grade[s] # 11 /\ p.points[s] >= 10 * CreditSum(p.names)

PublishedInv == published = Subject!Unset \/ Fit(published)

SubjectInv == StaffInv /\ AnswersInv /\ CombineInv /\ PublishedInv

\* The invariant is at least the property.
LEMMA SubjectKeeps ==
  ASSUME SubjectInv
  PROVE  /\ Subject!TypeOK /\ Subject!GradesFollowMarks /\ Subject!PublishedIsComplete
         /\ Subject!WhoPassesAllPasses
<1>1. published # Subject!Unset => Fit(published)
  BY DEF SubjectInv, PublishedInv
<1>2. Subject!TypeOK
  <2>1. \A i \in DOMAIN schemes : schemes[i] \in Offered /\ Subject!ValidTotal(schemes[i])
    BY DEF SubjectInv, StaffInv
  <2>2. \A row \in imported : row.by \in Staff /\ row.student \in Class
    BY DEF SubjectInv, StaffInv
  <2>3. \A r \in Staff : request[r].step \in {"idle", "found", "cleared", "done"}
    BY DEF SubjectInv, StaffInv, RequestFits, Subject!Idle
  <2>4. combine.step \in {"idle", "scheme", "list", "subjects"}
    BY DEF SubjectInv, CombineInv, Subject!Idle
  <2>5. published # Subject!Unset => published.grade \in [DOMAIN published.total -> Subject!Grades]
    BY <1>1 DEF Fit
  <2> QED
    BY <2>1, <2>2, <2>3, <2>4, <2>5 DEF SubjectInv, AnswersInv, Subject!TypeOK
<1>3. Subject!GradesFollowMarks
  BY <1>1 DEF Fit, Subject!GradesFollowMarks
<1>4. Subject!PublishedIsComplete
  BY <1>1 DEF Fit, Subject!PublishedIsComplete
<1>5. Subject!WhoPassesAllPasses
  <2>1. PICK credits : credits = CreditSum(published.names)
    OBVIOUS
  <2>2. Subject!WhoPassesAllPasses <=>
          (published # Subject!Unset /\ published.source = "exams"
             /\ DOMAIN published.grades = published.names =>
           \A s \in DOMAIN published.total :
             Subject!PassesAll(s) => published.grade[s] # Subject!U /\ published.points[s] >= 10 * credits)
    BY <2>1 DEF Subject!WhoPassesAllPasses, CreditSum, Subject!MapThenSumSet, Subject!MapThenFoldSet
  <2> QED
    BY <1>1, <2>1, <2>2 DEF Fit, Subject!PassesAll, Subject!U
<1> QED
  BY <1>2, <1>3, <1>4, <1>5

LEMMA SubjectInit == ASSUME Subject!Init PROVE SubjectInv
<1>1. StaffInv
  <2>1. IsFiniteSet(imported)
    BY FS_EmptySet DEF Subject!Init
  <2> QED
    BY <2>1 DEF StaffInv, Subject!Init, RequestFits
<1>2. AnswersInv
  <2>1. FirstAnswers \subseteq [Assessments \X Class -> Subject!Answers] /\ MaxCorrections \in Nat
    BY SubjectConstants DEF Subject!ConstantsOK
  <2>2. answers \in FirstAnswers /\ live = Courses /\ changed = 0
    BY DEF Subject!Init
  <2>3. answers \in [Assessments \X Class -> Subject!Answers]
    BY <2>1, <2>2
  <2>4. changed \in 0 .. MaxCorrections
    BY <2>1, <2>2
  <2> QED
    BY <2>2, <2>3, <2>4 DEF AnswersInv
<1>3. CombineInv
  BY DEF CombineInv, Subject!Init
<1>4. PublishedInv
  BY DEF PublishedInv, Subject!Init
<1> QED
  BY <1>1, <1>2, <1>3, <1>4 DEF SubjectInv

-----------------------------------------------------------------------------
\* Subject and combined results: the steps

\* A step that leaves what a part speaks of alone keeps the part.
LEMMA StaffStays == ASSUME StaffInv, UNCHANGED <<schemes, imported, request>> PROVE StaffInv'
  BY DEF StaffInv, RequestFits

LEMMA CombineStays == ASSUME CombineInv, combine' = combine, schemes' # <<>> \/ schemes' = schemes PROVE CombineInv'
  BY DEF CombineInv

LEMMA PublishedStays == ASSUME PublishedInv, published' = published PROVE PublishedInv'
  BY DEF PublishedInv

LEMMA AnswersRemain == ASSUME AnswersInv, UNCHANGED <<answers, live, changed>> PROVE AnswersInv'
  BY DEF AnswersInv

LEMMA StepAnswers ==
  ASSUME SubjectInv, Subject!ChangeAnswer \/ Subject!DeleteSubject PROVE SubjectInv'
<1>1. UNCHANGED <<schemes, imported, request, combine, published>>
  BY DEF Subject!ChangeAnswer, Subject!DeleteSubject
<1>2. AnswersInv'
  <2>1. MaxCorrections \in Nat
    BY SubjectConstants DEF Subject!ConstantsOK
  <2>2. changed' \in 0 .. MaxCorrections
    BY <2>1 DEF SubjectInv, AnswersInv, Subject!ChangeAnswer, Subject!DeleteSubject
  <2>3. answers' \in [Assessments \X Class -> Subject!Answers]
    BY DEF SubjectInv, AnswersInv, Subject!ChangeAnswer, Subject!DeleteSubject
  <2>4. live' \subseteq Courses
    BY DEF SubjectInv, AnswersInv, Subject!ChangeAnswer, Subject!DeleteSubject
  <2> QED
    BY <2>2, <2>3, <2>4 DEF AnswersInv
<1> QED
  BY <1>1, <1>2, StaffStays, CombineStays, PublishedStays DEF SubjectInv

\* A step of one request: the others stay as they fit, and a scheme is there once it was.
LEMMA OneRequest ==
  ASSUME SubjectInv, NEW r \in Staff, NEW now, request' = [request EXCEPT ![r] = now],
         schemes # <<>> => schemes' # <<>>, RequestFits(r)'
  PROVE  DOMAIN request' = Staff /\ \A q \in Staff : RequestFits(q)'
<1>1. DOMAIN request' = Staff /\ \A q \in Staff : q # r => request'[q] = request[q]
  BY DEF SubjectInv, StaffInv
<1>2. \A q \in Staff : q # r => RequestFits(q)'
  BY <1>1 DEF SubjectInv, StaffInv, RequestFits
<1> QED
  BY <1>1, <1>2

LEMMA StepSchemes ==
  ASSUME SubjectInv, NEW r \in Staff, Subject!SchemeFind(r) \/ Subject!SchemeWrite(r) \/ Subject!SchemePut(r)
  PROVE  SubjectInv'
<1>0. schemes \in Seq(Offered) /\ (\A i \in DOMAIN schemes : Subject!ValidTotal(schemes[i]))
      /\ DOMAIN request = Staff /\ RequestFits(r)
  BY DEF SubjectInv, StaffInv
<1>1. UNCHANGED <<answers, live, changed, imported, combine, published>>
  BY DEF Subject!SchemeFind, Subject!SchemeWrite, Subject!SchemePut
<1>2. PICK now : request' = [request EXCEPT ![r] = now]
  BY DEF Subject!SchemeFind, Subject!SchemeWrite, Subject!SchemePut
<1>3. request'[r] = now
  BY <1>0, <1>2
<1>4. /\ schemes' \in Seq(Offered) /\ (\A i \in DOMAIN schemes' : Subject!ValidTotal(schemes'[i]))
      /\ (schemes # <<>> => schemes' # <<>>)
      /\ RequestFits(r)'
  <2>1. CASE Subject!SchemeFind(r)
    <3>1. schemes' = schemes
      BY <2>1 DEF Subject!SchemeFind
    <3>2. PICK form \in Offered :
            /\ Subject!ValidTotal(form)
            /\ request' = [request EXCEPT ![r] = [step |-> "found", form |-> form, existing |-> schemes # <<>>]]
      BY <2>1 DEF Subject!SchemeFind
    <3>3. request'[r] = [step |-> "found", form |-> form, existing |-> schemes # <<>>]
      BY <1>0, <3>2
    <3> QED
      BY <1>0, <3>1, <3>2, <3>3 DEF RequestFits
  <2>2. CASE Subject!SchemeWrite(r)
    <3>1. /\ request[r].step = "found" /\ request' = [request EXCEPT ![r] = [step |-> "done"]]
          /\ schemes' = IF request[r].existing THEN [schemes EXCEPT ![1] = request[r].form]
                        ELSE Append(schemes, request[r].form)
      BY <2>2 DEF Subject!SchemeWrite
    <3>2. request[r].form \in Offered /\ Subject!ValidTotal(request[r].form)
          /\ (request[r].existing => schemes # <<>>)
      BY <1>0, <3>1 DEF RequestFits, Subject!Idle
    <3>3. PICK form \in Offered : form = request[r].form /\ Subject!ValidTotal(form)
      BY <3>2
    <3>4. request'[r] = [step |-> "done"]
      BY <1>0, <3>1
    <3>5. CASE request[r].existing
      <4>1. schemes' = [schemes EXCEPT ![1] = form] /\ schemes # <<>>
        BY <3>1, <3>2, <3>3, <3>5
      <4>2. Len(schemes) \in Nat /\ 1 \in DOMAIN schemes
        BY <1>0, <4>1
      <4>3. schemes' \in Seq(Offered) /\ DOMAIN schemes' = DOMAIN schemes /\ schemes'[1] = form
            /\ \A i \in DOMAIN schemes : i # 1 => schemes'[i] = schemes[i]
        BY <1>0, <4>1, <4>2
      <4>4. schemes' # <<>>
        BY <4>2, <4>3
      <4> QED
        BY <1>0, <3>3, <3>4, <4>3, <4>4 DEF RequestFits
    <3>6. CASE ~request[r].existing
      <4>1. schemes' = Append(schemes, form)
        BY <3>1, <3>3, <3>6
      <4>2. schemes' \in Seq(Offered) /\ Len(schemes') = Len(schemes) + 1 /\ Len(schemes) \in Nat
        BY <1>0, <4>1
      <4>3. DOMAIN schemes' = 1 .. Len(schemes) + 1 /\ DOMAIN schemes = 1 .. Len(schemes)
        BY <1>0, <4>2
      <4>4. \A i \in DOMAIN schemes' : schemes'[i] = IF i = Len(schemes) + 1 THEN form ELSE schemes[i]
        BY <1>0, <4>1, <4>3
      <4>5. schemes' # <<>>
        BY <4>2
      <4>6. \A i \in DOMAIN schemes' : Subject!ValidTotal(schemes'[i])
        BY <1>0, <3>3, <4>2, <4>3, <4>4
      <4> QED
        BY <3>4, <4>2, <4>5, <4>6 DEF RequestFits
    <3> QED
      BY <3>5, <3>6
  <2>3. CASE Subject!SchemePut(r)
    <3>1. PICK i \in DOMAIN schemes, form \in Offered :
            Subject!ValidTotal(form) /\ schemes' = [schemes EXCEPT ![i] = form]
      BY <2>3 DEF Subject!SchemePut
    <3>2. request'[r] = [step |-> "done"]
      BY <1>0, <2>3 DEF Subject!SchemePut
    <3>3. schemes' \in Seq(Offered) /\ DOMAIN schemes' = DOMAIN schemes /\ schemes'[i] = form
          /\ \A k \in DOMAIN schemes : k # i => schemes'[k] = schemes[k]
      BY <1>0, <3>1
    <3>4. schemes' # <<>>
      BY <3>1, <3>3
    <3> QED
      BY <1>0, <3>1, <3>2, <3>3, <3>4 DEF RequestFits
  <2> QED
    BY <2>1, <2>2, <2>3
<1>5. DOMAIN request' = Staff /\ \A q \in Staff : RequestFits(q)'
  BY <1>2, <1>4, OneRequest
<1>6. StaffInv'
  BY <1>1, <1>4, <1>5 DEF SubjectInv, StaffInv
<1>7. CombineInv'
  BY <1>1, <1>4 DEF SubjectInv, CombineInv
<1> QED
  BY <1>1, <1>6, <1>7, PublishedStays, AnswersRemain DEF SubjectInv

LEMMA StepImports ==
  ASSUME SubjectInv, NEW r \in Staff, Subject!ImportClear(r) \/ Subject!ImportInsert(r) \/ Subject!ImportFails(r)
  PROVE  SubjectInv'
<1>0. /\ DOMAIN request = Staff /\ RequestFits(r) /\ IsFiniteSet(imported)
      /\ \A row \in imported : row.by \in Staff /\ row.student \in Class /\ row.mark \in 0 .. 100
  BY DEF SubjectInv, StaffInv
<1>1. UNCHANGED <<answers, live, changed, schemes, combine, published>>
  BY DEF Subject!ImportClear, Subject!ImportInsert, Subject!ImportFails
<1>2. PICK now : request' = [request EXCEPT ![r] = now]
  BY DEF Subject!ImportClear, Subject!ImportInsert, Subject!ImportFails
<1>3. RequestFits(r)'
  BY <1>0 DEF Subject!ImportClear, Subject!ImportInsert, Subject!ImportFails, RequestFits
<1>4. IsFiniteSet(imported') /\ \A row \in imported' : row.by \in Staff /\ row.student \in Class /\ row.mark \in 0 .. 100
  <2>1. CASE Subject!ImportClear(r)
    BY <2>1, FS_EmptySet DEF Subject!ImportClear
  <2>2. CASE Subject!ImportFails(r)
    BY <1>0, <2>2 DEF Subject!ImportFails
  <2>3. CASE Subject!ImportInsert(r)
    <3>1. request[r].step = "cleared"
      BY <2>3 DEF Subject!ImportInsert
    <3>2. PICK sheet \in Imports : sheet = request[r].sheet
      BY <1>0, <3>1 DEF RequestFits, Subject!Idle
    <3>3. \A s \in DOMAIN sheet : s \in Class /\ sheet[s] \in 0 .. 100
      BY SubjectMeans
    <3>4. PICK f : f = [s \in DOMAIN sheet |-> [by |-> r, student |-> s, mark |-> sheet[s]]]
      OBVIOUS
    <3>5. PICK new : new = {f[s] : s \in DOMAIN sheet}
      OBVIOUS
    <3>6. imported' = imported \cup new
      BY <2>3, <3>2, <3>4, <3>5 DEF Subject!ImportInsert
    <3>7. IsFiniteSet(DOMAIN sheet)
      BY <3>3, SubjectMeans, FS_Subset
    <3>8. IsFiniteSet(new)
      <4>1. f \in Surjection(DOMAIN sheet, new)
        BY <3>4, <3>5 DEF Surjection
      <4> QED
        BY <3>7, <4>1, FS_Surjection
    <3>9. \A row \in new : row.by \in Staff /\ row.student \in Class /\ row.mark \in 0 .. 100
      BY <3>3, <3>4, <3>5
    <3> QED
      BY <1>0, <3>6, <3>8, <3>9, FS_Union
  <2> QED
    BY <2>1, <2>2, <2>3
<1>5. DOMAIN request' = Staff /\ \A q \in Staff : RequestFits(q)'
  BY <1>1, <1>2, <1>3, OneRequest
<1>6. StaffInv'
  BY <1>1, <1>4, <1>5 DEF SubjectInv, StaffInv
<1> QED
  BY <1>1, <1>6, CombineStays, PublishedStays, AnswersRemain DEF SubjectInv

LEMMA FirstScheme ==
  ASSUME SubjectInv, schemes # <<>> PROVE IsScheme(schemes[1])
<1>1. schemes \in Seq(Offered)
  BY DEF SubjectInv, StaffInv
<1>2. 1 \in DOMAIN schemes
  BY <1>1
<1> QED
  BY <1>1, <1>2, SubjectMeans

\* The request reads on, and nothing but what it has read changes.
LEMMA ReadsOn ==
  ASSUME SubjectInv, UNCHANGED <<answers, live, schemes, imported, request, published, changed>>,
         CombineInv'
  PROVE  SubjectInv'
  BY StaffStays, PublishedStays, AnswersRemain DEF SubjectInv

LEMMA StepReadScheme ==
  ASSUME SubjectInv, Subject!ReadScheme \/ Subject!NothingImported \/ Subject!ListSubjects
  PROVE  SubjectInv'
<1>1. UNCHANGED <<answers, live, schemes, imported, request, published, changed>>
  BY DEF Subject!ReadScheme, Subject!NothingImported, Subject!ListSubjects
<1>2. CombineInv'
  <2>1. CASE Subject!ReadScheme
    <3>1. schemes # <<>> /\ combine' = [step |-> "scheme", scheme |-> schemes[1]]
      BY <2>1 DEF Subject!ReadScheme
    <3>2. combine'.step = "scheme" /\ combine'.scheme = schemes[1]
      BY <3>1
    <3> QED
      BY <1>1, <3>1, <3>2, FirstScheme DEF CombineInv
  <2>2. CASE Subject!NothingImported
    <3>1. combine.step = "scheme" /\ combine' = [step |-> "list", scheme |-> combine.scheme]
      BY <2>2 DEF Subject!NothingImported
    <3>2. combine'.step = "list" /\ combine'.scheme = combine.scheme
      BY <3>1
    <3> QED
      BY <1>1, <3>1, <3>2 DEF SubjectInv, CombineInv, Subject!Idle
  <2>3. CASE Subject!ListSubjects
    <3>1. PICK c : c = [step |-> "subjects", scheme |-> combine.scheme,
                        names |-> live, todo |-> live, answersRead |-> Subject!Unset,
                        found |-> [sub \in {} |-> Subject!Unset], grades |-> [sub \in {} |-> Subject!Unset]]
      OBVIOUS
    <3>2. combine.step = "list" /\ combine' = c
      BY <2>3, <3>1 DEF Subject!ListSubjects
    <3>3. /\ c.step = "subjects" /\ c.scheme = combine.scheme /\ c.names = live /\ c.todo = live
          /\ c.answersRead = Subject!Unset /\ DOMAIN c.found = {} /\ DOMAIN c.grades = {}
          /\ c.found = [sub \in {} |-> Subject!Unset] /\ c.grades = [sub \in {} |-> Subject!Unset]
      BY <3>1
    <3>4. Whole(c)
      BY <3>1, <3>3 DEF Whole
    <3>5. Gathered(c)
      BY <3>3, <3>4 DEF Gathered, SubjectInv, AnswersInv
    <3> QED
      BY <1>1, <3>2, <3>3, <3>5 DEF SubjectInv, CombineInv, Subject!Idle
  <2> QED
    BY <2>1, <2>2, <2>3
<1> QED
  BY <1>1, <1>2, ReadsOn

LEMMA AtSubjects ==
  ASSUME SubjectInv, combine.step = "subjects"
  PROVE  schemes # <<>> /\ IsScheme(combine.scheme) /\ Gathered(combine)
  BY DEF SubjectInv, CombineInv, Subject!Idle

LEMMA StepSubject ==
  ASSUME SubjectInv, NEW sub, Subject!ReadSubject(sub) PROVE SubjectInv'
<1>1. UNCHANGED <<answers, live, schemes, imported, request, published, changed>>
  BY DEF Subject!ReadSubject
<1>2. combine.step = "subjects" /\ combine.answersRead = Subject!Unset /\ sub \in combine.todo
  BY DEF Subject!ReadSubject
<1>3. schemes # <<>> /\ IsScheme(combine.scheme) /\ Gathered(combine)
  BY <1>2, AtSubjects
<1>4. CombineInv'
  <2>1. CASE sub \notin live
    <3>1. PICK c : c = [combine EXCEPT !.todo = @ \ {sub}]
      OBVIOUS
    <3>2. combine' = c
      BY <2>1, <3>1 DEF Subject!ReadSubject
    <3>3. /\ c.step = combine.step /\ c.scheme = combine.scheme /\ c.names = combine.names
          /\ c.todo = combine.todo \ {sub} /\ c.answersRead = combine.answersRead
          /\ c.found = combine.found /\ c.grades = combine.grades /\ Whole(c)
      BY <1>3, <3>1 DEF Gathered, Whole
    <3>4. Gathered(c)
      BY <1>2, <1>3, <3>3 DEF Gathered
    <3> QED
      BY <1>1, <1>2, <1>3, <3>2, <3>3, <3>4 DEF CombineInv
  <2>2. CASE sub \in live /\ Subject!Duplicated(answers, sub)
    BY <2>2 DEF Subject!ReadSubject, CombineInv
  <2>3. CASE sub \in live /\ ~Subject!Duplicated(answers, sub)
    <3>1. PICK read : read = [of |-> sub, answers |-> answers]
      OBVIOUS
    <3>2. PICK c : c = [combine EXCEPT !.answersRead = read]
      OBVIOUS
    <3>3. combine' = c
      BY <2>3, <3>1, <3>2 DEF Subject!ReadSubject
    <3>4. /\ c.step = combine.step /\ c.scheme = combine.scheme /\ c.names = combine.names
          /\ c.todo = combine.todo /\ c.answersRead = read
          /\ c.found = combine.found /\ c.grades = combine.grades /\ Whole(c)
      BY <1>3, <3>2 DEF Gathered, Whole
    <3>5. read.of \in combine.todo /\ read.answers \in [Assessments \X Class -> Subject!Answers]
      BY <1>2, <3>1 DEF SubjectInv, AnswersInv
    <3>6. Gathered(c)
      BY <1>3, <3>4, <3>5 DEF Gathered
    <3> QED
      BY <1>1, <1>2, <1>3, <3>3, <3>4, <3>6 DEF CombineInv
  <2> QED
    BY <2>1, <2>2, <2>3
<1> QED
  BY <1>1, <1>4, ReadsOn

\* The grades of a subject are of the answers that were read with it.
LEMMA StepGrade ==
  ASSUME SubjectInv, Subject!GradeSubject PROVE SubjectInv'
<1>1. UNCHANGED <<answers, live, schemes, imported, request, published, changed>>
  BY DEF Subject!GradeSubject
<1>2. combine.step = "subjects" /\ combine.answersRead # Subject!Unset
  BY DEF Subject!GradeSubject
<1>3. schemes # <<>> /\ IsScheme(combine.scheme) /\ Gathered(combine) /\ IsScheme(schemes[1])
  BY <1>2, AtSubjects, FirstScheme
<1>4. PICK sub : sub = combine.answersRead.of
  OBVIOUS
<1>5. PICK read : read = combine.answersRead.answers
  OBVIOUS
<1>6. sub \in combine.todo /\ sub \in combine.names /\ read \in [Assessments \X Class -> Subject!Answers]
  BY <1>2, <1>3, <1>4, <1>5 DEF Gathered
<1>7. CombineInv'
  <2>1. CASE Subject!SubjectRaises(schemes, read, sub)
    BY <1>4, <1>5, <2>1 DEF Subject!GradeSubject, CombineInv
  <2>2. CASE ~Subject!SubjectRaises(schemes, read, sub)
    <3>1. PICK mine : mine = [k \in Subject!ExamsOf(sub) \X Class |-> read[k]]
      OBVIOUS
    <3>2. PICK g : g = Subject!SubjectGrades(schemes, read, sub)
      OBVIOUS
    <3>3. PICK found : found = Subject!With(combine.found, sub, mine)
      OBVIOUS
    <3>4. PICK grades : grades = Subject!With(combine.grades, sub, g)
      OBVIOUS
    <3>5. PICK c : c = [combine EXCEPT !.todo = @ \ {sub}, !.answersRead = Subject!Unset,
                                       !.found = found, !.grades = grades]
      OBVIOUS
    <3>6. combine' = c
      BY <1>4, <1>5, <2>2, <3>1, <3>2, <3>3, <3>4, <3>5
      DEF Subject!GradeSubject
    <3>7. /\ c.step = combine.step /\ c.scheme = combine.scheme /\ c.names = combine.names
          /\ c.todo = combine.todo \ {sub} /\ c.answersRead = Subject!Unset
          /\ c.found = found /\ c.grades = grades /\ Whole(c)
      BY <1>3, <3>5 DEF Gathered, Whole
    <3>8. /\ DOMAIN found = DOMAIN combine.found \cup {sub} /\ found[sub] = mine
          /\ \A x \in DOMAIN combine.found : x # sub => found[x] = combine.found[x]
      BY <3>3 DEF Subject!With
    <3>9. /\ DOMAIN grades = DOMAIN combine.grades \cup {sub} /\ grades[sub] = g
          /\ \A x \in DOMAIN combine.grades : x # sub => grades[x] = combine.grades[x]
      BY <3>4 DEF Subject!With
    <3>10. IsRead(read, sub)
      BY <1>6, OfSubject DEF IsRead
    <3>11. \A e \in Subject!ExamsOf(sub), s \in Class : mine[<<e, s>>] = read[<<e, s>>]
      BY <3>1
    <3>12. IsRead(mine, sub)
      BY <3>10, <3>11 DEF IsRead
    <3>13. Follows(g, read, sub)
      BY <1>3, <2>2, <3>2, <3>10, SubjectFollows
    <3>14. Follows(g, mine, sub)
      <4>1. Subject!SubjectTotals(mine, sub) = Subject!SubjectTotals(read, sub)
        BY <3>11, SameSubject
      <4>2. \A a : DOMAIN Subject!SubjectTotals(a, sub) = Subject!Gradable(a, sub)
                   /\ \A s \in Subject!Gradable(a, sub) :
                        Subject!SubjectTotals(a, sub)[s] = Subject!Composite(a, sub, s)
        BY DEF Subject!SubjectTotals
      <4>3. Subject!Gradable(mine, sub) = Subject!Gradable(read, sub)
            /\ \A s \in Subject!Gradable(read, sub) :
                 Subject!Composite(mine, sub, s) = Subject!Composite(read, sub, s)
        BY <4>1, <4>2
      <4> QED
        BY <3>13, <4>1, <4>3 DEF Follows
    <3>15. \A x \in DOMAIN found : IsRead(found[x], x) /\ Follows(grades[x], found[x], x)
      BY <1>3, <3>8, <3>9, <3>12, <3>14 DEF Gathered
    <3>16. Gathered(c)
      BY <1>3, <1>6, <3>7, <3>8, <3>9, <3>15 DEF Gathered
    <3> QED
      BY <1>1, <1>2, <1>3, <3>6, <3>7, <3>16 DEF CombineInv
  <2> QED
    BY <2>1, <2>2
<1> QED
  BY <1>1, <1>7, ReadsOn

-----------------------------------------------------------------------------
\* What is published

\* What is published from an imported sheet.
LEMMA FitImported ==
  ASSUME SubjectInv, NEW f, IsScheme(f), Subject!UsedBands(f) # {}, NEW p,
         p = [source |-> "import", total |-> Subject!ImportedTotals,
              grade |-> Subject!RelativeGrades(f, Subject!ImportedTotals, 10000),
              found |-> <<>>, grades |-> <<>>]
  PROVE  Fit(p)
<1>1. PICK total : total = Subject!ImportedTotals
  OBVIOUS
<1>2. DOMAIN total = imported /\ \A row \in imported : total[row] = 100 * row.mark
  BY <1>1 DEF Subject!ImportedTotals
<1>3. \A row \in imported : total[row] \in Int
  BY <1>2 DEF SubjectInv, StaffInv
<1>4. IsTotals(total)
  BY <1>2, <1>3 DEF IsTotals, SubjectInv, StaffInv
<1>5. PICK grade : grade = Subject!RelativeGrades(f, total, 10000)
  OBVIOUS
<1>6. DOMAIN grade = DOMAIN total /\ Subject!Ordered(total, grade)
      /\ \A x \in DOMAIN total : grade[x] \in Subject!Grades
  BY <1>4, <1>5, GradesFollow
<1>7. grade = [x \in DOMAIN total |-> grade[x]]
  BY <1>5 DEF Subject!RelativeGrades
<1>8. p.source = "import" /\ p.total = total /\ p.grade = grade /\ p.found = <<>> /\ p.grades = <<>>
  BY <1>1, <1>5
<1>9. DOMAIN p.found = {} /\ DOMAIN p.grades = {}
  BY <1>8
<1>10. p.grade \in [DOMAIN p.total -> Subject!Grades]
  BY <1>6, <1>7, <1>8
<1> QED
  BY <1>6, <1>8, <1>9, <1>10 DEF Fit

LEMMA StepImported ==
  ASSUME SubjectInv, Subject!PublishImported PROVE SubjectInv'
<1>1. UNCHANGED <<answers, live, schemes, imported, request, changed>> /\ combine' = Subject!Idle
  BY DEF Subject!PublishImported
<1>2. combine.step = "scheme"
  BY DEF Subject!PublishImported
<1>3. IsScheme(combine.scheme)
  BY <1>2 DEF SubjectInv, CombineInv, Subject!Idle
<1>4. PICK total : total = Subject!ImportedTotals
  OBVIOUS
<1>4a. PICK grade : grade = Subject!RelativeGrades(combine.scheme, total, 10000)
  OBVIOUS
<1>4b. PICK none : none = <<>>
  OBVIOUS
<1>4c. PICK p : p = [source |-> "import", total |-> total, grade |-> grade, found |-> none, grades |-> none]
  OBVIOUS
<1>4d. p = [source |-> "import", total |-> Subject!ImportedTotals,
            grade |-> Subject!RelativeGrades(combine.scheme, Subject!ImportedTotals, 10000),
            found |-> <<>>, grades |-> <<>>]
  BY <1>4, <1>4a, <1>4b, <1>4c
<1>5. published' = IF Subject!UsedBands(combine.scheme) = {} THEN published ELSE p
  BY <1>4d DEF Subject!PublishImported
<1>6. Subject!UsedBands(combine.scheme) # {} => Fit(p)
  BY <1>3, <1>4d, FitImported
<1>7. PublishedInv'
  BY <1>5, <1>6 DEF SubjectInv, PublishedInv
<1>8. CombineInv'
  BY <1>1 DEF CombineInv
<1> QED
  BY <1>1, <1>7, <1>8, StaffStays, AnswersRemain DEF SubjectInv

-----------------------------------------------------------------------------
\* The combined result

\* What is gathered is of finitely many subjects and of students of the class.
LEMMA FoundMeans ==
  ASSUME Gathered(combine)
  PROVE  /\ Subject!Found \subseteq Courses /\ IsFiniteSet(Subject!Found)
         /\ Subject!FoundRoster \subseteq Class
         /\ \A sub \in Subject!Found : IsRead(combine.found[sub], sub)
<1>1. Subject!Found \subseteq Courses
  BY DEF Gathered, Subject!Found
<1>2. IsFiniteSet(Subject!Found)
  BY <1>1, SubjectMeans, FS_Subset
<1>3. Subject!FoundRoster \subseteq Class
  BY DEF Subject!FoundRoster, Subject!Roster
<1>4. \A sub \in Subject!Found : IsRead(combine.found[sub], sub)
  BY DEF Gathered, Subject!Found
<1> QED
  BY <1>1, <1>2, <1>3, <1>4

\* When the result is complete, everybody can be graded in every subject of it.
LEMMA CompleteMeans ==
  ASSUME Gathered(combine), Subject!Complete, NEW sub \in Subject!Found, NEW s \in Subject!FoundRoster
  PROVE  /\ s \in Subject!Gradable(combine.found[sub], sub)
         /\ Subject!HasComposite(combine.found[sub], sub, s)
         /\ Subject!Composite(combine.found[sub], sub, s) \in Int
         /\ \A e \in Subject!ExamsOf(sub) : Share[e] > 0 => combine.found[sub][<<e, s>>].kind = "mark"
<1>1. s \in Subject!Roster(combine.found[sub], sub) /\ ~Subject!Partial(combine.found[sub], sub, s)
  BY DEF Subject!Complete
<1>2. Subject!HasComposite(combine.found[sub], sub, s)
  BY <1>1 DEF Subject!Partial
<1>3. s \in Class /\ IsRead(combine.found[sub], sub)
  BY FoundMeans
<1>4. Subject!Composite(combine.found[sub], sub, s) \in Int
  BY <1>2, <1>3, CompositeIsNumber
<1>5. \A e \in Subject!ExamsOf(sub) : Share[e] > 0 => combine.found[sub][<<e, s>>].kind = "mark"
  BY <1>1 DEF Subject!Partial
<1>6. s \in Subject!Gradable(combine.found[sub], sub)
  BY <1>1, <1>2 DEF Subject!Gradable
<1> QED
  BY <1>2, <1>4, <1>5, <1>6

CompositesOf(s) == [sub \in Subject!Found |-> Subject!Composite(combine.found[sub], sub, s)]

LEMMA TotalsSummed ==
  ASSUME Gathered(combine), Subject!Complete, NEW s \in Subject!FoundRoster
  PROVE  /\ Numbers(CompositesOf(s), Subject!Found)
         /\ Subject!CombinedTotals[s] = Sum(CompositesOf(s), Subject!Found)
         /\ Subject!CombinedTotals[s] \in Int
<1>1. PICK v : v = CompositesOf(s)
  OBVIOUS
<1>2. Numbers(v, Subject!Found)
  BY <1>1, CompleteMeans DEF CompositesOf, Numbers
<1>3. PICK P : P = {<<sub, Subject!Composite(combine.found[sub], sub, s)>> : sub \in Subject!Found}
  OBVIOUS
<1>4. P = Pairs(v, Subject!Found)
  BY <1>1, <1>3 DEF CompositesOf, Pairs
<1>5. Subject!CombinedTotals[s] = Seconds(P)
  BY <1>3 DEF Subject!CombinedTotals, Seconds, Subject!MapThenSumSet, Subject!MapThenFoldSet
<1>6. Seconds(P) = Sum(v, Subject!Found)
  BY <1>2, <1>4, FoundMeans, SecondsSummed
<1>7. Sum(v, Subject!Found) \in Int
  BY <1>2, FoundMeans, SumInt
<1> QED
  BY <1>1, <1>2, <1>5, <1>6, <1>7

\* The combined totals are numbers of finitely many students.
LEMMA CombinedIsTotals ==
  ASSUME Gathered(combine), Subject!Complete
  PROVE  DOMAIN Subject!CombinedTotals = Subject!FoundRoster /\ IsTotals(Subject!CombinedTotals)
<1>1. DOMAIN Subject!CombinedTotals = Subject!FoundRoster
  BY DEF Subject!CombinedTotals
<1>2. IsFiniteSet(Subject!FoundRoster)
  BY FoundMeans, SubjectMeans, FS_Subset
<1>3. \A s \in Subject!FoundRoster : Subject!CombinedTotals[s] \in Int
  BY TotalsSummed
<1> QED
  BY <1>1, <1>2, <1>3 DEF IsTotals

\* Who passes every subject is over 30 % of the semester ...
LEMMA PassingTotal ==
  ASSUME Gathered(combine), Subject!Complete, NEW s \in Subject!FoundRoster,
         \A sub \in Subject!Found : combine.grades[sub][s] # 11
  PROVE  3000 * Cardinality(Subject!Found) <= Subject!CombinedTotals[s]
<1>1. PICK v : v = CompositesOf(s)
  OBVIOUS
<1>2. PICK one : one = [sub \in Subject!Found |-> 1]
  OBVIOUS
<1>3. Numbers(v, Subject!Found) /\ Subject!CombinedTotals[s] = Sum(v, Subject!Found)
  BY <1>1, TotalsSummed
<1>4. Numbers(one, Subject!Found)
  BY <1>2 DEF Numbers
<1>5. \A sub \in Subject!Found : 3000 * one[sub] <= v[sub]
  <2> TAKE sub \in Subject!Found
  <2>1. s \in Subject!Gradable(combine.found[sub], sub) /\ Subject!Composite(combine.found[sub], sub, s) \in Int
    BY CompleteMeans
  <2>2. Follows(combine.grades[sub], combine.found[sub], sub)
    BY DEF Gathered, Subject!Found
  <2>3. ~(Subject!Composite(combine.found[sub], sub, s) * 100 < 300000)
    BY <2>1, <2>2 DEF Follows
  <2>4. v[sub] = Subject!Composite(combine.found[sub], sub, s) /\ one[sub] = 1
    BY <1>1, <1>2 DEF CompositesOf
  <2> QED
    BY <2>1, <2>3, <2>4
<1>6. 3000 \in Int
  OBVIOUS
<1>7. 3000 * Sum(one, Subject!Found) <= Sum(v, Subject!Found)
  BY <1>3, <1>4, <1>5, <1>6, FoundMeans, SumMonotone
<1>8. Sum(one, Subject!Found) = Cardinality(Subject!Found)
  BY <1>2, FoundMeans, SumOnes
<1> QED
  BY <1>3, <1>7, <1>8

\* ... and has the points of the lowest passing grade for each credit.
LEMMA PassingPoints ==
  ASSUME Gathered(combine), Subject!Complete, NEW s \in Subject!FoundRoster,
         \A sub \in Subject!Found : combine.grades[sub][s] # 11
  PROVE  10 * CreditSum(Subject!Found) <= Subject!CreditPoints(combine.grades, s)
<1>1. PICK v : v = [sub \in Subject!Found |->
                      CreditsFor[sub] * Subject!GradePoint(Subject!GradeIn(combine.grades[sub], s))]
  OBVIOUS
<1>2. \A sub \in Subject!Found : v[sub] \in Int /\ CreditsFor[sub] \in Int /\ 10 * CreditsFor[sub] <= v[sub]
  <2> TAKE sub \in Subject!Found
  <2>1. s \in Subject!Gradable(combine.found[sub], sub)
    BY CompleteMeans
  <2>2. Follows(combine.grades[sub], combine.found[sub], sub)
    BY DEF Gathered, Subject!Found
  <2>3. s \in DOMAIN combine.grades[sub] /\ combine.grades[sub][s] \in 1 .. 10
    BY <2>1, <2>2 DEF Follows, Subject!Grades
  <2>4. PICK g : g = combine.grades[sub][s] /\ g \in 1 .. 10
    BY <2>3
  <2>5. Subject!GradeIn(combine.grades[sub], s) = g
    BY <2>3, <2>4 DEF Subject!GradeIn
  <2>6. PICK point : point = Subject!GradePoint(g)
    OBVIOUS
  <2>7. point \in {20, 19, 18, 17, 16, 15, 14, 13, 12, 10}
    BY <2>4, <2>6 DEF Subject!GradePoint
  <2>8. PICK credits \in Nat : credits = CreditsFor[sub]
    BY FoundMeans, SubjectMeans
  <2>9. v[sub] = credits * point
    BY <1>1, <2>5, <2>6, <2>8
  <2>10. 10 * credits <= credits * point /\ credits * point \in Int
    BY <2>7, <2>8
  <2> QED
    BY <2>8, <2>9, <2>10
<1>3. Numbers(v, Subject!Found) /\ Numbers(CreditsFor, Subject!Found)
  BY <1>2 DEF Numbers
<1>4. \A sub \in Subject!Found : 10 * CreditsFor[sub] <= v[sub]
  BY <1>2
<1>5. 10 \in Int
  OBVIOUS
<1>6. 10 * Sum(CreditsFor, Subject!Found) <= Sum(v, Subject!Found)
  BY <1>3, <1>4, <1>5, FoundMeans, SumMonotone
<1>7. PICK P : P = {<<sub, CreditsFor[sub] * Subject!GradePoint(Subject!GradeIn(combine.grades[sub], s))>>
                      : sub \in DOMAIN combine.grades}
  OBVIOUS
<1>8. P = Pairs(v, Subject!Found)
  BY <1>1, <1>7 DEF Pairs, Gathered, Subject!Found
<1>9. Subject!CreditPoints(combine.grades, s) = Seconds(P)
  BY <1>7 DEF Subject!CreditPoints, Seconds, Subject!MapThenSumSet, Subject!MapThenFoldSet
<1>10. Seconds(P) = Sum(v, Subject!Found)
  BY <1>3, <1>8, FoundMeans, SecondsSummed
<1> QED
  BY <1>6, <1>9, <1>10, CreditsSummed

\* The subjects of a complete result are in the order of their composites.
LEMMA SubjectOrdered ==
  ASSUME NEW g, NEW ans, NEW sub, Follows(g, ans, sub)
  PROVE  Subject!Ordered([s \in Class |-> IF Subject!HasComposite(ans, sub, s)
                                          THEN Subject!Composite(ans, sub, s) ELSE 0], g)
<1>1. PICK all : all = [s \in Class |-> IF Subject!HasComposite(ans, sub, s)
                                        THEN Subject!Composite(ans, sub, s) ELSE 0]
  OBVIOUS
<1>2. PICK total : total = Subject!SubjectTotals(ans, sub)
  OBVIOUS
<1>3. \A s \in DOMAIN g : all[s] = total[s]
  <2> TAKE s \in DOMAIN g
  <2>1. s \in Subject!Gradable(ans, sub)
    BY DEF Follows
  <2>2. s \in Class /\ Subject!HasComposite(ans, sub, s)
    BY <2>1, GradableMeans
  <2>3. total[s] = Subject!Composite(ans, sub, s)
    BY <1>2, <2>1 DEF Subject!SubjectTotals
  <2> QED
    BY <1>1, <2>2, <2>3
<1>4. \A x, y \in DOMAIN g : total[x] >= total[y] => g[x] <= g[y]
  BY <1>2 DEF Follows, Subject!Ordered
<1>5. \A x, y \in DOMAIN g : all[x] >= all[y] => g[x] <= g[y]
  BY <1>3, <1>4
<1> QED
  BY <1>1, <1>5 DEF Subject!Ordered

\* What is published from exams.
LEMMA FitCombined ==
  ASSUME Gathered(combine), IsScheme(combine.scheme), Subject!UsedBands(combine.scheme) # {},
         Subject!Complete,
         NEW total, total = Subject!CombinedTotals,
         NEW max, max = 10000 * Subject!Cardinality(combine.names),
         NEW grade, grade = Subject!RelativeGrades(combine.scheme, total, max),
         NEW points, points = [s \in Subject!FoundRoster |-> Subject!CreditPoints(combine.grades, s)],
         NEW p, p = [source |-> "exams", total |-> total, grade |-> grade,
                     found |-> combine.found, grades |-> combine.grades, names |-> combine.names,
                     points |-> points]
  PROVE  Fit(p)
<1>1. /\ p.source = "exams" /\ p.total = total /\ p.grade = grade /\ p.found = combine.found
      /\ p.grades = combine.grades /\ p.names = combine.names /\ p.points = points
  OBVIOUS
<1>2. IsFiniteSet(combine.names)
  BY SubjectMeans, FS_Subset DEF Gathered
<1>3. max \in Int /\ Subject!Cardinality(combine.names) = Cardinality(combine.names)
      /\ Cardinality(combine.names) \in Nat
  BY <1>2, SubjectCardinality, FS_CardinalityType
<1>4. DOMAIN total = Subject!FoundRoster /\ IsTotals(total)
  BY CombinedIsTotals
<1>5. /\ DOMAIN grade = DOMAIN total /\ Subject!Ordered(total, grade)
      /\ \A x \in DOMAIN total : /\ grade[x] \in Subject!Grades
                                 /\ grade[x] = Subject!U <=> total[x] * 100 < 30 * max
  BY <1>3, <1>4, GradesFollow
<1>6. grade = [x \in DOMAIN total |-> grade[x]]
  BY DEF Subject!RelativeGrades
<1>7. grade \in [DOMAIN total -> Subject!Grades]
  BY <1>5, <1>6
<1>8. \A sub \in DOMAIN p.grades :
        Subject!Ordered([s \in Class |-> IF Subject!HasComposite(p.found[sub], sub, s)
                                         THEN Subject!Composite(p.found[sub], sub, s) ELSE 0],
                        p.grades[sub])
  <2> TAKE sub \in DOMAIN p.grades
  <2>1. Follows(p.grades[sub], p.found[sub], sub)
    BY <1>1 DEF Gathered
  <2> QED
    BY <2>1, SubjectOrdered
<1>9. \A sub \in DOMAIN p.found, s \in DOMAIN p.total :
        \A e \in Subject!ExamsOf(sub) : Share[e] > 0 => p.found[sub][<<e, s>>].kind = "mark"
  BY <1>1, <1>4, CompleteMeans DEF Subject!Found
<1>10. ASSUME DOMAIN p.grades = p.names, NEW s \in DOMAIN p.total,
              \A sub \in DOMAIN p.grades : p.grades[sub][s] # 11
       PROVE  p.grade[s] # 11 /\ p.points[s] >= 10 * CreditSum(p.names)
  <2>1. s \in Subject!FoundRoster /\ Subject!Found = combine.names
        /\ \A sub \in Subject!Found : combine.grades[sub][s] # 11
    BY <1>1, <1>4, <1>10 DEF Gathered, Subject!Found
  <2>2. 3000 * Cardinality(combine.names) <= total[s]
    BY <2>1, PassingTotal
  <2>3. total[s] \in Int
    BY <2>1, TotalsSummed
  <2>4. ~(total[s] * 100 < 30 * max)
    BY <1>3, <2>2, <2>3
  <2>5. grade[s] # 11
    BY <1>4, <1>5, <2>1, <2>4 DEF Subject!U
  <2>6. 10 * CreditSum(combine.names) <= Subject!CreditPoints(combine.grades, s)
    BY <2>1, PassingPoints
  <2>7. points[s] = Subject!CreditPoints(combine.grades, s)
    BY <2>1
  <2>8. PICK credits : credits = CreditSum(combine.names)
    OBVIOUS
  <2>9. 10 * credits <= points[s]
    BY <2>6, <2>7, <2>8
  <2>10. points[s] >= 10 * credits
    BY <2>9
  <2> QED
    BY <1>1, <2>5, <2>8, <2>10
<1> QED
  BY <1>1, <1>5, <1>7, <1>8, <1>9, <1>10 DEF Fit

LEMMA StepCombined ==
  ASSUME SubjectInv, Subject!PublishCombined PROVE SubjectInv'
<1>1. UNCHANGED <<answers, live, schemes, imported, request, changed>> /\ combine' = Subject!Idle
  BY DEF Subject!PublishCombined
<1>2. combine.step = "subjects"
  BY DEF Subject!PublishCombined
<1>3. IsScheme(combine.scheme) /\ Gathered(combine)
  BY <1>2, AtSubjects
<1>4. PICK total : total = Subject!CombinedTotals
  OBVIOUS
<1>5. PICK max : max = 10000 * Subject!Cardinality(combine.names)
  OBVIOUS
<1>6. PICK grade : grade = Subject!RelativeGrades(combine.scheme, total, max)
  OBVIOUS
<1>7. PICK points : points = [s \in Subject!FoundRoster |-> Subject!CreditPoints(combine.grades, s)]
  OBVIOUS
<1>8. PICK p : p = [source |-> "exams", total |-> total, grade |-> grade,
                    found |-> combine.found, grades |-> combine.grades, names |-> combine.names,
                    points |-> points]
  OBVIOUS
<1>9. published' = IF ~Subject!Complete \/ Subject!FoundRoster = {} \/ Subject!UsedBands(combine.scheme) = {}
                   THEN published ELSE p
  BY <1>4, <1>5, <1>6, <1>7, <1>8 DEF Subject!PublishCombined
<1>10. Subject!Complete /\ Subject!UsedBands(combine.scheme) # {} => Fit(p)
  BY <1>3, <1>4, <1>5, <1>6, <1>7, <1>8, FitCombined
<1>11. PublishedInv'
  BY <1>9, <1>10 DEF SubjectInv, PublishedInv
<1>12. CombineInv'
  BY <1>1 DEF CombineInv
<1> QED
  BY <1>1, <1>11, <1>12, StaffStays, AnswersRemain DEF SubjectInv

LEMMA SubjectStep ==
  ASSUME SubjectInv, [Subject!Next]_Subject!vars PROVE SubjectInv'
<1>1. CASE UNCHANGED Subject!vars
  BY <1>1, StaffStays, CombineStays, PublishedStays, AnswersRemain DEF SubjectInv, Subject!vars
<1>2. CASE Subject!ChangeAnswer \/ Subject!DeleteSubject
  BY <1>2, StepAnswers
<1>3. CASE \E r \in Staff : Subject!SchemeFind(r) \/ Subject!SchemeWrite(r) \/ Subject!SchemePut(r)
  BY <1>3, StepSchemes
<1>4. CASE \E r \in Staff : Subject!ImportClear(r) \/ Subject!ImportInsert(r) \/ Subject!ImportFails(r)
  BY <1>4, StepImports
<1>5. CASE Subject!ReadScheme \/ Subject!NothingImported \/ Subject!ListSubjects
  BY <1>5, StepReadScheme
<1>6. CASE Subject!PublishImported
  BY <1>6, StepImported
<1>7. CASE \E sub \in Courses : Subject!ReadSubject(sub)
  BY <1>7, StepSubject
<1>8. CASE Subject!GradeSubject
  BY <1>8, StepGrade
<1>9. CASE Subject!PublishCombined
  BY <1>9, StepCombined
<1> QED
  BY <1>1, <1>2, <1>3, <1>4, <1>5, <1>6, <1>7, <1>8, <1>9 DEF Subject!Next

-----------------------------------------------------------------------------
\* Results: a behaviour is of one component

ResultsInv ==
  /\ scenario = "uploads" => UploadsInv
  /\ scenario = "subject" => SubjectInv
  /\ scenario = "transcripts" => TranscriptsInv

\* A step is one of the component that moves.
LEMMA OneMoves ==
  ASSUME [Next]_vars
  PROVE  /\ UNCHANGED scenario
         /\ scenario = "uploads" => [Uploads!Next]_Uploads!vars
         /\ scenario = "subject" => [Subject!Next]_Subject!vars
         /\ scenario = "transcripts" => [Transcript!Next]_Transcript!vars
<1>1. CASE UNCHANGED vars
  BY <1>1 DEF vars, ofUploads, ofSubject, ofTranscript, Uploads!vars, Subject!vars, Transcript!vars
<1>2. CASE Next
  BY <1>2 DEF Next
<1> QED
  BY <1>1, <1>2

\* The inductive invariants of the components hold side by side.
THEOREM ResultsInvariant == Spec => []ResultsInv
<1>1. Init => ResultsInv
  <2>1. Init /\ scenario = "uploads" => UploadsInv
    BY UploadsInit, UploadsConstants DEF Init
  <2>2. Init /\ scenario = "transcripts" => TranscriptsInv
    BY TranscriptsInit, TranscriptConstants DEF Init
  <2>3. Init /\ scenario = "subject" => SubjectInv
    BY SubjectInit DEF Init
  <2> QED
    BY <2>1, <2>2, <2>3 DEF ResultsInv
<1>2. ResultsInv /\ [Next]_vars => ResultsInv'
  <2> SUFFICES ASSUME ResultsInv, [Next]_vars PROVE ResultsInv'
    OBVIOUS
  <2>1. scenario = "uploads" => UploadsInv'
    BY OneMoves, UploadsStep, UploadsConstants DEF ResultsInv
  <2>2. scenario = "transcripts" => TranscriptsInv'
    BY OneMoves, TranscriptsStep, TranscriptConstants DEF ResultsInv
  <2>3. scenario' = scenario
    BY OneMoves
  <2>4. scenario = "subject" => SubjectInv'
    BY OneMoves, SubjectStep DEF ResultsInv
  <2> QED
    BY <2>1, <2>2, <2>3, <2>4 DEF ResultsInv
<1> QED
  BY <1>1, <1>2, PTL DEF Spec

\* Whatever interleaves: a student has one answer in the exam, a deleted answer
\* does not come back, the script of an answer is stored, and receipt and answer
\* name each other (answers.py, services/answer_persistence.py).
THEOREM AnswersKept == Spec => []AnswersStay
<1>1. ResultsInv => AnswersStay
  BY DEF ResultsInv, UploadsInv, AnswersStay, Uploads!AnswersStay
<1> QED
  BY <1>1, ResultsInvariant, PTL

\* No change of marks is lost to a publication that was calculating meanwhile: a
\* transcript that can be read shows the marks as they are, its cumulative value
\* counts the semesters beside it, and a set is replaced whole
\* (services/transcript_commit.py, services/result_revision.py).
THEOREM PublishedIsCurrent == Spec => []TranscriptsCurrent
<1>1. ResultsInv => TranscriptsCurrent
  BY TranscriptsKnown, TranscriptConstants DEF ResultsInv, TranscriptsCurrent
<1> QED
  BY <1>1, ResultsInvariant, PTL

\* Whatever is saved, imported, deleted or changed while a combined result is
\* put together from many reads: whoever has at least the total of another has
\* at least the grade, in the list and in each subject of it, nothing pending is
\* published, and who passes every subject passes the semester
\* (subject_results.py, utils/grading_helper.py).
THEOREM GradesFollowResults == Spec => []ResultsFollowMarks
<1>1. ResultsInv => ResultsFollowMarks
  BY SubjectKeeps DEF ResultsInv, ResultsFollowMarks
<1> QED
  BY <1>1, ResultsInvariant, PTL
=============================================================================
