--------------------------- MODULE QuestionPapers ---------------------------
(***************************************************************************)
(* Question papers kept by faculty (app/api/routers/question_paper.py,     *)
(* CRUD part): a document with the editor's content and the fields of the  *)
(* header, and a Word file in the file store that is built from both.      *)
(* Edits read the paper, build and upload a new file, and write under the  *)
(* revision they read; the write may be in doubt, and the file that lost   *)
(* is removed.                                                             *)
(***************************************************************************)
EXTENDS Naturals, FiniteSets

CONSTANTS
  Papers,      \* ids of stored papers
  Requests,    \* requests that edit papers
  MaxVersion   \* bound: versions of content and header, files, revisions

\* What the constants of an instance satisfy.
ConstantsOK ==
  /\ MaxVersion \in Nat

VARIABLES
  paper,    \* stored documents; version 0 of the content: not stored yet
  file,     \* file store: what each uploaded file shows, or Gone
  req,      \* what each request holds
  stuck     \* files a failed call left behind

vars == <<paper, file, req, stuck>>

Versions == 0 .. MaxVersion
Gone == [gone |-> TRUE]
Idle == [at |-> "idle"]
Files == DOMAIN file

Init ==
  /\ paper = [p \in Papers |-> [content |-> 0, header |-> 0, file |-> 0,
                                revision |-> 0, deleted |-> FALSE]]
  /\ file = << >>
  /\ req = [r \in Requests |-> Idle]
  /\ stuck = {}

(* upload_file_to_imagekit gives every file a name of its own.             *)
NewFile == Cardinality(Files) + 1

Uploaded(shows) == [f \in Files \cup {NewFile} |-> IF f = NewFile THEN shows ELSE file[f]]

CanUpload == NewFile <= 2 * MaxVersion

Goto(r, at) == req' = [req EXCEPT ![r].at = at]
Finish(r) == req' = [req EXCEPT ![r] = Idle]

-----------------------------------------------------------------------------
(* save_question_paper: the upload, then the insert; an insert that fails  *)
(* leaves the file.                                                        *)
Save(p) ==
  /\ paper[p].content = 0 /\ ~paper[p].deleted /\ CanUpload
  /\ file' = Uploaded([content |-> 1, header |-> 1])
  /\ \/ /\ paper' = [paper EXCEPT ![p] = [content |-> 1, header |-> 1, file |-> NewFile,
                                          revision |-> 0, deleted |-> FALSE]]
        /\ UNCHANGED stuck
     \/ /\ stuck' = stuck \cup {NewFile}
        /\ UNCHANGED paper
  /\ UNCHANGED req

Stored(p) == paper[p].content > 0 /\ ~paper[p].deleted

(* update_question_paper reads the paper; a field the request does not     *)
(* carry keeps the value that was read.                                    *)
ReadForUpdate(r, p, fields) ==
  /\ req[r] = Idle /\ Stored(p)
  /\ LET next(field) == IF field \in fields THEN paper[p][field] + 1 ELSE paper[p][field]
     IN  /\ next("content") <= MaxVersion /\ next("header") <= MaxVersion
         /\ req' = [req EXCEPT ![r] =
              [at |-> IF "content" \in fields THEN "upload" ELSE "write",
               paper |-> p, fields |-> fields, revision |-> paper[p].revision,
               old |-> paper[p].file, new |-> 0,
               content |-> next("content"), header |-> next("header")]]
  /\ UNCHANGED <<paper, file, stuck>>

(* The file is built from the new content and the header as it will be.    *)
UploadFile(r) ==
  /\ req[r].at = "upload" /\ CanUpload
  /\ file' = Uploaded([content |-> req[r].content, header |-> req[r].header])
  /\ req' = [req EXCEPT ![r].at = "write", ![r].new = NewFile]
  /\ UNCHANGED <<paper, stuck>>

UploadFails(r) ==
  /\ req[r].at = "upload"
  /\ Finish(r)
  /\ UNCHANGED <<paper, file, stuck>>

(* Only the fields of the request are set, so another request's are kept.  *)
Written(r) ==
  LET old == paper[req[r].paper]
      set(field) == IF field \in req[r].fields THEN req[r][field] ELSE old[field]
  IN  [paper EXCEPT ![req[r].paper] =
         [content |-> set("content"), header |-> set("header"),
          file |-> IF req[r].new > 0 THEN req[r].new ELSE old.file,
          revision |-> old.revision + 1, deleted |-> FALSE]]

(* Mutant: the paper only has to be there.                                 *)
WriteMatches_AnyRevision(r) == Stored(req[r].paper)

WriteMatches(r) ==
  Stored(req[r].paper) /\ paper[req[r].paper].revision = req[r].revision

WriteApplied(r) ==
  /\ req[r].at = "write" /\ WriteMatches(r)
  /\ paper[req[r].paper].revision < MaxVersion
  /\ paper' = Written(r)
  /\ IF req[r].new > 0 THEN Goto(r, "cleanup") ELSE Finish(r)
  /\ UNCHANGED <<file, stuck>>

WriteRefused(r) ==
  /\ req[r].at = "write" /\ ~WriteMatches(r)
  /\ IF req[r].new > 0 THEN Goto(r, "reconcile") ELSE Finish(r)
  /\ UNCHANGED <<paper, file, stuck>>

(* The database call raises; it may have been applied, and then nobody     *)
(* removes the old file any more.                                          *)
WriteInDoubt(r) ==
  /\ req[r].at = "write" /\ paper[req[r].paper].revision < MaxVersion
  /\ \/ /\ WriteMatches(r) /\ paper' = Written(r)
        /\ stuck' = IF req[r].new > 0 THEN stuck \cup {req[r].old} ELSE stuck
     \/ UNCHANGED <<paper, stuck>>
  /\ IF req[r].new > 0 THEN Goto(r, "reconcile") ELSE Finish(r)
  /\ UNCHANGED file

Removed(f) == file' = [file EXCEPT ![f] = Gone]

(* Mutant: after an error the new file is removed.                         *)
Reconcile_Blind(r) ==
  /\ req[r].at = "reconcile"
  /\ Removed(req[r].new)
  /\ Finish(r)
  /\ UNCHANGED <<paper, stuck>>

(* After an error the new file is removed when a read shows that the paper *)
(* does not refer to it; a read or a removal that fails leaves it.         *)
Reconcile(r) ==
  /\ req[r].at = "reconcile"
  /\ \/ /\ paper[req[r].paper].file # req[r].new
        /\ Removed(req[r].new) /\ UNCHANGED stuck
     \/ /\ paper[req[r].paper].file = req[r].new
        /\ UNCHANGED <<file, stuck>>
     \/ stuck' = stuck \cup {req[r].new} /\ UNCHANGED file
  /\ Finish(r)
  /\ UNCHANGED paper

(* The paper is saved: the file it had goes, or the store refuses.         *)
RemoveOldFile(r) ==
  /\ req[r].at = "cleanup"
  /\ \/ Removed(req[r].old) /\ UNCHANGED stuck
     \/ stuck' = stuck \cup {req[r].old} /\ UNCHANGED file
  /\ Finish(r)
  /\ UNCHANGED paper

(* delete_question_paper marks the document; the file stays.               *)
DeletePaper(p) ==
  /\ paper[p].content > 0
  /\ paper' = [paper EXCEPT ![p].deleted = TRUE]
  /\ UNCHANGED <<file, req, stuck>>

Next ==
  \/ \E p \in Papers : Save(p) \/ DeletePaper(p)
  \/ \E r \in Requests, p \in Papers, fields \in SUBSET {"content", "header"} :
       ReadForUpdate(r, p, fields)
  \/ \E r \in Requests :
       \/ UploadFile(r) \/ UploadFails(r)
       \/ WriteApplied(r) \/ WriteRefused(r) \/ WriteInDoubt(r)
       \/ Reconcile(r) \/ RemoveOldFile(r)

Spec == Init /\ [][Next]_vars

-----------------------------------------------------------------------------
TypeOK ==
  /\ \A p \in Papers :
       /\ paper[p].content \in Versions /\ paper[p].header \in Versions
       /\ paper[p].file \in {0} \cup Files
       /\ paper[p].revision \in Versions /\ paper[p].deleted \in BOOLEAN
  /\ \A f \in Files : file[f] = Gone \/ (file[f].content \in Versions /\ file[f].header \in Versions)
  /\ \A r \in Requests :
       req[r] = Idle \/ req[r].at \in {"upload", "write", "reconcile", "cleanup"}
  /\ stuck \subseteq Files

(* The file a paper refers to is in the store, whichever writes failed,    *)
(* were in doubt or overtook each other, and shows the paper's content.    *)
ReferencedFileShowsContent ==
  \A p \in Papers :
    paper[p].content > 0 =>
      /\ file[paper[p].file] # Gone
      /\ file[paper[p].file].content = paper[p].content

(* A file that takes the place of another is built from the header that is *)
(* stored with it: nobody else changed the paper while it was built.  (An  *)
(* edit of the header alone does not build a file.)                        *)
HeaderStep ==
  \A p \in Papers :
    paper'[p].file # paper[p].file => file'[paper'[p].file].header = paper'[p].header

(* Every file is the one of a paper, or a request still holds it, or a     *)
(* call that failed left it behind.                                        *)
FilesAccountedFor ==
  \A f \in Files :
    \/ file[f] = Gone \/ f \in stuck
    \/ \E p \in Papers : paper[p].file = f
    \/ \E r \in Requests : req[r] # Idle /\ f \in {req[r].old, req[r].new}

(* Whichever uploads and writes fail, are in doubt or overtake each other. *)
PapersKept == ReferencedFileShowsContent /\ FilesAccountedFor
=============================================================================
