------------------------------ MODULE TutorNotes ------------------------------
(***************************************************************************)
(* The jobs of the AI tutor (api/routers/ai_tutor.py): a student asks for  *)
(* a homework solution or for study notes, with a prompt, a document or    *)
(* both.  The worker reads the document (locally where a page carries      *)
(* text, page batches to Gemini where it does not: rag/pdf_extract.py),    *)
(* has a provider write the result, renders and uploads it, keeps notes in *)
(* the student's history, and reports through a record that expires.       *)
(* Notes can be deleted while all of this goes on.                         *)
(*                                                                         *)
(* A document is the sequence of its pages; a text is the sequence of the  *)
(* page numbers it holds; usage is the number of provider calls it counts, *)
(* which are those whose answer told what it cost.                         *)
(***************************************************************************)
EXTENDS Naturals, Sequences, FiniteSets, SequencesExt

CONSTANTS Jobs,         \* jobs, one per accepted request
          Documents,    \* the documents that may be uploaded
          Prompts,      \* SUBSET BOOLEAN: may a prompt be given or missing
          BatchPages,   \* _OCR_BATCH_PAGES
          MaxAttempts,  \* attempts of one Gemini call
          None

PageKinds == {"text", "scan"}

\* What the constants of an instance satisfy.
ConstantsOK ==
  /\ \A d \in Documents : /\ d.type \in {"docx", "pdf", "image"}
                          /\ d.pages \in Seq(PageKinds)
                          /\ d.pages # << >>
                          /\ d.opens \in BOOLEAN
  /\ BatchPages \in Nat \ {0}
  /\ MaxAttempts \in Nat \ {0}

VARIABLES
  job,       \* what the worker knows of each job, or Unposted
  record,    \* the polled record of each job, or None
  ledger,    \* usage events
  notes,     \* the history: note records
  files,     \* jobs whose PDF is in the file store
  removing   \* jobs whose deleted note still has its file to be deleted

vars == <<job, record, ledger, notes, files, removing>>

Kinds     == {"homework", "notes"}
Providers == {"gemini", "claude"}
Ended     == {"done", "failed", "stopped", "lost"}
Phases    == {"queued", "read", "ocr", "whole", "charge", "write", "claude", "gemini",
              "charge2", "render", "upload", "persist", "finish", "fail"} \cup Ended

Pages(d) == 1 .. Len(d.pages)
Scanned(d, i) == i \in Pages(d) /\ d.pages[i] = "scan"

\* The first page of the unbroken run of scanned pages that page i belongs to.
RunStart(d, i) ==
  CHOOSE k \in 1 .. i : /\ \A n \in k .. i : Scanned(d, n)
                        /\ ~Scanned(d, k - 1)

\* A batch starts wherever a run does and after every BatchPages pages of it.
Starts(d) == {i \in Pages(d) : Scanned(d, i) /\ (i - RunStart(d, i)) % BatchPages = 0}

Batch(d, i) ==
  {n \in i .. (i + BatchPages - 1) : Scanned(d, n) /\ RunStart(d, n) = RunStart(d, i)}

Ascending(S) == SetToSortSeq(S, <)

\* The texts of the page slots in their order; a batch fills its first slot.
Assembled(slots) == FlattenSeq(slots)

LocalSlots(d) == [i \in Pages(d) |-> IF d.pages[i] = "text" THEN <<i>> ELSE << >>]

\* What a Gemini reply holds of the pages it was sent.  An answer without a
\* text part reads as the empty text and carries no sign of being short.
Replies == {"whole", "cut", "blank"}

ReplyText(S, reply) ==
  CASE reply = "whole" -> Ascending(S)
    [] reply = "cut"   -> Front(Ascending(S))
    [] reply = "blank" -> << >>

\* Errors of the client library carry a status code; the retry helper raises a
\* RuntimeError of its own in their place, which carries none.
Errors == {[code |-> 429], [code |-> 503], [code |-> 400]}
Retryable(e) == e.code \in {429, 503}
Reraised(e) == [code |-> None]
IsGeminiQuotaError(e) == e.code = 429

------------------------------------------------------------------------------

\* A job that no request has posted.
Unposted == [phase |-> "none"]

Start(kind, prompt, doc) ==
  [phase |-> "queued", kind |-> kind, prompt |-> prompt, doc |-> doc,
   slots |-> << >>, todo |-> {}, text |-> << >>, replies |-> {},
   cut |-> FALSE, whole |-> FALSE, made |-> 0, usage |-> 0,
   attempt |-> 0, provider |-> None, quota |-> FALSE, note |-> None,
   unbilled |-> FALSE]     \* the ledger gave up on the writing (history)

TypeOK ==
  /\ job \in [Jobs -> {Unposted} \cup
       [phase : Phases, kind : Kinds, prompt : BOOLEAN, doc : Documents \cup {None},
        slots : Seq(Seq(Nat)), todo : SUBSET Nat, text : Seq(Nat), replies : SUBSET Replies,
        cut : BOOLEAN, whole : BOOLEAN, made : Nat, usage : Nat, attempt : 0 .. (MaxAttempts - 1),
        provider : Providers \cup {None}, quota : BOOLEAN, note : Jobs \cup {None},
        unbilled : BOOLEAN]]
  /\ record \in [Jobs -> {None} \cup
       [status : {"processing", "completed", "failed"}, warning : BOOLEAN,
        note : Jobs \cup {None}]]
  /\ ledger \subseteq [job : Jobs, use : {"reading", "writing"}, provider : Providers,
                       grounded : BOOLEAN, calls : Nat]
  /\ notes \subseteq [job : Jobs, provider : Providers, grounded : BOOLEAN, warning : BOOLEAN]
  /\ files \subseteq Jobs
  /\ removing \subseteq Jobs

Init ==
  /\ job = [j \in Jobs |-> Unposted]
  /\ record = [j \in Jobs |-> None]
  /\ ledger = {}
  /\ notes = {}
  /\ files = {}
  /\ removing = {}

\* update_job: an expired or finished record is left alone.
Updated(j, new) ==
  IF record[j] = None THEN record
  ELSE IF record[j].status # "processing" THEN record
  ELSE [record EXCEPT ![j] = new]

Step(j, phase) == job' = [job EXCEPT ![j].phase = phase]
At(j, phase) == job[j].phase = phase

Accepts(kind, doc) == doc # None => (kind = "notes" => doc.type # "image")

\* POST homework-help and POST generate-notes.  When the queue refuses the
\* message the request fails and the record stays as it was written.
Post(j, kind, prompt, doc) ==
  /\ job[j] = Unposted
  /\ doc = None => prompt
  /\ Accepts(kind, doc)
  /\ record' = [record EXCEPT ![j] = [status |-> "processing", warning |-> FALSE, note |-> None]]
  /\ \E phase \in {"queued", "lost"} :
       job' = [job EXCEPT ![j] = [Start(kind, prompt, doc) EXCEPT !.phase = phase]]
  /\ UNCHANGED <<ledger, notes, files, removing>>

Begin(j) ==
  /\ At(j, "queued")
  /\ Step(j, IF job[j].doc = None THEN "write" ELSE "read")
  /\ UNCHANGED <<record, ledger, notes, files, removing>>

\* What extract_text_from_file reads: a file it cannot open has no text.
WordText(d) == IF d.opens THEN Ascending(Pages(d)) ELSE << >>

\* _extract_homework_content and _extract_study_content choose the reader.
ReadWord(j) ==
  /\ At(j, "read")
  /\ job[j].doc.type = "docx"
  /\ job' = [job EXCEPT ![j].text = WordText(job[j].doc), ![j].phase = "charge"]
  /\ UNCHANGED <<record, ledger, notes, files, removing>>

ReadPdf(j) ==
  /\ At(j, "read")
  /\ job[j].doc.type = "pdf"
  /\ IF job[j].doc.opens
     THEN job' = [job EXCEPT ![j].slots = LocalSlots(job[j].doc),
                             ![j].todo = Starts(job[j].doc), ![j].phase = "ocr"]
     ELSE Step(j, "whole")
  /\ UNCHANGED <<record, ledger, notes, files, removing>>

ReadImage(j) ==
  /\ At(j, "read")
  /\ job[j].doc.type = "image"
  /\ Step(j, "whole")
  /\ UNCHANGED <<record, ledger, notes, files, removing>>

\* _call_generate_content_with_retry sleeps and repeats what may pass.
Retry(j) ==
  /\ \E phase \in {"ocr", "whole", "gemini"} : At(j, phase)
  /\ At(j, "ocr") => job[j].todo # {}
  /\ job[j].attempt < MaxAttempts - 1
  /\ job' = [job EXCEPT ![j].attempt = @ + 1]
  /\ UNCHANGED <<record, ledger, notes, files, removing>>

\* The error a call ends with: the last attempt's, or one not worth repeating.
EndsWith(j, e) == Retryable(e) => job[j].attempt = MaxAttempts - 1

\* What the worker knows when batch i has its reply.  A reply that does not tell
\* what it cost adds nothing to the usage.
WithBatch(r, i, reply, told) ==
  [r EXCEPT !.slots[i] = ReplyText(Batch(r.doc, i), reply),
            !.todo = @ \ {i},
            !.replies = @ \cup {reply},
            !.cut = @ \/ reply = "cut",
            !.made = @ + told,
            !.usage = @ + told,
            !.attempt = 0]

\* One batch of scanned pages (_ocr_scanned_pages), first to last.
OcrBatch(j, reply) ==
  /\ At(j, "ocr")
  /\ job[j].todo # {}
  /\ LET i == CHOOSE n \in job[j].todo : \A k \in job[j].todo : n <= k IN
     \E told \in {0, 1} : job' = [job EXCEPT ![j] = WithBatch(job[j], i, reply, told)]
  /\ UNCHANGED <<record, ledger, notes, files, removing>>

\* Whatever fails inside the local reading, the whole file goes to Gemini and
\* what the batches before it returned is dropped.
OcrFails(j, e) ==
  /\ At(j, "ocr")
  /\ job[j].todo # {}
  /\ EndsWith(j, e)
  /\ job' = [job EXCEPT ![j].slots = << >>, ![j].todo = {}, ![j].replies = {},
                        ![j].cut = FALSE, ![j].usage = 0, ![j].attempt = 0,
                        ![j].phase = "whole"]
  /\ UNCHANGED <<record, ledger, notes, files, removing>>

OcrEnds(j) ==
  /\ At(j, "ocr")
  /\ job[j].todo = {}
  /\ job' = [job EXCEPT ![j].text = Assembled(job[j].slots), ![j].phase = "charge"]
  /\ UNCHANGED <<record, ledger, notes, files, removing>>

ReadWhole(j, reply) ==
  /\ At(j, "whole")
  /\ job' = [job EXCEPT ![j].text = ReplyText(Pages(job[j].doc), reply),
                        ![j].replies = {reply},
                        ![j].cut = reply = "cut",
                        ![j].whole = TRUE,
                        ![j].made = @ + 1,
                        ![j].usage = 1,
                        ![j].attempt = 0,
                        ![j].phase = "charge"]
  /\ UNCHANGED <<record, ledger, notes, files, removing>>

WholeFails(j, e) ==
  /\ At(j, "whole")
  /\ EndsWith(j, e)
  /\ Step(j, "fail")
  /\ UNCHANGED <<record, ledger, notes, files, removing>>

\* record_ai_usage skips a reading that cost nothing; when it gives up after its
\* attempts, the event may be in the ledger or not, and the job goes on.
RecordReading(j) ==
  /\ At(j, "charge")
  /\ ledger' \in {ledger} \cup
       IF job[j].usage = 0 THEN {}
       ELSE {ledger \cup {[job |-> j, use |-> "reading", provider |-> "gemini",
                           grounded |-> FALSE, calls |-> job[j].usage]}}
  /\ Step(j, "write")
  /\ UNCHANGED <<record, notes, files, removing>>

\* Homework and notes that have a document text are written by Claude.
ChooseProvider(j) ==
  /\ At(j, "write")
  /\ Step(j, IF job[j].kind = "homework" \/ job[j].text # << >> THEN "claude" ELSE "gemini")
  /\ UNCHANGED <<record, ledger, notes, files, removing>>

Writes(j, p) ==
  /\ At(j, p)
  /\ job' = [job EXCEPT ![j].provider = p, ![j].attempt = 0, ![j].phase = "charge2"]
  /\ UNCHANGED <<record, ledger, notes, files, removing>>

ClaudeFails(j) ==
  /\ At(j, "claude")
  /\ Step(j, "fail")
  /\ UNCHANGED <<record, ledger, notes, files, removing>>

\* _generate_notes_html hands over to Claude on a quota error only.
GeminiFails(j, e) ==
  /\ At(j, "gemini")
  /\ EndsWith(j, e)
  /\ job' = [job EXCEPT ![j].quota = e.code = 429, ![j].attempt = 0,
                        ![j].phase = IF IsGeminiQuotaError(Reraised(e)) THEN "claude" ELSE "fail"]
  /\ UNCHANGED <<record, ledger, notes, files, removing>>

WritingOf(j) ==
  [job |-> j, use |-> "writing", provider |-> job[j].provider,
   grounded |-> job[j].kind = "notes" /\ job[j].text # << >>, calls |-> 1]

RecordWriting(j) ==
  /\ At(j, "charge2")
  /\ \E gaveUp \in BOOLEAN :
       /\ ledger' \in {ledger \cup {WritingOf(j)}} \cup IF gaveUp THEN {ledger} ELSE {}
       /\ job' = [job EXCEPT ![j].unbilled = gaveUp, ![j].phase = "render"]
  /\ UNCHANGED <<record, notes, files, removing>>

Render(j) ==
  /\ At(j, "render")
  /\ \E phase \in {"upload", "fail"} : Step(j, phase)
  /\ UNCHANGED <<record, ledger, notes, files, removing>>

Upload(j) ==
  /\ At(j, "upload")
  /\ files' = files \cup {j}
  /\ Step(j, IF job[j].kind = "notes" THEN "persist" ELSE "finish")
  /\ UNCHANGED <<record, ledger, notes, removing>>

\* The upload fails, before or after the store took the file.
UploadFails(j) ==
  /\ At(j, "upload")
  /\ files' \in {files, files \cup {j}}
  /\ Step(j, "fail")
  /\ UNCHANGED <<record, ledger, notes, removing>>

Note(j) == [job |-> j, provider |-> job[j].provider, grounded |-> job[j].text # << >>,
            warning |-> job[j].cut]

\* The history entry is best effort.
Persist(j) ==
  /\ At(j, "persist")
  /\ notes' = notes \cup {Note(j)}
  /\ job' = [job EXCEPT ![j].note = j, ![j].phase = "finish"]
  /\ UNCHANGED <<record, ledger, files, removing>>

PersistFails(j) ==
  /\ At(j, "persist")
  /\ notes' \in {notes, notes \cup {Note(j)}}
  /\ Step(j, "finish")
  /\ UNCHANGED <<record, ledger, files, removing>>

Finish(j) ==
  /\ At(j, "finish")
  /\ record' = Updated(j, [status |-> "completed", warning |-> job[j].cut, note |-> job[j].note])
  /\ Step(j, "done")
  /\ UNCHANGED <<ledger, notes, files, removing>>

Fail(j) ==
  /\ At(j, "fail")
  /\ record' = Updated(j, [status |-> "failed", warning |-> FALSE, note |-> None])
  /\ Step(j, "failed")
  /\ UNCHANGED <<ledger, notes, files, removing>>

\* The worker dies or cancels the job at its time limit: no handler runs.
Stop(j) ==
  /\ job[j] # Unposted
  /\ \A phase \in Ended : ~At(j, phase)
  /\ Step(j, "stopped")
  /\ UNCHANGED <<record, ledger, notes, files, removing>>

Expire(j) ==
  /\ record[j] # None
  /\ record' = [record EXCEPT ![j] = None]
  /\ UNCHANGED <<job, ledger, notes, files, removing>>

\* A slip: the file is deleted before the history entry.
DeleteNoteFileFirst(n) ==
  /\ n \in notes
  /\ removing' = removing \cup {n.job}
  /\ UNCHANGED <<job, record, ledger, notes, files>>

\* DELETE notes/{id}: the history entry first, then its file, best effort.
DeleteNote(n) ==
  /\ n \in notes
  /\ notes' = notes \ {n}
  /\ removing' = removing \cup {n.job}
  /\ UNCHANGED <<job, record, ledger, files>>

DeleteFile(j) ==
  /\ j \in removing
  /\ removing' = removing \ {j}
  /\ files' \in {files, files \ {j}}
  /\ UNCHANGED <<job, record, ledger, notes>>

Next ==
  \/ \E j \in Jobs :
       \/ \E kind \in Kinds, prompt \in Prompts, doc \in Documents \cup {None} :
            Post(j, kind, prompt, doc)
       \/ Begin(j) \/ ReadWord(j) \/ ReadPdf(j) \/ ReadImage(j) \/ Retry(j)
       \/ \E reply \in Replies : OcrBatch(j, reply) \/ ReadWhole(j, reply)
       \/ \E e \in Errors : OcrFails(j, e) \/ WholeFails(j, e) \/ GeminiFails(j, e)
       \/ OcrEnds(j) \/ RecordReading(j) \/ ChooseProvider(j)
       \/ \E p \in Providers : Writes(j, p)
       \/ ClaudeFails(j) \/ RecordWriting(j) \/ Render(j) \/ Upload(j) \/ UploadFails(j)
       \/ Persist(j) \/ PersistFails(j) \/ Finish(j) \/ Fail(j) \/ Stop(j) \/ Expire(j)
       \/ DeleteFile(j)
  \/ \E n \in notes : DeleteNote(n)

Spec == Init /\ [][Next]_vars

------------------------------------------------------------------------------

\* A note in the history can be opened: its PDF is in the store for as long as
\* the entry is there, whatever fails or is deleted around it.
NotesHaveFiles == \A n \in notes : n.job \in files

\* A record that reports a result is backed by it: the PDF is there unless the
\* student deleted the note, and the note it names says the same as the record;
\* unless the ledger gave up on the job, its writing is charged, and to the
\* provider the note names.
ResultsAreBacked ==
  \A j \in Jobs :
    record[j] # None /\ record[j].status = "completed" =>
      /\ j \in files \/ \A n \in notes : n.job # j
      /\ job[j].unbilled \/ \E e \in ledger : e.job = j /\ e.use = "writing"
      /\ \A n \in notes : n.job = j =>
           /\ n.warning = record[j].warning
           /\ \/ job[j].unbilled
              \/ [job |-> j, use |-> "writing", provider |-> n.provider,
                  grounded |-> n.grounded, calls |-> 1] \in ledger

\* Once any extraction call of a document was cut at the output limit, the
\* result says so, also when later calls came back complete.
CutIsTold ==
  \A j \in Jobs :
    record[j] # None /\ record[j].status = "completed" /\ "cut" \in job[j].replies =>
      record[j].warning

\* The extracted text holds the pages in the order of the document, each once,
\* and all of them unless a reply was short.
DocumentOrder ==
  \A j \in Jobs :
    job[j] # Unposted /\ job[j].doc # None /\ job[j].text # << >> =>
      /\ \A a, b \in DOMAIN job[j].text : a < b => job[j].text[a] < job[j].text[b]
      /\ job[j].replies \subseteq {"whole"} => Len(job[j].text) = Len(job[j].doc.pages)

\* What the ledger holds for the reading of a document is what its extraction
\* calls told of their cost, all of them, as long as the local reading did not
\* give way to a whole-file call.
ReadingIsCharged ==
  \A e \in ledger : e.use = "reading" /\ ~job[e.job].whole => e.calls = job[e.job].made

-----------------------------------------------------------------------------
\* What the documentation says beyond this and the code does not keep: the model
\* has behaviours against it (README, "Divergences").

\* The docstring of _generate_notes_html: a Gemini quota error fails over to
\* Claude rather than failing the job.
QuotaFailsOver == \A j \in Jobs : At(j, "failed") /\ job[j].quota => job[j].provider # None

\* The docstring of _extract_pdf_local_first: a PDF goes to Gemini whole only
\* when it cannot be opened at all.
WholeOnlyIfUnreadable ==
  \A j \in Jobs : job[j] # Unposted /\ job[j].whole /\ job[j].doc.type = "pdf" => ~job[j].doc.opens

\* The comment on _TRUNCATION_WARNING: a student is told whenever extraction
\* came back short.
ShortIsTold ==
  \A j \in Jobs :
    record[j] # None /\ record[j].status = "completed" /\ ~job[j].replies \subseteq {"whole"} =>
      record[j].warning
==============================================================================
