------------------------------ MODULE CourseIndex ------------------------------
(***************************************************************************)
(* Course material and its index (api/routers/course_material.py,          *)
(* self_learner_course_material.py, services/rag).  An uploaded file is    *)
(* recognised by its bytes, otherwise read, classified, and indexed either *)
(* as a tree of headings in MongoDB or as embedded chunks in the vector    *)
(* store; only then is the document recorded with its owner.  Generation   *)
(* retrieves context from documents its user owns.                         *)
(*                                                                         *)
(* A file is [hash, title, lines, sentences]: a line is 0 for text and n   *)
(* for a heading of level n; a sentence is the number of its words.        *)
(***************************************************************************)
EXTENDS Integers, Sequences, FiniteSets, SequencesExt, FiniteSetsExt

CONSTANTS Jobs, Users, Files,
          PageWords,     \* WORDS_PER_VIRTUAL_PAGE
          ChunkTokens,   \* CHUNK_SIZE_TOKENS
          OverlapWords,  \* CHUNK_OVERLAP_TOKENS
          EmbedBatch,    \* _EMBED_BATCH_SIZE
          MaxContexts,   \* bound: how many retrievals are made
          None

\* What the constants of an instance satisfy.  The code takes files with one
\* SHA-256 for the same file.
ConstantsOK ==
  /\ \A f \in Files : /\ f.lines \in Seq(Nat)
                      /\ f.sentences \in Seq(Nat \ {0})
  /\ {PageWords, ChunkTokens, OverlapWords, EmbedBatch} \subseteq Nat \ {0}
  /\ \A f, g \in Files : f.hash = g.hash => f = g
  /\ MaxContexts \in Nat

VARIABLES
  job,      \* what the worker of an upload knows, or Unposted
  record,   \* the polled status of an upload: [status, doc] or None
  docs,     \* courseMaterials, by document id (the job that made it)
  trees,    \* courseMaterialTrees
  chunks,   \* the vector store: document id -> stored chunks
  ledger,   \* usage events: [job, use]
  contexts  \* what retrievals handed to generation

vars == <<job, record, docs, trees, chunks, ledger, contexts>>

------------------------------------------------------------------------------
(* Classification and the two ways of cutting a text *)

Headings(lines) == {i \in DOMAIN lines : lines[i] > 0}
WordCount(sentences) == FoldLeft(LAMBDA n, w : n + w, 0, sentences)

\* At least 0.8 headings for every 500 words (or for the single page).
IsStructured(f) ==
  Cardinality(Headings(f.lines)) * 10 * PageWords
    >= 8 * Max({WordCount(f.sentences), PageWords})

\* build_tree: one pass over the lines with a stack of open headings.
NewNode(i, level, parent) == [head |-> i, level |-> level, parent |-> parent, content |-> << >>]

\* A slip: a heading is put under the one before it of its own level.
ClosedAbove_SameLevel(stack, nodes, level) == SelectSeq(stack, LAMBDA n : nodes[n].level <= level)

ClosedAbove(stack, nodes, level) == SelectSeq(stack, LAMBDA n : nodes[n].level < level)

TreeStep(lines, t, i) ==
  IF lines[i] = 0
  THEN IF t.nodes = << >> THEN t
       ELSE [t EXCEPT !.nodes[Len(t.nodes)].content = Append(@, i)]
  ELSE LET open  == ClosedAbove(t.stack, t.nodes, lines[i])
           above == IF open = << >> THEN 0 ELSE t.nodes[Last(open)].head IN
       [nodes |-> Append(t.nodes, NewNode(i, lines[i], above)),
        stack |-> Append(open, Len(t.nodes) + 1)]

Indices(s) == [i \in DOMAIN s |-> i]

BuildTree(lines) ==
  LET t == FoldLeft(LAMBDA a, i : TreeStep(lines, a, i),
                    [nodes |-> << >>, stack |-> << >>], Indices(lines)) IN
  IF t.nodes = << >> THEN <<[NewNode(0, 1, 0) EXCEPT !.content = Indices(lines)]>> ELSE t.nodes

\* chunk_text: tokens are 1.3 per word and at least one, here in tenths.
TokensIn(w) == Max({13 * w, 10})
Smaller(a, b) == IF a < b THEN a ELSE b

ChunkStep(sentences, c, i) ==
  IF c.size + TokensIn(sentences[i]) > 10 * ChunkTokens /\ c.words > 0
  THEN LET tail == Smaller(c.words, OverlapWords) IN
       [done |-> Append(c.done, c.fresh), fresh |-> <<i>>, words |-> tail + sentences[i],
        size |-> 10 * tail + TokensIn(sentences[i])]
  ELSE [c EXCEPT !.fresh = Append(@, i), !.words = @ + sentences[i],
                 !.size = @ + TokensIn(sentences[i])]

\* A chunk as the sentences it adds; the words it repeats from the one before
\* it are left out.
ChunkText(sentences) ==
  LET c == FoldLeft(LAMBDA a, i : ChunkStep(sentences, a, i),
                    [done |-> << >>, fresh |-> << >>, words |-> 0, size |-> 0],
                    Indices(sentences)) IN
  IF c.words = 0 THEN c.done ELSE Append(c.done, c.fresh)

------------------------------------------------------------------------------

\* An upload that has not been made.
Unposted == [phase |-> "none"]

Phases == {"check", "own", "owned", "extract", "classify", "summarize", "savetree", "embed",
           "upsert", "charge", "save", "finish", "fail", "ended", "stopped"}

TypeOK ==
  /\ \A j \in Jobs : job[j] # Unposted =>
       /\ job[j].user \in Users /\ job[j].file \in Files /\ job[j].phase \in Phases
       /\ job[j].match \in Jobs \cup {None}
       /\ job[j].vectors \in Seq(Nat)
  /\ \A j \in Jobs : record[j] # None =>
       record[j] \in [status : {"processing", "done", "error"}, doc : Jobs \cup {None}]
  /\ DOMAIN docs \subseteq Jobs
  /\ \A d \in DOMAIN docs : docs[d].owners \subseteq Users
  /\ DOMAIN trees \subseteq Jobs
  /\ DOMAIN chunks \subseteq Jobs
  /\ ledger \subseteq [job : Jobs, use : {"reading", "summary", "embedding"}]
  /\ contexts \subseteq [user : Users, doc : Jobs]

Init ==
  /\ job = [j \in Jobs |-> Unposted]
  /\ record = [j \in Jobs |-> None]
  /\ docs = << >>
  /\ trees = << >>
  /\ chunks = << >>
  /\ ledger = {}
  /\ contexts = {}

\* record_ai_usage is best effort and skips what cost nothing, as an embedding
\* whose answer does not tell the characters billed.
Charge(j, use) == ledger' \in {ledger, ledger \cup {[job |-> j, use |-> use]}}

At(j, phase) == job[j].phase = phase
Step(j, phase) == job' = [job EXCEPT ![j].phase = phase]

\* update_job leaves an expired or finished record alone.
Report(j, status, doc) ==
  record' = IF record[j] = None THEN record
            ELSE IF record[j].status # "processing" THEN record
            ELSE [record EXCEPT ![j] = [status |-> status, doc |-> doc]]

Put(f, k, v) == [x \in DOMAIN f \cup {k} |-> IF x = k THEN v ELSE f[x]]

\* The record under which either upload endpoint enqueues its job.
Registered == [status |-> "processing", doc |-> None]

\* POST upload (institute staff or a self-learner).
Upload(j, u, f) ==
  /\ job[j] = Unposted
  /\ record' = [record EXCEPT ![j] = Registered]
  /\ job' = [job EXCEPT ![j] = [user |-> u, file |-> f, phase |-> "check", match |-> None,
                                vectors |-> << >>]]
  /\ UNCHANGED <<docs, trees, chunks, ledger, contexts>>

SameFile(f, g) == f.hash = g.hash

Matches(f) == {d \in DOMAIN docs : SameFile(docs[d].file, f)}

CheckForDuplicate(j) ==
  /\ At(j, "check")
  /\ IF Matches(job[j].file) = {} THEN Step(j, "extract")
     ELSE \E d \in Matches(job[j].file) :
            job' = [job EXCEPT ![j].match = d, ![j].phase = "own"]
  /\ UNCHANGED <<record, docs, trees, chunks, ledger, contexts>>

\* The user of an upload of known bytes becomes an owner of their document.
AddOwner(j) ==
  /\ At(j, "own")
  /\ docs' = [docs EXCEPT ![job[j].match].owners = @ \cup {job[j].user}]
  /\ Step(j, "owned")
  /\ UNCHANGED <<record, trees, chunks, ledger, contexts>>

ReportDuplicate(j) ==
  /\ At(j, "owned")
  /\ Report(j, "done", job[j].match)
  /\ Step(j, "ended")
  /\ UNCHANGED <<docs, trees, chunks, ledger, contexts>>

\* A text without a word is an error.
Extract(j) ==
  /\ At(j, "extract")
  /\ Charge(j, "reading")
  /\ Step(j, IF job[j].file.sentences = << >> THEN "fail" ELSE "classify")
  /\ UNCHANGED <<record, docs, trees, chunks, contexts>>

Classify(j) ==
  /\ At(j, "classify")
  /\ Step(j, IF IsStructured(job[j].file) THEN "summarize" ELSE "embed")
  /\ UNCHANGED <<record, docs, trees, chunks, ledger, contexts>>

\* One call summarises the nodes that have content; it may be unnecessary.
Summarize(j) ==
  /\ At(j, "summarize")
  /\ IF \E n \in ToSet(BuildTree(job[j].file.lines)) : n.content # << >>
     THEN Charge(j, "summary") ELSE ledger' = ledger
  /\ Step(j, "savetree")
  /\ UNCHANGED <<record, docs, trees, chunks, contexts>>

SaveTree(j) ==
  /\ At(j, "savetree")
  /\ trees' = Put(trees, j, BuildTree(job[j].file.lines))
  /\ Step(j, "save")
  /\ UNCHANGED <<record, docs, chunks, ledger, contexts>>

\* One batch of chunks becomes vectors, in order.
EmbedOneBatch(j) ==
  /\ At(j, "embed")
  /\ LET all  == Len(ChunkText(job[j].file.sentences))
         from == Len(job[j].vectors)
         upto == Smaller(all, from + EmbedBatch) IN
     /\ from < all
     /\ job' = [job EXCEPT ![j].vectors = @ \o [i \in 1 .. (upto - from) |-> from + i],
                           ![j].phase = IF upto = all THEN "upsert" ELSE "embed"]
  /\ UNCHANGED <<record, docs, trees, chunks, ledger, contexts>>

Upsert(j) ==
  /\ At(j, "upsert")
  /\ chunks' = Put(chunks, j, [i \in DOMAIN job[j].vectors |->
                                 ChunkText(job[j].file.sentences)[job[j].vectors[i]]])
  /\ Step(j, "charge")
  /\ UNCHANGED <<record, docs, trees, ledger, contexts>>

RecordEmbedding(j) ==
  /\ At(j, "charge")
  /\ Charge(j, "embedding")
  /\ Step(j, "save")
  /\ UNCHANGED <<record, docs, trees, chunks, contexts>>

DocumentRecord(j) ==
  [file |-> job[j].file, structured |-> IsStructured(job[j].file), owners |-> {job[j].user}]

SaveDocument(j) ==
  /\ At(j, "save")
  /\ docs' = Put(docs, j, DocumentRecord(j))
  /\ Step(j, "finish")
  /\ UNCHANGED <<record, trees, chunks, ledger, contexts>>

Finish(j) ==
  /\ At(j, "finish")
  /\ Report(j, "done", j)
  /\ Step(j, "ended")
  /\ UNCHANGED <<docs, trees, chunks, ledger, contexts>>

\* A provider or a database refuses, or the vector store is not there; a write
\* may have been applied all the same.
Fails(j) ==
  /\ \E phase \in {"own", "extract", "summarize", "savetree", "embed", "upsert", "save"} :
       At(j, phase)
  /\ \/ UNCHANGED <<docs, trees, chunks>>
     \/ /\ At(j, "own")
        /\ docs' = [docs EXCEPT ![job[j].match].owners = @ \cup {job[j].user}]
        /\ UNCHANGED <<trees, chunks>>
     \/ /\ At(j, "upsert")
        /\ chunks' = Put(chunks, j, ChunkText(job[j].file.sentences))
        /\ UNCHANGED <<docs, trees>>
     \/ /\ At(j, "save")
        /\ docs' = Put(docs, j, DocumentRecord(j))
        /\ UNCHANGED <<trees, chunks>>
  /\ Step(j, "fail")
  /\ UNCHANGED <<record, ledger, contexts>>

Fail(j) ==
  /\ At(j, "fail")
  /\ Report(j, "error", None)
  /\ Step(j, "ended")
  /\ UNCHANGED <<docs, trees, chunks, ledger, contexts>>

Stop(j) ==
  /\ job[j] # Unposted
  /\ ~At(j, "ended") /\ ~At(j, "stopped")
  /\ Step(j, "stopped")
  /\ UNCHANGED <<record, docs, trees, chunks, ledger, contexts>>

\* find_document_by_id on behalf of a user, then the tree or the vector store.
MayGround(u, d) == u \in docs[d].owners

Retrieve(u, d) ==
  /\ Cardinality(contexts) < MaxContexts
  /\ d \in DOMAIN docs
  /\ MayGround(u, d)
  /\ IF docs[d].structured THEN d \in DOMAIN trees ELSE d \in DOMAIN chunks
  /\ contexts' = contexts \cup {[user |-> u, doc |-> d]}
  /\ UNCHANGED <<job, record, docs, trees, chunks, ledger>>

Next ==
  \/ \E j \in Jobs :
       \/ \E u \in Users, f \in Files : Upload(j, u, f)
       \/ CheckForDuplicate(j) \/ AddOwner(j) \/ ReportDuplicate(j) \/ Extract(j) \/ Classify(j)
       \/ Summarize(j) \/ SaveTree(j) \/ EmbedOneBatch(j) \/ Upsert(j) \/ RecordEmbedding(j)
       \/ SaveDocument(j) \/ Finish(j) \/ Fails(j) \/ Fail(j) \/ Stop(j)
  \/ \E u \in Users, d \in DOMAIN docs : Retrieve(u, d)

Spec == Init /\ [][Next]_vars

------------------------------------------------------------------------------

\* An upload that is reported done names a document of the very file, which
\* its user may use, however its work was interleaved with other uploads.
DoneIsUsable ==
  \A j \in Jobs : record[j] # None /\ record[j].status = "done" =>
    LET d == record[j].doc IN
    /\ d \in DOMAIN docs
    /\ docs[d].file = job[j].file
    /\ job[j].user \in docs[d].owners

\* Uploading the bytes is what grants access: nobody owns, or is served text
\* from, a document whose bytes they did not upload.
OwnersHoldTheFile ==
  /\ \A d \in DOMAIN docs : \A u \in docs[d].owners :
       \E j \in Jobs : job[j] # Unposted /\ job[j].user = u /\ job[j].file = docs[d].file
  /\ \A c \in contexts :
       \E j \in Jobs : job[j] # Unposted /\ job[j].user = c.user /\ job[j].file = docs[c.doc].file

\* A document on record is completely indexed, whatever failed or stopped on
\* the way: its tree is there, or its chunks are and hold all of its text.
RecordedIsIndexed ==
  \A d \in DOMAIN docs :
    IF docs[d].structured
    THEN d \in DOMAIN trees
    ELSE /\ d \in DOMAIN chunks
         /\ FlattenSeq(chunks[d]) = Indices(docs[d].file.sentences)

\* The nearest heading before i that is of a higher rank; 0 if there is none.
Above(lines, i) == Max({0} \cup {k \in Headings(lines) : k < i /\ lines[k] < lines[i]})

\* A stored tree is the outline of its document: every heading is a node under
\* the nearest higher heading, and every line after the first heading belongs
\* to the heading it stands under.
TreeIsOutline ==
  \A d \in DOMAIN trees :
    LET lines == job[d].file.lines IN
    Headings(lines) # {} =>
      /\ {n.head : n \in ToSet(trees[d])} = Headings(lines)
      /\ \A n \in ToSet(trees[d]) :
           /\ n.parent = Above(lines, n.head)
           /\ ToSet(n.content) = {i \in DOMAIN lines :
                lines[i] = 0 /\ n.head = Max({0} \cup {k \in Headings(lines) : k < i})}

-----------------------------------------------------------------------------
\* What the documentation says beyond this and the code does not keep: the model
\* has behaviours against it (README, "Divergences").

\* Course material is identified by its bytes: twenty students who upload one
\* textbook share one indexed document (services/rag/schemas.py).
OneDocumentPerFile ==
  \A c, d \in DOMAIN docs : docs[c].file = docs[d].file => c = d
==============================================================================
