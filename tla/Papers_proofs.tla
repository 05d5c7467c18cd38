---------------------------- MODULE Papers_proofs ----------------------------
(***************************************************************************)
(* Theorems about the papers of exams: stored question papers and their    *)
(* files (QuestionPapers), the answer key of a paper that is replaced      *)
(* (McqAnswerKey), the reading and marking of a script (ScriptReading),    *)
(* the marks of a form under edits and reviews (Marking, PartMarks), and,  *)
(* from the theorems about RubricSuggestions, what is paid for and what    *)
(* an overtaken worker writes, for any number of papers, requests,         *)
(* evaluations, texts, batches, pages, rows and parts, any maximum mark    *)
(* and any letters.                                                        *)
(***************************************************************************)
EXTENDS Papers, FiniteSetTheorems, WellFoundedInduction, TLAPS

-----------------------------------------------------------------------------
\* Stored papers: the inductive invariant

Shown == [content : Stored!Versions, header : Stored!Versions]
Paper == [content : Stored!Versions, header : Stored!Versions, file : Nat, revision : Stored!Versions,
          deleted : BOOLEAN]
Request == [at : {"upload", "write", "reconcile", "cleanup"}, paper : PaperIds,
            fields : SUBSET {"content", "header"}, revision : Stored!Versions,
            old : Nat, new : Nat, content : Stored!Versions, header : Stored!Versions]

Types ==
  /\ paper \in [PaperIds -> Paper]
  /\ \E n \in Nat : file \in [1 .. n -> Shown \cup {Stored!Gone}]
  /\ req \in [Editors -> Request \cup {Stored!Idle}]
  /\ stuck \subseteq Stored!Files

\* A stored paper has a file of its own that shows its content.
PaperFits(p) ==
  /\ paper[p].content = 0 => paper[p].file = 0
  /\ paper[p].content > 0 =>
       /\ paper[p].file \in Stored!Files /\ file[paper[p].file] \in Shown
       /\ file[paper[p].file].content = paper[p].content

FileOfItsOwn ==
  \A p, x \in PaperIds : paper[p].file = paper[x].file /\ paper[p].file # 0 => p = x

\* While the paper has the revision a request read, it has the file and header
\* that were read too; and only that paper can refer to the request's files.
Knows(q) ==
  LET now == paper[q.paper] IN
  /\ now.content > 0
  /\ q.old \in Stored!Files
  /\ \A x \in PaperIds \ {q.paper} : paper[x].file # q.old /\ (q.new > 0 => paper[x].file # q.new)
  /\ q.revision <= now.revision
  /\ q.revision = now.revision =>
       /\ now.file = q.old
       /\ "header" \notin q.fields => q.header = now.header

\* The new file is there exactly when the content changes; before it is written
\* no paper refers to it, and after that none refers to the old one.
Carries(q) ==
  /\ q.content > 0
  /\ q.new > 0 => q.new \in Stored!Files /\ q.new # q.old
  /\ q.at = "upload" => "content" \in q.fields
  /\ q.at = "write" => (q.new > 0 <=> "content" \in q.fields)
  /\ q.at \in {"reconcile", "cleanup"} => q.new > 0
  /\ q.at = "write" /\ q.new > 0 =>
       /\ paper[q.paper].file # q.new
       /\ file[q.new] = [content |-> q.content, header |-> q.header]
  /\ q.at = "cleanup" => paper[q.paper].file # q.old

\* No two requests have the same new file, and none reads one that was not written.
Apart(q1, q2) ==
  /\ q1.new > 0 => q1.new # q2.new
  /\ q1.at = "write" /\ q1.new > 0 => q1.new # q2.old

\* A file whose paper changed hands is Gone, left behind, or about to be removed.
Accounted(f) ==
  \/ file[f] = Stored!Gone \/ f \in stuck
  \/ \E p \in PaperIds : paper[p].file = f
  \/ \E r \in Editors : \/ req[r].at = "cleanup" /\ f = req[r].old
                        \/ req[r].at \in {"write", "reconcile"} /\ f = req[r].new

PapersInv ==
  /\ Types
  /\ \A p \in PaperIds : PaperFits(p)
  /\ FileOfItsOwn
  /\ \A r \in Editors : req[r] # Stored!Idle => Knows(req[r]) /\ Carries(req[r])
  /\ \A r, s \in Editors : r # s /\ req[r] # Stored!Idle /\ req[s] # Stored!Idle => Apart(req[r], req[s])
  /\ \A f \in Stored!Files : Accounted(f)

-----------------------------------------------------------------------------
\* Facts about files

\* The instance counts as this module does.
LEMMA SameCardinality ==
  \A S : Stored!Cardinality(S) = Cardinality(S) /\ Script!Cardinality(S) = Cardinality(S)
BY DEF Stored!Cardinality, Script!Cardinality, Cardinality

LEMMA Upload ==
  ASSUME Stored!ConstantsOK, Types, NEW shows \in Shown
  PROVE  /\ Stored!NewFile \in Nat /\ Stored!NewFile > 0 /\ Stored!NewFile \notin Stored!Files
         /\ \A f \in Stored!Files : f \in Nat /\ f > 0
         /\ \E n \in Nat : Stored!Uploaded(shows) \in [1 .. n -> Shown \cup {Stored!Gone}]
         /\ DOMAIN Stored!Uploaded(shows) = Stored!Files \cup {Stored!NewFile}
         /\ Stored!Uploaded(shows)[Stored!NewFile] = shows
         /\ \A f \in Stored!Files : Stored!Uploaded(shows)[f] = file[f]
<1>1. PICK n \in Nat : file \in [1 .. n -> Shown \cup {Stored!Gone}]
  BY DEF Types
<1>2. Stored!Files = 1 .. n
  BY <1>1 DEF Stored!Files
<1>3. Cardinality(Stored!Files) = n
  BY <1>2, FS_Interval
<1>4. Stored!NewFile = n + 1
  BY <1>3, SameCardinality DEF Stored!NewFile
<1>5. Stored!Files \cup {Stored!NewFile} = 1 .. n + 1
  BY <1>2, <1>4
<1>6. Stored!Uploaded(shows) \in [1 .. n + 1 -> Shown \cup {Stored!Gone}]
  BY <1>1, <1>2, <1>4, <1>5 DEF Stored!Uploaded
<1> QED
  BY <1>1, <1>2, <1>4, <1>5, <1>6 DEF Stored!Uploaded

LEMMA Removal ==
  ASSUME Types, NEW f \in Stored!Files, file' = [file EXCEPT ![f] = Stored!Gone]
  PROVE  /\ \E n \in Nat : file' \in [1 .. n -> Shown \cup {Stored!Gone}]
         /\ Stored!Files' = Stored!Files /\ file'[f] = Stored!Gone
         /\ \A g \in Stored!Files \ {f} : file'[g] = file[g]
<1>1. PICK n \in Nat : file \in [1 .. n -> Shown \cup {Stored!Gone}]
  BY DEF Types
<1> QED
  BY <1>1 DEF Stored!Files

LEMMA GoneShowsNothing == Stored!Gone \notin Shown
<1>1. DOMAIN Stored!Gone = {"gone"} /\ \A s \in Shown : DOMAIN s = {"content", "header"}
  BY DEF Stored!Gone, Shown
<1> QED
  BY <1>1

LEMMA IdleIsNoRequest ==
  /\ Stored!Idle \notin Request
  /\ Stored!Idle.at = "idle"
BY DEF Stored!Idle, Request

LEMMA PapersInit == ASSUME Stored!ConstantsOK, Stored!Init PROVE PapersInv
<1>1. 0 \in Stored!Versions
  BY DEF Stored!ConstantsOK, Stored!Versions
<1>2. Types /\ Stored!Files = {}
  <2>1. file \in [1 .. 0 -> Shown \cup {Stored!Gone}] /\ Stored!Files = {}
    BY DEF Stored!Init, Stored!Files
  <2> QED
    BY <1>1, <2>1 DEF Stored!Init, Types, Paper
<1>3. \A p \in PaperIds : PaperFits(p)
  BY DEF Stored!Init, PaperFits
<1> QED
  BY <1>2, <1>3 DEF Stored!Init, PapersInv, FileOfItsOwn

-----------------------------------------------------------------------------
\* What a step of one request leaves to the others

\* Paper p changes under a new revision, to a file q does not hold.
LEMMA Bystander ==
  ASSUME Stored!ConstantsOK, Types, paper' \in [PaperIds -> Paper], NEW q \in Request, Knows(q), Carries(q),
         NEW p \in PaperIds, \A x \in PaperIds \ {p} : paper'[x] = paper[x],
         Stored!Files \subseteq Stored!Files',
         q.at = "write" /\ q.new > 0 => file'[q.new] = file[q.new],
         paper'[p].file = paper[p].file \/ paper'[p].file \notin {q.old, q.new},
         paper[p].content > 0 => paper'[p].content > 0,
         \/ paper'[p].revision > paper[p].revision
         \/ /\ paper'[p].revision = paper[p].revision
            /\ paper'[p].file = paper[p].file /\ paper'[p].header = paper[p].header
  PROVE  Knows(q)' /\ Carries(q)'
<1>1. /\ q.paper \in PaperIds /\ q.revision \in Nat
      /\ \A x \in PaperIds : paper[x].revision \in Nat /\ paper'[x].revision \in Nat
  <2>1. paper \in [PaperIds -> Paper] /\ Stored!Versions \subseteq Nat
    BY DEF Types, Stored!Versions, Stored!ConstantsOK
  <2> QED
    BY <2>1 DEF Request, Paper
<1>2. Knows(q)'
  <2>1. CASE q.paper = p
    BY <1>1, <2>1 DEF Knows
  <2>2. CASE q.paper # p
    BY <1>1, <2>2 DEF Knows
  <2> QED
    BY <2>1, <2>2
<1>3. Carries(q)'
  BY <1>1 DEF Carries
<1> QED
  BY <1>2, <1>3

\* No paper changes.
LEMMA Onlooker ==
  ASSUME NEW q \in Request, Knows(q), Carries(q), paper' = paper,
         Stored!Files \subseteq Stored!Files',
         q.at = "write" /\ q.new > 0 => file'[q.new] = file[q.new]
  PROVE  Knows(q)' /\ Carries(q)'
BY DEF Knows, Carries

\* The requests after a step of r.
LEMMA OtherRequests ==
  ASSUME Types, PapersInv, NEW r \in Editors, NEW next \in Request \cup {Stored!Idle},
         req' = [req EXCEPT ![r] = next],
         \A s \in Editors \ {r} : req[s] # Stored!Idle => Knows(req[s])' /\ Carries(req[s])',
         next # Stored!Idle => Knows(next)' /\ Carries(next)',
         \A s \in Editors \ {r} :
           next # Stored!Idle /\ req[s] # Stored!Idle => Apart(next, req[s]) /\ Apart(req[s], next)
  PROVE  /\ req' \in [Editors -> Request \cup {Stored!Idle}]
         /\ (\A s \in Editors : req[s] # Stored!Idle => Knows(req[s]) /\ Carries(req[s]))'
         /\ (\A s, t \in Editors : s # t /\ req[s] # Stored!Idle /\ req[t] # Stored!Idle => Apart(req[s], req[t]))'
<1>1. /\ req' \in [Editors -> Request \cup {Stored!Idle}] /\ req'[r] = next
      /\ \A s \in Editors \ {r} : req'[s] = req[s]
  BY DEF Types
<1>2. ASSUME NEW s \in Editors, req'[s] # Stored!Idle PROVE Knows(req[s])' /\ Carries(req[s])'
  <2>1. CASE s = r
    BY <1>1, <1>2, <2>1
  <2>2. CASE s # r
    BY <1>1, <1>2, <2>2
  <2> QED
    BY <2>1, <2>2
<1>3. ASSUME NEW s \in Editors, NEW t \in Editors, s # t, req'[s] # Stored!Idle, req'[t] # Stored!Idle
      PROVE  Apart(req[s], req[t])'
  BY <1>1, <1>3 DEF PapersInv, Apart
<1> QED
  BY <1>1, <1>2, <1>3

\* A request that reads a paper, or whose write is refused.
LEMMA PapersRead ==
  ASSUME Stored!ConstantsOK, PapersInv, NEW r \in Editors, NEW p \in PaperIds,
         NEW fields \in SUBSET {"content", "header"}, Stored!ReadForUpdate(r, p, fields)
  PROVE  PapersInv'
<1> DEFINE after(field) == IF field \in fields THEN paper[p][field] + 1 ELSE paper[p][field]
<1>1. Types /\ PaperFits(p) /\ FileOfItsOwn /\ req[r] = Stored!Idle
  BY DEF PapersInv, Stored!ReadForUpdate
<1>2. /\ paper[p] \in Paper /\ paper[p].content > 0
      /\ after("content") \in Stored!Versions /\ after("header") \in Stored!Versions
  BY <1>1 DEF Types, Paper, Stored!Versions, Stored!ReadForUpdate, Stored!Stored
<1>3. PICK next \in Request :
        /\ req' = [req EXCEPT ![r] = next]
        /\ next.at = (IF "content" \in fields THEN "upload" ELSE "write")
        /\ next.paper = p /\ next.fields = fields /\ next.revision = paper[p].revision
        /\ next.old = paper[p].file /\ next.new = 0 /\ next.header = after("header")
        /\ next.content = after("content")
  <2> DEFINE n == [at |-> IF "content" \in fields THEN "upload" ELSE "write",
                   paper |-> p, fields |-> fields, revision |-> paper[p].revision,
                   old |-> paper[p].file, new |-> 0,
                   content |-> after("content"), header |-> after("header")]
  <2>1. req' = [req EXCEPT ![r] = n]
    BY DEF Stored!ReadForUpdate
  <2>2. n \in Request
    <3>1. n.at \in {"upload", "write"} /\ paper[p].revision \in Stored!Versions /\ paper[p].file \in Nat
      BY <1>2 DEF Paper
    <3> QED
      BY <1>2, <3>1 DEF Request
  <2> QED
    BY <2>1, <2>2
<1>4. UNCHANGED <<paper, file, stuck>> /\ Stored!Files' = Stored!Files
  BY DEF Stored!ReadForUpdate, Stored!Files
<1>5. Knows(next)
  <2>1. paper[p].file \in Stored!Files /\ paper[p].file # 0
    BY <1>1, <1>2, Upload, GoneShowsNothing DEF PaperFits
  <2> QED
    BY <1>1, <1>2, <1>3, <2>1 DEF Knows, FileOfItsOwn, Types, Paper, Stored!Versions
<1>6. Carries(next)
  BY <1>2, <1>3 DEF Carries, Paper, Stored!Versions
<1>7. ASSUME NEW s \in Editors \ {r}, req[s] # Stored!Idle
      PROVE  /\ Knows(req[s]) /\ Carries(req[s])
             /\ Apart(next, req[s]) /\ Apart(req[s], next)
  <2>1. Knows(req[s]) /\ Carries(req[s]) /\ req[s] \in Request
    BY <1>7 DEF PapersInv, Types
  <2>2. req[s].at = "write" /\ req[s].new > 0 => \A x \in PaperIds : paper[x].file # req[s].new
    BY <2>1 DEF Knows, Carries
  <2> QED
    BY <1>3, <2>1, <2>2 DEF Apart, Request
<1>8. /\ Knows(next)' /\ Carries(next)'
      /\ \A s \in Editors \ {r} : req[s] # Stored!Idle => Knows(req[s])' /\ Carries(req[s])'
  <2>1. ASSUME NEW s \in Editors \ {r}, req[s] # Stored!Idle PROVE Knows(req[s])' /\ Carries(req[s])'
    <3>1. PICK q \in Request : q = req[s] /\ req'[s] = q
      BY <1>1, <1>3, <2>1 DEF Types
    <3>2. Knows(q)' /\ Carries(q)'
      BY <1>4, <1>7, <2>1, <3>1, Onlooker
    <3> QED
      BY <3>1, <3>2
  <2> QED
    BY <1>4, <1>5, <1>6, <2>1, Onlooker
<1>9. /\ req' \in [Editors -> Request \cup {Stored!Idle}]
      /\ (\A s \in Editors : req[s] # Stored!Idle => Knows(req[s]) /\ Carries(req[s]))'
      /\ (\A s, t \in Editors : s # t /\ req[s] # Stored!Idle /\ req[t] # Stored!Idle => Apart(req[s], req[t]))'
  BY <1>1, <1>3, <1>7, <1>8, OtherRequests
<1>10. (\A f \in Stored!Files : Accounted(f))'
  <2>1. ASSUME NEW f \in Stored!Files PROVE Accounted(f)'
    <3>1. Accounted(f)
      BY <2>1 DEF PapersInv
    <3>2. \A s \in Editors : req[s].at # "idle" => s # r
      BY <1>1, IdleIsNoRequest
    <3>3. \A s \in Editors \ {r} : req'[s] = req[s]
      BY <1>3, <1>1 DEF Types
    <3> QED
      BY <1>1, <1>4, <3>1, <3>3, IdleIsNoRequest DEF Accounted
  <2> QED
    BY <1>4, <2>1
<1> QED
  BY <1>1, <1>4, <1>9, <1>10 DEF PapersInv, Types, PaperFits, FileOfItsOwn

\* A file nobody else may touch: of request r before its write is applied.
LEMMA Unwritten ==
  ASSUME PapersInv, NEW r \in Editors, req[r] # Stored!Idle, NEW s \in Editors \ {r}, req[s] # Stored!Idle
  PROVE  /\ req[r] \in Request /\ req[s] \in Request
         /\ Knows(req[r]) /\ Carries(req[r]) /\ Knows(req[s]) /\ Carries(req[s])
         /\ Apart(req[r], req[s]) /\ Apart(req[s], req[r])
BY DEF PapersInv, Types

LEMMA OfRequest ==
  ASSUME PapersInv, NEW r \in Editors, req[r].at # "idle"
  PROVE  /\ req[r] \in Request /\ Knows(req[r]) /\ Carries(req[r]) /\ req[r] # Stored!Idle
         /\ req[r].paper \in PaperIds
BY IdleIsNoRequest DEF PapersInv, Types, Request

\* What the others know, if no paper changes and no unwritten file.
LEMMA OthersKnow ==
  ASSUME PapersInv, NEW r \in Editors, NEW next, req' = [req EXCEPT ![r] = next],
         paper' = paper, Stored!Files \subseteq Stored!Files',
         \A s \in Editors \ {r} :
           req[s].at = "write" /\ req[s].new > 0 => file'[req[s].new] = file[req[s].new]
  PROVE  \A s \in Editors \ {r} : req[s] # Stored!Idle => Knows(req[s])' /\ Carries(req[s])'
<1> SUFFICES ASSUME NEW s \in Editors \ {r}, req[s] # Stored!Idle
             PROVE  Knows(req[s])' /\ Carries(req[s])'
  OBVIOUS
<1>1. PICK q \in Request : q = req[s] /\ req'[s] = q
  BY DEF PapersInv, Types
<1>2. Knows(q) /\ Carries(q)
  BY <1>1 DEF PapersInv
<1>3. Knows(q)' /\ Carries(q)'
  BY <1>1, <1>2, Onlooker
<1> QED
  BY <1>1, <1>3

\* The file of an edit of the content is built.
LEMMA PapersUpload ==
  ASSUME Stored!ConstantsOK, PapersInv, NEW r \in Editors, Stored!UploadFile(r)
  PROVE  PapersInv'
<1>1. /\ req[r] \in Request /\ Knows(req[r]) /\ Carries(req[r]) /\ req[r].at = "upload"
      /\ Types /\ req[r] # Stored!Idle
  BY OfRequest DEF Stored!UploadFile, PapersInv
<1>2. PICK shows \in Shown : shows = [content |-> req[r].content, header |-> req[r].header]
  BY <1>1 DEF Request, Shown
<1>3. PICK new \in Nat : new = Stored!NewFile /\ new > 0 /\ new \notin Stored!Files
  BY <1>1, <1>2, Upload
<1>4. /\ \E n \in Nat : file' \in [1 .. n -> Shown \cup {Stored!Gone}]
      /\ Stored!Files' = Stored!Files \cup {new} /\ file'[new] = shows
      /\ \A f \in Stored!Files : file'[f] = file[f]
  BY <1>1, <1>2, <1>3, Upload DEF Stored!UploadFile, Stored!Files
<1>5. PICK next \in Request :
        /\ req' = [req EXCEPT ![r] = next]
        /\ next.at = "write" /\ next.new = new /\ next.paper = req[r].paper
        /\ next.fields = req[r].fields /\ next.revision = req[r].revision
        /\ next.old = req[r].old /\ next.content = req[r].content
        /\ next.header = req[r].header
  <2> DEFINE n == [req[r] EXCEPT !.at = "write", !.new = new]
  <2>1. req' = [req EXCEPT ![r] = n]
    BY <1>1, <1>3 DEF Stored!UploadFile, Types
  <2>2. n \in Request
    BY <1>1, <1>3 DEF Request
  <2> QED
    BY <1>1, <2>1, <2>2 DEF Request
<1>6. paper' = paper /\ stuck' = stuck
  BY DEF Stored!UploadFile
<1>7. \A x \in PaperIds : paper[x].file # new
  BY <1>1, <1>3 DEF PapersInv, PaperFits, Types, Paper, Stored!Versions, Stored!ConstantsOK
<1>8. /\ Knows(next)' /\ Carries(next)'
  <2>1. next.old # next.new
    BY <1>1, <1>3, <1>5 DEF Knows
  <2>2. Knows(next)'
    BY <1>1, <1>4, <1>5, <1>6, <1>7 DEF Knows
  <2>3. Carries(next)'
    BY <1>1, <1>2, <1>3, <1>4, <1>5, <1>6, <1>7, <2>1 DEF Carries, Request
  <2> QED
    BY <2>2, <2>3
<1>9. ASSUME NEW s \in Editors \ {r}, req[s] # Stored!Idle
      PROVE  Apart(next, req[s]) /\ Apart(req[s], next)
  <2>1. /\ req[s] \in Request /\ Knows(req[s]) /\ Carries(req[s])
        /\ Apart(req[r], req[s]) /\ Apart(req[s], req[r])
    BY <1>1, <1>9, Unwritten
  <2>2. req[s].old \in Stored!Files /\ (req[s].new > 0 => req[s].new \in Stored!Files) /\ req[s].new \in Nat
    BY <2>1 DEF Knows, Carries, Request
  <2> QED
    BY <1>3, <1>5, <2>1, <2>2 DEF Apart
<1>10. \A s \in Editors \ {r} : req[s] # Stored!Idle => Knows(req[s])' /\ Carries(req[s])'
  <2>1. ASSUME NEW s \in Editors \ {r}, req[s].at = "write", req[s].new > 0
        PROVE  file'[req[s].new] = file[req[s].new]
    BY <1>4, <2>1, OfRequest DEF Carries
  <2> QED
    BY <1>4, <1>5, <1>6, <2>1, OthersKnow
<1>11. /\ req' \in [Editors -> Request \cup {Stored!Idle}]
       /\ (\A s \in Editors : req[s] # Stored!Idle => Knows(req[s]) /\ Carries(req[s]))'
       /\ (\A s, t \in Editors : s # t /\ req[s] # Stored!Idle /\ req[t] # Stored!Idle => Apart(req[s], req[t]))'
  BY <1>1, <1>5, <1>8, <1>9, <1>10, OtherRequests
<1>12. (\A f \in Stored!Files : Accounted(f))'
  <2>1. /\ req'[r] = next /\ \A s \in Editors \ {r} : req'[s] = req[s]
    BY <1>1, <1>5 DEF Types
  <2>2. ASSUME NEW f \in Stored!Files PROVE Accounted(f)'
    <3>1. Accounted(f)
      BY <2>2 DEF PapersInv
    <3> QED
      BY <1>1, <1>4, <1>6, <2>1, <3>1 DEF Accounted
  <2>3. Accounted(new)'
    BY <1>5, <2>1 DEF Accounted
  <2> QED
    BY <1>4, <2>2, <2>3
<1>13. (\A p \in PaperIds : PaperFits(p))' /\ FileOfItsOwn'
  BY <1>4, <1>6 DEF PapersInv, PaperFits, FileOfItsOwn
<1>14. Types'
  BY <1>1, <1>4, <1>6, <1>11 DEF Types
<1> QED
  BY <1>11, <1>12, <1>13, <1>14 DEF PapersInv

\* A request gives up its edit, or goes to look whether it was written.
LEMMA PapersLetGo ==
  ASSUME Stored!ConstantsOK, PapersInv, NEW r \in Editors,
         UNCHANGED <<paper, file, stuck>>,
         \/ req[r].at = "upload" /\ Stored!Finish(r)
         \/ /\ req[r].at = "write"
            /\ IF req[r].new > 0 THEN Stored!Goto(r, "reconcile") ELSE Stored!Finish(r)
  PROVE  PapersInv'
<1>1. /\ req[r] \in Request /\ Knows(req[r]) /\ Carries(req[r]) /\ req[r] # Stored!Idle /\ Types
      /\ req[r].new \in Nat /\ \A f \in Stored!Files : f > 0
  <2>1. req[r].at # "idle" /\ Types
    BY DEF PapersInv
  <2>2. \E n \in Nat : Stored!Files = 1 .. n
    BY <2>1 DEF Types, Stored!Files
  <2> QED
    BY <2>1, <2>2, OfRequest DEF Request
<1>2. PICK next \in Request \cup {Stored!Idle} :
        /\ req' = [req EXCEPT ![r] = next]
        /\ next # Stored!Idle => /\ next = [req[r] EXCEPT !.at = "reconcile"]
                                 /\ next.at = "reconcile" /\ next.new > 0
                                 /\ next.new = req[r].new /\ next.old = req[r].old
                                 /\ req[r].at = "write"
        /\ next = Stored!Idle => req[r].at = "upload" \/ (req[r].at = "write" /\ req[r].new = 0)
  <2>1. CASE Stored!Finish(r) /\ (req[r].at = "upload" \/ (req[r].at = "write" /\ req[r].new = 0))
    BY <2>1 DEF Stored!Finish
  <2>2. CASE req[r].at = "write" /\ req[r].new > 0 /\ Stored!Goto(r, "reconcile")
    <3>1. [req[r] EXCEPT !.at = "reconcile"] \in Request
      BY <1>1 DEF Request
    <3>2. req' = [req EXCEPT ![r] = [req[r] EXCEPT !.at = "reconcile"]]
      BY <1>1, <2>2 DEF Stored!Goto, Types
    <3>3. PICK next \in Request : next = [req[r] EXCEPT !.at = "reconcile"]
      BY <3>1
    <3>4. next # Stored!Idle
      BY IdleIsNoRequest
    <3>5. next.at = "reconcile" /\ next.new = req[r].new /\ next.old = req[r].old
      BY <1>1, <3>3 DEF Request
    <3> QED
      BY <2>2, <3>2, <3>3, <3>4, <3>5
  <2> QED
    BY <1>1, <2>1, <2>2
<1>3. Stored!Files' = Stored!Files
  BY DEF Stored!Files
<1>4. next # Stored!Idle => Knows(next)' /\ Carries(next)'
  <2> SUFFICES ASSUME next # Stored!Idle PROVE Knows(next)' /\ Carries(next)'
    OBVIOUS
  <2>1. /\ next.paper = req[r].paper /\ next.fields = req[r].fields
        /\ next.revision = req[r].revision /\ next.header = req[r].header
        /\ next.content = req[r].content
    BY <1>1, <1>2 DEF Request
  <2> QED
    BY <1>1, <1>2, <1>3, <2>1 DEF Knows, Carries
<1>5. ASSUME NEW s \in Editors \ {r}, next # Stored!Idle, req[s] # Stored!Idle
      PROVE  Apart(next, req[s]) /\ Apart(req[s], next)
  <2>1. Apart(req[r], req[s]) /\ Apart(req[s], req[r])
    BY <1>1, <1>5, Unwritten
  <2> QED
    BY <1>2, <1>5, <2>1 DEF Apart
<1>6. \A s \in Editors \ {r} : req[s] # Stored!Idle => Knows(req[s])' /\ Carries(req[s])'
  BY <1>2, <1>3, OthersKnow
<1>7. /\ req' \in [Editors -> Request \cup {Stored!Idle}]
      /\ (\A s \in Editors : req[s] # Stored!Idle => Knows(req[s]) /\ Carries(req[s]))'
      /\ (\A s, t \in Editors : s # t /\ req[s] # Stored!Idle /\ req[t] # Stored!Idle => Apart(req[s], req[t]))'
  BY <1>1, <1>2, <1>4, <1>5, <1>6, OtherRequests
<1>8. (\A f \in Stored!Files : Accounted(f))'
  <2>1. /\ req'[r] = next /\ \A s \in Editors \ {r} : req'[s] = req[s]
    BY <1>1, <1>2 DEF Types
  <2>2. ASSUME NEW f \in Stored!Files PROVE Accounted(f)'
    <3>1. Accounted(f) /\ f > 0
      BY <1>1, <2>2 DEF PapersInv
    <3> QED
      BY <1>2, <1>3, <2>1, <3>1 DEF Accounted
  <2> QED
    BY <1>3, <2>2
<1>9. Types' /\ (\A p \in PaperIds : PaperFits(p))' /\ FileOfItsOwn'
  BY <1>3, <1>7 DEF PapersInv, Types, PaperFits, FileOfItsOwn
<1> QED
  BY <1>7, <1>8, <1>9 DEF PapersInv

\* An edit is written, whether or not its request learns of it: the file it
\* built takes the place of the old one, and shows content and header.
LEMMA PapersWritten ==
  ASSUME Stored!ConstantsOK, PapersInv, NEW r \in Editors,
         req[r].at = "write", Stored!WriteMatches(r), paper[req[r].paper].revision < MaxEdits,
         paper' = Stored!Written(r), file' = file,
         \/ /\ stuck' = stuck
            /\ IF req[r].new > 0 THEN Stored!Goto(r, "cleanup") ELSE Stored!Finish(r)
         \/ /\ stuck' = IF req[r].new > 0 THEN stuck \cup {req[r].old} ELSE stuck
            /\ IF req[r].new > 0 THEN Stored!Goto(r, "reconcile") ELSE Stored!Finish(r)
  PROVE  PapersInv' /\ Stored!HeaderStep
<1>1. PICK q \in Request : q = req[r] /\ q.paper \in PaperIds /\ q.new \in Nat /\ q.at = "write"
  BY OfRequest DEF Request
<1>2. Knows(q) /\ Carries(q) /\ q # Stored!Idle /\ Types
  BY <1>1, OfRequest DEF PapersInv
<1>3. PICK p \in PaperIds : p = q.paper
  BY <1>1
<1>4. /\ paper[p] \in Paper /\ paper[p].content > 0 /\ paper[p].revision = q.revision
      /\ paper[p].file = q.old /\ q.old \in Stored!Files /\ PaperFits(p)
      /\ "header" \notin q.fields => q.header = paper[p].header
  BY <1>1, <1>2, <1>3 DEF Knows, Types, Stored!WriteMatches, PapersInv
<1>5. PICK now \in Paper :
        /\ paper' = [paper EXCEPT ![p] = now]
        /\ now.content = (IF "content" \in q.fields THEN q.content ELSE paper[p].content)
        /\ now.header = (IF "header" \in q.fields THEN q.header ELSE paper[p].header)
        /\ now.file = (IF q.new > 0 THEN q.new ELSE paper[p].file)
        /\ now.revision = paper[p].revision + 1
  <2> DEFINE content == IF "content" \in q.fields THEN q.content ELSE paper[p].content
             header == IF "header" \in q.fields THEN q.header ELSE paper[p].header
             shown == IF q.new > 0 THEN q.new ELSE paper[p].file
             n == [content |-> content, header |-> header, file |-> shown,
                   revision |-> paper[p].revision + 1, deleted |-> FALSE]
  <2>1. paper' = [paper EXCEPT ![p] = n]
    BY <1>1, <1>3 DEF Stored!Written
  <2>2. content \in Stored!Versions /\ header \in Stored!Versions /\ shown \in Nat
    BY <1>1, <1>4 DEF Request, Paper
  <2>3. paper[p].revision + 1 \in Stored!Versions
    BY <1>1, <1>3, <1>4 DEF Paper, Stored!Versions, Stored!ConstantsOK
  <2> HIDE DEF content, header, shown
  <2>4. n \in Paper
    BY <2>2, <2>3 DEF Paper
  <2>5. /\ n.content = content /\ n.header = header /\ n.file = shown
        /\ n.revision = paper[p].revision + 1
    OBVIOUS
  <2> QED
    BY <2>1, <2>4, <2>5 DEF content, header, shown
<1>6. /\ paper' \in [PaperIds -> Paper] /\ paper'[p] = now
      /\ \A x \in PaperIds \ {p} : paper'[x] = paper[x]
      /\ Stored!Files' = Stored!Files
  BY <1>2, <1>5 DEF Types, Stored!Files
<1>7. now.header = q.header /\ now.content > 0 /\ now.revision > paper[p].revision
  BY <1>2, <1>4, <1>5 DEF Paper, Stored!Versions, Stored!ConstantsOK, Carries
<1>8. ASSUME q.new > 0
      PROVE  /\ now.file = q.new /\ q.new \in Stored!Files /\ q.new # paper[p].file /\ q.new # q.old
             /\ file[q.new] = [content |-> q.content, header |-> q.header]
             /\ now.content = q.content /\ q.content \in Stored!Versions /\ q.header \in Stored!Versions
             /\ \A x \in PaperIds : paper[x].file # q.new
  BY <1>1, <1>2, <1>3, <1>4, <1>5, <1>8 DEF Carries, Knows, Request
<1>9. ASSUME ~(q.new > 0)
      PROVE  now.file = paper[p].file /\ now.content = paper[p].content
  BY <1>1, <1>2, <1>5, <1>9 DEF Carries
<1>10. PaperFits(p)'
  <2>1. CASE q.new > 0
    BY <1>6, <1>7, <1>8, <2>1 DEF PaperFits, Shown
  <2>2. CASE ~(q.new > 0)
    BY <1>4, <1>6, <1>9, <2>2 DEF PaperFits
  <2> QED
    BY <2>1, <2>2
<1>11. (\A x \in PaperIds : PaperFits(x))' /\ FileOfItsOwn'
  <2>1. ASSUME NEW x \in PaperIds PROVE PaperFits(x)'
    BY <1>6, <1>10, <2>1 DEF PapersInv, PaperFits
  <2>2. FileOfItsOwn'
    <3>1. CASE q.new > 0
      BY <1>6, <1>8, <3>1 DEF PapersInv, FileOfItsOwn
    <3>2. CASE ~(q.new > 0)
      <4>1. \A x \in PaperIds : paper'[x].file = paper[x].file
        BY <1>6, <1>9, <3>2
      <4> QED
        BY <4>1 DEF PapersInv, FileOfItsOwn
    <3> QED
      BY <3>1, <3>2
  <2> QED
    BY <2>1, <2>2
<1>12. PICK next \in Request \cup {Stored!Idle} :
         /\ req' = [req EXCEPT ![r] = next]
         /\ next = Stored!Idle => q.new = 0 /\ stuck' = stuck
         /\ next # Stored!Idle => /\ q.new > 0
                                  /\ \/ next.at = "cleanup" /\ stuck' = stuck
                                     \/ next.at = "reconcile" /\ stuck' = stuck \cup {q.old}
                                  /\ next.paper = p /\ next.new = q.new /\ next.old = q.old
                                  /\ next.revision = q.revision /\ next.content = q.content
  <2>1. CASE q.new = 0
    BY <1>1, <2>1 DEF Stored!Finish
  <2>2. CASE q.new > 0
    <3>1. PICK at \in {"cleanup", "reconcile"} :
            /\ req' = [req EXCEPT ![r] = [q EXCEPT !.at = at]]
            /\ \/ at = "cleanup" /\ stuck' = stuck
               \/ at = "reconcile" /\ stuck' = stuck \cup {q.old}
      BY <1>1, <1>2, <2>2 DEF Stored!Goto, Types
    <3>2. PICK next \in Request : next = [q EXCEPT !.at = at]
      BY <1>1, <3>1 DEF Request
    <3>3. /\ next.at = at /\ next.paper = p /\ next.new = q.new /\ next.old = q.old
          /\ next.revision = q.revision /\ next.content = q.content
      BY <1>3, <3>2 DEF Request
    <3> QED
      BY <2>2, <3>1, <3>2, <3>3, IdleIsNoRequest
  <2> QED
    BY <1>1, <2>1, <2>2
<1>13. next # Stored!Idle => Knows(next)' /\ Carries(next)'
  <2> SUFFICES ASSUME next # Stored!Idle PROVE Knows(next)' /\ Carries(next)'
    OBVIOUS
  <2>0. q.revision \in Nat /\ now.revision = q.revision + 1
    BY <1>1, <1>4, <1>5 DEF Request, Stored!Versions, Stored!ConstantsOK
  <2>1. Knows(next)'
    BY <1>2, <1>3, <1>4, <1>6, <1>7, <1>8, <1>12, <2>0 DEF Knows
  <2>2. Carries(next)'
    BY <1>2, <1>6, <1>8, <1>12 DEF Carries
  <2> QED
    BY <2>1, <2>2
<1>14. ASSUME NEW s \in Editors \ {r}, req[s] # Stored!Idle
       PROVE  /\ req[s] \in Request /\ Knows(req[s]) /\ Carries(req[s])
              /\ Apart(q, req[s]) /\ Apart(req[s], q)
  BY <1>1, <1>2, <1>14, Unwritten
<1>15. ASSUME NEW s \in Editors \ {r}, next # Stored!Idle, req[s] # Stored!Idle
       PROVE  Apart(next, req[s]) /\ Apart(req[s], next)
  BY <1>12, <1>14, <1>15 DEF Apart
<1>16. ASSUME NEW s \in Editors \ {r}, req[s] # Stored!Idle
       PROVE  Knows(req[s])' /\ Carries(req[s])'
  <2>1. PICK t \in Request : t = req[s] /\ req'[s] = t
    BY <1>2, <1>12, <1>14, <1>16 DEF Types
  <2>2. Knows(t) /\ Carries(t) /\ Apart(q, t)
    BY <1>14, <1>16, <2>1
  <2>3. now.file = paper[p].file \/ now.file \notin {t.old, t.new}
    BY <1>1, <1>8, <1>9, <2>2 DEF Apart
  <2>4. Knows(t)' /\ Carries(t)'
    BY <1>2, <1>6, <1>7, <2>2, <2>3, Bystander
  <2> QED
    BY <2>1, <2>4
<1>17. /\ req' \in [Editors -> Request \cup {Stored!Idle}]
       /\ (\A s \in Editors : req[s] # Stored!Idle => Knows(req[s]) /\ Carries(req[s]))'
       /\ (\A s, t \in Editors : s # t /\ req[s] # Stored!Idle /\ req[t] # Stored!Idle => Apart(req[s], req[t]))'
  BY <1>2, <1>12, <1>13, <1>15, <1>16, OtherRequests
<1>18. (\A f \in Stored!Files : Accounted(f))'
  <2>1. /\ req'[r] = next /\ \A s \in Editors \ {r} : req'[s] = req[s]
    BY <1>2, <1>12 DEF Types
  <2>2. \A f \in Stored!Files : f > 0
    BY <1>2 DEF Types, Stored!Files
  <2>3. stuck \subseteq stuck'
    BY <1>12
  <2>4. ASSUME NEW f \in Stored!Files PROVE Accounted(f)'
    <3>1. Accounted(f)
      BY <2>4 DEF PapersInv
    <3>2. CASE file[f] = Stored!Gone \/ f \in stuck
      BY <2>3, <3>2 DEF Accounted
    <3>3. CASE \E x \in PaperIds \ {p} : paper[x].file = f
      BY <1>6, <3>3 DEF Accounted
    <3>4. CASE paper[p].file = f
      <4>1. CASE next = Stored!Idle
        <5>1. paper'[p].file = f
          BY <1>1, <1>6, <1>9, <1>12, <3>4, <4>1
        <5> QED
          BY <5>1 DEF Accounted
      <4>2. CASE next # Stored!Idle
        BY <1>4, <1>12, <2>1, <3>4, <4>2 DEF Accounted
      <4> QED
        BY <4>1, <4>2
    <3>5. CASE f = q.new
      <4>1. paper'[p].file = f
        BY <1>6, <1>8, <2>2, <2>4, <3>5
      <4> QED
        BY <4>1 DEF Accounted
    <3>6. CASE \E s \in Editors \ {r} :
                 \/ req[s].at = "cleanup" /\ f = req[s].old
                 \/ req[s].at \in {"write", "reconcile"} /\ f = req[s].new
      BY <2>1, <3>6 DEF Accounted
    <3> QED
      BY <1>1, <3>1, <3>2, <3>3, <3>4, <3>5, <3>6 DEF Accounted
  <2> QED
    BY <1>6, <2>4
<1>19. Types'
  BY <1>2, <1>4, <1>6, <1>12, <1>17 DEF Types
<1>20. Stored!HeaderStep
  <2> SUFFICES ASSUME NEW x \in PaperIds, paper'[x].file # paper[x].file
               PROVE  file'[paper'[x].file].header = paper'[x].header
    BY DEF Stored!HeaderStep
  <2>1. x = p /\ q.new > 0
    BY <1>6, <1>9
  <2> QED
    BY <1>6, <1>7, <1>8, <2>1
<1> QED
  BY <1>11, <1>17, <1>18, <1>19, <1>20 DEF PapersInv

\* A request is done with a file no paper refers to: the file goes or is left
\* behind.  Or its paper refers to the file, and nothing happens.
LEMMA PapersRemoved ==
  ASSUME Stored!ConstantsOK, PapersInv, NEW r \in Editors, NEW f,
         \/ req[r].at = "reconcile" /\ f = req[r].new
         \/ req[r].at = "cleanup" /\ f = req[r].old,
         \/ /\ req[r].at = "reconcile" => paper[req[r].paper].file # f
            /\ Stored!Removed(f) /\ UNCHANGED stuck
         \/ paper[req[r].paper].file = f /\ UNCHANGED <<file, stuck>>
         \/ stuck' = stuck \cup {f} /\ UNCHANGED file,
         Stored!Finish(r), paper' = paper
  PROVE  PapersInv'
<1>1. /\ req[r] \in Request /\ Knows(req[r]) /\ Carries(req[r]) /\ req[r] # Stored!Idle /\ Types
      /\ req[r].paper \in PaperIds
  BY OfRequest, IdleIsNoRequest DEF PapersInv
<1>2. /\ f \in Stored!Files /\ f > 0
      /\ \A x \in PaperIds \ {req[r].paper} : paper[x].file # f
      /\ req[r].at = "cleanup" => paper[req[r].paper].file # f
  <2>1. f \in Stored!Files
    BY <1>1 DEF Knows, Carries
  <2>2. f > 0
    BY <1>1, <2>1 DEF Types, Stored!Files
  <2> QED
    BY <1>1, <2>1, <2>2 DEF Knows, Carries
<1>3. /\ req' = [req EXCEPT ![r] = Stored!Idle] /\ req'[r] = Stored!Idle
      /\ \A s \in Editors \ {r} : req'[s] = req[s]
  BY <1>1 DEF Stored!Finish, Types
<1>4. /\ \E n \in Nat : file' \in [1 .. n -> Shown \cup {Stored!Gone}]
      /\ Stored!Files' = Stored!Files /\ stuck \subseteq stuck' /\ stuck' \subseteq Stored!Files
      /\ \A g \in Stored!Files \ {f} : file'[g] = file[g]
      /\ \/ file'[f] = file[f]
         \/ \A x \in PaperIds : paper[x].file # f
      /\ \/ file'[f] = Stored!Gone \/ f \in stuck' \/ paper[req[r].paper].file = f
  <2>1. CASE Stored!Removed(f) /\ UNCHANGED stuck /\ (req[r].at = "reconcile" => paper[req[r].paper].file # f)
    BY <1>1, <1>2, <2>1, Removal DEF Stored!Removed, Types
  <2>2. CASE UNCHANGED file /\ ((UNCHANGED stuck /\ paper[req[r].paper].file = f) \/ stuck' = stuck \cup {f})
    BY <1>1, <1>2, <2>2 DEF Types, Stored!Files
  <2> QED
    BY <2>1, <2>2
<1>5. \A s \in Editors \ {r} : req[s] # Stored!Idle => Knows(req[s])' /\ Carries(req[s])'
  <2>1. ASSUME NEW s \in Editors \ {r}, req[s].at = "write", req[s].new > 0
        PROVE  file'[req[s].new] = file[req[s].new]
    <3>1. Apart(req[s], req[r]) /\ Carries(req[s])
      BY <1>1, <2>1, IdleIsNoRequest, Unwritten
    <3> QED
      BY <1>4, <2>1, <3>1 DEF Apart, Carries
  <2> QED
    BY <1>3, <1>4, <2>1, OthersKnow
<1>6. /\ req' \in [Editors -> Request \cup {Stored!Idle}]
      /\ (\A s \in Editors : req[s] # Stored!Idle => Knows(req[s]) /\ Carries(req[s]))'
      /\ (\A s, t \in Editors : s # t /\ req[s] # Stored!Idle /\ req[t] # Stored!Idle => Apart(req[s], req[t]))'
  BY <1>1, <1>3, <1>5, OtherRequests
<1>7. (\A g \in Stored!Files : Accounted(g))'
  <2>1. ASSUME NEW g \in Stored!Files \ {f} PROVE Accounted(g)'
    <3>1. Accounted(g)
      BY <2>1 DEF PapersInv
    <3>2. ~(req[r].at = "cleanup" /\ g = req[r].old)
      BY <2>1
    <3>3. ~(req[r].at \in {"write", "reconcile"} /\ g = req[r].new)
      BY <2>1
    <3> QED
      BY <1>3, <1>4, <2>1, <3>1, <3>2, <3>3 DEF Accounted
  <2>2. Accounted(f)'
    BY <1>1, <1>4 DEF Accounted
  <2> QED
    BY <1>4, <2>1, <2>2
<1>8. (\A p \in PaperIds : PaperFits(p))' /\ FileOfItsOwn'
  BY <1>4 DEF PapersInv, PaperFits, FileOfItsOwn
<1>9. Types'
  BY <1>1, <1>4, <1>6 DEF Types
<1> QED
  BY <1>6, <1>7, <1>8, <1>9 DEF PapersInv

\* A paper is stored with its file, or only the file is.
LEMMA PapersSave ==
  ASSUME Stored!ConstantsOK, PapersInv, NEW p \in PaperIds, Stored!Save(p)
  PROVE  PapersInv' /\ Stored!HeaderStep
<1>1. /\ Types /\ paper[p] \in Paper /\ paper[p].content = 0 /\ paper[p].file = 0
      /\ paper \in [PaperIds -> Paper]
  BY DEF PapersInv, PaperFits, Types, Stored!Save
<1>2. 1 \in Stored!Versions /\ 0 \in Stored!Versions
  <2>1. Cardinality(Stored!Files) \in Nat
    <3>1. PICK n \in Nat : Stored!Files = 1 .. n
      BY <1>1 DEF Types, Stored!Files
    <3> QED
      BY <3>1, FS_Interval
  <2> QED
    BY <2>1, SameCardinality DEF Stored!Save, Stored!CanUpload, Stored!NewFile, Stored!Versions, Stored!ConstantsOK
<1>3. PICK shows \in Shown : shows = [content |-> 1, header |-> 1]
  BY <1>2 DEF Shown
<1>4. PICK new \in Nat : new = Stored!NewFile /\ new > 0 /\ new \notin Stored!Files
  BY <1>1, <1>3, Upload
<1>5. /\ \E n \in Nat : file' \in [1 .. n -> Shown \cup {Stored!Gone}]
      /\ Stored!Files' = Stored!Files \cup {new} /\ file'[new] = shows
      /\ \A f \in Stored!Files : file'[f] = file[f]
  BY <1>1, <1>3, <1>4, Upload DEF Stored!Save, Stored!Files
<1>6. req' = req /\ stuck \subseteq stuck' /\ stuck' \subseteq Stored!Files'
  BY <1>1, <1>4, <1>5 DEF Stored!Save, Types
<1>7. PICK now \in Paper :
        /\ paper' = [paper EXCEPT ![p] = now] /\ paper'[p] = now
        /\ \/ now = paper[p] /\ stuck' = stuck \cup {new}
           \/ now.content = 1 /\ now.header = 1 /\ now.file = new
  <2>1. CASE paper' = paper /\ stuck' = stuck \cup {new}
    <3>1. [paper EXCEPT ![p] = paper[p]] = paper
      BY <1>1
    <3> QED
      BY <1>1, <2>1, <3>1
  <2>2. CASE paper' = [paper EXCEPT ![p] = [content |-> 1, header |-> 1, file |-> new,
                                          revision |-> 0, deleted |-> FALSE]]
    <3>1. PICK n \in Paper : n = [content |-> 1, header |-> 1, file |-> new,
                                  revision |-> 0, deleted |-> FALSE]
      BY <1>2, <1>4 DEF Paper
    <3> QED
      BY <1>1, <2>2, <3>1
  <2> QED
    BY <1>4, <2>1, <2>2 DEF Stored!Save
<1>8. /\ paper' \in [PaperIds -> Paper] /\ \A x \in PaperIds \ {p} : paper'[x] = paper[x]
  BY <1>1, <1>7
<1>9. \A x \in PaperIds : paper[x].file # new
  BY <1>4 DEF PapersInv, PaperFits, Types, Paper, Stored!Versions, Stored!ConstantsOK
<1>10. PaperFits(p)'
  <2>1. CASE now = paper[p]
    BY <1>1, <1>7, <2>1 DEF PaperFits
  <2>2. CASE now.content = 1 /\ now.header = 1 /\ now.file = new
    BY <1>3, <1>5, <1>7, <2>2 DEF PaperFits
  <2> QED
    BY <1>7, <2>1, <2>2
<1>11. \A x \in PaperIds \ {p} : PaperFits(x)'
  BY <1>5, <1>8 DEF PapersInv, PaperFits
<1>12. FileOfItsOwn'
  <2>1. CASE now = paper[p]
    <3>1. \A x \in PaperIds : paper'[x] = paper[x]
      BY <1>7, <1>8, <2>1
    <3> QED
      BY <3>1 DEF PapersInv, FileOfItsOwn
  <2>2. CASE now.content = 1 /\ now.header = 1 /\ now.file = new
    BY <1>7, <1>8, <1>9, <2>2 DEF PapersInv, FileOfItsOwn
  <2> QED
    BY <1>7, <2>1, <2>2
<1>13. ASSUME NEW s \in Editors, req[s] # Stored!Idle PROVE Knows(req[s])' /\ Carries(req[s])'
  <2>1. PICK q \in Request : q = req[s] /\ req'[s] = q
    BY <1>1, <1>6, <1>13 DEF Types
  <2>2. Knows(q) /\ Carries(q)
    BY <1>13, <2>1 DEF PapersInv
  <2>3. /\ q.paper # p /\ q.old \in Stored!Files /\ (q.new > 0 => q.new \in Stored!Files) /\ q.paper \in PaperIds
        /\ q.new \in Nat
    BY <1>1, <2>2 DEF Knows, Carries, Request
  <2>4. Knows(q)'
    <3>1. paper'[q.paper] = paper[q.paper]
      BY <1>8, <2>3
    <3>2. \A x \in PaperIds \ {q.paper} :
            paper'[x].file # q.old /\ (q.new > 0 => paper'[x].file # q.new)
      BY <1>4, <1>7, <1>8, <2>2, <2>3 DEF Knows
    <3> QED
      BY <1>5, <2>2, <3>1, <3>2 DEF Knows
  <2>5. Carries(q)'
    BY <1>5, <1>8, <2>2, <2>3 DEF Carries
  <2> QED
    BY <2>1, <2>4, <2>5
<1>14. (\A f \in Stored!Files : Accounted(f))'
  <2>1. ASSUME NEW f \in Stored!Files PROVE Accounted(f)'
    <3>1. Accounted(f)
      BY <2>1 DEF PapersInv
    <3>2. \A x \in PaperIds : paper[x].file = f => x # p
      BY <1>1, <1>4, <2>1, Upload, <1>3
    <3> QED
      BY <1>5, <1>6, <1>8, <3>1, <3>2 DEF Accounted
  <2>2. Accounted(new)'
    BY <1>7 DEF Accounted
  <2> QED
    BY <1>5, <2>1, <2>2
<1>15. Types'
  BY <1>1, <1>5, <1>6, <1>8 DEF Types
<1>16. Stored!HeaderStep
  <2> SUFFICES ASSUME NEW x \in PaperIds, paper'[x].file # paper[x].file
               PROVE  file'[paper'[x].file].header = paper'[x].header
    BY DEF Stored!HeaderStep
  <2>1. x = p /\ now # paper[p]
    BY <1>7, <1>8
  <2> QED
    BY <1>3, <1>5, <1>7, <2>1
<1>17. (\A r, s \in Editors : r # s /\ req[r] # Stored!Idle /\ req[s] # Stored!Idle => Apart(req[r], req[s]))'
  BY <1>6 DEF PapersInv, Apart
<1> QED
  BY <1>10, <1>11, <1>12, <1>13, <1>14, <1>15, <1>16, <1>17, <1>6 DEF PapersInv

LEMMA PapersDelete ==
  ASSUME Stored!ConstantsOK, PapersInv, NEW p \in PaperIds, Stored!DeletePaper(p)
  PROVE  PapersInv' /\ Stored!HeaderStep
<1>1. Types /\ paper \in [PaperIds -> Paper] /\ paper[p] \in Paper
  BY DEF PapersInv, Types
<1>2. PICK now \in Paper :
        /\ paper' = [paper EXCEPT ![p] = now] /\ now = [paper[p] EXCEPT !.deleted = TRUE]
        /\ now.content = paper[p].content /\ now.header = paper[p].header
        /\ now.file = paper[p].file /\ now.revision = paper[p].revision
  <2> DEFINE n == [paper[p] EXCEPT !.deleted = TRUE]
  <2>1. n \in Paper
    BY <1>1 DEF Paper
  <2> QED
    BY <1>1, <2>1 DEF Stored!DeletePaper, Paper
<1>3. /\ paper' \in [PaperIds -> Paper]
      /\ \A x \in PaperIds : /\ paper'[x].content = paper[x].content
                             /\ paper'[x].header = paper[x].header
                             /\ paper'[x].file = paper[x].file
                             /\ paper'[x].revision = paper[x].revision
  BY <1>1, <1>2
<1>4. UNCHANGED <<file, req, stuck>> /\ Stored!Files' = Stored!Files
  BY DEF Stored!DeletePaper, Stored!Files
<1>5. ASSUME NEW s \in Editors, req[s] # Stored!Idle PROVE Knows(req[s])' /\ Carries(req[s])'
  <2>1. PICK q \in Request : q = req[s] /\ req'[s] = q
    BY <1>1, <1>4, <1>5 DEF Types
  <2>2. Knows(q) /\ Carries(q) /\ q.paper \in PaperIds
    BY <1>5, <2>1 DEF PapersInv, Request
  <2> QED
    BY <1>3, <1>4, <2>1, <2>2 DEF Knows, Carries
<1>6. (\A x \in PaperIds : PaperFits(x))' /\ FileOfItsOwn' /\ Stored!HeaderStep
  BY <1>3, <1>4 DEF PapersInv, PaperFits, FileOfItsOwn, Stored!HeaderStep
<1>7. (\A f \in Stored!Files : Accounted(f))'
  BY <1>3, <1>4 DEF PapersInv, Accounted
<1>8. Types'
  BY <1>1, <1>3, <1>4 DEF Types
<1>9. (\A r, s \in Editors : r # s /\ req[r] # Stored!Idle /\ req[s] # Stored!Idle => Apart(req[r], req[s]))'
  BY <1>4 DEF PapersInv, Apart
<1> QED
  BY <1>4, <1>5, <1>6, <1>7, <1>8, <1>9 DEF PapersInv

LEMMA PapersStep ==
  ASSUME Stored!ConstantsOK, PapersInv, [Stored!Next]_Stored!vars
  PROVE  PapersInv' /\ [Stored!HeaderStep]_Stored!vars
<1>0. ASSUME UNCHANGED paper PROVE Stored!HeaderStep
  BY <1>0 DEF Stored!HeaderStep
<1>1. CASE \E p \in PaperIds : Stored!Save(p) \/ Stored!DeletePaper(p)
  BY <1>1, PapersSave, PapersDelete
<1>2. CASE \E r \in Editors, p \in PaperIds, fields \in SUBSET {"content", "header"} :
             Stored!ReadForUpdate(r, p, fields)
  BY <1>0, <1>2, PapersRead DEF Stored!ReadForUpdate
<1>3. CASE \E r \in Editors : Stored!UploadFile(r)
  BY <1>0, <1>3, PapersUpload DEF Stored!UploadFile
<1>4. CASE \E r \in Editors : Stored!UploadFails(r)
  BY <1>0, <1>4, PapersLetGo DEF Stored!UploadFails
<1>5. CASE \E r \in Editors : Stored!WriteRefused(r)
  BY <1>0, <1>5, PapersLetGo DEF Stored!WriteRefused
<1>6. CASE \E r \in Editors : Stored!WriteApplied(r)
  BY <1>6, PapersWritten DEF Stored!WriteApplied
<1>7. CASE \E r \in Editors : Stored!WriteInDoubt(r)
  <2>1. PICK r \in Editors : Stored!WriteInDoubt(r)
    BY <1>7
  <2>2. CASE UNCHANGED <<paper, stuck>>
    BY <1>0, <2>1, <2>2, PapersLetGo DEF Stored!WriteInDoubt
  <2>3. CASE Stored!WriteMatches(r) /\ paper' = Stored!Written(r)
             /\ stuck' = IF req[r].new > 0 THEN stuck \cup {req[r].old} ELSE stuck
    BY <2>1, <2>3, PapersWritten DEF Stored!WriteInDoubt
  <2> QED
    BY <2>1, <2>2, <2>3 DEF Stored!WriteInDoubt
<1>8. CASE \E r \in Editors : Stored!Reconcile(r) \/ Stored!RemoveOldFile(r)
  <2>1. PICK r \in Editors : Stored!Reconcile(r) \/ Stored!RemoveOldFile(r)
    BY <1>8
  <2>2. CASE Stored!Reconcile(r)
    BY <1>0, <2>2, PapersRemoved DEF Stored!Reconcile
  <2>3. CASE Stored!RemoveOldFile(r)
    BY <1>0, <2>3, PapersRemoved DEF Stored!RemoveOldFile
  <2> QED
    BY <2>1, <2>2, <2>3
<1>9. CASE UNCHANGED Stored!vars
  <2>1. UNCHANGED <<paper, file, req, stuck>> /\ Stored!Files' = Stored!Files
    BY <1>9 DEF Stored!vars, Stored!Files
  <2>2. (\A r \in Editors : req[r] # Stored!Idle => Knows(req[r]) /\ Carries(req[r]))'
    BY <2>1 DEF PapersInv, Knows, Carries
  <2>3. (\A r, s \in Editors : r # s /\ req[r] # Stored!Idle /\ req[s] # Stored!Idle => Apart(req[r], req[s]))'
    BY <2>1 DEF PapersInv, Apart
  <2>4. (\A p \in PaperIds : PaperFits(p))' /\ FileOfItsOwn'
    BY <2>1 DEF PapersInv, PaperFits, FileOfItsOwn
  <2>5. (\A f \in Stored!Files : Accounted(f))'
    BY <2>1 DEF PapersInv, Accounted
  <2>6. Types'
    BY <2>1 DEF PapersInv, Types
  <2> QED
    BY <1>9, <2>2, <2>3, <2>4, <2>5, <2>6 DEF PapersInv
<1> QED
  BY <1>1, <1>2, <1>3, <1>4, <1>5, <1>6, <1>7, <1>8, <1>9 DEF Stored!Next

LEMMA PapersKeep ==
  ASSUME Stored!ConstantsOK, PapersInv
  PROVE  Stored!TypeOK /\ Stored!ReferencedFileShowsContent /\ Stored!FilesAccountedFor
<1>1. Stored!TypeOK
  <2>1. PICK n \in Nat : file \in [1 .. n -> Shown \cup {Stored!Gone}] /\ Stored!Files = 1 .. n
    BY DEF PapersInv, Types, Stored!Files
  <2>2. \A p \in PaperIds :
          /\ paper[p].content \in Stored!Versions /\ paper[p].header \in Stored!Versions
          /\ paper[p].revision \in Stored!Versions /\ paper[p].deleted \in BOOLEAN
    BY DEF PapersInv, Types, Paper
  <2>3. \A p \in PaperIds : paper[p].file \in {0} \cup Stored!Files
    BY <2>2 DEF PapersInv, PaperFits, Stored!Versions, Stored!ConstantsOK
  <2>4. \A f \in Stored!Files : file[f] = Stored!Gone \/ (file[f].content \in Stored!Versions /\ file[f].header \in Stored!Versions)
    BY <2>1 DEF Shown
  <2>5. \A r \in Editors :
          req[r] = Stored!Idle \/ req[r].at \in {"upload", "write", "reconcile", "cleanup"}
    BY DEF PapersInv, Types, Request
  <2> QED
    BY <2>2, <2>3, <2>4, <2>5 DEF Stored!TypeOK, PapersInv, Types
<1>2. Stored!ReferencedFileShowsContent
  BY GoneShowsNothing DEF PapersInv, PaperFits, Stored!ReferencedFileShowsContent
<1>3. Stored!FilesAccountedFor
  BY IdleIsNoRequest DEF PapersInv, Accounted, Stored!FilesAccountedFor
<1> QED
  BY <1>1, <1>2, <1>3


Jobs == Evaluations \cup AnswerKey!Extractions

KeyPlaces == {"idle", "locked", "selecting", "extracting", "patching", "resolving", "calling",
              "saving", "guarding", "reading", "done", "failed"}

-----------------------------------------------------------------------------
\* The answer key: the inductive invariant

\* A key that decides about a script was made from the text of the snapshot.
KeyFits(q) ==
  q.key # None /\ q.key.sure =>
    q.key.context = 1 /\ q.key.tag = AnswerKey!Tag(q.version, q.text) /\ q.key.text = q.text

\* What a job holds at each place.
HoldsOwn(q) ==
  /\ q.at \in {"idle", "locked", "extracting"} => q.text = None /\ q.key = None /\ q.seen = None
  /\ q.at \in {"calling", "saving"} => q.text \in Objective
  /\ q.at = "saving" => q.key.tag = AnswerKey!Tag(q.version, q.text) /\ q.key.text = q.text
  /\ q.seen # None /\ q.seen.tag # None => q.seen.text = q.text
  /\ KeyFits(q)

\* A version of the paper gets its text once: a job that read a text of the
\* version the exam has read the text the exam has.
TextFits(q) ==
  /\ q.version <= exam.version
  /\ q.at # "patching" /\ q.text # None /\ q.version = exam.version => q.text = exam.text

\* There is one extraction of each version.
Extracts(x) ==
  /\ keyJob[x].at # "idle" => keyJob[x].version = x
  /\ keyJob[x].at = "idle" <=> x > exam.version
  /\ keyJob[x].at \in {"extracting", "patching"} /\ x = exam.version => exam.text = None

JobInv ==
  /\ \A j \in Jobs : HoldsOwn(keyJob[j]) /\ TextFits(keyJob[j])
  /\ \A x \in AnswerKey!Extractions : Extracts(x)
  /\ \A e \in Evaluations : result[e] # None => keyJob[e].at = "done"

KeyInv == AnswerKey!TypeOK /\ JobInv /\ AnswerKey!KeyFitsPaper /\ AnswerKey!ScoredByOwnPaper

LEMMA Constants ==
  ASSUME AnswerKey!ConstantsOK
  PROVE  /\ MaxReplacements \in Nat /\ Objective \subseteq Texts /\ None \notin Texts
         /\ Evaluations \cap AnswerKey!Extractions = {} /\ AnswerKey!Extractions \subseteq Nat \ {0}
BY DEF AnswerKey!ConstantsOK, AnswerKey!Extractions

LEMMA Tagged ==
  ASSUME AnswerKey!ConstantsOK, NEW v \in 0 .. MaxReplacements, NEW t \in Texts
  PROVE  AnswerKey!Tag(v, t) \in AnswerKey!Tags
BY DEF AnswerKey!Tag, AnswerKey!Tags

LEMMA KeyInit ==
  ASSUME AnswerKey!ConstantsOK, AnswerKey!Init
  PROVE  KeyInv
<1>0. MaxReplacements \in Nat /\ 0 \in 0 .. MaxReplacements /\ Objective \subseteq Texts /\ None \notin Texts
      /\ AnswerKey!Extractions \subseteq Nat \ {0}
  BY Constants
<1>1. ASSUME NEW t \in Texts, NEW k \in AnswerKey!OldKeys(t)
      PROVE  /\ k \in AnswerKey!Key /\ k.text = t
             /\ k.tag # None => k.tag = AnswerKey!Tag(0, t)
  <2>1. PICK tag \in {None, AnswerKey!Tag(0, t)}, c \in {0, 1}, a \in Letters :
          k = [tag |-> tag, context |-> c, text |-> t, answer |-> a, sure |-> TRUE]
    BY <1>1 DEF AnswerKey!OldKeys
  <2>2. tag \in AnswerKey!Tags \cup {None}
    BY <1>0, Tagged
  <2> QED
    BY <2>1, <2>2 DEF AnswerKey!Key
<1>2. exam \in AnswerKey!Exam /\ exam.version = 0 /\ AnswerKey!KeyFitsPaper
      /\ (exam.key # None => exam.text \in Objective)
  <2>1. CASE exam = [version |-> 0, text |-> None, locked |-> FALSE, key |-> None]
    BY <1>0, <2>1 DEF AnswerKey!Exam, AnswerKey!KeyFitsPaper
  <2>2. CASE exam # [version |-> 0, text |-> None, locked |-> FALSE, key |-> None]
    <3>1. PICK t \in Texts : \E k \in {None} \cup (IF t \in Objective THEN AnswerKey!OldKeys(t) ELSE {}) :
            exam = [version |-> 0, text |-> t, locked |-> FALSE, key |-> k]
      BY <2>2 DEF AnswerKey!Init
    <3>2. PICK k \in {None} \cup (IF t \in Objective THEN AnswerKey!OldKeys(t) ELSE {}) :
            exam = [version |-> 0, text |-> t, locked |-> FALSE, key |-> k]
      BY <3>1
    <3>3. k # None => /\ k \in AnswerKey!Key /\ k.text = t /\ t \in Objective
                      /\ k.tag # None => k.tag = AnswerKey!Tag(0, t)
      BY <1>1, <3>2
    <3> QED
      BY <1>0, <3>2, <3>3 DEF AnswerKey!Exam, AnswerKey!KeyFitsPaper
  <2> QED
    BY <2>1, <2>2
<1>3. keyJob \in [Jobs -> AnswerKey!Job]
  BY <1>0 DEF AnswerKey!Init, AnswerKey!Job, Jobs
<1>4. result \in [Evaluations -> AnswerKey!Result \cup {None}]
  BY DEF AnswerKey!Init
<1>5. AnswerKey!TypeOK
  BY <1>2, <1>3, <1>4 DEF AnswerKey!TypeOK, Jobs
<1>6. JobInv
  <2>1. ASSUME NEW j \in Jobs PROVE HoldsOwn(keyJob[j]) /\ TextFits(keyJob[j])
    BY <1>2, <2>1 DEF AnswerKey!Init, Jobs, HoldsOwn, TextFits, KeyFits
  <2>2. ASSUME NEW x \in AnswerKey!Extractions PROVE Extracts(x)
    BY <1>0, <1>2, <2>2 DEF AnswerKey!Init, Extracts
  <2> QED
    BY <2>1, <2>2 DEF AnswerKey!Init, JobInv
<1>7. AnswerKey!ScoredByOwnPaper
  BY DEF AnswerKey!Init, AnswerKey!ScoredByOwnPaper
<1> QED
  BY <1>2, <1>5, <1>6, <1>7 DEF KeyInv

-----------------------------------------------------------------------------
\* One job moves and the exam stays

LEMMA JobGoes ==
  ASSUME NEW q \in AnswerKey!Job, NEW at \in KeyPlaces
  PROVE  LET p == [q EXCEPT !.at = at] IN
         p \in AnswerKey!Job /\ p.at = at /\ p.version = q.version /\ p.text = q.text
         /\ p.seen = q.seen /\ p.key = q.key
BY DEF AnswerKey!Job, KeyPlaces

LEMMA JobGoesKeyless ==
  ASSUME NEW q \in AnswerKey!Job, NEW at \in KeyPlaces
  PROVE  LET p == [q EXCEPT !.at = at, !.key = None] IN
         p \in AnswerKey!Job /\ p.at = at /\ p.version = q.version /\ p.text = q.text
         /\ p.seen = q.seen /\ p.key = None
BY DEF AnswerKey!Job, KeyPlaces

\* Job j does not score anything.
LEMMA StepJob ==
  ASSUME AnswerKey!ConstantsOK, KeyInv, NEW j \in Jobs, NEW q \in AnswerKey!Job,
         keyJob' = [keyJob EXCEPT ![j] = q],
         keyJob[j].at # "done", q.at # "idle",
         UNCHANGED <<exam, result>>,
         HoldsOwn(q), TextFits(q),
         j \in AnswerKey!Extractions => /\ q.version = j /\ keyJob[j].at # "idle"
                                        /\ q.at \in {"extracting", "patching"} =>
                                             keyJob[j].at \in {"extracting", "patching"}
  PROVE  KeyInv'
<1>0. keyJob \in [Jobs -> AnswerKey!Job]
  BY DEF KeyInv, AnswerKey!TypeOK, Jobs
<1>1. keyJob'[j] = q /\ \A i \in Jobs \ {j} : keyJob'[i] = keyJob[i]
  BY <1>0
<1>2. AnswerKey!TypeOK'
  BY <1>0 DEF KeyInv, AnswerKey!TypeOK, Jobs
<1>3. \A i \in Jobs : HoldsOwn(keyJob'[i]) /\ TextFits(keyJob[i])'
  <2> SUFFICES ASSUME NEW i \in Jobs PROVE HoldsOwn(keyJob'[i]) /\ TextFits(keyJob[i])'
    OBVIOUS
  <2>1. CASE i = j
    BY <1>1, <2>1 DEF TextFits
  <2>2. CASE i # j
    BY <1>1, <2>2 DEF KeyInv, JobInv, TextFits
  <2> QED
    BY <2>1, <2>2
<1>4. \A x \in AnswerKey!Extractions : Extracts(x)'
  <2> SUFFICES ASSUME NEW x \in AnswerKey!Extractions PROVE Extracts(x)'
    OBVIOUS
  <2>1. Extracts(x) /\ x \in Jobs
    BY DEF KeyInv, JobInv, Jobs
  <2>2. CASE x = j
    BY <1>1, <2>1, <2>2 DEF Extracts
  <2>3. CASE x # j
    BY <1>1, <2>1, <2>3 DEF Extracts
  <2> QED
    BY <2>2, <2>3
<1>5. \A e \in Evaluations : result'[e] # None => keyJob'[e].at = "done" /\ keyJob'[e] = keyJob[e]
  BY <1>1 DEF KeyInv, JobInv, Jobs
<1>6. AnswerKey!ScoredByOwnPaper'
  BY <1>5 DEF KeyInv, AnswerKey!ScoredByOwnPaper
<1> QED
  BY <1>2, <1>3, <1>4, <1>5, <1>6 DEF KeyInv, JobInv, AnswerKey!KeyFitsPaper

\* It only goes somewhere else.
LEMMA StepGo ==
  ASSUME AnswerKey!ConstantsOK, KeyInv, NEW j \in Jobs, NEW at \in KeyPlaces, AnswerKey!Go(j, at),
         keyJob[j].at \notin {"idle", "patching", "done"}, at \notin {"idle", "extracting", "patching"},
         at \in {"locked", "calling", "saving"} => /\ at = "calling"
                                                   /\ keyJob[j].text \in Objective,
         UNCHANGED <<exam, result>>
  PROVE  KeyInv'
<1> DEFINE q == [keyJob[j] EXCEPT !.at = at]
<1>1. keyJob[j] \in AnswerKey!Job /\ keyJob \in [Jobs -> AnswerKey!Job]
  BY DEF KeyInv, AnswerKey!TypeOK, Jobs
<1>2. q \in AnswerKey!Job /\ q.at = at /\ q.version = keyJob[j].version /\ q.text = keyJob[j].text
      /\ q.seen = keyJob[j].seen /\ q.key = keyJob[j].key
  BY <1>1, JobGoes
<1>3. HoldsOwn(keyJob[j]) /\ TextFits(keyJob[j]) /\ (j \in AnswerKey!Extractions => Extracts(j))
  BY DEF KeyInv, JobInv
<1>4. keyJob' = [keyJob EXCEPT ![j] = q]
  BY DEF AnswerKey!Go
<1> HIDE DEF q
<1>5. HoldsOwn(q)
  BY <1>2, <1>3 DEF HoldsOwn, KeyFits
<1>6. TextFits(q)
  BY <1>2, <1>3 DEF TextFits
<1> QED
  BY <1>2, <1>3, <1>4, <1>5, <1>6, StepJob DEF Extracts

LEMMA StepExtract ==
  ASSUME AnswerKey!ConstantsOK, KeyInv, NEW x \in AnswerKey!Extractions, AnswerKey!Extract(x)
  PROVE  KeyInv'
<1>0. x \in Jobs /\ keyJob[x].at = "extracting" /\ UNCHANGED <<exam, result>>
  BY DEF Jobs, AnswerKey!Extract
<1>1. keyJob[x] \in AnswerKey!Job /\ keyJob \in [Jobs -> AnswerKey!Job]
  BY <1>0 DEF KeyInv, AnswerKey!TypeOK, Jobs
<1>2. HoldsOwn(keyJob[x]) /\ TextFits(keyJob[x]) /\ Extracts(x)
  BY <1>0 DEF KeyInv, JobInv
<1>3. CASE AnswerKey!Go(x, "done")
  BY <1>0, <1>3, StepGo DEF KeyPlaces
<1>4. CASE ~AnswerKey!Go(x, "done")
  <2>1. PICK t \in Texts : keyJob' = [keyJob EXCEPT ![x].at = "patching", ![x].text = t]
    BY <1>4 DEF AnswerKey!Extract
  <2> DEFINE q == [keyJob[x] EXCEPT !.at = "patching", !.text = t]
  <2>2. keyJob' = [keyJob EXCEPT ![x] = q]
    BY <2>1
  <2>3. q \in AnswerKey!Job /\ q.at = "patching" /\ q.version = keyJob[x].version /\ q.seen = None
        /\ q.key = None /\ q.text = t
    BY <1>0, <1>1, <1>2 DEF AnswerKey!Job, HoldsOwn
  <2> HIDE DEF q
  <2>5. HoldsOwn(q) /\ TextFits(q)
    BY <1>2, <2>3 DEF HoldsOwn, KeyFits, TextFits
  <2> QED
    BY <1>0, <1>2, <2>2, <2>3, <2>5, StepJob DEF Extracts
<1> QED
  BY <1>3, <1>4

LEMMA StepResolve ==
  ASSUME AnswerKey!ConstantsOK, KeyInv, NEW j \in Jobs, AnswerKey!ReadForKey(j) \/ AnswerKey!CallProvider(j)
  PROVE  KeyInv'
<1>1. keyJob[j] \in AnswerKey!Job /\ keyJob \in [Jobs -> AnswerKey!Job] /\ UNCHANGED <<exam, result>>
  BY DEF KeyInv, AnswerKey!TypeOK, Jobs, AnswerKey!ReadForKey, AnswerKey!CallProvider
<1>2. HoldsOwn(keyJob[j]) /\ TextFits(keyJob[j]) /\ (j \in AnswerKey!Extractions => Extracts(j))
  BY DEF KeyInv, JobInv
<1>3. CASE AnswerKey!ReadForKey(j)
  <2>1. keyJob[j].at = "resolving" /\ AnswerKey!After(j) \in {"guarding", "done"}
    BY <1>3 DEF AnswerKey!ReadForKey, AnswerKey!After
  <2>2. CASE AnswerKey!Go(j, "calling") /\ keyJob[j].text \in Objective
    BY <1>1, <2>1, <2>2, StepGo DEF KeyPlaces
  <2>3. CASE AnswerKey!Go(j, AnswerKey!After(j))
    BY <1>1, <2>1, <2>3, StepGo DEF KeyPlaces
  <2> QED
    BY <1>3, <2>2, <2>3 DEF AnswerKey!ReadForKey
<1>4. CASE AnswerKey!CallProvider(j)
  <2>1. keyJob[j].at = "calling" /\ keyJob[j].text \in Objective
    BY <1>2, <1>4 DEF AnswerKey!CallProvider, HoldsOwn
  <2>2. PICK a \in Letters \cup {None}, sure \in BOOLEAN :
          keyJob' = [keyJob EXCEPT ![j].at = "saving",
                       ![j].key = [tag |-> AnswerKey!Tag(keyJob[j].version, keyJob[j].text), context |-> 1,
                                   text |-> keyJob[j].text, answer |-> a, sure |-> sure]]
    BY <1>4 DEF AnswerKey!CallProvider
  <2> DEFINE k == [tag |-> AnswerKey!Tag(keyJob[j].version, keyJob[j].text), context |-> 1,
                   text |-> keyJob[j].text, answer |-> a, sure |-> sure]
             q == [keyJob[j] EXCEPT !.at = "saving", !.key = k]
  <2>3. k.tag = AnswerKey!Tag(keyJob[j].version, keyJob[j].text) /\ k.context = 1 /\ k.text = keyJob[j].text
    OBVIOUS
  <2>4. k \in AnswerKey!Key
    <3>1. AnswerKey!Tag(keyJob[j].version, keyJob[j].text) \in AnswerKey!Tags
      BY <1>1, <2>1, Constants, Tagged DEF AnswerKey!Job
    <3> QED
      BY <2>1, <3>1, Constants DEF AnswerKey!Key
  <2>5. keyJob' = [keyJob EXCEPT ![j] = q]
    BY <2>2
  <2> HIDE DEF k
  <2>6. q \in AnswerKey!Job /\ q.at = "saving" /\ q.version = keyJob[j].version /\ q.text = keyJob[j].text
        /\ q.seen = keyJob[j].seen /\ q.key = k
    BY <1>1, <2>4 DEF AnswerKey!Job
  <2> HIDE DEF q
  <2>7. HoldsOwn(q) /\ TextFits(q)
    BY <1>2, <2>1, <2>3, <2>6 DEF HoldsOwn, KeyFits, TextFits
  <2> QED
    BY <1>1, <1>2, <2>1, <2>5, <2>6, <2>7, StepJob DEF Extracts
<1> QED
  BY <1>3, <1>4

LEMMA StepGrading ==
  ASSUME AnswerKey!ConstantsOK, KeyInv, NEW e \in Evaluations, AnswerKey!ReadExam(e) \/ AnswerKey!SelectKey(e) \/ AnswerKey!GuardPaper(e)
  PROVE  KeyInv'
<1>0. UNCHANGED <<exam, result>> /\ e \in Jobs /\ e \notin AnswerKey!Extractions
  BY Constants DEF AnswerKey!ReadExam, AnswerKey!SelectKey, AnswerKey!GuardPaper, Jobs
<1>1. keyJob[e] \in AnswerKey!Job /\ keyJob \in [Jobs -> AnswerKey!Job] /\ exam \in AnswerKey!Exam
  BY <1>0 DEF KeyInv, AnswerKey!TypeOK, Jobs
<1>2. HoldsOwn(keyJob[e]) /\ TextFits(keyJob[e])
  BY <1>0 DEF KeyInv, JobInv
<1>3. CASE AnswerKey!ReadExam(e)
  <2>1. PICK safe \in BOOLEAN :
         keyJob' = [keyJob EXCEPT ![e].version = exam.version, ![e].text = exam.text,
                            ![e].seen = exam.key, ![e].safe = safe,
                            ![e].at = IF exam.text = None THEN "failed"
                                      ELSE IF safe THEN "selecting" ELSE "guarding"]
    BY <1>3 DEF AnswerKey!ReadExam
  <2> DEFINE at == IF exam.text = None THEN "failed" ELSE IF safe THEN "selecting" ELSE "guarding"
             q == [keyJob[e] EXCEPT !.version = exam.version, !.text = exam.text,
                                 !.seen = exam.key, !.safe = safe, !.at = at]
  <2>2. at \in {"failed", "selecting", "guarding"}
    OBVIOUS
  <2>3. keyJob' = [keyJob EXCEPT ![e] = q]
    BY <2>1
  <2> HIDE DEF at
  <2>4. q \in AnswerKey!Job /\ q.at = at /\ q.version = exam.version /\ q.text = exam.text
        /\ q.seen = exam.key /\ q.key = keyJob[e].key
    BY <1>1, <2>2 DEF AnswerKey!Job, AnswerKey!Exam
  <2>5. keyJob[e].at = "locked" /\ q.key = None
    BY <1>2, <1>3, <2>4 DEF AnswerKey!ReadExam, HoldsOwn
  <2>6. q.seen # None /\ q.seen.tag # None => q.seen.text = q.text
    BY <2>4 DEF KeyInv, AnswerKey!KeyFitsPaper
  <2>7. exam.version <= exam.version
    BY <1>1, Constants DEF AnswerKey!Exam
  <2> HIDE DEF q
  <2>8. HoldsOwn(q) /\ TextFits(q)
    BY <2>2, <2>4, <2>5, <2>6, <2>7 DEF HoldsOwn, KeyFits, TextFits
  <2> QED
    BY <1>0, <2>2, <2>3, <2>4, <2>5, <2>8, StepJob
<1>4. CASE AnswerKey!SelectKey(e)
  <2> DEFINE k == IF AnswerKey!Selected(keyJob[e].seen, AnswerKey!Tag(keyJob[e].version, keyJob[e].text)) = "use"
                  THEN keyJob[e].seen ELSE [keyJob[e].seen EXCEPT !.sure = FALSE]
             q == [keyJob[e] EXCEPT !.at = "guarding", !.key = k]
  <2>0. keyJob[e].at = "selecting"
    BY <1>4 DEF AnswerKey!SelectKey
  <2>1. CASE AnswerKey!Go(e, "guarding") \/ AnswerKey!Go(e, "resolving")
    BY <1>0, <2>0, <2>1, StepGo DEF KeyPlaces
  <2>2. CASE ~(AnswerKey!Go(e, "guarding") \/ AnswerKey!Go(e, "resolving"))
    <3>1. /\ AnswerKey!Selected(keyJob[e].seen, AnswerKey!Tag(keyJob[e].version, keyJob[e].text)) # "resolve"
          /\ keyJob' = [keyJob EXCEPT ![e] = q]
      BY <1>1, <1>4, <2>2 DEF AnswerKey!SelectKey
    <3>2. keyJob[e].seen \in AnswerKey!Key
      BY <1>1, <3>1 DEF AnswerKey!Selected, AnswerKey!Job
    <3>3. /\ k \in AnswerKey!Key
          /\ k.sure => /\ k = keyJob[e].seen /\ k.context = 1
                       /\ k.tag = AnswerKey!Tag(keyJob[e].version, keyJob[e].text) /\ k.tag # None
      <4>1. CASE AnswerKey!Selected(keyJob[e].seen, AnswerKey!Tag(keyJob[e].version, keyJob[e].text)) = "use"
        BY <3>2, <4>1 DEF AnswerKey!Selected
      <4>2. CASE AnswerKey!Selected(keyJob[e].seen, AnswerKey!Tag(keyJob[e].version, keyJob[e].text)) # "use"
        BY <3>2, <4>2 DEF AnswerKey!Key
      <4> QED
        BY <4>1, <4>2
    <3> HIDE DEF k
    <3>4. q \in AnswerKey!Job /\ q.at = "guarding" /\ q.version = keyJob[e].version /\ q.text = keyJob[e].text
          /\ q.seen = keyJob[e].seen /\ q.key = k
      BY <1>1, <3>3 DEF AnswerKey!Job
    <3>5. keyJob[e].seen # None /\ keyJob[e].seen.tag # None => keyJob[e].seen.text = keyJob[e].text
      BY <1>2 DEF HoldsOwn
    <3>6. keyJob[e].seen # None
      BY <3>1 DEF AnswerKey!Selected
    <3> HIDE DEF q
    <3>7. HoldsOwn(q) /\ TextFits(q)
      BY <1>2, <2>0, <3>3, <3>4, <3>5, <3>6 DEF HoldsOwn, KeyFits, TextFits
    <3> QED
      BY <1>0, <2>0, <3>1, <3>4, <3>7, StepJob
  <2> QED
    BY <2>1, <2>2
<1>5. CASE AnswerKey!GuardPaper(e)
  <2>1. keyJob[e].at = "guarding" /\ (AnswerKey!Go(e, "reading") \/ AnswerKey!Go(e, "failed"))
    BY <1>5 DEF AnswerKey!GuardPaper
  <2> QED
    BY <1>0, <2>1, StepGo DEF KeyPlaces
<1> QED
  BY <1>3, <1>4, <1>5

LEMMA StepGrade ==
  ASSUME AnswerKey!ConstantsOK, KeyInv, NEW e \in Evaluations, AnswerKey!Grade(e)
  PROVE  KeyInv'
<1>0. /\ e \in Jobs /\ e \notin AnswerKey!Extractions /\ keyJob[e].at = "reading" /\ exam' = exam
      /\ keyJob' = [keyJob EXCEPT ![e].at = "done"]
  BY Constants DEF AnswerKey!Grade, AnswerKey!Go, Jobs
<1>1. PICK letter \in Letters \cup {"blank", "unclear"}, judged \in {0, 1} :
        result' = [result EXCEPT ![e] = AnswerKey!Scored(e, letter, judged)]
  BY DEF AnswerKey!Grade
<1>2. keyJob[e] \in AnswerKey!Job /\ keyJob \in [Jobs -> AnswerKey!Job] /\ result \in [Evaluations -> AnswerKey!Result \cup {None}]
  BY <1>0 DEF KeyInv, AnswerKey!TypeOK, Jobs
<1>3. /\ \A i \in Jobs \ {e} : keyJob'[i] = keyJob[i]
      /\ keyJob'[e] \in AnswerKey!Job /\ keyJob'[e].at = "done" /\ keyJob'[e].version = keyJob[e].version
      /\ keyJob'[e].text = keyJob[e].text /\ keyJob'[e].seen = keyJob[e].seen /\ keyJob'[e].key = keyJob[e].key
  BY <1>0, <1>2 DEF AnswerKey!Job
<1>4. AnswerKey!Scored(e, letter, judged) \in AnswerKey!Result
  <2>1. keyJob[e].key.answer \in Letters \cup {None} \/ ~AnswerKey!Comparable(keyJob[e].key)
    BY <1>2 DEF AnswerKey!Job, AnswerKey!Key, AnswerKey!Comparable
  <2> QED
    BY <2>1 DEF AnswerKey!Scored, AnswerKey!Result
<1>5. AnswerKey!TypeOK'
  BY <1>0, <1>1, <1>2, <1>3, <1>4 DEF KeyInv, AnswerKey!TypeOK, Jobs
<1>6. \A j \in Jobs : HoldsOwn(keyJob'[j]) /\ TextFits(keyJob[j])'
  <2> SUFFICES ASSUME NEW j \in Jobs PROVE HoldsOwn(keyJob'[j]) /\ TextFits(keyJob[j])'
    OBVIOUS
  <2>1. HoldsOwn(keyJob[j]) /\ TextFits(keyJob[j])
    BY DEF KeyInv, JobInv
  <2>2. CASE j = e
    BY <1>0, <1>3, <2>1, <2>2 DEF HoldsOwn, KeyFits, TextFits
  <2>3. CASE j # e
    BY <1>0, <1>3, <2>1, <2>3 DEF TextFits
  <2> QED
    BY <2>2, <2>3
<1>7. \A x \in AnswerKey!Extractions : Extracts(x)'
  BY <1>0, <1>3 DEF KeyInv, JobInv, Extracts, Jobs
<1>8. \A f \in Evaluations : result'[f] # None => keyJob'[f].at = "done"
  BY <1>1, <1>2, <1>3 DEF KeyInv, JobInv, Jobs
<1>9. AnswerKey!ScoredByOwnPaper'
  <2> SUFFICES ASSUME NEW f \in Evaluations, result'[f] # None, result'[f].by = "key"
               PROVE  LET key == keyJob'[f].key IN
                      /\ key.sure /\ key.context = 1
                      /\ key.tag = AnswerKey!Tag(keyJob'[f].version, keyJob'[f].text) /\ key.text = keyJob'[f].text
    BY DEF AnswerKey!ScoredByOwnPaper
  <2>1. CASE f # e
    BY <1>1, <1>2, <1>3, <2>1 DEF KeyInv, AnswerKey!ScoredByOwnPaper, Jobs
  <2>2. CASE f = e
    <3>1. AnswerKey!Scored(e, letter, judged).by = "key"
      BY <1>1, <1>2, <2>2
    <3>2. keyJob[e].key # None /\ keyJob[e].key.sure
      BY <3>1 DEF AnswerKey!Scored, AnswerKey!Comparable
    <3>3. KeyFits(keyJob[e])
      BY <1>0 DEF KeyInv, JobInv, HoldsOwn
    <3> QED
      BY <1>3, <2>2, <3>2, <3>3 DEF KeyFits
  <2> QED
    BY <2>1, <2>2
<1> QED
  BY <1>0, <1>5, <1>6, <1>7, <1>8, <1>9 DEF KeyInv, JobInv, AnswerKey!KeyFitsPaper

-----------------------------------------------------------------------------
\* Steps that change the exam

LEMMA StepReplace ==
  ASSUME AnswerKey!ConstantsOK, KeyInv, AnswerKey!ReplacePaper
  PROVE  KeyInv'
<1> DEFINE v == exam.version + 1
           q == [keyJob[v] EXCEPT !.at = "extracting", !.version = v]
<1>0. /\ exam.version < MaxReplacements /\ result' = result
      /\ exam' = [exam EXCEPT !.version = @ + 1, !.text = None, !.key = None]
      /\ keyJob' = [keyJob EXCEPT ![exam.version + 1].at = "extracting",
                            ![exam.version + 1].version = exam.version + 1]
  BY DEF AnswerKey!ReplacePaper, AnswerKey!Replaced
<1>1. exam \in AnswerKey!Exam /\ exam.version \in 0 .. MaxReplacements /\ MaxReplacements \in Nat
      /\ keyJob \in [Jobs -> AnswerKey!Job]
  BY Constants DEF KeyInv, AnswerKey!TypeOK, AnswerKey!Exam, Jobs
<1>2. v \in AnswerKey!Extractions /\ v \in Jobs /\ v > exam.version /\ v \in 0 .. MaxReplacements
  BY <1>0, <1>1 DEF AnswerKey!Extractions, Jobs
<1>3. /\ exam' \in AnswerKey!Exam /\ exam'.version = v /\ exam'.text = None /\ exam'.key = None
  BY <1>0, <1>1, <1>2 DEF AnswerKey!Exam
<1>4. Extracts(v) /\ HoldsOwn(keyJob[v]) /\ keyJob[v] \in AnswerKey!Job
  BY <1>1, <1>2 DEF KeyInv, JobInv
<1>5. keyJob[v].at = "idle"
  BY <1>2, <1>4 DEF Extracts
<1>6. keyJob' = [keyJob EXCEPT ![v] = q]
  BY <1>0
<1>7. q \in AnswerKey!Job /\ q.at = "extracting" /\ q.version = v /\ q.text = None /\ q.key = None
      /\ q.seen = None
  BY <1>2, <1>4, <1>5 DEF AnswerKey!Job, HoldsOwn
<1> HIDE DEF q
<1>8. keyJob'[v] = q /\ \A j \in Jobs \ {v} : keyJob'[j] = keyJob[j]
  BY <1>1, <1>2, <1>6
<1>9. AnswerKey!TypeOK'
  BY <1>0, <1>1, <1>3, <1>6, <1>7 DEF KeyInv, AnswerKey!TypeOK, Jobs
<1>10. \A j \in Jobs : HoldsOwn(keyJob'[j]) /\ TextFits(keyJob[j])'
  <2> SUFFICES ASSUME NEW j \in Jobs PROVE HoldsOwn(keyJob'[j]) /\ TextFits(keyJob[j])'
    OBVIOUS
  <2>1. CASE j = v
    BY <1>1, <1>3, <1>7, <1>8, <2>1 DEF HoldsOwn, KeyFits, TextFits
  <2>2. CASE j # v
    <3>1. HoldsOwn(keyJob[j]) /\ keyJob[j].version <= exam.version /\ keyJob[j].version \in Nat
      BY <1>1 DEF KeyInv, JobInv, TextFits, AnswerKey!Job
    <3>2. keyJob[j].version < v
      BY <1>1, <3>1
    <3> QED
      BY <1>1, <1>3, <1>8, <2>2, <3>1, <3>2 DEF TextFits
  <2> QED
    BY <2>1, <2>2
<1>11. \A x \in AnswerKey!Extractions : Extracts(x)'
  <2> SUFFICES ASSUME NEW x \in AnswerKey!Extractions PROVE Extracts(x)'
    OBVIOUS
  <2>1. Extracts(x) /\ x \in Nat /\ x \in Jobs
    BY Constants DEF KeyInv, JobInv, Jobs
  <2>2. CASE x = v
    BY <1>1, <1>3, <1>7, <1>8, <2>1, <2>2 DEF Extracts
  <2>3. CASE x # v
    BY <1>1, <1>3, <1>8, <2>1, <2>3 DEF Extracts
  <2> QED
    BY <2>2, <2>3
<1>12. \A e \in Evaluations : keyJob'[e] = keyJob[e] /\ e \in Jobs
  BY <1>2, <1>8, Constants DEF Jobs
<1>13. AnswerKey!ScoredByOwnPaper'
  BY <1>0, <1>12 DEF KeyInv, AnswerKey!ScoredByOwnPaper
<1>14. \A e \in Evaluations : result'[e] # None => keyJob'[e].at = "done"
  BY <1>0, <1>12 DEF KeyInv, JobInv
<1> QED
  BY <1>3, <1>9, <1>10, <1>11, <1>13, <1>14 DEF KeyInv, JobInv, AnswerKey!KeyFitsPaper

\* The exam keeps the version and the text it has, or gets the text of its
\* extraction; one job moves.
LEMMA StepPatch ==
  ASSUME AnswerKey!ConstantsOK, KeyInv, NEW x \in AnswerKey!Extractions, AnswerKey!PatchText(x)
  PROVE  KeyInv'
<1>0. x \in Jobs /\ keyJob[x].at = "patching" /\ result' = result
  BY DEF Jobs, AnswerKey!PatchText
<1>1. keyJob[x] \in AnswerKey!Job /\ keyJob \in [Jobs -> AnswerKey!Job] /\ exam \in AnswerKey!Exam /\ exam.version \in Nat
  BY <1>0, Constants DEF KeyInv, AnswerKey!TypeOK, Jobs, AnswerKey!Exam
<1>2. HoldsOwn(keyJob[x]) /\ TextFits(keyJob[x]) /\ Extracts(x)
  BY <1>0 DEF KeyInv, JobInv
<1>3. CASE exam.version # keyJob[x].version
  <2> DEFINE q == [keyJob[x] EXCEPT !.at = "done"]
  <2>1. exam' = exam /\ keyJob' = [keyJob EXCEPT ![x] = q]
    BY <1>3 DEF AnswerKey!PatchText, AnswerKey!Go
  <2>2. q \in AnswerKey!Job /\ q.at = "done" /\ q.version = keyJob[x].version /\ q.text = keyJob[x].text
        /\ q.seen = keyJob[x].seen /\ q.key = keyJob[x].key
    <3>1. "done" \in KeyPlaces
      BY DEF KeyPlaces
    <3> QED
      BY <1>1, <3>1, JobGoes
  <2> HIDE DEF q
  <2>3. HoldsOwn(q) /\ TextFits(q)
    BY <1>2, <1>3, <2>2 DEF HoldsOwn, KeyFits, TextFits
  <2> QED
    BY <1>0, <1>2, <2>1, <2>2, <2>3, StepJob DEF Extracts
<1>4. CASE exam.version = keyJob[x].version
  <2> DEFINE q == [keyJob[x] EXCEPT !.at = "resolving"]
  <2>1. exam' = [exam EXCEPT !.text = keyJob[x].text] /\ keyJob' = [keyJob EXCEPT ![x] = q]
    BY <1>4 DEF AnswerKey!PatchText, AnswerKey!Go
  <2>2. q \in AnswerKey!Job /\ q.at = "resolving" /\ q.version = keyJob[x].version /\ q.text = keyJob[x].text
        /\ q.seen = keyJob[x].seen /\ q.key = keyJob[x].key
    <3>1. "resolving" \in KeyPlaces
      BY DEF KeyPlaces
    <3> QED
      BY <1>1, <3>1, JobGoes
  <2> HIDE DEF q
  <2>3. exam' \in AnswerKey!Exam /\ exam'.version = exam.version /\ exam'.text = keyJob[x].text
        /\ exam'.key = exam.key
    BY <1>1, <2>1 DEF AnswerKey!Exam, AnswerKey!Job
  <2>4. x = exam.version /\ exam.text = None
    BY <1>0, <1>2, <1>4 DEF Extracts
  <2>5. exam.key = None
    BY <2>4, Constants DEF KeyInv, AnswerKey!TypeOK
  <2>6. keyJob'[x] = q /\ \A j \in Jobs \ {x} : keyJob'[j] = keyJob[j]
    BY <1>0, <1>1, <2>1
  <2>7. AnswerKey!TypeOK'
    BY <1>0, <1>1, <2>1, <2>2, <2>3, <2>5 DEF KeyInv, AnswerKey!TypeOK, Jobs
  <2>8. \A j \in Jobs : HoldsOwn(keyJob'[j]) /\ TextFits(keyJob[j])'
    <3> SUFFICES ASSUME NEW j \in Jobs PROVE HoldsOwn(keyJob'[j]) /\ TextFits(keyJob[j])'
      OBVIOUS
    <3>1. HoldsOwn(keyJob[j]) /\ TextFits(keyJob[j])
      BY DEF KeyInv, JobInv
    <3>2. CASE j = x
      BY <2>2, <2>3, <2>6, <3>1, <3>2 DEF HoldsOwn, KeyFits, TextFits
    <3>3. CASE j # x
      BY <2>3, <2>4, <2>6, <3>1, <3>3 DEF TextFits
    <3> QED
      BY <3>2, <3>3
  <2>9. \A y \in AnswerKey!Extractions : Extracts(y)'
    <3> SUFFICES ASSUME NEW y \in AnswerKey!Extractions PROVE Extracts(y)'
      OBVIOUS
    <3>1. Extracts(y) /\ y \in Jobs
      BY DEF KeyInv, JobInv, Jobs
    <3>2. CASE y = x
      BY <1>0, <1>2, <2>2, <2>3, <2>6, <3>2 DEF Extracts
    <3>3. CASE y # x
      BY <2>3, <2>4, <2>6, <3>1, <3>3 DEF Extracts
    <3> QED
      BY <3>2, <3>3
  <2>10. \A e \in Evaluations : keyJob'[e] = keyJob[e]
    BY <2>6, Constants DEF Jobs
  <2>11. AnswerKey!ScoredByOwnPaper' /\ \A e \in Evaluations : result'[e] # None => keyJob'[e].at = "done"
    BY <1>0, <2>10 DEF KeyInv, JobInv, AnswerKey!ScoredByOwnPaper
  <2> QED
    BY <2>3, <2>5, <2>7, <2>8, <2>9, <2>11 DEF KeyInv, JobInv, AnswerKey!KeyFitsPaper
<1> QED
  BY <1>3, <1>4

LEMMA StepExam ==
  ASSUME AnswerKey!ConstantsOK, KeyInv, NEW j \in Jobs, AnswerKey!SaveKey(j) \/ (j \in Evaluations /\ AnswerKey!LockExam(j))
  PROVE  KeyInv'
<1>0. result' = result
  BY DEF AnswerKey!SaveKey, AnswerKey!LockExam
<1>1. keyJob[j] \in AnswerKey!Job /\ keyJob \in [Jobs -> AnswerKey!Job] /\ exam \in AnswerKey!Exam /\ exam.version \in Nat
      /\ keyJob[j].version \in 0 .. MaxReplacements
  BY Constants DEF KeyInv, AnswerKey!TypeOK, Jobs, AnswerKey!Exam, AnswerKey!Job
<1>2. HoldsOwn(keyJob[j]) /\ TextFits(keyJob[j]) /\ (j \in AnswerKey!Extractions => Extracts(j))
      /\ AnswerKey!After(j) \in {"guarding", "done"}
  BY DEF KeyInv, JobInv, AnswerKey!After
\* What the two have in common.
<1>3. ASSUME NEW q \in AnswerKey!Job, keyJob' = [keyJob EXCEPT ![j] = q], q.version = keyJob[j].version,
             q.text = keyJob[j].text, HoldsOwn(q), q.at \notin {"idle", "extracting", "patching"},
             keyJob[j].at \notin {"patching", "done"}, j \in AnswerKey!Extractions => keyJob[j].at # "idle",
             exam' \in AnswerKey!Exam, exam'.version = exam.version, exam'.text = exam.text,
             exam'.key # None => exam'.text \in Objective, AnswerKey!KeyFitsPaper'
      PROVE  KeyInv'
  <2>1. keyJob'[j] = q /\ \A i \in Jobs \ {j} : keyJob'[i] = keyJob[i]
    BY <1>1, <1>3
  <2>2. AnswerKey!TypeOK'
    BY <1>0, <1>1, <1>3 DEF KeyInv, AnswerKey!TypeOK, Jobs
  <2>3. \A i \in Jobs : HoldsOwn(keyJob'[i]) /\ TextFits(keyJob[i])'
    <3> SUFFICES ASSUME NEW i \in Jobs PROVE HoldsOwn(keyJob'[i]) /\ TextFits(keyJob[i])'
      OBVIOUS
    <3>1. HoldsOwn(keyJob[i]) /\ TextFits(keyJob[i])
      BY DEF KeyInv, JobInv
    <3>2. CASE i = j
      BY <1>3, <2>1, <3>1, <3>2 DEF TextFits
    <3>3. CASE i # j
      BY <1>3, <2>1, <3>1, <3>3 DEF TextFits
    <3> QED
      BY <3>2, <3>3
  <2>4. \A y \in AnswerKey!Extractions : Extracts(y)'
    <3> SUFFICES ASSUME NEW y \in AnswerKey!Extractions PROVE Extracts(y)'
      OBVIOUS
    <3>1. Extracts(y) /\ y \in Jobs
      BY DEF KeyInv, JobInv, Jobs
    <3>2. CASE y = j
      BY <1>3, <2>1, <3>1, <3>2 DEF Extracts
    <3>3. CASE y # j
      BY <1>3, <2>1, <3>1, <3>3 DEF Extracts
    <3> QED
      BY <3>2, <3>3
  <2>5. \A e \in Evaluations : result'[e] # None => keyJob'[e].at = "done" /\ keyJob'[e] = keyJob[e]
    BY <1>0, <1>3, <2>1 DEF KeyInv, JobInv, Jobs
  <2>6. AnswerKey!ScoredByOwnPaper'
    BY <1>0, <2>5 DEF KeyInv, AnswerKey!ScoredByOwnPaper
  <2> QED
    BY <1>3, <2>2, <2>3, <2>4, <2>5, <2>6 DEF KeyInv, JobInv
<1>4. CASE AnswerKey!SaveKey(j) /\ AnswerKey!SnapshotHolds(j)
  <2> DEFINE q == [keyJob[j] EXCEPT !.at = AnswerKey!After(j)]
  <2>0. keyJob[j].at = "saving" /\ exam' = [exam EXCEPT !.key = keyJob[j].key]
        /\ keyJob' = [keyJob EXCEPT ![j] = q]
    BY <1>4 DEF AnswerKey!SaveKey, AnswerKey!Go
  <2>1. q \in AnswerKey!Job /\ q.at = AnswerKey!After(j) /\ q.version = keyJob[j].version /\ q.text = keyJob[j].text
        /\ q.seen = keyJob[j].seen /\ q.key = keyJob[j].key
    <3>1. AnswerKey!After(j) \in KeyPlaces
      BY <1>2 DEF KeyPlaces
    <3> QED
      BY <1>1, <3>1, JobGoes
  <2> HIDE DEF q
  <2>2. HoldsOwn(q)
    BY <1>2, <2>1 DEF HoldsOwn, KeyFits
  <2>3. keyJob[j].text \in Objective /\ keyJob[j].key.tag = AnswerKey!Tag(keyJob[j].version, keyJob[j].text)
        /\ keyJob[j].key.text = keyJob[j].text
    BY <1>2, <2>0 DEF HoldsOwn
  <2>4. exam.version = keyJob[j].version /\ exam.text = keyJob[j].text
    BY <1>2, <1>4, <2>0, <2>3, Constants DEF AnswerKey!SnapshotHolds, AnswerKey!Snapshot, TextFits
  <2>5. exam' \in AnswerKey!Exam /\ exam'.version = exam.version /\ exam'.text = exam.text
        /\ exam'.key = keyJob[j].key
    BY <1>1, <2>0 DEF AnswerKey!Exam, AnswerKey!Job
  <2>6. AnswerKey!KeyFitsPaper'
    BY <2>3, <2>4, <2>5 DEF AnswerKey!KeyFitsPaper
  <2> QED
    BY <1>2, <1>3, <2>0, <2>1, <2>2, <2>3, <2>4, <2>5, <2>6
<1>5. CASE AnswerKey!SaveKey(j) /\ ~AnswerKey!SnapshotHolds(j)
  <2> DEFINE q == [keyJob[j] EXCEPT !.at = AnswerKey!After(j), !.key = None]
  <2>0. keyJob[j].at = "saving" /\ exam' = exam /\ keyJob' = [keyJob EXCEPT ![j] = q]
    BY <1>5 DEF AnswerKey!SaveKey
  <2>1. q \in AnswerKey!Job /\ q.at = AnswerKey!After(j) /\ q.version = keyJob[j].version /\ q.text = keyJob[j].text
        /\ q.seen = keyJob[j].seen /\ q.key = None
    <3>1. AnswerKey!After(j) \in KeyPlaces
      BY <1>2 DEF KeyPlaces
    <3> QED
      BY <1>1, <3>1, JobGoesKeyless
  <2> HIDE DEF q
  <2>2. HoldsOwn(q)
    BY <1>2, <2>1 DEF HoldsOwn, KeyFits
  <2> QED
    BY <1>1, <1>2, <1>3, <2>0, <2>1, <2>2 DEF KeyInv, AnswerKey!TypeOK, AnswerKey!KeyFitsPaper
<1>6. CASE j \in Evaluations /\ AnswerKey!LockExam(j)
  <2> DEFINE q == [keyJob[j] EXCEPT !.at = "locked"]
  <2>0. keyJob[j].at = "idle" /\ exam' = [exam EXCEPT !.locked = TRUE] /\ keyJob' = [keyJob EXCEPT ![j] = q]
        /\ j \notin AnswerKey!Extractions
    BY <1>6, Constants DEF AnswerKey!LockExam, AnswerKey!Go
  <2>1. q \in AnswerKey!Job /\ q.at = "locked" /\ q.version = keyJob[j].version /\ q.text = keyJob[j].text
        /\ q.seen = keyJob[j].seen /\ q.key = keyJob[j].key
    <3>1. "locked" \in KeyPlaces
      BY DEF KeyPlaces
    <3> QED
      BY <1>1, <3>1, JobGoes
  <2> HIDE DEF q
  <2>2. HoldsOwn(q)
    BY <1>2, <2>0, <2>1 DEF HoldsOwn, KeyFits
  <2>3. exam' \in AnswerKey!Exam /\ exam'.version = exam.version /\ exam'.text = exam.text
        /\ exam'.key = exam.key
    BY <1>1, <2>0 DEF AnswerKey!Exam
  <2>4. AnswerKey!KeyFitsPaper' /\ (exam'.key # None => exam'.text \in Objective)
    BY <2>3 DEF KeyInv, AnswerKey!TypeOK, AnswerKey!KeyFitsPaper
  <2> QED
    BY <1>3, <2>0, <2>1, <2>2, <2>3, <2>4
<1> QED
  BY <1>4, <1>5, <1>6

LEMMA KeyStep ==
  ASSUME AnswerKey!ConstantsOK, KeyInv, [AnswerKey!Next]_AnswerKey!vars
  PROVE  KeyInv'
<1>1. CASE AnswerKey!ReplacePaper
  BY <1>1, StepReplace
<1>2. ASSUME NEW x \in AnswerKey!Extractions, AnswerKey!Extract(x) \/ AnswerKey!PatchText(x) PROVE KeyInv'
  BY <1>2, StepExtract, StepPatch
<1>3. ASSUME NEW j \in Jobs, AnswerKey!Resolve(j) PROVE KeyInv'
  BY <1>3, StepResolve, StepExam DEF AnswerKey!Resolve
<1>4. ASSUME NEW e \in Evaluations,
             AnswerKey!LockExam(e) \/ AnswerKey!ReadExam(e) \/ AnswerKey!SelectKey(e) \/ AnswerKey!GuardPaper(e) \/ AnswerKey!Grade(e)
      PROVE  KeyInv'
  BY <1>4, StepExam, StepGrading, StepGrade DEF Jobs
<1>5. CASE UNCHANGED AnswerKey!vars
  BY <1>5 DEF AnswerKey!vars, KeyInv, AnswerKey!TypeOK, JobInv, TextFits, Extracts, AnswerKey!KeyFitsPaper, AnswerKey!ScoredByOwnPaper
<1> QED
  BY <1>1, <1>2, <1>3, <1>4, <1>5 DEF AnswerKey!Next, Jobs

LEMMA KeyHolds ==
  ASSUME KeyInv
  PROVE  AnswerKey!TypeOK /\ AnswerKey!KeyFitsPaper /\ AnswerKey!ScoredByOwnPaper
BY DEF KeyInv

-----------------------------------------------------------------------------
\* Scripts: the inductive invariant.  Pages are read in order: what lies behind the
\* page being read is whole, what lies before it was not asked for, and its
\* event is open for as long as it is read.

SplitInv ==
  phase = "split" =>
    /\ page = [no |-> 1, attempt |-> 1, known |-> TRUE]
    /\ seen.whole = {}
    /\ \A e \in Script!Events : ledger[e] = None

ReadingInv ==
  phase = "reading" =>
    /\ page.no \in 1 .. script.pages
    /\ seen.whole = 1 .. page.no - 1
    /\ \A e \in Script!Pages : e > page.no => ledger[e] = None
    /\ ledger[page.no] = None => page.attempt = 1
    /\ ledger[page.no] # None => /\ ledger[page.no] = Script!Started
                                 /\ sent[page.no] = page.attempt - 1

GradingInv == phase \in {"grading", "marked"} => seen.whole = 1 .. script.pages

RowInv ==
  row # None =>
    /\ phase = "marked"
    /\ row.marks > 0 =>
         \/ row.flagged
         \/ reply.quoted /\ script.key = "open"
         \/ seen.selections = {script.key}
    /\ row.unanswered => row.marks = 0

ScriptInv ==
  /\ Script!TypeOK
  /\ IsFiniteSet(seen.selections)
  /\ Script!ChargesAreExact
  /\ SplitInv
  /\ ReadingInv
  /\ GradingInv
  /\ RowInv

-----------------------------------------------------------------------------
\* Scripts: operators

\* A page is an event, and neither the grading nor the transcript is a page.
LEMMA EventKinds ==
  ASSUME Script!ConstantsOK
  PROVE  /\ Script!Pages \subseteq Script!Events
         /\ Script!Grading \in Script!Events \ Script!Pages
         /\ Script!Transcript \in Script!Events \ Script!Pages
         /\ Script!Grading # Script!Transcript
BY DEF Script!ConstantsOK, Script!Pages, Script!Events, Script!Grading, Script!Transcript

\* An event that was opened says nothing about what was spent.
LEMMA StartedCharge ==
  ASSUME Script!ConstantsOK
  PROVE  Script!Started \in Script!Charges /\ Script!Started # None /\ ~Script!Started.known
<1>1. Script!Started \in Script!Charges /\ ~Script!Started.known
  BY DEF Script!Started, Script!Charges
<1>2. None \notin Script!Charges
  BY DEF Script!ConstantsOK
<1> QED
  BY <1>1, <1>2

LEMMA MarkBound ==
  ASSUME Script!ConstantsOK
  PROVE  MaxMark \in Nat \ {0} /\ MaxPages \in Nat \ {0}
BY DEF Script!ConstantsOK

\* What is selected: nothing, something unreadable, or the one selection seen.
LEMMA SelectionMeans ==
  ASSUME IsFiniteSet(seen.selections)
  PROVE  \/ Script!Selection \in {"none", "unclear"}
         \/ seen.selections = {Script!Selection}
<1>1. CASE seen.selections = {}
  BY <1>1 DEF Script!Selection
<1>2. CASE Cardinality(seen.selections) > 1
  BY <1>2, SameCardinality DEF Script!Selection
<1>3. CASE seen.selections # {} /\ ~(Cardinality(seen.selections) > 1)
  <2>1. Cardinality(seen.selections) \in Nat /\ Cardinality(seen.selections) # 0
    BY <1>3, FS_CardinalityType, FS_EmptySet
  <2>2. Cardinality(seen.selections) = 1
    BY <1>3, <2>1
  <2>3. PICK s : seen.selections = {s}
    BY <2>2, FS_Singleton
  <2>4. Script!Selection = CHOOSE x \in seen.selections : TRUE
    BY <1>3, SameCardinality DEF Script!Selection
  <2> QED
    BY <2>3, <2>4
<1> QED
  BY <1>1, <1>2, <1>3

\* A row that is marked has the marks of the question and is supported.
LEMMA ScoredRow ==
  ASSUME Script!ConstantsOK, Script!TypeOK, IsFiniteSet(seen.selections), reply # None, Script!Valid(reply)
  PROVE  /\ Script!Scored \in Script!Marked
         /\ Script!Scored.marks > 0 =>
              \/ Script!Scored.flagged
              \/ reply.quoted /\ script.key = "open"
              \/ seen.selections = {script.key}
         /\ Script!Scored.unanswered => Script!Scored.marks = 0
<1>1. /\ reply.marks \in 0 .. MaxMark /\ reply.unanswered \in BOOLEAN /\ reply.quoted \in BOOLEAN
      /\ reply.unanswered => reply.marks = 0
  BY DEF Script!TypeOK, Script!Valid, Script!Replies
<1>2. script.key \in Letters \cup {"open", "unsure"}
  BY DEF Script!TypeOK, Script!Keys
<1>3. MaxMark \in Nat \ {0}
  BY DEF Script!ConstantsOK
<1>4. CASE script.key = "open"
  <2>1. Script!Scored = [marks |-> reply.marks, unanswered |-> reply.unanswered,
                  flagged |-> reply.marks > 0 /\ ~reply.quoted]
    BY <1>4 DEF Script!Scored
  <2> QED
    BY <1>1, <1>4, <2>1 DEF Script!Marked
<1>5. CASE script.key # "open" /\ (script.key = "unsure" \/ Script!Selection \in {"none", "unclear"})
  <2>1. Script!Scored = [marks |-> reply.marks, unanswered |-> reply.unanswered, flagged |-> TRUE]
    BY <1>5 DEF Script!Scored
  <2> QED
    BY <1>1, <2>1 DEF Script!Marked
<1>6. CASE script.key \notin {"open", "unsure"} /\ Script!Selection \notin {"none", "unclear"}
  <2>1. Script!Scored = [marks |-> IF Script!Selection = script.key THEN MaxMark ELSE 0,
                  unanswered |-> Script!Selection = "blank", flagged |-> FALSE]
    BY <1>6 DEF Script!Scored
  <2>2. script.key # "blank"
    BY <1>2, <1>6 DEF Script!ConstantsOK
  <2>3. seen.selections = {Script!Selection}
    BY <1>6, SelectionMeans
  <2>4. /\ Script!Scored.marks = IF Script!Selection = script.key THEN MaxMark ELSE 0
        /\ Script!Scored.unanswered = (Script!Selection = "blank")
        /\ Script!Scored.flagged = FALSE
    BY <2>1
  <2>5. Script!Scored \in Script!Marked
    BY <1>3, <2>1 DEF Script!Marked
  <2>6. Script!Scored.marks > 0 => seen.selections = {script.key}
    BY <2>3, <2>4
  <2>7. Script!Scored.unanswered => Script!Scored.marks = 0
    BY <2>2, <2>4
  <2> QED
    BY <2>5, <2>6, <2>7
<1> QED
  BY <1>4, <1>5, <1>6

-----------------------------------------------------------------------------
\* The invariant holds

LEMMA ScriptInit ==
  ASSUME Script!ConstantsOK, Script!Init
  PROVE  ScriptInv
<1>1. MaxPages \in Nat \ {0}
  BY DEF Script!ConstantsOK
<1>2. Script!TypeOK
  BY <1>1 DEF Script!Init, Script!TypeOK, Script!Pages
<1>3. IsFiniteSet(seen.selections)
  BY FS_EmptySet DEF Script!Init
<1>4. Script!ChargesAreExact
  BY DEF Script!Init, Script!ChargesAreExact
<1> QED
  BY <1>2, <1>3, <1>4 DEF Script!Init, ScriptInv, SplitInv, ReadingInv, GradingInv, RowInv

\* The last row of a behaviour is written at its end: before that there is none.
LEMMA NoRowYet ==
  ASSUME ScriptInv, phase \in {"split", "reading", "grading"}
  PROVE  row = None
BY DEF ScriptInv, RowInv

LEMMA StepSplit ==
  ASSUME Script!ConstantsOK, ScriptInv, Script!Split
  PROVE  ScriptInv'
<1>1. phase = "split" /\ phase' \in {"reading", "failed"}
      /\ UNCHANGED <<script, page, seen, ledger, sent, reply, row>>
  BY DEF Script!Split
<1>2. Script!TypeOK' /\ IsFiniteSet(seen.selections)' /\ Script!ChargesAreExact'
  BY <1>1 DEF ScriptInv, Script!TypeOK, Script!ChargesAreExact
<1>3. row' = None
  BY <1>1, NoRowYet
<1>4. ReadingInv'
  <2> SUFFICES ASSUME phase' = "reading" PROVE ReadingInv'
    BY DEF ReadingInv
  <2>1. page.no = 1 /\ page.attempt = 1 /\ seen.whole = {} /\ \A e \in Script!Events : ledger[e] = None
    BY <1>1 DEF ScriptInv, SplitInv
  <2>2. script.pages \in 1 .. MaxPages /\ MaxPages \in Nat
    BY MarkBound DEF ScriptInv, Script!TypeOK, Script!Pages
  <2>3. 1 \in Script!Events /\ Script!Pages \subseteq Script!Events
    BY <2>2, EventKinds DEF Script!Pages
  <2>4. page'.no \in 1 .. script'.pages /\ seen'.whole = 1 .. page'.no - 1
    BY <1>1, <2>1, <2>2
  <2> QED
    BY <1>1, <2>1, <2>3, <2>4 DEF ReadingInv
<1> QED
  BY <1>1, <1>2, <1>3, <1>4 DEF ScriptInv, SplitInv, GradingInv, RowInv

LEMMA StepOpenPage ==
  ASSUME Script!ConstantsOK, ScriptInv, Script!OpenPage
  PROVE  ScriptInv'
<1>1. /\ phase = "reading" /\ ledger[page.no] = None
      /\ ledger' = [ledger EXCEPT ![page.no] = Script!Started]
      /\ UNCHANGED <<script, phase, page, seen, sent, reply, row>>
  BY DEF Script!OpenPage, Script!Records, Script!Started
<1>2. page.no \in Script!Pages /\ page.no \in Script!Events
  BY <1>1, EventKinds DEF ScriptInv, ReadingInv, Script!TypeOK, Script!Pages, Script!ConstantsOK
<1>3. Script!Started \in Script!Charges /\ Script!Started # None
  BY StartedCharge
<1>4. Script!TypeOK'
  BY <1>1, <1>3 DEF ScriptInv, Script!TypeOK
<1>5. sent[page.no] = 0
  BY <1>1, <1>2 DEF ScriptInv, Script!ChargesAreExact, Script!TypeOK
<1>6. Script!ChargesAreExact'
  BY <1>1, <1>2, <1>3 DEF ScriptInv, Script!ChargesAreExact, Script!TypeOK, Script!Started
<1>7. ReadingInv'
  BY <1>1, <1>2, <1>3, <1>5 DEF ScriptInv, ReadingInv, Script!TypeOK, Script!Pages
<1>8. row' = None
  BY <1>1, NoRowYet
<1> QED
  BY <1>1, <1>4, <1>6, <1>7, <1>8 DEF ScriptInv, SplitInv, GradingInv, RowInv

\* The event of the page being read is open.
LEMMA PageOpen ==
  ASSUME Script!ConstantsOK, ScriptInv, Script!AtPage
  PROVE  /\ page.no \in Script!Pages /\ page.no \in Script!Events /\ page.no \in 1 .. script.pages
         /\ script.pages \in Script!Pages /\ MaxPages \in Nat
         /\ page.attempt \in {1, 2} /\ page.known \in BOOLEAN
         /\ ledger[page.no] = Script!Started /\ sent[page.no] = page.attempt - 1
         /\ seen.whole = 1 .. page.no - 1
         /\ \A e \in Script!Pages : e > page.no => ledger[e] = None
         /\ phase = "reading" /\ row = None
<1>1. phase = "reading" /\ ledger[page.no] # None /\ row = None
  BY NoRowYet DEF Script!AtPage
<1>2. script.pages \in Script!Pages /\ page.attempt \in {1, 2} /\ page.known \in BOOLEAN
  BY DEF ScriptInv, Script!TypeOK
<1>3. page.no \in 1 .. script.pages /\ MaxPages \in Nat
  BY <1>1 DEF ScriptInv, ReadingInv, Script!ConstantsOK
<1>4. page.no \in Script!Pages
  BY <1>2, <1>3 DEF Script!Pages
<1> QED
  BY <1>1, <1>2, <1>3, <1>4, EventKinds DEF ScriptInv, ReadingInv

\* A call about the page that is recorded: so many attempts, or it is not known.
LEMMA RecordsExactly ==
  ASSUME Script!ConstantsOK, ScriptInv, Script!AtPage,
         NEW calls \in 0 .. 2, NEW known \in BOOLEAN,
         known => calls = page.attempt,
         Script!Sends(page.no), Script!Records(page.no, calls, known)
  PROVE  /\ Script!ChargesAreExact'
         /\ ledger' \in [Script!Events -> Script!Charges \cup {None}]
         /\ sent' \in [Script!Events -> 0 .. 2]
         /\ \A e \in Script!Events \ {page.no} : ledger'[e] = ledger[e] /\ sent'[e] = sent[e]
<1> DEFINE c == [calls |-> calls, known |-> known]
<1>1. c \in Script!Charges /\ c # None /\ c.calls = calls /\ c.known = known
  BY DEF Script!Charges, Script!ConstantsOK
<1>2. ledger' = [ledger EXCEPT ![page.no] = c] /\ sent' = [sent EXCEPT ![page.no] = @ + 1]
  BY DEF Script!Records, Script!Sends
<1>3. /\ ledger \in [Script!Events -> Script!Charges \cup {None}]
      /\ sent \in [Script!Events -> 0 .. 2]
  BY DEF ScriptInv, Script!TypeOK
<1>4. page.no \in Script!Events /\ page.no \in Script!Pages /\ page.attempt \in {1, 2}
      /\ sent[page.no] = page.attempt - 1
  BY PageOpen
<1> HIDE DEF c
<1>5. ledger' \in [Script!Events -> Script!Charges \cup {None}] /\ sent' \in [Script!Events -> 0 .. 2]
  BY <1>1, <1>2, <1>3, <1>4
<1>6. /\ ledger'[page.no] = c /\ sent'[page.no] = page.attempt
      /\ \A e \in Script!Events \ {page.no} : ledger'[e] = ledger[e] /\ sent'[e] = sent[e]
  BY <1>2, <1>3, <1>4
<1>7. Script!ChargesAreExact'
  BY <1>1, <1>4, <1>6 DEF ScriptInv, Script!ChargesAreExact, Script!Pages
<1> QED
  BY <1>5, <1>6, <1>7

LEMMA StepReadWhole ==
  ASSUME Script!ConstantsOK, ScriptInv,
         NEW selection \in {{}} \cup {{r} : r \in Script!Readings},
         NEW unreadable \in BOOLEAN, NEW known \in BOOLEAN,
         Script!ReadWhole(selection, unreadable, known)
  PROVE  ScriptInv'
<1>1. /\ Script!AtPage
      /\ Script!Sends(page.no)
      /\ Script!Records(page.no, page.attempt, Script!Knows(known))
      /\ seen' = [selections |-> seen.selections \cup selection,
                  whole |-> seen.whole \cup {page.no},
                  unreadable |-> seen.unreadable \/ unreadable]
      /\ page' = [no |-> page.no + 1, attempt |-> 1, known |-> TRUE]
      /\ phase' = IF page.no = script.pages THEN "grading" ELSE "reading"
      /\ UNCHANGED <<script, reply, row>>
  BY DEF Script!ReadWhole, Script!NextPage
<1>2. /\ page.no \in Script!Pages /\ page.no \in 1 .. script.pages /\ script.pages \in 1 .. MaxPages
      /\ MaxPages \in Nat /\ page.attempt \in 0 .. 2 /\ page.known \in BOOLEAN
      /\ seen.whole = 1 .. page.no - 1 /\ row = None
      /\ \A e \in Script!Pages : e > page.no => ledger[e] = None
  BY <1>1, PageOpen DEF Script!Pages
<1>3. Script!Knows(known) \in BOOLEAN
  BY <1>2 DEF Script!Knows
<1>4. /\ Script!ChargesAreExact'
      /\ ledger' \in [Script!Events -> Script!Charges \cup {None}]
      /\ sent' \in [Script!Events -> 0 .. 2]
      /\ \A e \in Script!Events \ {page.no} : ledger'[e] = ledger[e] /\ sent'[e] = sent[e]
  BY <1>1, <1>2, <1>3, RecordsExactly
<1>5. seen'.whole = 1 .. page.no /\ seen'.selections = seen.selections \cup selection
  BY <1>1, <1>2
<1>6. selection \subseteq Script!Readings /\ IsFiniteSet(selection)
  BY FS_EmptySet, FS_Singleton
<1>7. IsFiniteSet(seen'.selections)
  <2>1. IsFiniteSet(seen.selections)
    BY DEF ScriptInv
  <2>2. IsFiniteSet(seen.selections \cup selection)
    BY <1>6, <2>1, FS_Union
  <2> QED
    BY <1>5, <2>2
<1>8. Script!TypeOK'
  <2>1. seen' \in [selections : SUBSET Script!Readings, whole : SUBSET Script!Pages, unreadable : BOOLEAN]
    BY <1>1, <1>2, <1>6 DEF ScriptInv, Script!TypeOK, Script!Pages
  <2>2. page' \in [no : 1 .. MaxPages + 1, attempt : {1, 2}, known : BOOLEAN]
    BY <1>1, <1>2
  <2> QED
    BY <1>1, <1>4, <2>1, <2>2 DEF ScriptInv, Script!TypeOK
<1>9. ReadingInv'
  <2> SUFFICES ASSUME phase' = "reading" PROVE ReadingInv'
    BY DEF ReadingInv
  <2>1. page.no # script.pages
    BY <1>1
  <2>2. page'.no = page.no + 1 /\ page'.attempt = 1 /\ page'.no \in 1 .. script'.pages
    BY <1>1, <1>2, <2>1
  <2>3. \A e \in Script!Pages : e > page.no => ledger'[e] = None
    BY <1>2, <1>4, EventKinds DEF Script!Pages
  <2>4. page'.no \in Script!Pages
    BY <1>1, <1>2, <2>2 DEF Script!Pages
  <2>5. ledger'[page'.no] = None
    BY <1>2, <2>2, <2>3, <2>4 DEF Script!Pages
  <2>6. \A e \in Script!Pages : e > page'.no => ledger'[e] = None
    BY <1>2, <2>2, <2>3 DEF Script!Pages
  <2>7. seen'.whole = 1 .. page'.no - 1
    BY <1>2, <1>5, <2>2
  <2> QED
    BY <2>2, <2>5, <2>6, <2>7 DEF ReadingInv
<1>10. GradingInv'
  BY <1>1, <1>5 DEF GradingInv
<1> QED
  BY <1>1, <1>2, <1>4, <1>7, <1>8, <1>9, <1>10 DEF ScriptInv, SplitInv, RowInv

LEMMA StepReadAgain ==
  ASSUME Script!ConstantsOK, ScriptInv, NEW known \in BOOLEAN, Script!ReadAgain(known)
  PROVE  ScriptInv'
<1>1. /\ Script!AtPage /\ page.attempt = 1
      /\ sent' = [sent EXCEPT ![page.no] = @ + 1]
      /\ page' = [page EXCEPT !.attempt = 2, !.known = known]
      /\ UNCHANGED <<script, phase, seen, ledger, reply, row>>
  BY DEF Script!ReadAgain, Script!Sends
<1>2. /\ page.no \in Script!Events /\ page.no \in Script!Pages /\ ledger[page.no] = Script!Started
      /\ sent[page.no] = 0 /\ phase = "reading" /\ row = None
  BY <1>1, PageOpen
<1>3. Script!Started # None /\ ~Script!Started.known
  BY StartedCharge
<1>4. sent \in [Script!Events -> 0 .. 2] /\ page \in [no : 1 .. MaxPages + 1, attempt : {1, 2}, known : BOOLEAN]
  BY DEF ScriptInv, Script!TypeOK
<1>5. sent' \in [Script!Events -> 0 .. 2] /\ sent'[page.no] = 1
      /\ \A e \in Script!Events \ {page.no} : sent'[e] = sent[e]
  BY <1>1, <1>2, <1>4
<1>6. page' \in [no : 1 .. MaxPages + 1, attempt : {1, 2}, known : BOOLEAN]
      /\ page'.no = page.no /\ page'.attempt = 2
  BY <1>1, <1>4
<1>7. Script!TypeOK'
  BY <1>1, <1>5, <1>6 DEF ScriptInv, Script!TypeOK
<1>8. Script!ChargesAreExact'
  BY <1>1, <1>2, <1>3, <1>5 DEF ScriptInv, Script!ChargesAreExact
<1>9. ReadingInv'
  BY <1>1, <1>2, <1>3, <1>5, <1>6 DEF ScriptInv, ReadingInv
<1> QED
  BY <1>1, <1>2, <1>7, <1>8, <1>9 DEF ScriptInv, SplitInv, GradingInv, RowInv

\* A page that ends the job, charged for its attempts or not known.
LEMMA StepFailPage ==
  ASSUME Script!ConstantsOK, ScriptInv, Script!AtPage,
         NEW calls \in 0 .. 2, NEW known \in BOOLEAN,
         known => calls = page.attempt,
         Script!Sends(page.no), Script!Records(page.no, calls, known),
         phase' = "failed", UNCHANGED <<script, page, seen, reply, row>>
  PROVE  ScriptInv'
<1>1. /\ Script!ChargesAreExact'
      /\ ledger' \in [Script!Events -> Script!Charges \cup {None}]
      /\ sent' \in [Script!Events -> 0 .. 2]
  BY RecordsExactly
<1>2. Script!TypeOK' /\ IsFiniteSet(seen.selections)'
  BY <1>1 DEF ScriptInv, Script!TypeOK
<1>3. row' = None
  BY PageOpen
<1> QED
  BY <1>1, <1>2, <1>3 DEF ScriptInv, SplitInv, ReadingInv, GradingInv, RowInv

LEMMA StepRejectPage ==
  ASSUME Script!ConstantsOK, ScriptInv, NEW cut \in BOOLEAN, NEW known \in BOOLEAN, Script!RejectPage(cut, known)
  PROVE  ScriptInv'
<1>1. /\ Script!AtPage /\ Script!Sends(page.no) /\ Script!Records(page.no, page.attempt, Script!Knows(known))
      /\ phase' = "failed" /\ UNCHANGED <<script, page, seen, reply, row>>
  BY DEF Script!RejectPage
<1>2. page.attempt \in 0 .. 2 /\ Script!Knows(known) \in BOOLEAN
  BY <1>1, PageOpen DEF Script!Knows
<1> QED
  BY <1>1, <1>2, StepFailPage

LEMMA StepPageFails ==
  ASSUME Script!ConstantsOK, ScriptInv, Script!PageFails
  PROVE  ScriptInv'
<1>1. /\ Script!AtPage /\ Script!Sends(page.no) /\ Script!Records(page.no, page.attempt - 1, FALSE)
      /\ phase' = "failed" /\ UNCHANGED <<script, page, seen, reply, row>>
  BY DEF Script!PageFails, Script!KnownAfterError
<1>2. page.attempt - 1 \in 0 .. 2
  BY <1>1, PageOpen
<1> QED
  BY <1>1, <1>2, StepFailPage

LEMMA StepOpen ==
  ASSUME Script!ConstantsOK, ScriptInv, NEW e \in {Script!Grading, Script!Transcript}, Script!Open(e)
  PROVE  ScriptInv'
<1>1. /\ phase = "grading" /\ ledger[e] = None
      /\ ledger' = [ledger EXCEPT ![e] = Script!Started]
      /\ UNCHANGED <<script, phase, page, seen, sent, reply, row>>
  BY DEF Script!Open, Script!Records, Script!Started
<1>2. Script!Started \in Script!Charges /\ Script!Started # None /\ ~Script!Started.known
  BY StartedCharge
<1>3. Script!TypeOK'
  BY <1>1, <1>2 DEF ScriptInv, Script!TypeOK
<1>4. Script!ChargesAreExact'
  BY <1>1, <1>2 DEF ScriptInv, Script!ChargesAreExact, Script!TypeOK
<1>5. row' = None
  BY <1>1, NoRowYet
<1> QED
  BY <1>1, <1>3, <1>4, <1>5 DEF ScriptInv, SplitInv, ReadingInv, GradingInv, RowInv

\* One call about an event that is no page, answered or not.
LEMMA CallOnce ==
  ASSUME Script!ConstantsOK, ScriptInv, NEW e \in {Script!Grading, Script!Transcript}, Script!Waiting(e),
         Script!Sends(e), Script!Answered(e) \/ Script!Unanswered(e)
  PROVE  /\ Script!ChargesAreExact'
         /\ ledger' \in [Script!Events -> Script!Charges \cup {None}]
         /\ sent' \in [Script!Events -> 0 .. 2]
<1>1. /\ e \in Script!Events \ Script!Pages /\ ledger[e] = Script!Started /\ sent[e] = 0
      /\ sent' = [sent EXCEPT ![e] = @ + 1]
  BY EventKinds DEF Script!Waiting, Script!Sends
<1>2. /\ ledger \in [Script!Events -> Script!Charges \cup {None}]
      /\ sent \in [Script!Events -> 0 .. 2]
  BY DEF ScriptInv, Script!TypeOK
<1>3. sent' \in [Script!Events -> 0 .. 2] /\ sent'[e] = 1
      /\ \A x \in Script!Events \ {e} : sent'[x] = sent[x]
  BY <1>1, <1>2
<1>4. CASE Script!Unanswered(e)
  <2>1. Script!Started # None /\ ~Script!Started.known
    BY StartedCharge
  <2>2. ledger' = ledger
    BY <1>4 DEF Script!Unanswered
  <2> QED
    BY <1>1, <1>2, <1>3, <2>1, <2>2 DEF ScriptInv, Script!ChargesAreExact
<1>5. CASE Script!Answered(e)
  <2>1. PICK known \in BOOLEAN : ledger' = [ledger EXCEPT ![e] = [calls |-> 1, known |-> known]]
    BY <1>5 DEF Script!Answered, Script!Records
  <2> DEFINE c == [calls |-> 1, known |-> known]
  <2>2. c \in Script!Charges /\ c # None /\ c.calls = 1
    BY DEF Script!Charges, Script!ConstantsOK
  <2>3. ledger' = [ledger EXCEPT ![e] = c]
    BY <2>1
  <2> HIDE DEF c
  <2>4. ledger' \in [Script!Events -> Script!Charges \cup {None}] /\ ledger'[e] = c
        /\ \A x \in Script!Events \ {e} : ledger'[x] = ledger[x]
    BY <1>1, <1>2, <2>2, <2>3
  <2>5. Script!ChargesAreExact'
    BY <1>1, <1>3, <2>2, <2>4 DEF ScriptInv, Script!ChargesAreExact
  <2> QED
    BY <1>3, <2>4, <2>5
<1> QED
  BY <1>4, <1>5

LEMMA StepGradeReply ==
  ASSUME Script!ConstantsOK, ScriptInv, NEW graded \in Script!Replies, Script!GradeReply(graded)
  PROVE  ScriptInv'
<1>1. /\ Script!Waiting(Script!Grading) /\ Script!Sends(Script!Grading) /\ reply' = graded
      /\ Script!Answered(Script!Grading) \/ Script!Unanswered(Script!Grading)
      /\ UNCHANGED <<script, phase, page, seen, row>>
  BY DEF Script!GradeReply
<1>2. phase = "grading"
  BY <1>1 DEF Script!Waiting
<1>3. /\ Script!ChargesAreExact'
      /\ ledger' \in [Script!Events -> Script!Charges \cup {None}]
      /\ sent' \in [Script!Events -> 0 .. 2]
  BY <1>1, CallOnce
<1>4. Script!TypeOK' /\ IsFiniteSet(seen.selections)'
  BY <1>1, <1>3 DEF ScriptInv, Script!TypeOK
<1>5. row' = None
  BY <1>1, <1>2, NoRowYet
<1> QED
  BY <1>1, <1>2, <1>3, <1>4, <1>5 DEF ScriptInv, SplitInv, ReadingInv, GradingInv, RowInv

LEMMA StepTranscriptReply ==
  ASSUME Script!ConstantsOK, ScriptInv, Script!TranscriptReply
  PROVE  ScriptInv'
<1>1. /\ Script!Waiting(Script!Transcript) /\ Script!Sends(Script!Transcript)
      /\ Script!Answered(Script!Transcript) \/ Script!Unanswered(Script!Transcript)
      /\ UNCHANGED <<script, phase, page, seen, reply, row>>
  BY DEF Script!TranscriptReply
<1>2. phase = "grading"
  BY <1>1 DEF Script!Waiting
<1>3. /\ Script!ChargesAreExact'
      /\ ledger' \in [Script!Events -> Script!Charges \cup {None}]
      /\ sent' \in [Script!Events -> 0 .. 2]
  BY <1>1, CallOnce
<1>4. Script!TypeOK' /\ IsFiniteSet(seen.selections)'
  BY <1>1, <1>3 DEF ScriptInv, Script!TypeOK
<1>5. row' = None
  BY <1>1, <1>2, NoRowYet
<1> QED
  BY <1>1, <1>2, <1>3, <1>4, <1>5 DEF ScriptInv, SplitInv, ReadingInv, GradingInv, RowInv

LEMMA StepMark ==
  ASSUME Script!ConstantsOK, ScriptInv, Script!Mark
  PROVE  ScriptInv'
<1>1. phase = "grading" /\ reply # None
      /\ UNCHANGED <<script, page, seen, ledger, sent, reply>>
  BY DEF Script!Mark
<1>2. IsFiniteSet(seen.selections)' /\ Script!ChargesAreExact'
  BY <1>1 DEF ScriptInv, Script!ChargesAreExact
<1>3. CASE ~Script!Valid(reply)
  <2>1. row' = row /\ phase' = "failed" /\ row = None
    BY <1>1, <1>3, NoRowYet DEF Script!Mark
  <2> QED
    BY <1>1, <1>2, <2>1 DEF ScriptInv, Script!TypeOK, SplitInv, ReadingInv, GradingInv, RowInv
<1>4. CASE Script!Valid(reply)
  <2>1. row' = [Script!Scored EXCEPT !.flagged = @ \/ seen.unreadable] /\ phase' = "marked"
    BY <1>4 DEF Script!Mark
  <2>2. /\ Script!Scored \in Script!Marked
        /\ Script!Scored.marks > 0 =>
             \/ Script!Scored.flagged
             \/ reply.quoted /\ script.key = "open"
             \/ seen.selections = {script.key}
        /\ Script!Scored.unanswered => Script!Scored.marks = 0
    BY <1>1, <1>4, ScoredRow DEF ScriptInv
  <2>3. seen.unreadable \in BOOLEAN
    BY DEF ScriptInv, Script!TypeOK
  <2>4. /\ row' \in Script!Marked
        /\ row'.marks = Script!Scored.marks /\ row'.unanswered = Script!Scored.unanswered
        /\ row'.flagged = (Script!Scored.flagged \/ seen.unreadable)
    BY <2>1, <2>2, <2>3 DEF Script!Marked
  <2>5. Script!TypeOK'
    BY <1>1, <2>1, <2>4 DEF ScriptInv, Script!TypeOK
  <2>6. RowInv'
    BY <1>1, <2>1, <2>2, <2>4 DEF RowInv
  <2>7. GradingInv'
    BY <1>1, <2>1 DEF ScriptInv, GradingInv
  <2> QED
    BY <1>2, <2>1, <2>5, <2>6, <2>7 DEF ScriptInv, SplitInv, ReadingInv
<1> QED
  BY <1>3, <1>4

LEMMA StepInterrupt ==
  ASSUME ScriptInv, Script!Interrupt
  PROVE  ScriptInv'
<1>1. /\ phase \in {"split", "reading", "grading"} /\ phase' = "interrupted"
      /\ UNCHANGED <<script, page, seen, ledger, sent, reply, row>>
  BY DEF Script!Interrupt
<1>2. Script!TypeOK' /\ IsFiniteSet(seen.selections)' /\ Script!ChargesAreExact'
  BY <1>1 DEF ScriptInv, Script!TypeOK, Script!ChargesAreExact
<1>3. row' = None
  BY <1>1, NoRowYet
<1> QED
  BY <1>1, <1>2, <1>3 DEF ScriptInv, SplitInv, ReadingInv, GradingInv, RowInv

LEMMA ScriptStep ==
  ASSUME Script!ConstantsOK, ScriptInv, [Script!Next]_Script!vars
  PROVE  ScriptInv'
<1>1. CASE Script!Split
  BY <1>1, StepSplit
<1>2. CASE Script!OpenPage
  BY <1>2, StepOpenPage
<1>3. ASSUME NEW selection \in {{}} \cup {{r} : r \in Script!Readings},
             NEW unreadable \in BOOLEAN, NEW known \in BOOLEAN,
             Script!ReadWhole(selection, unreadable, known)
      PROVE  ScriptInv'
  BY <1>3, StepReadWhole
<1>4. ASSUME NEW known \in BOOLEAN, Script!ReadAgain(known) PROVE ScriptInv'
  BY <1>4, StepReadAgain
<1>5. ASSUME NEW cut \in BOOLEAN, NEW known \in BOOLEAN, Script!RejectPage(cut, known) PROVE ScriptInv'
  BY <1>5, StepRejectPage
<1>6. CASE Script!PageFails
  BY <1>6, StepPageFails
<1>7. ASSUME NEW e \in {Script!Grading, Script!Transcript}, Script!Open(e) PROVE ScriptInv'
  BY <1>7, StepOpen
<1>8. ASSUME NEW graded \in {r \in Script!Replies : Script!Valid(r)} \cup {Script!Malformed, Script!Contradictory},
             Script!GradeReply(graded)
      PROVE  ScriptInv'
  <2>1. graded \in Script!Replies
    <3>1. Script!Malformed \in Script!Replies
      BY MarkBound DEF Script!Replies, Script!Malformed
    <3>2. Script!Contradictory \in Script!Replies
      BY MarkBound DEF Script!Replies, Script!Contradictory
    <3> QED
      BY <3>1, <3>2
  <2> QED
    BY <1>8, <2>1, StepGradeReply
<1>9. CASE Script!TranscriptReply
  BY <1>9, StepTranscriptReply
<1>10. CASE Script!Mark
  BY <1>10, StepMark
<1>11. CASE Script!Interrupt
  BY <1>11, StepInterrupt
<1>12. CASE UNCHANGED Script!vars
  BY <1>12 DEF Script!vars, ScriptInv, Script!TypeOK, Script!ChargesAreExact, SplitInv, ReadingInv, GradingInv, RowInv
<1> QED
  BY <1>1, <1>2, <1>3, <1>4, <1>5, <1>6, <1>7, <1>8, <1>9, <1>10, <1>11, <1>12 DEF Script!Next

-----------------------------------------------------------------------------
\* Scripts: the theorems

\* Every variable keeps its type.
THEOREM ScriptReadingTypes ==
  ASSUME Script!ConstantsOK
  PROVE  Script!Spec => []Script!TypeOK
<1>1. ScriptInv => Script!TypeOK
  BY DEF ScriptInv
<1>2. ScriptInv /\ [Script!Next]_Script!vars => ScriptInv'
  BY ScriptStep
<1>3. Script!Init => ScriptInv
  BY ScriptInit
<1> QED
  BY <1>1, <1>2, <1>3, PTL DEF Script!Spec

\* A billing event of a page, of the grading or of the transcript that says
\* what was spent counts every call that was made for it, retries and rejected
\* pages included, however many pages the script has.
THEOREM ScriptChargesExact ==
  ASSUME Script!ConstantsOK
  PROVE  Script!Spec => []Script!ChargesAreExact
<1>1. ScriptInv => Script!ChargesAreExact
  BY DEF ScriptInv
<1>2. ScriptInv /\ [Script!Next]_Script!vars => ScriptInv'
  BY ScriptStep
<1>3. Script!Init => ScriptInv
  BY ScriptInit
<1> QED
  BY <1>1, <1>2, <1>3, PTL DEF Script!Spec

\* Marks come of a script of which every page was read to its end, and rest on
\* a passage of it, on one selection that is the answer of a sure key, or are
\* flagged for the faculty.
THEOREM ScriptMarksSupported ==
  ASSUME Script!ConstantsOK
  PROVE  Script!Spec => []Script!MarksAreSupported
<1>1. ScriptInv => Script!MarksAreSupported
  BY DEF ScriptInv, Script!MarksAreSupported, RowInv, GradingInv
<1>2. ScriptInv /\ [Script!Next]_Script!vars => ScriptInv'
  BY ScriptStep
<1>3. Script!Init => ScriptInv
  BY ScriptInit
<1> QED
  BY <1>1, <1>2, <1>3, PTL DEF Script!Spec

-----------------------------------------------------------------------------
\* Sums over the rows of a rubric
\*
\* What holds at 0 and is carried from each number to the next holds up to n: the
\* induction the proofs below use, with a set in place of the predicate.
LEMMA UpTo ==
  ASSUME NEW n \in Nat, NEW P, 0 \in P, \A k \in 1 .. n : k - 1 \in P => k \in P
  PROVE  \A k \in 0 .. n : k \in P
<1> DEFINE Bad == {k \in 0 .. n : k \notin P}
<1> SUFFICES ASSUME Bad # {} PROVE FALSE
  OBVIOUS
<1>1. PICK k \in Bad : \A i \in Bad : <<i, k>> \notin OpToRel(<, Nat)
  <2>1. Bad \subseteq Nat
    OBVIOUS
  <2> HIDE DEF Bad
  <2> QED
    BY <2>1, NatLessThanWellFounded, WFMin
<1>2. k \in 0 .. n /\ k \notin P /\ \A i \in Bad : ~(i < k)
  <2>1. k \in 0 .. n /\ k \notin P
    BY <1>1
  <2>2. \A i \in Bad : i \in Nat
    OBVIOUS
  <2> HIDE DEF Bad
  <2> QED
    BY <1>1, <2>1, <2>2 DEF OpToRel
<1>3. k # 0
  BY <1>2
<1>4. k \in 1 .. n /\ k - 1 \in 0 .. n /\ k - 1 < k
  BY <1>2, <1>3
<1>5. k - 1 \in P
  BY <1>2, <1>4
<1> QED
  BY <1>2, <1>4, <1>5

\* d is a number in each of 1 .. n.
Marked(d, n) == \A k \in 1 .. n : d[k] \in Int

\* h adds up d over 1 .. n.
Runs(h, d, n) == /\ h \in [0 .. n -> Int] /\ h[0] = 0
                 /\ \A k \in 1 .. n : h[k] = h[k - 1] + d[k]

\* The recursion of RunningSum has such a function.
Recursion(g, d, n) == g = [k \in 0 .. n |-> IF k = 0 THEN 0 ELSE g[k - 1] + d[k]]

LEMMA RunsExists == ASSUME NEW n \in Nat, NEW d, Marked(d, n) PROVE \E h : Runs(h, d, n)
<1> DEFINE Till(k) == {h \in [0 .. n -> Int] : h[0] = 0 /\ \A i \in 1 .. k : h[i] = h[i - 1] + d[i]}
           P == {k \in 0 .. n : Till(k) # {}}
<1>1. 0 \in P
  <2>1. [k \in 0 .. n |-> 0] \in Till(0)
    OBVIOUS
  <2> HIDE DEF Till
  <2> QED
    BY <2>1
<1>2. ASSUME NEW k \in 1 .. n, k - 1 \in P PROVE k \in P
  <2>1. PICK g : g \in Till(k - 1)
    BY <1>2
  <2>2. PICK h : h = [g EXCEPT ![k] = g[k - 1] + d[k]]
    OBVIOUS
  <2>3. g \in [0 .. n -> Int] /\ g[0] = 0 /\ \A i \in 1 .. k - 1 : g[i] = g[i - 1] + d[i]
    BY <2>1
  <2>4. g[k - 1] \in Int /\ d[k] \in Int
    BY <2>3 DEF Marked
  <2>5. h \in [0 .. n -> Int] /\ h[0] = 0 /\ h[k] = g[k - 1] + d[k]
         /\ \A i \in 0 .. n : i # k => h[i] = g[i]
    BY <2>2, <2>3, <2>4
  <2>6. \A i \in 1 .. k : h[i] = h[i - 1] + d[i]
    <3> TAKE i \in 1 .. k
    <3>1. CASE i = k
      BY <2>5, <3>1
    <3>2. CASE i # k
      <4>1. i \in 1 .. k - 1 /\ i \in 0 .. n /\ i - 1 \in 0 .. n /\ i - 1 # k
        BY <3>2
      <4>2. h[i] = g[i] /\ h[i - 1] = g[i - 1] /\ g[i] = g[i - 1] + d[i]
        BY <2>3, <2>5, <3>2, <4>1
      <4> QED
        BY <4>2
    <3> QED
      BY <3>1, <3>2
  <2>7. h \in Till(k)
    BY <2>5, <2>6
  <2> HIDE DEF Till
  <2> QED
    BY <2>7
<1>3. n \in P
  <2> HIDE DEF P
  <2>1. \A k \in 0 .. n : k \in P
    BY <1>1, <1>2, UpTo
  <2> QED
    BY <2>1
<1>4. PICK h : h \in Till(n)
  BY <1>3
<1> QED
  BY <1>4 DEF Runs

LEMMA RunsRecur == ASSUME NEW n \in Nat, NEW d, NEW h, Runs(h, d, n) PROVE Recursion(h, d, n)
<1>1. \A k \in 0 .. n : h[k] = (IF k = 0 THEN 0 ELSE h[k - 1] + d[k])
  BY DEF Runs
<1>2. h \in [0 .. n -> Int]
  BY DEF Runs
<1> QED
  BY <1>1, <1>2 DEF Recursion

LEMMA RecurRuns ==
  ASSUME NEW n \in Nat, NEW d, Marked(d, n), NEW h, Recursion(h, d, n) PROVE Runs(h, d, n)
<1>1. h = [k \in 0 .. n |-> IF k = 0 THEN 0 ELSE h[k - 1] + d[k]]
  BY DEF Recursion
<1>2. h[0] = 0 /\ \A k \in 1 .. n : h[k] = h[k - 1] + d[k]
  BY <1>1
<1> DEFINE P == {k \in 0 .. n : h[k] \in Int}
<1>3. 0 \in P
  BY <1>2
<1>4. \A k \in 1 .. n : k - 1 \in P => k \in P
  BY <1>2 DEF Marked
<1>5. \A k \in 0 .. n : k \in P
  <2> HIDE DEF P
  <2> QED
    BY <1>3, <1>4, UpTo
<1>6. h \in [0 .. n -> Int]
  BY <1>1, <1>5
<1> QED
  BY <1>2, <1>6 DEF Runs

\* The sum of d over 1 .. n.
Total(n, d) == (CHOOSE g : Recursion(g, d, n))[n]

LEMMA TotalRuns ==
  ASSUME NEW n \in Nat, NEW d, Marked(d, n) PROVE \E h : Runs(h, d, n) /\ Total(n, d) = h[n]
<1>1. \E g : Recursion(g, d, n)
  BY RunsExists, RunsRecur
<1>2. PICK g : g = CHOOSE h : Recursion(h, d, n)
  OBVIOUS
<1>3. Recursion(g, d, n)
  BY <1>1, <1>2
<1>4. Runs(g, d, n)
  BY <1>3, RecurRuns
<1> QED
  BY <1>2, <1>4 DEF Total

LEMMA RunningIsTotal == \A n, d : Marks!RunningSum(n, d) = Total(n, d)
  BY DEF Marks!RunningSum, Total, Recursion

LEMMA PartsTotal == \A n, d : Parts!Choice!RunningSum(n, d) = Total(n, d)
  BY DEF Parts!Choice!RunningSum, Total, Recursion

LEMMA TotalInt == ASSUME NEW n \in Nat, NEW d, Marked(d, n) PROVE Total(n, d) \in Int
<1>1. PICK h : Runs(h, d, n) /\ Total(n, d) = h[n]
  BY TotalRuns
<1> QED
  BY <1>1 DEF Runs

\* Row by row, a and b together are no more than c and e.
NoMore(a, b, c, e, n) == \A k \in 1 .. n : a[k] + b[k] <= c[k] + e[k]

LEMMA TotalsCompare ==
  ASSUME NEW n \in Nat, NEW a, NEW b, NEW c, NEW e,
         Marked(a, n), Marked(b, n), Marked(c, n), Marked(e, n), NoMore(a, b, c, e, n)
  PROVE  Total(n, a) + Total(n, b) <= Total(n, c) + Total(n, e)
<1>1. PICK f : Runs(f, a, n) /\ Total(n, a) = f[n]
  BY TotalRuns
<1>2. PICK g : Runs(g, b, n) /\ Total(n, b) = g[n]
  BY TotalRuns
<1>3. PICK h : Runs(h, c, n) /\ Total(n, c) = h[n]
  BY TotalRuns
<1>4. PICK i : Runs(i, e, n) /\ Total(n, e) = i[n]
  BY TotalRuns
<1> DEFINE P == {k \in 0 .. n : f[k] + g[k] <= h[k] + i[k]}
<1>5. 0 \in P
  BY <1>1, <1>2, <1>3, <1>4 DEF Runs
<1>6. ASSUME NEW k \in 1 .. n, k - 1 \in P PROVE k \in P
  <2>1. f[k - 1] + g[k - 1] <= h[k - 1] + i[k - 1]
    BY <1>6
  <2>2. k - 1 \in 0 .. n /\ k \in 0 .. n
    OBVIOUS
  <2>3. f[k - 1] \in Int /\ g[k - 1] \in Int /\ h[k - 1] \in Int /\ i[k - 1] \in Int
    BY <1>1, <1>2, <1>3, <1>4, <2>2 DEF Runs
  <2>4. a[k] \in Int /\ b[k] \in Int /\ c[k] \in Int /\ e[k] \in Int
    BY DEF Marked
  <2>5. f[k] = f[k - 1] + a[k] /\ g[k] = g[k - 1] + b[k]
    BY <1>1, <1>2 DEF Runs
  <2>6. h[k] = h[k - 1] + c[k] /\ i[k] = i[k - 1] + e[k]
    BY <1>3, <1>4 DEF Runs
  <2>7. a[k] + b[k] <= c[k] + e[k]
    BY DEF NoMore
  <2>8. f[k] + g[k] <= h[k] + i[k]
    BY <2>1, <2>3, <2>4, <2>5, <2>6, <2>7
  <2> QED
    BY <2>2, <2>8
<1>7. n \in P
  <2> HIDE DEF P
  <2>1. \A k \in 0 .. n : k \in P
    BY <1>5, <1>6, UpTo
  <2> QED
    BY <2>1
<1> QED
  BY <1>1, <1>2, <1>3, <1>4, <1>7

Zero(d, n) == \A k \in 1 .. n : d[k] = 0

LEMMA TotalZero == ASSUME NEW n \in Nat, NEW d, Zero(d, n) PROVE Total(n, d) = 0
<1>1. Marked(d, n)
  BY DEF Zero, Marked
<1>2. PICK h : Runs(h, d, n) /\ Total(n, d) = h[n]
  BY <1>1, TotalRuns
<1> DEFINE P == {k \in 0 .. n : h[k] = 0}
<1>3. 0 \in P
  BY <1>2 DEF Runs
<1>4. ASSUME NEW k \in 1 .. n, k - 1 \in P PROVE k \in P
  <2>1. h[k] = h[k - 1] + d[k] /\ d[k] = 0 /\ h[k - 1] = 0
    BY <1>2, <1>4 DEF Runs, Zero
  <2> QED
    BY <2>1
<1>5. n \in P
  <2> HIDE DEF P
  <2>1. \A k \in 0 .. n : k \in P
    BY <1>3, <1>4, UpTo
  <2> QED
    BY <2>1
<1> QED
  BY <1>2, <1>5

\* What f gives on S, and its sum over the rows 1 .. n.
On(S, f, n) == [q \in 1 .. n |-> IF q \in S THEN f[q] ELSE 0]
SumIn(S, f, n) == Total(n, On(S, f, n))

LEMMA OnMarked == ASSUME NEW n \in Nat, NEW f, Marked(f, n), NEW S PROVE Marked(On(S, f, n), n)
  BY DEF On, Marked

LEMMA SumInInt == ASSUME NEW n \in Nat, NEW f, Marked(f, n), NEW S PROVE SumIn(S, f, n) \in Int
  BY OnMarked, TotalInt DEF SumIn

LEMMA SumEmpty == ASSUME NEW n \in Nat, NEW f PROVE SumIn({}, f, n) = 0
<1>1. Zero(On({}, f, n), n)
  BY DEF Zero, On
<1> QED
  BY <1>1, TotalZero DEF SumIn

\* The sum over two sets of rows that share none.
LEMMA SumSplit ==
  ASSUME NEW n \in Nat, NEW f, Marked(f, n), NEW A, NEW B, A \cap B = {}
  PROVE  SumIn(A \cup B, f, n) = SumIn(A, f, n) + SumIn(B, f, n)
<1>1. PICK a : a = On(A, f, n)
  OBVIOUS
<1>2. PICK b : b = On(B, f, n)
  OBVIOUS
<1>3. PICK c : c = On(A \cup B, f, n)
  OBVIOUS
<1>4. PICK z : z = On({}, f, n)
  OBVIOUS
<1>5. Marked(a, n) /\ Marked(b, n) /\ Marked(c, n) /\ Marked(z, n)
  BY <1>1, <1>2, <1>3, <1>4, OnMarked
<1>6. \A k \in 1 .. n : a[k] \in Int /\ b[k] \in Int /\ c[k] = a[k] + b[k] /\ z[k] = 0
  <2> TAKE k \in 1 .. n
  <2>1. f[k] \in Int
    BY DEF Marked
  <2>2. a[k] = (IF k \in A THEN f[k] ELSE 0) /\ b[k] = (IF k \in B THEN f[k] ELSE 0) /\ z[k] = 0
    BY <1>1, <1>2, <1>4 DEF On
  <2>3. c[k] = (IF k \in A \cup B THEN f[k] ELSE 0)
    BY <1>3 DEF On
  <2>4. ~(k \in A /\ k \in B)
    OBVIOUS
  <2> QED
    BY <2>1, <2>2, <2>3, <2>4
<1>7. NoMore(c, z, a, b, n) /\ NoMore(a, b, c, z, n)
  BY <1>6 DEF NoMore
<1>8. Total(n, c) + Total(n, z) <= Total(n, a) + Total(n, b)
  BY <1>5, <1>7, TotalsCompare
<1>9. Total(n, a) + Total(n, b) <= Total(n, c) + Total(n, z)
  BY <1>5, <1>7, TotalsCompare
<1>10. Total(n, z) = 0
  BY <1>4, SumEmpty DEF SumIn
<1>11. Total(n, a) \in Int /\ Total(n, b) \in Int /\ Total(n, c) \in Int
  BY <1>5, TotalInt
<1>12. Total(n, c) = Total(n, a) + Total(n, b)
  BY <1>8, <1>9, <1>10, <1>11
<1> QED
  BY <1>1, <1>2, <1>3, <1>12 DEF SumIn

\* Rows of one value.
LEMMA SumEqual ==
  ASSUME NEW n \in Nat, NEW f, Marked(f, n), NEW A \in SUBSET (1 .. n), NEW v \in Int,
         \A q \in A : f[q] = v
  PROVE  SumIn(A, f, n) = Cardinality(A) * v
<1>1. PICK d : d = On(A, f, n)
  OBVIOUS
<1>2. Marked(d, n) /\ \A k \in 1 .. n : d[k] = IF k \in A THEN v ELSE 0
  BY <1>1, OnMarked DEF On
<1>3. PICK h : Runs(h, d, n) /\ Total(n, d) = h[n]
  BY <1>2, TotalRuns
<1> DEFINE P == {k \in 0 .. n : h[k] = Cardinality(A \cap (1 .. k)) * v}
<1>4. 0 \in P
  <2>1. A \cap (1 .. 0) = {} /\ h[0] = 0
    BY <1>3 DEF Runs
  <2>2. Cardinality(A \cap (1 .. 0)) * v = 0
    BY <2>1, FS_EmptySet
  <2> QED
    BY <2>1, <2>2
<1>5. ASSUME NEW k \in 1 .. n, k - 1 \in P PROVE k \in P
  <2>1. h[k - 1] = Cardinality(A \cap (1 .. (k - 1))) * v
    BY <1>5
  <2>2. h[k] = h[k - 1] + d[k]
    BY <1>3 DEF Runs
  <2>3. PICK B : B = A \cap (1 .. (k - 1))
    OBVIOUS
  <2>4. IsFiniteSet(B)
    <3>1. IsFiniteSet(1 .. (k - 1)) /\ B \in SUBSET (1 .. (k - 1))
      BY <2>3, FS_Interval
    <3> QED
      BY <3>1, FS_Subset
  <2>5. PICK m : m = Cardinality(B) /\ m \in Nat
    BY <2>4, FS_CardinalityType
  <2>6. CASE k \in A
    <3>1. A \cap (1 .. k) = B \cup {k} /\ k \notin B
      BY <2>3, <2>6
    <3>2. Cardinality(A \cap (1 .. k)) = m + 1
      BY <2>4, <2>5, <3>1, FS_AddElement
    <3>3. h[k] = m * v + v
      BY <1>2, <2>1, <2>2, <2>3, <2>5, <2>6
    <3>4. (m + 1) * v = m * v + v
      BY <2>5
    <3> QED
      BY <3>2, <3>3, <3>4
  <2>7. CASE k \notin A
    <3>1. A \cap (1 .. k) = B
      BY <2>3, <2>7
    <3>2. h[k] = m * v + 0
      BY <1>2, <2>1, <2>2, <2>3, <2>5, <2>7
    <3>3. m * v \in Int
      BY <2>5
    <3> QED
      BY <2>5, <3>1, <3>2, <3>3
  <2> QED
    BY <2>6, <2>7
<1>6. n \in P
  <2> HIDE DEF P
  <2>1. \A k \in 0 .. n : k \in P
    BY <1>4, <1>5, UpTo
  <2> QED
    BY <2>1
<1>7. A \cap (1 .. n) = A
  OBVIOUS
<1> QED
  BY <1>1, <1>3, <1>6, <1>7 DEF SumIn

-----------------------------------------------------------------------------
\* Ranks within a set of rows

\* Of two rows, the one with more goes first, the earlier one among equals.
Leads(f, p, q) == f[p] > f[q] \/ (f[p] = f[q] /\ p < q)
Leaders(f, G, q) == {p \in G : Leads(f, p, q)}
Rank(f, G, q) == Cardinality(Leaders(f, G, q))

\* f gives numbers to the rows G.
Scored(f, G) == G \subseteq Int /\ IsFiniteSet(G) /\ \A q \in G : f[q] \in Int

LEMMA RankFollows ==
  ASSUME NEW f, NEW G, Scored(f, G), NEW p \in G, NEW q \in G, Leads(f, p, q)
  PROVE  Rank(f, G, p) < Rank(f, G, q)
<1>1. PICK A : A = Leaders(f, G, p)
  OBVIOUS
<1>2. PICK B : B = Leaders(f, G, q)
  OBVIOUS
<1>3. p \in Int /\ q \in Int /\ f[p] \in Int /\ f[q] \in Int
  BY DEF Scored
<1>4. \A x \in G : Leads(f, x, p) => Leads(f, x, q)
  <2> TAKE x \in G
  <2>1. x \in Int /\ f[x] \in Int
    BY DEF Scored
  <2> QED
    BY <1>3, <2>1 DEF Leads
<1>5. p \notin A /\ p \in B
  <2>1. ~Leads(f, p, p)
    BY <1>3 DEF Leads
  <2> QED
    BY <1>1, <1>2, <2>1 DEF Leaders
<1>6. A \cup {p} \in SUBSET B
  BY <1>1, <1>2, <1>4, <1>5 DEF Leaders
<1>7. IsFiniteSet(A) /\ IsFiniteSet(B)
  <2>1. A \in SUBSET G /\ B \in SUBSET G /\ IsFiniteSet(G)
    BY <1>1, <1>2 DEF Leaders, Scored
  <2> QED
    BY <2>1, FS_Subset
<1>8. Cardinality(A \cup {p}) = Cardinality(A) + 1
  BY <1>5, <1>7, FS_AddElement
<1>9. Cardinality(A \cup {p}) <= Cardinality(B)
  BY <1>6, <1>7, FS_Subset
<1>10. Cardinality(A) \in Nat /\ Cardinality(B) \in Nat
  BY <1>7, FS_CardinalityType
<1> QED
  BY <1>1, <1>2, <1>8, <1>9, <1>10 DEF Rank

LEMMA RankBounded ==
  ASSUME NEW f, NEW G, Scored(f, G), NEW q \in G
  PROVE  Rank(f, G, q) \in 0 .. Cardinality(G) - 1
<1>1. PICK B : B = Leaders(f, G, q)
  OBVIOUS
<1>2. q \in Int /\ f[q] \in Int /\ IsFiniteSet(G)
  BY DEF Scored
<1>3. B \in SUBSET (G \ {q})
  BY <1>1, <1>2 DEF Leaders, Leads
<1>4. IsFiniteSet(G \ {q}) /\ Cardinality(G \ {q}) = Cardinality(G) - 1
  BY <1>2, FS_RemoveElement
<1>5. Cardinality(B) <= Cardinality(G) - 1 /\ IsFiniteSet(B)
  BY <1>3, <1>4, FS_Subset
<1>6. Cardinality(B) \in Nat /\ Cardinality(G) \in Nat
  BY <1>2, <1>5, FS_CardinalityType
<1> QED
  BY <1>1, <1>5, <1>6 DEF Rank

LEMMA CardinalityBelow ==
  ASSUME NEW n \in Nat PROVE IsFiniteSet(0 .. n - 1) /\ Cardinality(0 .. n - 1) = n
<1>1. 0 \in Int /\ n - 1 \in Int
  OBVIOUS
<1>2. IsFiniteSet(0 .. n - 1)
  BY <1>1, FS_Interval
<1>3. Cardinality(0 .. n - 1) = IF 0 > n - 1 THEN 0 ELSE n - 1 - 0 + 1
  BY <1>1, FS_Interval
<1> QED
  BY <1>2, <1>3

\* Every rank below the number of rows is that of one of them.
LEMMA RankOnto ==
  ASSUME NEW f, NEW G, Scored(f, G)
  PROVE  [q \in G |-> Rank(f, G, q)] \in Bijection(G, 0 .. Cardinality(G) - 1)
<1>1. PICK n : n = Cardinality(G) /\ n \in Nat
  BY FS_CardinalityType DEF Scored
<1>2. PICK r : r = [q \in G |-> Rank(f, G, q)]
  OBVIOUS
<1>3. r \in [G -> 0 .. n - 1]
  BY <1>1, <1>2, RankBounded
<1>4. \A p, q \in G : r[p] = r[q] => p = q
  <2> TAKE p, q \in G
  <2> SUFFICES ASSUME p # q PROVE r[p] # r[q]
    OBVIOUS
  <2>1. p \in Int /\ q \in Int /\ f[p] \in Int /\ f[q] \in Int
    BY DEF Scored
  <2>2. Leads(f, p, q) \/ Leads(f, q, p)
    BY <2>1 DEF Leads
  <2>3. r[p] < r[q] \/ r[q] < r[p]
    BY <1>2, <2>2, RankFollows
  <2>4. r[p] \in Int /\ r[q] \in Int
    BY <1>3
  <2> QED
    BY <2>3, <2>4
<1>5. r \in Injection(G, 0 .. n - 1)
  BY <1>3, <1>4 DEF Injection, IsInjective
<1>6. IsFiniteSet(0 .. n - 1) /\ Cardinality(0 .. n - 1) = n
  BY <1>1, CardinalityBelow
<1>7. r \in Surjection(G, 0 .. n - 1)
  BY <1>1, <1>5, <1>6, FS_Injection
<1> QED
  BY <1>1, <1>2, <1>5, <1>7 DEF Bijection

\* The first n of a set are n of them.
Top(f, G, n) == {q \in G : Rank(f, G, q) < n}

LEMMA TopCount ==
  ASSUME NEW f, NEW G, Scored(f, G), NEW n \in 0 .. Cardinality(G)
  PROVE  Cardinality(Top(f, G, n)) = n
<1>1. PICK m : m = Cardinality(G) /\ m \in Nat
  BY FS_CardinalityType DEF Scored
<1>2. PICK r : r = [q \in G |-> Rank(f, G, q)]
  OBVIOUS
<1>3. r \in Injection(G, 0 .. m - 1) /\ r \in Surjection(G, 0 .. m - 1)
  BY <1>1, <1>2, RankOnto DEF Bijection
<1>4. r \in [G -> 0 .. m - 1] /\ (\A p, q \in G : r[p] = r[q] => p = q)
        /\ \A k \in 0 .. m - 1 : \E q \in G : r[q] = k
  BY <1>3 DEF Injection, IsInjective, Surjection
<1>5. PICK T : T = Top(f, G, n)
  OBVIOUS
<1>6. T \subseteq G /\ \A q \in G : q \in T <=> r[q] < n
  BY <1>2, <1>5 DEF Top
<1>7. PICK b : b = [q \in T |-> r[q]]
  OBVIOUS
<1>8. b \in [T -> 0 .. n - 1]
  <2>1. \A q \in T : r[q] \in 0 .. n - 1
    BY <1>1, <1>4, <1>6
  <2> QED
    BY <1>7, <2>1
<1>9. \A p, q \in T : b[p] = b[q] => p = q
  BY <1>4, <1>6, <1>7
<1>10. \A k \in 0 .. n - 1 : \E q \in T : b[q] = k
  <2> TAKE k \in 0 .. n - 1
  <2>1. k \in 0 .. m - 1
    BY <1>1
  <2>2. PICK q \in G : r[q] = k
    BY <1>4, <2>1
  <2>3. q \in T
    BY <1>6, <2>2
  <2> QED
    BY <1>7, <2>2, <2>3
<1>11. b \in Bijection(T, 0 .. n - 1)
  BY <1>8, <1>9, <1>10 DEF Bijection, Injection, IsInjective, Surjection
<1>12. ExistsBijection(T, 0 .. n - 1)
  BY <1>11 DEF ExistsBijection
<1>13. IsFiniteSet(T)
  <2>1. IsFiniteSet(G) /\ T \in SUBSET G
    BY <1>6 DEF Scored
  <2> QED
    BY <2>1, FS_Subset
<1>14. Cardinality(0 .. n - 1) = Cardinality(T)
  BY <1>12, <1>13, FS_Bijection
<1>15. Cardinality(0 .. n - 1) = n
  BY <1>1, FS_Interval
<1> QED
  BY <1>5, <1>14, <1>15

\* A mark that divides the first n of a set from the others.
LEMMA TopDivided ==
  ASSUME NEW f, NEW G, Scored(f, G), NEW n \in 1 .. Cardinality(G)
  PROVE  \E v \in Int : \A q \in G : IF q \in Top(f, G, n) THEN v <= f[q] ELSE f[q] <= v
<1>1. PICK m : m = Cardinality(G) /\ m \in Nat
  BY FS_CardinalityType DEF Scored
<1>2. PICK r : r = [q \in G |-> Rank(f, G, q)]
  OBVIOUS
<1>3. r \in Surjection(G, 0 .. m - 1)
  BY <1>1, <1>2, RankOnto DEF Bijection
<1>4. n - 1 \in 0 .. m - 1
  BY <1>1
<1>5. PICK u \in G : r[u] = n - 1
  BY <1>3, <1>4 DEF Surjection
<1>6. Rank(f, G, u) = n - 1 /\ u \in Int /\ f[u] \in Int
  BY <1>2, <1>5 DEF Scored
<1>7. \A q \in G : IF q \in Top(f, G, n) THEN f[u] <= f[q] ELSE f[q] <= f[u]
  <2> TAKE q \in G
  <2>1. f[q] \in Int /\ Rank(f, G, q) \in Int
    <3>1. Rank(f, G, q) \in 0 .. m - 1
      BY <1>1, RankBounded
    <3> QED
      BY <3>1 DEF Scored
  <2>2. CASE q \in Top(f, G, n)
    <3>1. Rank(f, G, q) < n
      BY <2>2 DEF Top
    <3>2. ~Leads(f, u, q)
      <4>1. Leads(f, u, q) => Rank(f, G, u) < Rank(f, G, q)
        BY RankFollows
      <4> QED
        BY <1>6, <2>1, <3>1, <4>1
    <3> QED
      BY <1>6, <2>1, <2>2, <3>2 DEF Leads
  <2>3. CASE q \notin Top(f, G, n)
    <3>1. ~(Rank(f, G, q) < n)
      BY <2>3 DEF Top
    <3>2. ~Leads(f, q, u)
      <4>1. Leads(f, q, u) => Rank(f, G, q) < Rank(f, G, u)
        BY RankFollows
      <4> QED
        BY <1>6, <2>1, <3>1, <4>1
    <3> QED
      BY <1>6, <2>1, <2>3, <3>2 DEF Leads
  <2> QED
    BY <2>2, <2>3
<1> QED
  BY <1>6, <1>7

-----------------------------------------------------------------------------
\* Sums over a set, element by element

Some(s) == CHOOSE x \in s : TRUE
Adds(g, h, T) == g = [s \in SUBSET T |-> IF s = {} THEN 0 ELSE h[Some(s)] + g[s \ {Some(s)}]]
Ladder(g, h, T) ==
  g[{}] = 0 /\ \A s \in SUBSET T : s # {} => g[s] = h[Some(s)] + g[s \ {Some(s)}]

LEMMA Chosen == ASSUME NEW s, s # {} PROVE Some(s) \in s
  BY DEF Some

\* The subsets of T of at most k elements, and a function that adds up over them.
Level(T, k) == {s \in SUBSET T : Cardinality(s) <= k}
AddsTo(g, h, T, k) ==
  g = [s \in Level(T, k) |-> IF s = {} THEN 0 ELSE h[Some(s)] + g[s \ {Some(s)}]]

LEMMA AddsExists == ASSUME NEW T, IsFiniteSet(T), NEW h PROVE \E g : Adds(g, h, T)
<1>1. PICK n : n = Cardinality(T) /\ n \in Nat
  BY FS_CardinalityType
<1>2. \A s \in SUBSET T : IsFiniteSet(s) /\ Cardinality(s) \in Nat /\ Cardinality(s) <= n
  BY <1>1, FS_Subset, FS_CardinalityType
<1>3. \A s \in SUBSET T : s # {} =>
        Cardinality(s \ {Some(s)}) = Cardinality(s) - 1 /\ s \ {Some(s)} \in SUBSET T
  <2> TAKE s \in SUBSET T
  <2> HAVE s # {}
  <2>1. Some(s) \in s
    BY Chosen
  <2> QED
    BY <1>2, <2>1, FS_RemoveElement
<1> DEFINE P == {k \in 0 .. n : \E g : AddsTo(g, h, T, k)}
<1>4. 0 \in P
  <2>1. PICK g : g = [s \in Level(T, 0) |-> 0]
    OBVIOUS
  <2>2. \A s \in Level(T, 0) : s = {}
    BY <1>2, FS_EmptySet DEF Level
  <2>3. \A s \in Level(T, 0) : (IF s = {} THEN 0 ELSE h[Some(s)] + g[s \ {Some(s)}]) = 0
    BY <2>2
  <2>4. AddsTo(g, h, T, 0)
    BY <2>1, <2>3 DEF AddsTo
  <2> QED
    BY <1>1, <2>4
<1>5. ASSUME NEW k \in 1 .. n, k - 1 \in P PROVE k \in P
  <2>1. PICK g : AddsTo(g, h, T, k - 1)
    BY <1>5
  <2>2. PICK f : f = [s \in Level(T, k) |-> IF s = {} THEN 0 ELSE h[Some(s)] + g[s \ {Some(s)}]]
    OBVIOUS
  <2>3. \A u \in Level(T, k - 1) : u \in Level(T, k)
    BY <1>2 DEF Level
  <2>4. \A u \in Level(T, k - 1) : f[u] = g[u]
    BY <2>1, <2>2, <2>3 DEF AddsTo
  <2>5. \A s \in Level(T, k) : s # {} => s \ {Some(s)} \in Level(T, k - 1)
    BY <1>2, <1>3 DEF Level
  <2>6. \A s \in Level(T, k) :
          (IF s = {} THEN 0 ELSE h[Some(s)] + g[s \ {Some(s)}])
            = (IF s = {} THEN 0 ELSE h[Some(s)] + f[s \ {Some(s)}])
    BY <2>4, <2>5
  <2>7. AddsTo(f, h, T, k)
    BY <2>2, <2>6 DEF AddsTo
  <2> QED
    BY <2>7
<1>6. n \in P
  <2> HIDE DEF P
  <2>1. \A k \in 0 .. n : k \in P
    BY <1>1, <1>4, <1>5, UpTo
  <2> QED
    BY <1>1, <2>1
<1>7. PICK g : AddsTo(g, h, T, n)
  BY <1>6
<1>8. Level(T, n) = SUBSET T
  BY <1>2 DEF Level
<1> QED
  BY <1>7, <1>8 DEF AddsTo, Adds

LEMMA AddsLadder == ASSUME NEW T, NEW h, NEW g, Adds(g, h, T) PROVE Ladder(g, h, T)
  BY DEF Adds, Ladder

LEMMA SmallestSubset ==
  ASSUME NEW T, IsFiniteSet(T), NEW Bad, Bad \subseteq SUBSET T, Bad # {}
  PROVE  \E s \in Bad : \A u \in Bad : ~(u \subseteq s /\ u # s)
<1>1. IsWellFoundedOn(StrictSubsetOrdering(T), FiniteSubsetsOf(T)) /\ FiniteSubsetsOf(T) = SUBSET T
  BY FS_StrictSubsetOrderingWellFounded, FS_FiniteSubsetsOfFinite
<1>2. PICK s \in Bad : \A u \in Bad : <<u, s>> \notin StrictSubsetOrdering(T)
  BY <1>1, WFMin
<1>3. \A u \in Bad : u \subseteq s /\ u # s => <<u, s>> \in StrictSubsetOrdering(T)
  BY DEF StrictSubsetOrdering
<1>4. \A u \in Bad : ~(u \subseteq s /\ u # s)
  BY <1>2, <1>3
<1> QED
  BY <1>4

-----------------------------------------------------------------------------
\* Selections within groups, over rows 1 .. n

\* Groups of which something may be left out, and that share no row.
Sound(groups, n) ==
  /\ IsFiniteSet(groups)
  /\ \A g \in groups : g.questions \subseteq 1 .. n /\ g.answerN \in 1 .. Cardinality(g.questions)
  /\ \A g, h \in groups : g # h => g.questions \cap h.questions = {}

Covered(groups) == UNION {g.questions : g \in groups}
Others(groups, n) == (1 .. n) \ Covered(groups)

Selections(groups, n) ==
  {S \in SUBSET (1 .. n) : /\ Others(groups, n) \subseteq S
                           /\ \A g \in groups : Cardinality(S \cap g.questions) = g.answerN}

\* t gives the rows of a group the same.
Even(groups, t) == \A g \in groups : \A p, q \in g.questions : t[p] = t[q]
OfEach(groups, t) == [g \in groups |-> g.answerN * t[Some(g.questions)]]

\* The sum of such a t over a choice: that of the other rows and answerN times
\* that of every group.
LEMMA ChoiceSummed ==
  ASSUME NEW n \in Nat, NEW groups, Sound(groups, n), NEW t, Marked(t, n), Even(groups, t),
         NEW S \in Selections(groups, n), NEW a, Adds(a, OfEach(groups, t), groups)
  PROVE  SumIn(S, t, n) = SumIn(Others(groups, n), t, n) + a[groups]
<1>1. PICK h : h = OfEach(groups, t)
  OBVIOUS
<1>2. Ladder(a, h, groups)
  BY <1>1, AddsLadder
<1> DEFINE Part(s) == S \cap Covered(s)
           Bad == {s \in SUBSET groups : SumIn(Part(s), t, n) # a[s]}
<1>3. Bad = {}
  <2> SUFFICES ASSUME Bad # {} PROVE FALSE
    OBVIOUS
  <2>1. PICK s \in Bad : \A u \in Bad : ~(u \subseteq s /\ u # s)
    <3>1. Bad \subseteq SUBSET groups /\ IsFiniteSet(groups)
      BY DEF Sound
    <3> HIDE DEF Bad
    <3> QED
      BY <3>1, SmallestSubset
  <2>2. s \in SUBSET groups /\ SumIn(Part(s), t, n) # a[s]
    BY <2>1
  <2>3. s # {}
    <3> SUFFICES ASSUME s = {} PROVE FALSE
      OBVIOUS
    <3>1. Part(s) = {}
      BY DEF Covered
    <3>2. SumIn(Part(s), t, n) = 0
      <4> HIDE DEF Part
      <4> QED
        BY <3>1, SumEmpty
    <3>3. a[s] = 0
      BY <1>2 DEF Ladder
    <3> QED
      BY <2>2, <3>2, <3>3
  <2>4. PICK g : g = Some(s) /\ g \in s /\ g \in groups
    BY <2>2, <2>3, Chosen
  <2>5. PICK u : u = s \ {g}
    OBVIOUS
  <2>6. u \in SUBSET groups /\ SumIn(Part(u), t, n) = a[u]
    <3>1. u \in SUBSET groups /\ u \subseteq s /\ u # s
      BY <2>2, <2>4, <2>5
    <3> QED
      BY <2>1, <3>1
  <2>7. a[s] = h[g] + a[u]
    BY <1>2, <2>2, <2>3, <2>4, <2>5 DEF Ladder
  <2>8. PICK B : B = S \cap g.questions
    OBVIOUS
  <2>9. g.questions \subseteq 1 .. n /\ g.answerN \in 1 .. Cardinality(g.questions)
    BY <2>4 DEF Sound
  <2>10. Cardinality(B) = g.answerN
    BY <2>4, <2>8 DEF Selections
  <2>11. PICK x : x = Some(g.questions)
    OBVIOUS
  <2>12. x \in g.questions
    <3>1. g.questions # {}
      <4> SUFFICES ASSUME g.questions = {} PROVE FALSE
        OBVIOUS
      <4>1. Cardinality(g.questions) = 0
        BY FS_EmptySet
      <4> QED
        BY <2>9, <4>1
    <3> QED
      BY <2>11, <3>1, Chosen
  <2>13. PICK v : v = t[x] /\ v \in Int
    BY <2>9, <2>12 DEF Marked
  <2>14. SumIn(B, t, n) = Cardinality(B) * v
    <3>1. B \in SUBSET (1 .. n)
      BY <2>8, <2>9
    <3>2. \A q \in B : t[q] = v
      BY <2>4, <2>8, <2>12, <2>13 DEF Even
    <3> QED
      BY <2>13, <3>1, <3>2, SumEqual
  <2>15. h[g] = g.answerN * v
    BY <1>1, <2>4, <2>11, <2>13 DEF OfEach
  <2>16. Part(s) = B \cup Part(u) /\ B \cap Part(u) = {}
    <3>1. \A k \in u : k.questions \cap g.questions = {}
      BY <2>2, <2>4, <2>5 DEF Sound
    <3>2. Covered(s) = g.questions \cup Covered(u)
      BY <2>4, <2>5 DEF Covered
    <3>3. g.questions \cap Covered(u) = {}
      BY <3>1 DEF Covered
    <3> QED
      BY <2>8, <3>2, <3>3
  <2>17. SumIn(Part(s), t, n) = SumIn(B, t, n) + SumIn(Part(u), t, n)
    <3> HIDE DEF Part
    <3> QED
      BY <2>16, SumSplit
  <2>18. SumIn(Part(s), t, n) = a[s]
    <3> HIDE DEF Part
    <3> QED
      BY <2>6, <2>7, <2>10, <2>14, <2>15, <2>17
  <2> QED
    BY <2>2, <2>18
<1>4. SumIn(Part(groups), t, n) = a[groups]
  BY <1>3
<1>5. PICK D : D = Part(groups)
  OBVIOUS
<1>6. S = Others(groups, n) \cup D /\ Others(groups, n) \cap D = {}
  BY <1>5 DEF Others, Selections
<1>7. PICK E : E = Others(groups, n)
  OBVIOUS
<1>8. SumIn(E \cup D, t, n) = SumIn(E, t, n) + SumIn(D, t, n)
  BY <1>6, <1>7, SumSplit
<1> QED
  BY <1>4, <1>5, <1>6, <1>7, <1>8

\* What counts: the other rows, and the first answerN of every group.
Leading(groups, f) == UNION {Top(f, g.questions, g.answerN) : g \in groups}
Taken(groups, f, n) == Others(groups, n) \cup Leading(groups, f)

LEMMA GroupScored ==
  ASSUME NEW n \in Nat, NEW groups, Sound(groups, n), NEW f, Marked(f, n), NEW g \in groups
  PROVE  Scored(f, g.questions) /\ g.answerN \in 1 .. Cardinality(g.questions)
           /\ Cardinality(g.questions) \in Nat
<1>1. g.questions \in SUBSET (1 .. n) /\ g.answerN \in 1 .. Cardinality(g.questions)
  BY DEF Sound
<1>2. IsFiniteSet(1 .. n)
  BY FS_Interval
<1>3. IsFiniteSet(g.questions)
  BY <1>1, <1>2, FS_Subset
<1>4. g.questions \subseteq Int /\ \A q \in g.questions : f[q] \in Int
  BY <1>1 DEF Marked
<1> QED
  BY <1>1, <1>3, <1>4, FS_CardinalityType DEF Scored

\* Of a group, what counts is its own first rows.
LEMMA TakenInGroup ==
  ASSUME NEW n \in Nat, NEW groups, Sound(groups, n), NEW f, NEW g \in groups
  PROVE  Taken(groups, f, n) \cap g.questions = Top(f, g.questions, g.answerN)
<1>1. \A h \in groups : h # g => h.questions \cap g.questions = {}
  BY DEF Sound
<1>2. Others(groups, n) \cap g.questions = {}
  BY DEF Others, Covered
<1>3. \A h \in groups : Top(f, h.questions, h.answerN) \subseteq h.questions
  BY DEF Top
<1>4. Leading(groups, f) \cap g.questions = Top(f, g.questions, g.answerN)
  BY <1>1, <1>3 DEF Leading
<1> QED
  BY <1>2, <1>4 DEF Taken

LEMMA TakenIsChoice ==
  ASSUME NEW n \in Nat, NEW groups, Sound(groups, n), NEW f, Marked(f, n)
  PROVE  Taken(groups, f, n) \in Selections(groups, n)
<1>1. PICK C : C = Taken(groups, f, n)
  OBVIOUS
<1>2. \A g \in groups : Cardinality(C \cap g.questions) = g.answerN
  <2> TAKE g \in groups
  <2>1. C \cap g.questions = Top(f, g.questions, g.answerN)
    BY <1>1, TakenInGroup
  <2>2. Scored(f, g.questions) /\ g.answerN \in 0 .. Cardinality(g.questions)
    BY GroupScored
  <2>3. Cardinality(Top(f, g.questions, g.answerN)) = g.answerN
    BY <2>2, TopCount
  <2> QED
    BY <2>1, <2>3
<1>3. C \subseteq 1 .. n
  <2>1. \A g \in groups : Top(f, g.questions, g.answerN) \subseteq 1 .. n
    BY DEF Top, Sound
  <2> QED
    BY <1>1, <2>1 DEF Taken, Leading, Others
<1>4. Others(groups, n) \subseteq C
  BY <1>1 DEF Taken
<1> QED
  BY <1>1, <1>2, <1>3, <1>4 DEF Selections

\* v divides the rows that count from the others of the group.
Divides(v, f, g) ==
  \A q \in g.questions : IF q \in Top(f, g.questions, g.answerN) THEN v <= f[q] ELSE f[q] <= v
Between(f, g) == CHOOSE v \in Int : Divides(v, f, g)

LEMMA BetweenDivides ==
  ASSUME NEW n \in Nat, NEW groups, Sound(groups, n), NEW f, Marked(f, n), NEW g \in groups
  PROVE  Between(f, g) \in Int /\ Divides(Between(f, g), f, g)
<1>1. Scored(f, g.questions) /\ g.answerN \in 1 .. Cardinality(g.questions)
  BY GroupScored
<1>2. \E v \in Int : \A q \in g.questions :
        IF q \in Top(f, g.questions, g.answerN) THEN v <= f[q] ELSE f[q] <= v
  BY <1>1, TopDivided
<1>3. \E v \in Int : Divides(v, f, g)
  BY <1>2 DEF Divides
<1> QED
  BY <1>3 DEF Between

\* No choice is worth more than what counts.
LEMMA TakenIsBest ==
  ASSUME NEW n \in Nat, NEW groups, Sound(groups, n), NEW f, Marked(f, n),
         NEW S \in Selections(groups, n)
  PROVE  SumIn(S, f, n) <= SumIn(Taken(groups, f, n), f, n)
<1>1. PICK C : C = Taken(groups, f, n)
  OBVIOUS
<1>2. C \in Selections(groups, n)
  BY <1>1, TakenIsChoice
<1> DEFINE GroupOf(q) == CHOOSE g \in groups : q \in g.questions
<1>3. PICK t : t = [q \in 1 .. n |-> IF q \in Covered(groups) THEN Between(f, GroupOf(q)) ELSE 0]
  OBVIOUS
<1>4. \A g \in groups : \A q \in g.questions : GroupOf(q) = g
  BY DEF Sound
<1>5. \A g \in groups : \A q \in g.questions : t[q] = Between(f, g)
  <2> TAKE g \in groups
  <2> TAKE q \in g.questions
  <2>1. q \in 1 .. n /\ q \in Covered(groups)
    BY DEF Sound, Covered
  <2>2. GroupOf(q) = g
    BY <1>4
  <2> HIDE DEF GroupOf
  <2> QED
    BY <1>3, <2>1, <2>2
<1>6. \A g \in groups : Between(f, g) \in Int /\ Divides(Between(f, g), f, g)
  BY BetweenDivides
<1>7. Marked(t, n)
  <2>1. \A q \in 1 .. n : t[q] \in Int
    <3> TAKE q \in 1 .. n
    <3>1. CASE q \in Covered(groups)
      <4>1. PICK g \in groups : q \in g.questions
        BY <3>1 DEF Covered
      <4> QED
        BY <1>5, <1>6, <4>1
    <3>2. CASE q \notin Covered(groups)
      BY <1>3, <3>2
    <3> QED
      BY <3>1, <3>2
  <2> QED
    BY <2>1 DEF Marked
<1>8. Even(groups, t)
  BY <1>5 DEF Even
<1>9. PICK a : Adds(a, OfEach(groups, t), groups)
  BY AddsExists DEF Sound
<1>10. SumIn(S, t, n) = SumIn(C, t, n)
  <2>1. SumIn(S, t, n) = SumIn(Others(groups, n), t, n) + a[groups]
    BY <1>7, <1>8, <1>9, ChoiceSummed
  <2>2. SumIn(C, t, n) = SumIn(Others(groups, n), t, n) + a[groups]
    BY <1>2, <1>7, <1>8, <1>9, ChoiceSummed
  <2> QED
    BY <2>1, <2>2
<1>11. \A k \in 1 .. n : /\ k \in Others(groups, n) => k \in S /\ k \in C
                         /\ k \in C /\ k \notin S => t[k] <= f[k]
                         /\ k \in S /\ k \notin C => f[k] <= t[k]
  <2> TAKE k \in 1 .. n
  <2>1. k \in Others(groups, n) => k \in S /\ k \in C
    BY <1>2 DEF Selections
  <2>2. CASE k \in Others(groups, n)
    BY <2>1, <2>2
  <2>3. CASE k \notin Others(groups, n)
    <3>1. PICK g \in groups : k \in g.questions
      BY <2>3 DEF Others, Covered
    <3>2. k \in C <=> k \in Top(f, g.questions, g.answerN)
      BY <1>1, <3>1, TakenInGroup
    <3>3. t[k] = Between(f, g) /\ Divides(Between(f, g), f, g)
      BY <1>5, <1>6, <3>1
    <3>4. IF k \in Top(f, g.questions, g.answerN) THEN t[k] <= f[k] ELSE f[k] <= t[k]
      BY <3>1, <3>3 DEF Divides
    <3> QED
      BY <2>3, <3>2, <3>4
  <2> QED
    BY <2>2, <2>3
<1>12. PICK s : s = On(S, f, n)
  OBVIOUS
<1>13. PICK c : c = On(C, f, n)
  OBVIOUS
<1>14. PICK u : u = On(S, t, n)
  OBVIOUS
<1>15. PICK d : d = On(C, t, n)
  OBVIOUS
<1>16. Marked(s, n) /\ Marked(c, n) /\ Marked(u, n) /\ Marked(d, n)
  BY <1>7, <1>12, <1>13, <1>14, <1>15, OnMarked
<1>17. NoMore(s, d, c, u, n)
  <2>1. \A k \in 1 .. n : s[k] + d[k] <= c[k] + u[k]
    <3> TAKE k \in 1 .. n
    <3>1. f[k] \in Int /\ t[k] \in Int
      BY <1>7 DEF Marked
    <3>2. s[k] = (IF k \in S THEN f[k] ELSE 0) /\ u[k] = (IF k \in S THEN t[k] ELSE 0)
      BY <1>12, <1>14 DEF On
    <3>3. c[k] = (IF k \in C THEN f[k] ELSE 0) /\ d[k] = (IF k \in C THEN t[k] ELSE 0)
      BY <1>13, <1>15 DEF On
    <3>4. (k \in C /\ k \notin S => t[k] <= f[k]) /\ (k \in S /\ k \notin C => f[k] <= t[k])
      BY <1>11
    <3> QED
      BY <3>1, <3>2, <3>3, <3>4
  <2> QED
    BY <2>1 DEF NoMore
<1>18. Total(n, s) + Total(n, d) <= Total(n, c) + Total(n, u)
  BY <1>16, <1>17, TotalsCompare
<1>19. Total(n, u) = Total(n, d)
  BY <1>10, <1>14, <1>15 DEF SumIn
<1>20. Total(n, s) \in Int /\ Total(n, d) \in Int /\ Total(n, c) \in Int
  BY <1>16, TotalInt
<1>21. Total(n, s) <= Total(n, c)
  BY <1>18, <1>19, <1>20
<1> QED
  BY <1>1, <1>12, <1>13, <1>21 DEF SumIn

\* Sums of no more are no more.
LEMMA SumsCompare ==
  ASSUME NEW n \in Nat, NEW f, Marked(f, n), NEW h, Marked(h, n),
         \A q \in 1 .. n : f[q] <= h[q], NEW S
  PROVE  SumIn(S, f, n) <= SumIn(S, h, n)
<1>1. PICK s : s = On(S, f, n)
  OBVIOUS
<1>2. PICK u : u = On(S, h, n)
  OBVIOUS
<1>3. PICK z : z = On({}, f, n)
  OBVIOUS
<1>4. Marked(s, n) /\ Marked(u, n) /\ Marked(z, n)
  BY <1>1, <1>2, <1>3, OnMarked
<1>5. \A k \in 1 .. n : s[k] + z[k] <= u[k] + z[k]
  <2> TAKE k \in 1 .. n
  <2>1. f[k] \in Int /\ h[k] \in Int /\ f[k] <= h[k]
    BY DEF Marked
  <2>2. s[k] = (IF k \in S THEN f[k] ELSE 0) /\ u[k] = (IF k \in S THEN h[k] ELSE 0) /\ z[k] = 0
    BY <1>1, <1>2, <1>3 DEF On
  <2> QED
    BY <2>1, <2>2
<1>6. NoMore(s, z, u, z, n)
  BY <1>5 DEF NoMore
<1>7. Total(n, s) + Total(n, z) <= Total(n, u) + Total(n, z)
  BY <1>4, <1>6, TotalsCompare
<1>8. Total(n, s) \in Int /\ Total(n, u) \in Int /\ Total(n, z) \in Int
  BY <1>4, TotalInt
<1>9. Total(n, s) <= Total(n, u)
  BY <1>7, <1>8
<1> QED
  BY <1>1, <1>2, <1>9 DEF SumIn

LEMMA SumNatural ==
  ASSUME NEW n \in Nat, NEW f, Marked(f, n), \A q \in 1 .. n : f[q] >= 0, NEW S
  PROVE  SumIn(S, f, n) >= 0
<1>1. PICK z : z = [q \in 1 .. n |-> 0]
  OBVIOUS
<1>2. Marked(z, n) /\ \A q \in 1 .. n : z[q] <= f[q]
  BY <1>1 DEF Marked
<1>3. SumIn(S, z, n) <= SumIn(S, f, n)
  BY <1>2, SumsCompare
<1>4. Zero(On(S, z, n), n)
  BY <1>1 DEF Zero, On
<1>5. SumIn(S, z, n) = 0
  BY <1>4, TotalZero DEF SumIn
<1>6. SumIn(S, f, n) \in Int
  BY SumInInt
<1> QED
  BY <1>3, <1>5, <1>6

-----------------------------------------------------------------------------
\* What a form of maxima and groups comes to

\* The fold over the groups.
OverGroups(max, groups) ==
  (CHOOSE g : g = [u \in SUBSET groups |-> IF u = {} THEN 0
                     ELSE Some(u).answerN * max[Some(Some(u).questions)] + g[u \ {Some(u)}]])[groups]

LEMMA OverGroupsAdds ==
  ASSUME NEW max, NEW groups, IsFiniteSet(groups)
  PROVE  \E a : Adds(a, OfEach(groups, max), groups) /\ OverGroups(max, groups) = a[groups]
<1>1. PICK h : h = OfEach(groups, max)
  OBVIOUS
<1> DEFINE Body(g) == g = [u \in SUBSET groups |-> IF u = {} THEN 0
                             ELSE Some(u).answerN * max[Some(Some(u).questions)] + g[u \ {Some(u)}]]
           it == CHOOSE g : Body(g)
<1>2. \A g : Adds(g, h, groups) <=> Body(g)
  <2> TAKE g
  <2>1. \A u \in SUBSET groups : u # {} => Some(u) \in groups
    BY DEF Some
  <2>2. \A u \in SUBSET groups : u # {} => h[Some(u)] = Some(u).answerN * max[Some(Some(u).questions)]
    BY <1>1, <2>1 DEF OfEach
  <2>3. \A u \in SUBSET groups :
           (IF u = {} THEN 0 ELSE h[Some(u)] + g[u \ {Some(u)}])
             = (IF u = {} THEN 0
                ELSE Some(u).answerN * max[Some(Some(u).questions)] + g[u \ {Some(u)}])
    BY <2>2
  <2> QED
    BY <2>3 DEF Adds
<1>3. OverGroups(max, groups) = it[groups]
  BY DEF OverGroups
<1>4. Adds(it, h, groups)
  <2>1. \E g : Body(g)
    <3> HIDE DEF Body
    <3> QED
      BY <1>2, AddsExists
  <2>2. Body(it)
    <3> HIDE DEF Body
    <3> QED
      BY <2>1
  <2> HIDE DEF Body, it
  <2> QED
    BY <1>2, <2>2
<1> HIDE DEF it, Body
<1> QED
  BY <1>1, <1>3, <1>4

\* Maxima of the rows and groups among them.
IsForm(r, n, high) ==
  /\ n \in Nat /\ high \in Nat /\ r.max \in [1 .. n -> 1 .. high]
  /\ r.groups \subseteq [questions : SUBSET (1 .. n), answerN : 0 .. n]
Admitted(max, groups) ==
  /\ \A g \in groups : g.answerN >= 1 /\ g.answerN < Cardinality(g.questions)
                          /\ \A p, q \in g.questions : max[p] = max[q]
  /\ \A g, h \in groups : g # h => g.questions \cap h.questions = {}

LEMMA GroupsFinite ==
  ASSUME NEW n \in Nat, NEW groups, groups \subseteq [questions : SUBSET (1 .. n), answerN : 0 .. n]
  PROVE  IsFiniteSet(groups)
<1>1. PICK A : A = SUBSET (1 .. n)
  OBVIOUS
<1>2. PICK B : B = 0 .. n
  OBVIOUS
<1>3. IsFiniteSet(A) /\ IsFiniteSet(B)
  <2>1. n \in Int /\ 0 \in Int /\ 1 \in Int
    OBVIOUS
  <2>2. IsFiniteSet(1 .. n) /\ IsFiniteSet(0 .. n)
    BY <2>1, FS_Interval
  <2> QED
    BY <1>1, <1>2, <2>2, FS_SUBSET
<1>4. IsFiniteSet(A \X B)
  BY <1>3, FS_Product
<1>5. PICK m : m = [g \in groups |-> <<g.questions, g.answerN>>]
  OBVIOUS
<1>9. m \in [groups -> A \X B]
  <2>1. \A g \in groups : g.questions \in A /\ g.answerN \in B
    BY <1>1, <1>2
  <2> QED
    BY <1>5, <2>1
<1>6. \A g, h \in groups : m[g] = m[h] => g = h
  <2> TAKE g, h \in groups
  <2> HAVE m[g] = m[h]
  <2>1. g.questions = h.questions /\ g.answerN = h.answerN
    BY <1>5
  <2>2. g = [questions |-> g.questions, answerN |-> g.answerN]
    OBVIOUS
  <2>3. h = [questions |-> h.questions, answerN |-> h.answerN]
    OBVIOUS
  <2> QED
    BY <2>1, <2>2, <2>3
<1>7. m \in Injection(groups, A \X B)
  BY <1>6, <1>9 DEF Injection, IsInjective
<1> QED
  BY <1>4, <1>7, FS_Injection

\* A form that is admitted: what it gives, and what a choice of its rows is out of.
FormFits(r, n) ==
  /\ n \in Nat /\ Marked(r.max, n) /\ \A q \in 1 .. n : r.max[q] >= 0
  /\ Sound(r.groups, n) /\ Even(r.groups, r.max)

LEMMA AdmittedFits ==
  ASSUME NEW n, NEW high, NEW r, IsForm(r, n, high), Admitted(r.max, r.groups)
  PROVE  FormFits(r, n)
<1>1. n \in Nat /\ high \in Nat /\ r.max \in [1 .. n -> 1 .. high]
        /\ r.groups \subseteq [questions : SUBSET (1 .. n), answerN : 0 .. n]
  BY DEF IsForm
<1>2. Marked(r.max, n) /\ \A q \in 1 .. n : r.max[q] >= 0
  <2>1. \A q \in 1 .. n : r.max[q] \in 1 .. high
    BY <1>1
  <2>2. \A q \in 1 .. n : r.max[q] \in Int /\ r.max[q] >= 0
    BY <1>1, <2>1
  <2> QED
    BY <2>2 DEF Marked
<1>3. \A g \in r.groups : g.questions \subseteq 1 .. n /\ g.answerN \in 1 .. Cardinality(g.questions)
  <2> TAKE g \in r.groups
  <2>1. g.questions \in SUBSET (1 .. n) /\ g.answerN \in 0 .. n
    BY <1>1
  <2>2. Cardinality(g.questions) \in Nat
    <3>1. IsFiniteSet(1 .. n)
      BY <1>1, FS_Interval
    <3>2. IsFiniteSet(g.questions)
      BY <2>1, <3>1, FS_Subset
    <3> QED
      BY <3>2, FS_CardinalityType
  <2>3. g.answerN >= 1 /\ g.answerN < Cardinality(g.questions)
    BY DEF Admitted
  <2> QED
    BY <1>1, <2>1, <2>2, <2>3
<1>4. \A g, h \in r.groups : g # h => g.questions \cap h.questions = {}
  BY DEF Admitted
<1>5. Sound(r.groups, n)
  BY <1>1, <1>3, <1>4, GroupsFinite DEF Sound
<1>6. Even(r.groups, r.max)
  BY DEF Admitted, Even
<1> QED
  BY <1>1, <1>2, <1>5, <1>6 DEF FormFits

LEMMA ChoiceOfForm ==
  ASSUME NEW n, NEW r, FormFits(r, n), NEW S \in Selections(r.groups, n)
  PROVE  SumIn(S, r.max, n) = SumIn(Others(r.groups, n), r.max, n) + OverGroups(r.max, r.groups)
<1>1. n \in Nat /\ Marked(r.max, n) /\ Sound(r.groups, n) /\ Even(r.groups, r.max)
        /\ IsFiniteSet(r.groups)
  BY DEF FormFits, Sound
<1>2. PICK a : Adds(a, OfEach(r.groups, r.max), r.groups) /\ OverGroups(r.max, r.groups) = a[r.groups]
  BY <1>1, OverGroupsAdds
<1>3. SumIn(S, r.max, n) = SumIn(Others(r.groups, n), r.max, n) + a[r.groups]
  BY <1>1, <1>2, ChoiceSummed
<1> QED
  BY <1>2, <1>3

-----------------------------------------------------------------------------
\* Marks of a script

LEMMA MarksCardinality == \A S : Marks!Cardinality(S) = Cardinality(S)
  BY DEF Marks!Cardinality, Cardinality

LEMMA MarksSum == ASSUME NEW S, NEW f PROVE Marks!SumOf(S, f) = SumIn(S, f, NRows)
  BY RunningIsTotal DEF Marks!SumOf, Marks!Rows, SumIn, On

LEMMA MarksGrouped == ASSUME NEW groups PROVE Marks!Rows \ Marks!Grouped(groups) = Others(groups, NRows)
  BY DEF Marks!Rows, Marks!Grouped, Others, Covered

LEMMA MarksTaken == ASSUME NEW score PROVE Marks!Reselected(score) = Taken(rubric.groups, score, NRows)
<1>1. \A G, n : {q \in G : Marks!Cardinality({p \in G : Marks!Ahead(score, p, q)}) < n} = Top(score, G, n)
  <2> TAKE G, n
  <2>1. \A q : {p \in G : Marks!Ahead(score, p, q)} = Leaders(score, G, q)
    BY DEF Marks!Ahead, Leaders, Leads
  <2> QED
    BY <2>1, MarksCardinality DEF Top, Rank
<1>2. UNION {{q \in g.questions :
                Marks!Cardinality({p \in g.questions : Marks!Ahead(score, p, q)}) < g.answerN}
             : g \in rubric.groups} = Leading(rubric.groups, score)
  <2>1. \A x : (\E g \in rubric.groups :
                 x \in {q \in g.questions :
                        Marks!Cardinality({p \in g.questions : Marks!Ahead(score, p, q)}) < g.answerN})
               <=> \E g \in rubric.groups : x \in Top(score, g.questions, g.answerN)
    BY <1>1
  <2> QED
    BY <2>1 DEF Leading
<1> QED
  BY <1>2, MarksGrouped DEF Marks!Reselected, Taken

LEMMA MarksChoices == Marks!FullChoices = Selections(rubric.groups, NRows)
<1>1. \A S : (\A g \in rubric.groups : Marks!Cardinality(S \cap g.questions) = g.answerN)
               <=> \A g \in rubric.groups : Cardinality(S \cap g.questions) = g.answerN
  BY MarksCardinality
<1>2. Marks!Rows = 1 .. NRows
  BY DEF Marks!Rows
<1> QED
  BY <1>1, <1>2, MarksGrouped DEF Marks!FullChoices, Selections

LEMMA MarksMaximum ==
  ASSUME NEW max, NEW groups
  PROVE  Marks!CountedMax(max, groups) = SumIn(Others(groups, NRows), max, NRows) + OverGroups(max, groups)
<1>1. Marks!CountedMax(max, groups)
        = Marks!SumOf(Marks!Rows \ Marks!Grouped(groups), max) + OverGroups(max, groups)
  BY DEF Marks!CountedMax, Marks!MapThenSumSet, Marks!MapThenFoldSet, Some, OverGroups
<1> QED
  BY <1>1, MarksSum, MarksGrouped

\* What the constants of the instance are.
LEMMA MarksMeans ==
  /\ NRows \in Nat /\ RowMax \in Nat /\ Watched \subseteq 1 .. NRows
  /\ \A r \in RubricForms : IsForm(r, NRows, RowMax)
  BY MarksConstants DEF Marks!ConstantsOK, Marks!Rows, Marks!Groups, IsForm

LEMMA MarksAdmitted ==
  ASSUME NEW max, NEW groups, Marks!ValidGroups(max, groups) PROVE Admitted(max, groups)
<1>1. \A g \in groups : g.answerN >= 1 /\ g.answerN < Cardinality(g.questions)
                            /\ \A p, q \in g.questions : max[p] = max[q]
  BY MarksCardinality DEF Marks!ValidGroups, Marks!ValidGroup
<1>2. \A g, h \in groups : g # h => g.questions \cap h.questions = {}
  BY DEF Marks!ValidGroups
<1> QED
  BY <1>1, <1>2 DEF Admitted

\* A rubric that was saved.
RubricFits(r) == FormFits(r, NRows) /\ r.total = Marks!CountedMax(r.max, r.groups)

LEMMA SavedFits ==
  ASSUME NEW r \in RubricForms, Marks!ValidGroups(r.max, r.groups),
         Marks!CountedMax(r.max, r.groups) = r.total
  PROVE  RubricFits(r)
  BY MarksMeans, MarksAdmitted, AdmittedFits DEF RubricFits

\* What counts is out of the rubric's total.
LEMMA CountedOfRubric ==
  ASSUME NEW r, RubricFits(r), NEW S \in Selections(r.groups, NRows)
  PROVE  SumIn(S, r.max, NRows) = r.total
  BY MarksMaximum, ChoiceOfForm DEF RubricFits

\* A saved marking: marks within those of the rubric, and what counts of them.
Limited(a, r) ==
  \A q \in 1 .. NRows : /\ a.final[q] = a.ai[q] + a.grace[q]
                        /\ 0 <= a.final[q] /\ a.final[q] <= r.max[q]
AnswerFits(a, r) ==
  /\ a.ai \in [1 .. NRows -> Int] /\ a.grace \in [1 .. NRows -> Int] /\ Limited(a, r)
  /\ a.counted = Taken(r.groups, a.final, NRows)
  /\ a.total = SumIn(a.counted, a.final, NRows)
  /\ a.maximum = r.total
  /\ a.unanswered \subseteq 1 .. NRows /\ \A q \in a.unanswered : a.final[q] = 0
  /\ a.flagged \subseteq 1 .. NRows /\ \A q \in a.flagged : a.final[q] = a.ai[q]

MarksInv ==
  /\ rubric = Marks!Absent \/ RubricFits(rubric)
  /\ answer = Marks!Absent \/ (RubricFits(rubric) /\ AnswerFits(answer, rubric))

LEMMA FitsMarked ==
  ASSUME NEW a, NEW r, RubricFits(r), AnswerFits(a, r) PROVE Marked(a.final, NRows)
<1>1. \A q \in 1 .. NRows : a.ai[q] \in Int /\ a.grace[q] \in Int /\ a.final[q] = a.ai[q] + a.grace[q]
  BY DEF AnswerFits, Limited
<1> QED
  BY <1>1 DEF Marked

\* The properties follow.
LEMMA MarksFollow ==
  ASSUME MarksInv
  PROVE  /\ Marks!BestChoiceCounts /\ Marks!TotalIsOutOfRubric
         /\ Marks!UnansweredHasNoMarks /\ Marks!FlaggedKeepAIMarks
<1> SUFFICES ASSUME answer # Marks!Absent
             PROVE  /\ answer.counted \in Marks!FullChoices
                    /\ \A S \in Marks!FullChoices : Marks!CountedSum(S, answer.final) <= answer.total
                    /\ answer.maximum = rubric.total /\ answer.total \in 0 .. rubric.total
                    /\ \A q \in answer.unanswered : answer.final[q] = 0
                    /\ \A q \in answer.flagged : answer.final[q] = answer.ai[q]
  BY DEF Marks!BestChoiceCounts, Marks!TotalIsOutOfRubric, Marks!UnansweredHasNoMarks,
         Marks!FlaggedKeepAIMarks
<1>1. RubricFits(rubric) /\ AnswerFits(answer, rubric)
  BY DEF MarksInv
<1>2. PICK f : f = answer.final
  OBVIOUS
<1>3. PICK C : C = answer.counted
  OBVIOUS
<1>4. PICK G : G = rubric.groups
  OBVIOUS
<1>5. Marked(f, NRows) /\ Sound(G, NRows) /\ NRows \in Nat
  BY <1>1, <1>2, <1>4, FitsMarked, MarksMeans DEF RubricFits, FormFits
<1>6. C = Taken(G, f, NRows) /\ answer.total = SumIn(C, f, NRows)
  BY <1>1, <1>2, <1>3, <1>4 DEF AnswerFits
<1>7. C \in Selections(G, NRows)
  BY <1>5, <1>6, TakenIsChoice
<1>8. \A S \in Selections(G, NRows) : SumIn(S, f, NRows) <= answer.total
  BY <1>5, <1>6, TakenIsBest
<1>9. \A S : Marks!CountedSum(S, f) = SumIn(S, f, NRows)
  BY MarksSum DEF Marks!CountedSum
<1>10. Marks!FullChoices = Selections(G, NRows)
  BY <1>4, MarksChoices
<1>11. answer.total \in 0 .. rubric.total
  <2>1. PICK m : m = rubric.max
    OBVIOUS
  <2>2. Marked(m, NRows) /\ \A q \in 1 .. NRows : 0 <= f[q] /\ f[q] <= m[q]
    BY <1>1, <1>2, <2>1 DEF RubricFits, FormFits, AnswerFits, Limited
  <2>3. SumIn(C, m, NRows) = rubric.total
    BY <1>1, <1>4, <1>7, <2>1, CountedOfRubric
  <2>4. SumIn(C, f, NRows) <= SumIn(C, m, NRows)
    BY <1>5, <2>2, SumsCompare
  <2>5. SumIn(C, f, NRows) >= 0
    <3>1. \A q \in 1 .. NRows : f[q] >= 0
      BY <1>5, <2>2 DEF Marked
    <3> QED
      BY <1>5, <3>1, SumNatural
  <2>6. SumIn(C, f, NRows) \in Int /\ SumIn(C, m, NRows) \in Int
    BY <1>5, <2>2, SumInInt
  <2> QED
    BY <1>6, <2>3, <2>4, <2>5, <2>6
<1>12. /\ answer.maximum = rubric.total
       /\ \A q \in answer.unanswered : answer.final[q] = 0
       /\ \A q \in answer.flagged : answer.final[q] = answer.ai[q]
  BY <1>1 DEF AnswerFits
<1> QED
  BY <1>2, <1>3, <1>7, <1>8, <1>9, <1>10, <1>11, <1>12

\* Whatever is marked within the limits is saved consistent with itself.
LEMMA MarkedFits ==
  ASSUME RubricFits(rubric), NEW ai \in [1 .. NRows -> Int], NEW grace \in [1 .. NRows -> Int],
         NEW flagged \in SUBSET (1 .. NRows), NEW unanswered \in SUBSET (1 .. NRows), NEW by,
         \A q \in 1 .. NRows : 0 <= ai[q] + grace[q] /\ ai[q] + grace[q] <= rubric.max[q],
         \A q \in unanswered : ai[q] + grace[q] = 0,
         \A q \in flagged : grace[q] = 0
  PROVE  AnswerFits(Marks!Marked(ai, grace, flagged, unanswered, by), rubric)
<1>1. PICK f : f = [q \in Marks!Rows |-> ai[q] + grace[q]]
  OBVIOUS
<1>2. PICK C : C = Marks!Reselected(f)
  OBVIOUS
<1>3. PICK a : a = Marks!Marked(ai, grace, flagged, unanswered, by)
  OBVIOUS
<1>4. a = [ai |-> ai, grace |-> grace, final |-> f, counted |-> C, flagged |-> flagged,
           unanswered |-> unanswered, by |-> by, total |-> Marks!CountedSum(C, f),
           maximum |-> Marks!CountedSum(C, rubric.max)]
  BY <1>1, <1>2, <1>3 DEF Marks!Marked
<1>5. \A q \in 1 .. NRows : f[q] = ai[q] + grace[q]
  BY <1>1 DEF Marks!Rows
<1>6. Marked(f, NRows)
  BY <1>5 DEF Marked
<1>7. C = Taken(rubric.groups, f, NRows)
  BY <1>2, MarksTaken
<1>8. C \in Selections(rubric.groups, NRows)
  BY <1>6, <1>7, MarksMeans, TakenIsChoice DEF RubricFits, FormFits
<1>9. Marks!CountedSum(C, f) = SumIn(C, f, NRows)
  BY MarksSum DEF Marks!CountedSum
<1>10. Marks!CountedSum(C, rubric.max) = rubric.total
  BY <1>8, MarksSum, CountedOfRubric DEF Marks!CountedSum
<1>11. Limited(a, rubric)
  BY <1>4, <1>5 DEF Limited
<1>12. (\A q \in unanswered : f[q] = 0) /\ \A q \in flagged : f[q] = ai[q]
  BY <1>5
<1>13. AnswerFits(a, rubric)
  BY <1>4, <1>7, <1>9, <1>10, <1>11, <1>12 DEF AnswerFits
<1> QED
  BY <1>3, <1>13

LEMMA MarksInit == ASSUME Marks!Init PROVE MarksInv
  BY DEF Marks!Init, MarksInv

LEMMA StepSaveRubric ==
  ASSUME MarksInv, NEW r \in RubricForms, Marks!SaveRubric(r) PROVE MarksInv'
<1>1. answer = Marks!Absent /\ answer' = answer /\ rubric' = r
        /\ Marks!ValidGroups(r.max, r.groups) /\ Marks!CountedMax(r.max, r.groups) = r.total
  BY DEF Marks!SaveRubric
<1>2. RubricFits(r)
  BY <1>1, SavedFits
<1>3. answer' = Marks!Absent /\ RubricFits(rubric')
  BY <1>1, <1>2
<1> QED
  BY <1>3 DEF MarksInv

LEMMA NewAnswer ==
  ASSUME MarksInv, rubric # Marks!Absent, rubric' = rubric,
         NEW a, answer' = a, RubricFits(rubric) => AnswerFits(a, rubric)
  PROVE  MarksInv'
<1>1. RubricFits(rubric)
  BY DEF MarksInv
<1>2. RubricFits(rubric) /\ AnswerFits(a, rubric)
  BY <1>1
<1>3. RubricFits(rubric') /\ AnswerFits(answer', rubric')
  BY <1>2
<1> QED
  BY <1>3 DEF MarksInv

\* Marks without an adjustment.
LEMMA FirstMarks ==
  ASSUME RubricFits(rubric), NEW ai \in [1 .. NRows -> 0 .. RowMax],
         NEW flagged \in SUBSET (1 .. NRows), NEW unanswered \in SUBSET (1 .. NRows), NEW by,
         \A q \in 1 .. NRows : ai[q] \in 0 .. rubric.max[q],
         \A q \in unanswered : ai[q] = 0
  PROVE  AnswerFits(Marks!Marked(ai, Marks!NoGrace, flagged, unanswered, by), rubric)
<1>1. PICK z : z = Marks!NoGrace
  OBVIOUS
<1>2. z \in [1 .. NRows -> Int] /\ \A q \in 1 .. NRows : z[q] = 0
  BY <1>1 DEF Marks!NoGrace, Marks!Rows
<1>3. ai \in [1 .. NRows -> Int]
  BY MarksMeans
<1>4. \A q \in 1 .. NRows : ai[q] + z[q] = ai[q]
  BY <1>2, <1>3
<1>5. \A q \in 1 .. NRows : 0 <= ai[q] + z[q] /\ ai[q] + z[q] <= rubric.max[q]
  <2>1. \A q \in 1 .. NRows : rubric.max[q] \in Int
    BY DEF RubricFits, FormFits, Marked
  <2> QED
    BY <1>4, <2>1
<1>6. \A q \in unanswered : ai[q] + z[q] = 0
  BY <1>4
<1>7. \A q \in flagged : z[q] = 0
  BY <1>2
<1>8. AnswerFits(Marks!Marked(ai, z, flagged, unanswered, by), rubric)
  BY <1>2, <1>3, <1>5, <1>6, <1>7, MarkedFits
<1> QED
  BY <1>1, <1>8

LEMMA StepEvaluate ==
  ASSUME MarksInv, NEW ai \in [Marks!Rows -> 0 .. RowMax],
         NEW f \in SUBSET Watched, NEW u \in SUBSET Watched, Marks!Evaluate(ai, f, u)
  PROVE  MarksInv'
<1>1. rubric # Marks!Absent /\ rubric' = rubric
        /\ answer' = Marks!Marked(ai, Marks!NoGrace, f, u, "ai")
        /\ (\A q \in 1 .. NRows : ai[q] \in 0 .. rubric.max[q]) /\ \A q \in u : ai[q] = 0
  BY DEF Marks!Evaluate, Marks!Rows
<1>2. f \in SUBSET (1 .. NRows) /\ u \in SUBSET (1 .. NRows) /\ ai \in [1 .. NRows -> 0 .. RowMax]
  BY MarksMeans DEF Marks!Rows
<1>3. RubricFits(rubric) => AnswerFits(Marks!Marked(ai, Marks!NoGrace, f, u, "ai"), rubric)
  BY <1>1, <1>2, FirstMarks
<1> QED
  BY <1>1, <1>3, NewAnswer

LEMMA StepEnterManually ==
  ASSUME MarksInv, NEW marks \in [Marks!Rows -> 0 .. RowMax], Marks!EnterManually(marks)
  PROVE  MarksInv'
<1>1. rubric # Marks!Absent /\ rubric' = rubric
        /\ answer' = Marks!Marked(marks, Marks!NoGrace, {}, {}, "manual")
        /\ \A q \in 1 .. NRows : marks[q] \in 0 .. rubric.max[q]
  BY DEF Marks!EnterManually, Marks!Rows
<1>2. marks \in [1 .. NRows -> 0 .. RowMax]
  BY DEF Marks!Rows
<1>3. PICK e : e = {}
  OBVIOUS
<1>4. e \in SUBSET (1 .. NRows) /\ \A q \in e : marks[q] = 0
  BY <1>3
<1>5. RubricFits(rubric) => AnswerFits(Marks!Marked(marks, Marks!NoGrace, e, e, "manual"), rubric)
  BY <1>1, <1>2, <1>4, FirstMarks
<1> QED
  BY <1>1, <1>3, <1>5, NewAnswer

\* What a review saves, with the maximum there was.
LEMMA RevisedFits ==
  ASSUME RubricFits(rubric), AnswerFits(answer, rubric),
         NEW grace \in [1 .. NRows -> Int], NEW confirmed,
         Marks!WithinLimits(grace), Marks!ReviewAllowed(grace, confirmed)
  PROVE  AnswerFits(Marks!Revised(grace, confirmed), rubric)
<1>1. PICK ai : ai = answer.ai
  OBVIOUS
<1>2. PICK flagged : flagged = answer.flagged \ confirmed
  OBVIOUS
<1>3. PICK unanswered : unanswered = Marks!StillUnanswered(grace)
  OBVIOUS
<1>4. PICK by : by = IF answer.by = "manual" THEN "manual" ELSE "faculty"
  OBVIOUS
<1>5. /\ ai \in [1 .. NRows -> Int] /\ answer.grace \in [1 .. NRows -> Int]
      /\ \A q \in 1 .. NRows : answer.final[q] = ai[q] + answer.grace[q]
      /\ answer.maximum = rubric.total
      /\ answer.unanswered \subseteq 1 .. NRows
      /\ answer.flagged \subseteq 1 .. NRows /\ \A q \in answer.flagged : answer.final[q] = ai[q]
  BY <1>1 DEF AnswerFits, Limited
<1>6. \A q \in 1 .. NRows : 0 <= ai[q] + grace[q] /\ ai[q] + grace[q] <= rubric.max[q]
  <2> TAKE q \in 1 .. NRows
  <2>1. ai[q] + grace[q] \in 0 .. rubric.max[q]
    BY <1>1 DEF Marks!WithinLimits, Marks!Rows
  <2>2. rubric.max[q] \in Int
    BY DEF RubricFits, FormFits, Marked
  <2> QED
    BY <2>1, <2>2
<1>7. unanswered \in SUBSET (1 .. NRows) /\ \A q \in unanswered : ai[q] + grace[q] = 0
  <2>1. \A q \in unanswered : q \in 1 .. NRows /\ ai[q] + grace[q] <= 0
    BY <1>1, <1>3, <1>5 DEF Marks!StillUnanswered
  <2>2. \A q \in 1 .. NRows : ai[q] + grace[q] \in Int
    BY <1>5
  <2> QED
    BY <1>6, <2>1, <2>2
<1>8. flagged \in SUBSET (1 .. NRows) /\ \A q \in flagged : grace[q] = 0
  <2>1. \A q \in flagged : q \in answer.flagged /\ q \in 1 .. NRows /\ grace[q] = answer.grace[q]
    BY <1>2, <1>5 DEF Marks!ReviewAllowed
  <2>2. \A q \in flagged : ai[q] + answer.grace[q] = ai[q]
    BY <1>5, <2>1
  <2>3. \A q \in 1 .. NRows : ai[q] \in Int /\ answer.grace[q] \in Int
    BY <1>5
  <2> QED
    BY <2>1, <2>2, <2>3
<1>9. PICK m : m = Marks!Marked(ai, grace, flagged, unanswered, by)
  OBVIOUS
<1>10. AnswerFits(m, rubric)
  BY <1>5, <1>6, <1>7, <1>8, <1>9, MarkedFits
<1>11. Marks!Revised(grace, confirmed) = [m EXCEPT !.maximum = answer.maximum]
  BY <1>1, <1>2, <1>3, <1>4, <1>9 DEF Marks!Revised
<1>12. m.maximum = answer.maximum
  BY <1>5, <1>10 DEF AnswerFits
<1>13. [m EXCEPT !.maximum = answer.maximum] = m
  <2>1. m = [ai |-> m.ai, grace |-> m.grace, final |-> m.final, counted |-> m.counted,
             flagged |-> m.flagged, unanswered |-> m.unanswered, by |-> m.by,
             total |-> m.total, maximum |-> m.maximum]
    BY <1>9 DEF Marks!Marked
  <2> QED
    BY <1>12, <2>1
<1> QED
  BY <1>10, <1>11, <1>13

LEMMA StepReviewOne == ASSUME MarksInv, Marks!ReviewOne PROVE MarksInv'
<1>1. answer # Marks!Absent
  BY DEF Marks!ReviewOne
<1>2. RubricFits(rubric) /\ AnswerFits(answer, rubric)
  BY <1>1 DEF MarksInv
<1>3. PICK q \in 1 .. NRows, d \in -RowMax .. RowMax, confirmed \in SUBSET answer.flagged :
        Marks!Review([answer.grace EXCEPT ![q] = d], confirmed)
  BY DEF Marks!ReviewOne, Marks!Rows
<1>4. PICK grace : grace = [answer.grace EXCEPT ![q] = d]
  OBVIOUS
<1>5. grace \in [1 .. NRows -> Int]
  <2>1. answer.grace \in [1 .. NRows -> Int] /\ d \in Int
    BY <1>2, MarksMeans DEF AnswerFits
  <2> QED
    BY <1>4, <2>1
<1>6. Marks!WithinLimits(grace) /\ Marks!ReviewAllowed(grace, confirmed)
        /\ answer' = Marks!Revised(grace, confirmed) /\ rubric' = rubric
  BY <1>3, <1>4 DEF Marks!Review, Marks!Reviewed
<1>7. PICK a : a = Marks!Revised(grace, confirmed)
  OBVIOUS
<1>8. AnswerFits(a, rubric)
  BY <1>2, <1>5, <1>6, <1>7, RevisedFits
<1>9. RubricFits(rubric') /\ AnswerFits(answer', rubric')
  BY <1>2, <1>6, <1>7, <1>8
<1> QED
  BY <1>9 DEF MarksInv

LEMMA MarksStep == ASSUME MarksInv, [Marks!Next]_ofMarks PROVE MarksInv'
<1>1. CASE UNCHANGED ofMarks
  BY <1>1 DEF MarksInv, ofMarks
<1>2. CASE Marks!Next
  <2>1. CASE \E r \in RubricForms : Marks!SaveRubric(r)
    BY <2>1, StepSaveRubric
  <2>2. CASE \E ai \in [Marks!Rows -> 0 .. RowMax], f \in SUBSET Watched, u \in SUBSET Watched :
               Marks!Evaluate(ai, f, u)
    BY <2>2, StepEvaluate
  <2>3. CASE \E marks \in [Marks!Rows -> 0 .. RowMax] : Marks!EnterManually(marks)
    BY <2>3, StepEnterManually
  <2>4. CASE Marks!ReviewOne
    BY <2>4, StepReviewOne
  <2> QED
    BY <1>2, <2>1, <2>2, <2>3, <2>4 DEF Marks!Next
<1> QED
  BY <1>1, <1>2

-----------------------------------------------------------------------------
\* Shares

\* x is a times e and r, row by row.
Combined(x, a, e, r, n) == \A k \in 1 .. n : x[k] = a * e[k] + r[k]

LEMMA Distributes == \A a, x, y, u, v \in Int : (a * x + u) + (a * y + v) = a * (x + y) + (u + v)
  OBVIOUS

LEMMA TotalCombined ==
  ASSUME NEW n \in Nat, NEW a \in Int, NEW x, NEW e, NEW r,
         Marked(e, n), Marked(r, n), Combined(x, a, e, r, n)
  PROVE  Total(n, x) = a * Total(n, e) + Total(n, r)
<1>0. Marked(x, n)
  <2>1. \A k \in 1 .. n : e[k] \in Int /\ r[k] \in Int /\ x[k] = a * e[k] + r[k]
    BY DEF Marked, Combined
  <2>2. \A k \in 1 .. n : x[k] \in Int
    BY <2>1
  <2> QED
    BY <2>2 DEF Marked
<1>1. PICK f : Runs(f, x, n) /\ Total(n, x) = f[n]
  BY <1>0, TotalRuns
<1>2. PICK g : Runs(g, e, n) /\ Total(n, e) = g[n]
  BY TotalRuns
<1>3. PICK h : Runs(h, r, n) /\ Total(n, r) = h[n]
  BY TotalRuns
<1> DEFINE P == {k \in 0 .. n : f[k] = a * g[k] + h[k]}
<1>4. 0 \in P
  BY <1>1, <1>2, <1>3 DEF Runs
<1>5. ASSUME NEW k \in 1 .. n, k - 1 \in P PROVE k \in P
  <2>1. f[k - 1] = a * g[k - 1] + h[k - 1]
    BY <1>5
  <2>2. k - 1 \in 0 .. n /\ k \in 0 .. n
    OBVIOUS
  <2>3. g[k - 1] \in Int /\ h[k - 1] \in Int /\ e[k] \in Int /\ r[k] \in Int
    BY <1>2, <1>3, <2>2 DEF Runs, Marked
  <2>4. f[k] = f[k - 1] + x[k] /\ x[k] = a * e[k] + r[k]
    BY <1>1 DEF Runs, Combined
  <2>5. g[k] = g[k - 1] + e[k] /\ h[k] = h[k - 1] + r[k]
    BY <1>2, <1>3 DEF Runs
  <2>6. (a * g[k - 1] + h[k - 1]) + (a * e[k] + r[k])
          = a * (g[k - 1] + e[k]) + (h[k - 1] + r[k])
    BY <2>3, Distributes
  <2>7. f[k] = a * g[k] + h[k]
    BY <2>1, <2>4, <2>5, <2>6
  <2> QED
    BY <2>2, <2>7
<1>6. n \in P
  <2> HIDE DEF P
  <2>1. \A k \in 0 .. n : k \in P
    BY <1>4, <1>5, UpTo
  <2> QED
    BY <2>1
<1> QED
  BY <1>1, <1>2, <1>3, <1>6

LEMMA Divided ==
  ASSUME NEW x \in Nat, NEW d \in Nat, d > 0
  PROVE  \E q, r \in Nat : q = x \div d /\ r = x % d /\ r < d /\ x = d * q + r
<1>1. x \div d \in Nat
  OBVIOUS
<1>2. x % d \in Nat /\ x % d < d
  OBVIOUS
<1>3. PICK q \in Nat : q = x \div d
  BY <1>1
<1>4. PICK r \in Nat : r = x % d
  BY <1>2
<1>5. x = d * q + r
  BY <1>3, <1>4
<1>6. r < d
  BY <1>2, <1>4
<1> QED
  BY <1>3, <1>4, <1>5, <1>6

\* A mark over outcomes c: the whole parts, what is left of each, those that
\* carry marks, how many units are left to give, and the shares.
Whole(m, c, n) == [i \in 1 .. n |-> (m * c[i]) \div Total(n, c)]
Remain(m, c, n) == [i \in 1 .. n |-> (m * c[i]) % Total(n, c)]
Carrying(c, n) == {i \in 1 .. n : c[i] > 0}
Left(m, c, n) == m - Total(n, Whole(m, c, n))
Receive(m, c, n) == Top(Remain(m, c, n), Carrying(c, n), Left(m, c, n))
Shares(m, c, n) == [i \in 1 .. n |-> Whole(m, c, n)[i] + (IF i \in Receive(m, c, n) THEN 1 ELSE 0)]

\* Outcomes, and a mark that is not over their sum.
Shareable(m, c, n) ==
  /\ n \in Nat /\ c \in [1 .. n -> Nat] /\ Total(n, c) \in Nat /\ Total(n, c) > 0
  /\ m \in Nat /\ m <= Total(n, c)

LEMMA MultipleNatural == \A x, y \in Nat : x * y \in Nat
  OBVIOUS

LEMMA SharedParts ==
  ASSUME NEW m, NEW c, NEW n, Shareable(m, c, n), NEW e, e = Whole(m, c, n),
         NEW r, r = Remain(m, c, n), NEW t, t = Total(n, c)
  PROVE  \A i \in 1 .. n : e[i] \in Nat /\ r[i] \in Nat /\ r[i] < t /\ m * c[i] = t * e[i] + r[i]
<1> TAKE i \in 1 .. n
<1>1. m \in Nat /\ c[i] \in Nat /\ t \in Nat /\ t > 0
  BY DEF Shareable
<1>2. PICK x : x = m * c[i]
  OBVIOUS
<1>3. x \in Nat
  BY <1>1, <1>2, MultipleNatural
<1>4. e[i] = x \div t /\ r[i] = x % t
  BY <1>2 DEF Whole, Remain
<1>5. PICK q, d \in Nat : q = x \div t /\ d = x % t /\ d < t /\ x = t * q + d
  BY <1>1, <1>3, Divided
<1>6. e[i] = q /\ r[i] = d
  BY <1>4, <1>5
<1> QED
  BY <1>2, <1>5, <1>6

LEMMA CarryingScored ==
  ASSUME NEW m, NEW c, NEW n, Shareable(m, c, n)
  PROVE  Scored(Remain(m, c, n), Carrying(c, n))
<1>1. PICK r : r = Remain(m, c, n)
  OBVIOUS
<1>2. \A i \in 1 .. n : r[i] \in Int
  BY <1>1, SharedParts
<1>3. Carrying(c, n) \in SUBSET (1 .. n)
  BY DEF Carrying
<1>4. n \in Int
  BY DEF Shareable
<1>5. IsFiniteSet(1 .. n)
  BY <1>4, FS_Interval
<1>6. IsFiniteSet(Carrying(c, n))
  BY <1>3, <1>5, FS_Subset
<1> QED
  BY <1>1, <1>2, <1>3, <1>6 DEF Scored

LEMMA Product == \A t, d, s \in Nat : t * d <= s * (t - 1) /\ t > 0 => d <= s
<1> TAKE t, d, s \in Nat
<1> SUFFICES ASSUME t > 0, ~(d <= s) PROVE ~(t * d <= s * (t - 1))
  OBVIOUS
<1>1. PICK k \in Nat : d = s + 1 + k
  <2>1. d - s - 1 \in Nat /\ d = s + 1 + (d - s - 1)
    OBVIOUS
  <2> QED
    BY <2>1
<1>2. t * d = t * s + t + t * k
  BY <1>1
<1>3. s * (t - 1) = t * s - s
  OBVIOUS
<1>4. t * k \in Nat /\ t * s \in Nat
  OBVIOUS
<1> QED
  BY <1>2, <1>3, <1>4

\* As many units are left as the remainders make up, never more than there are
\* outcomes that carry marks.
LEMMA LeftBounded ==
  ASSUME NEW m, NEW c, NEW n, Shareable(m, c, n)
  PROVE  /\ Left(m, c, n) \in 0 .. Cardinality(Carrying(c, n))
         /\ Total(n, c) * Left(m, c, n) = Total(n, Remain(m, c, n))
         /\ Total(n, Whole(m, c, n)) \in Int
<1>1. PICK e : e = Whole(m, c, n)
  OBVIOUS
<1>2. PICK r : r = Remain(m, c, n)
  OBVIOUS
<1>3. PICK t : t = Total(n, c)
  OBVIOUS
<1>4. n \in Nat /\ c \in [1 .. n -> Nat] /\ t \in Nat /\ t > 0 /\ m \in Nat /\ m <= t
  BY <1>3 DEF Shareable
<1>5. \A i \in 1 .. n : e[i] \in Nat /\ r[i] \in Nat /\ r[i] < t /\ m * c[i] = t * e[i] + r[i]
  BY <1>1, <1>2, <1>3, SharedParts
<1>6. Marked(e, n) /\ Marked(r, n) /\ Marked(c, n)
  BY <1>4, <1>5 DEF Marked
<1>7. PICK x : x = [i \in 1 .. n |-> m * c[i]]
  OBVIOUS
<1>8. PICK z : z = [i \in 1 .. n |-> 0]
  OBVIOUS
<1>9. Marked(z, n) /\ Total(n, z) = 0
  <2>1. Zero(z, n) /\ Marked(z, n)
    BY <1>8 DEF Zero, Marked
  <2> QED
    BY <1>4, <2>1, TotalZero
<1>10. Total(n, x) = m * t
  <2>1. \A i \in 1 .. n : x[i] = m * c[i] + z[i]
    BY <1>4, <1>7, <1>8
  <2>2. Combined(x, m, c, z, n)
    BY <2>1 DEF Combined
  <2>3. Total(n, x) = m * Total(n, c) + Total(n, z)
    BY <1>4, <1>6, <1>9, <2>2, TotalCombined
  <2> QED
    BY <1>3, <1>4, <1>9, <2>3
<1>11. Total(n, x) = t * Total(n, e) + Total(n, r)
  <2>1. Combined(x, t, e, r, n)
    BY <1>5, <1>7 DEF Combined
  <2> QED
    BY <1>4, <1>6, <2>1, TotalCombined
<1>12. PICK w : w = Total(n, e)
  OBVIOUS
<1>13. PICK y : y = Total(n, r)
  OBVIOUS
<1>14. w \in Int /\ y \in Int
  BY <1>4, <1>6, <1>12, <1>13, TotalInt
<1>15. t * (m - w) = y
  <2>1. m * t = t * w + y
    BY <1>10, <1>11, <1>12, <1>13
  <2>2. t * (m - w) = m * t - t * w
    BY <1>4, <1>14
  <2>3. t * w \in Int
    BY <1>4, <1>14
  <2> QED
    BY <1>14, <2>1, <2>2, <2>3
<1>16. PICK S : S = Carrying(c, n)
  OBVIOUS
<1>17. S \in SUBSET (1 .. n) /\ IsFiniteSet(S) /\ Cardinality(S) \in Nat
  <2>1. Scored(r, S)
    BY <1>2, <1>16, CarryingScored
  <2> QED
    BY <1>16, <2>1, FS_CardinalityType DEF Scored, Carrying
<1>18. y >= 0
  <2>1. \A i \in 1 .. n : z[i] + z[i] <= r[i] + z[i]
    BY <1>5, <1>8
  <2>2. NoMore(z, z, r, z, n)
    BY <2>1 DEF NoMore
  <2>3. Total(n, z) + Total(n, z) <= Total(n, r) + Total(n, z)
    BY <1>4, <1>6, <1>9, <2>2, TotalsCompare
  <2> QED
    BY <1>9, <1>13, <1>14, <2>3
<1>19. y <= Cardinality(S) * (t - 1)
  <2>1. PICK b : b = [i \in 1 .. n |-> t - 1]
    OBVIOUS
  <2>2. Marked(b, n) /\ \A q \in S : b[q] = t - 1
    BY <1>4, <1>17, <2>1 DEF Marked
  <2>3. SumIn(S, b, n) = Cardinality(S) * (t - 1)
    BY <1>4, <1>17, <2>2, SumEqual
  <2>4. PICK o : o = On(S, b, n)
    OBVIOUS
  <2>5. Marked(o, n)
    BY <1>4, <2>2, <2>4, OnMarked
  <2>6. \A i \in 1 .. n : r[i] + z[i] <= o[i] + z[i]
    <3> TAKE i \in 1 .. n
    <3>1. r[i] \in Nat /\ r[i] < t /\ z[i] = 0
      BY <1>5, <1>8
    <3>2. CASE i \in S
      <4>1. o[i] = t - 1
        BY <2>1, <2>4, <3>2 DEF On
      <4> QED
        BY <1>4, <3>1, <4>1
    <3>3. CASE i \notin S
      <4>1. c[i] = 0
        BY <1>4, <1>16, <3>3 DEF Carrying
      <4>2. o[i] = 0
        BY <2>4, <3>3 DEF On
      <4>3. r[i] = 0
        <5>1. m * c[i] = 0
          BY <1>4, <4>1
        <5>2. r[i] = 0 % t
          BY <1>2, <1>3, <5>1 DEF Remain
        <5> QED
          BY <1>4, <5>2
      <4> QED
        BY <3>1, <4>2, <4>3
    <3> QED
      BY <3>2, <3>3
  <2>7. NoMore(r, z, o, z, n)
    BY <2>6 DEF NoMore
  <2>8. Total(n, r) + Total(n, z) <= Total(n, o) + Total(n, z)
    BY <1>4, <1>6, <1>9, <2>5, <2>7, TotalsCompare
  <2>9. Total(n, o) \in Int
    BY <1>4, <2>5, TotalInt
  <2>10. Total(n, r) <= Total(n, o)
    BY <1>9, <1>13, <1>14, <2>8, <2>9
  <2>11. Total(n, o) = Cardinality(S) * (t - 1)
    BY <2>3, <2>4 DEF SumIn
  <2> QED
    BY <1>13, <2>10, <2>11
<1>20. PICK d : d = m - w
  OBVIOUS
<1>21. d \in Int /\ t * d = y
  BY <1>4, <1>14, <1>15, <1>20
<1>22. d >= 0
  <2> SUFFICES ASSUME d < 0 PROVE FALSE
    BY <1>21
  <2>1. t * d < 0
    BY <1>4, <1>21
  <2>2. y < 0
    BY <1>21, <2>1
  <2> QED
    BY <1>14, <1>18, <2>2
<1>23. d <= Cardinality(S)
  <2>1. d \in Nat /\ t * d <= Cardinality(S) * (t - 1)
    BY <1>19, <1>21, <1>22
  <2> QED
    BY <1>4, <1>17, <2>1, Product
<1> QED
  BY <1>1, <1>2, <1>3, <1>12, <1>13, <1>14, <1>16, <1>17, <1>20, <1>21, <1>22, <1>23 DEF Left

\* The shares add up to the mark.
LEMMA SharesAdd ==
  ASSUME NEW m, NEW c, NEW n, Shareable(m, c, n) PROVE Total(n, Shares(m, c, n)) = m
<1>1. PICK e : e = Whole(m, c, n)
  OBVIOUS
<1>2. PICK T : T = Receive(m, c, n)
  OBVIOUS
<1>3. PICK s : s = Shares(m, c, n)
  OBVIOUS
<1>4. PICK o : o = [i \in 1 .. n |-> 1]
  OBVIOUS
<1>5. PICK b : b = On(T, o, n)
  OBVIOUS
<1>6. n \in Nat /\ m \in Nat
  BY DEF Shareable
<1>7. \A i \in 1 .. n : e[i] \in Nat
  BY <1>1, SharedParts
<1>8. Marked(e, n) /\ Marked(o, n) /\ Marked(b, n)
  <2>1. Marked(e, n) /\ Marked(o, n)
    BY <1>4, <1>7 DEF Marked
  <2> QED
    BY <1>5, <1>6, <2>1, OnMarked
<1>9. Combined(s, 1, e, b, n)
  <2>1. \A i \in 1 .. n : s[i] = 1 * e[i] + b[i]
    <3> TAKE i \in 1 .. n
    <3>1. b[i] = IF i \in T THEN 1 ELSE 0
      BY <1>4, <1>5 DEF On
    <3>2. s[i] = e[i] + IF i \in T THEN 1 ELSE 0
      BY <1>1, <1>2, <1>3 DEF Shares
    <3>3. 1 * e[i] = e[i]
      BY <1>7
    <3> QED
      BY <3>1, <3>2, <3>3
  <2> QED
    BY <2>1 DEF Combined
<1>10. Total(n, s) = 1 * Total(n, e) + Total(n, b)
  BY <1>6, <1>8, <1>9, TotalCombined
<1>11. PICK d : d = Left(m, c, n)
  OBVIOUS
<1>12. d \in 0 .. Cardinality(Carrying(c, n)) /\ Total(n, e) \in Int
  BY <1>1, <1>11, LeftBounded
<1>13. Cardinality(T) = d
  <2>1. PICK r : r = Remain(m, c, n)
    OBVIOUS
  <2>2. PICK S : S = Carrying(c, n)
    OBVIOUS
  <2>3. Scored(r, S)
    BY <2>1, <2>2, CarryingScored
  <2>4. Cardinality(Top(r, S, d)) = d
    BY <1>12, <2>2, <2>3, TopCount
  <2> QED
    BY <1>2, <1>11, <2>1, <2>2, <2>4 DEF Receive
<1>14. Total(n, b) = d
  <2>1. T \in SUBSET (1 .. n)
    BY <1>2 DEF Receive, Top, Carrying
  <2>2. \A q \in T : o[q] = 1
    BY <1>4, <2>1
  <2>3. SumIn(T, o, n) = Cardinality(T) * 1
    BY <1>6, <1>8, <2>1, <2>2, SumEqual
  <2>4. d * 1 = d
    BY <1>12
  <2> QED
    BY <1>5, <1>13, <2>3, <2>4 DEF SumIn
<1>15. d = m - Total(n, e)
  BY <1>1, <1>11 DEF Left
<1>16. Total(n, s) = Total(n, e) + d
  BY <1>10, <1>12, <1>14
<1>17. Total(n, s) = m
  BY <1>6, <1>12, <1>15, <1>16
<1> QED
  BY <1>3, <1>17

\* Nothing is left of a mark that divides without a rest.
LEMMA NothingLeft ==
  ASSUME NEW m, NEW c, NEW n, Shareable(m, c, n),
         \A i \in 1 .. n : Remain(m, c, n)[i] = 0
  PROVE  Receive(m, c, n) = {}
<1>1. PICK t : t = Total(n, c) /\ t \in Nat /\ t > 0
  BY DEF Shareable
<1>2. PICK d : d = Left(m, c, n)
  OBVIOUS
<1>3. PICK r : r = Remain(m, c, n)
  OBVIOUS
<1>4. n \in Nat
  BY DEF Shareable
<1>5. Zero(r, n)
  BY <1>3 DEF Zero
<1>6. Total(n, r) = 0
  BY <1>4, <1>5, TotalZero
<1>7. t * d = 0 /\ d \in 0 .. Cardinality(Carrying(c, n))
  BY <1>1, <1>2, <1>3, <1>6, LeftBounded
<1>8. d \in Nat
  BY <1>7
<1>9. d = 0
  BY <1>1, <1>7, <1>8
<1>10. PICK S : S = Carrying(c, n)
  OBVIOUS
<1>11. Scored(r, S)
  BY <1>3, <1>10, CarryingScored
<1>12. \A q \in S : Rank(r, S, q) \in 0 .. Cardinality(S) - 1
  BY <1>11, RankBounded
<1>13. \A q \in S : ~(Rank(r, S, q) < 0)
  <2>1. \A k \in 0 .. Cardinality(S) - 1 : ~(k < 0)
    OBVIOUS
  <2> QED
    BY <1>12, <2>1
<1> QED
  BY <1>2, <1>3, <1>9, <1>10, <1>13 DEF Receive, Top

LEMMA WholeBelow ==
  \A m, t, c, e, r \in Nat : t * e + r = m * c /\ m < t /\ c > 0 => e < c
<1> TAKE m, t, c, e, r \in Nat
<1> SUFFICES ASSUME t * e + r = m * c, m < t, c > 0, ~(e < c) PROVE FALSE
  OBVIOUS
<1>1. PICK k \in Nat : e = c + k
  <2>1. e - c \in Nat /\ e = c + (e - c)
    OBVIOUS
  <2> QED
    BY <2>1
<1>2. PICK l \in Nat : t = m + 1 + l
  <2>1. t - m - 1 \in Nat /\ t = m + 1 + (t - m - 1)
    OBVIOUS
  <2> QED
    BY <2>1
<1>3. t * e = t * c + t * k
  BY <1>1
<1>4. t * c = m * c + c + l * c
  BY <1>2
<1>5. t * k \in Nat /\ l * c \in Nat /\ m * c \in Nat
  BY MultipleNatural
<1> QED
  BY <1>3, <1>4, <1>5

LEMMA WholeExact ==
  \A t, c, e, r \in Nat : t * e + r = t * c /\ r < t => e = c /\ r = 0
<1> TAKE t, c, e, r \in Nat
<1> HAVE t * e + r = t * c /\ r < t
<1>1. ~(e < c)
  <2> SUFFICES ASSUME e < c PROVE FALSE
    OBVIOUS
  <2>1. PICK k \in Nat : c = e + 1 + k
    <3>1. c - e - 1 \in Nat /\ c = e + 1 + (c - e - 1)
      OBVIOUS
    <3> QED
      BY <3>1
  <2>2. t * c = t * e + t + t * k
    BY <2>1
  <2>3. t * k \in Nat /\ t * e \in Nat
    BY MultipleNatural
  <2> QED
    BY <2>2, <2>3
<1>2. ~(e > c)
  <2> SUFFICES ASSUME e > c PROVE FALSE
    OBVIOUS
  <2>1. PICK k \in Nat : e = c + 1 + k
    <3>1. e - c - 1 \in Nat /\ e = c + 1 + (e - c - 1)
      OBVIOUS
    <3> QED
      BY <3>1
  <2>2. t * e = t * c + t + t * k
    BY <2>1
  <2>3. t * k \in Nat /\ t * c \in Nat
    BY MultipleNatural
  <2> QED
    BY <2>2, <2>3
<1>3. e = c
  BY <1>1, <1>2
<1>4. t * e \in Nat
  BY MultipleNatural
<1> QED
  BY <1>3, <1>4

\* No share is over what the outcome carries, and each is within one unit.
LEMMA SharesWithin ==
  ASSUME NEW m, NEW c, NEW n, Shareable(m, c, n), NEW i \in 1 .. n
  PROVE  /\ Shares(m, c, n)[i] \in Nat /\ Shares(m, c, n)[i] <= c[i]
         /\ Shares(m, c, n)[i] - Whole(m, c, n)[i] \in {0, 1}
<1>1. PICK e : e = Whole(m, c, n)
  OBVIOUS
<1>2. PICK r : r = Remain(m, c, n)
  OBVIOUS
<1>3. PICK s : s = Shares(m, c, n)
  OBVIOUS
<1>4. PICK t : t = Total(n, c)
  OBVIOUS
<1>5. PICK T : T = Receive(m, c, n)
  OBVIOUS
<1>6. c \in [1 .. n -> Nat] /\ t \in Nat /\ t > 0 /\ m \in Nat /\ m <= t
  BY <1>4 DEF Shareable
<1>7. \A k \in 1 .. n : e[k] \in Nat /\ r[k] \in Nat /\ r[k] < t /\ m * c[k] = t * e[k] + r[k]
  BY <1>1, <1>2, <1>4, SharedParts
<1>8. s[i] = e[i] + IF i \in T THEN 1 ELSE 0
  BY <1>1, <1>3, <1>5 DEF Shares
<1>9. e[i] \in Nat /\ c[i] \in Nat
  BY <1>6, <1>7
<1>10. i \in T => c[i] > 0
  BY <1>5 DEF Receive, Top, Carrying
<1>11. s[i] <= c[i]
  <2>1. CASE m = t
    <3>1. \A k \in 1 .. n : e[k] = c[k] /\ r[k] = 0
      <4> TAKE k \in 1 .. n
      <4>1. c[k] \in Nat /\ e[k] \in Nat /\ r[k] \in Nat /\ r[k] < t /\ t * e[k] + r[k] = t * c[k]
        BY <1>6, <1>7, <2>1
      <4> QED
        BY <1>6, <4>1, WholeExact
    <3>2. T = {}
      BY <1>2, <1>5, <3>1, NothingLeft
    <3> QED
      BY <1>8, <1>9, <3>1, <3>2
  <2>2. CASE m < t
    <3>1. CASE c[i] > 0
      <4>1. e[i] < c[i]
        BY <1>6, <1>7, <1>9, <2>2, <3>1, WholeBelow
      <4> QED
        BY <1>8, <1>9, <4>1
    <3>2. CASE c[i] = 0
      <4>1. i \notin T
        BY <1>10, <3>2
      <4>2. m * c[i] = 0
        BY <1>6, <3>2
      <4>3. t * e[i] + r[i] = t * c[i]
        <5>1. t * c[i] = 0
          BY <1>6, <3>2
        <5> QED
          BY <1>7, <4>2, <5>1
      <4>4. e[i] = c[i]
        BY <1>6, <1>7, <1>9, <4>3, WholeExact
      <4> QED
        BY <1>8, <1>9, <4>1, <4>4
    <3> QED
      BY <1>9, <3>1, <3>2
  <2> QED
    BY <1>6, <2>1, <2>2
<1>12. s[i] \in Nat /\ s[i] - e[i] \in {0, 1}
  BY <1>8, <1>9
<1> QED
  BY <1>1, <1>3, <1>11, <1>12

WithRest(t, e, r, x) == t * e + r = x /\ r < t

LEMMA MoreWhole ==
  \A m, t, a, b, e, f, r, s \in Nat :
    WithRest(t, e, r, m * a) /\ WithRest(t, f, s, m * b) /\ a > b =>
      /\ f <= e
      /\ m > 0 /\ e = f => r > s
<1> TAKE m, t, a, b, e, f, r, s \in Nat
<1> HAVE WithRest(t, e, r, m * a) /\ WithRest(t, f, s, m * b) /\ a > b
<1>0. t * e + r = m * a /\ t * f + s = m * b /\ r < t
  BY DEF WithRest
<1>1. PICK k \in Nat : a = b + 1 + k
  <2>1. a - b - 1 \in Nat /\ a = b + 1 + (a - b - 1)
    OBVIOUS
  <2> QED
    BY <2>1
<1>2. m * a = m * b + m + m * k
  BY <1>1
<1>3. m * k \in Nat /\ m * b \in Nat /\ t * e \in Nat /\ t * f \in Nat
  BY MultipleNatural
<1>4. ~(f > e)
  <2> SUFFICES ASSUME f > e PROVE FALSE
    OBVIOUS
  <2>1. PICK l \in Nat : f = e + 1 + l
    <3>1. f - e - 1 \in Nat /\ f = e + 1 + (f - e - 1)
      OBVIOUS
    <3> QED
      BY <3>1
  <2>2. t * f = t * e + t + t * l
    BY <2>1
  <2>3. t * l \in Nat
    BY MultipleNatural
  <2> QED
    BY <1>0, <1>2, <1>3, <2>2, <2>3
<1>5. m > 0 /\ e = f => r > s
  BY <1>0, <1>2, <1>3
<1> QED
  BY <1>4, <1>5

\* Who carries more gets no less.
LEMMA SharesOrdered ==
  ASSUME NEW m, NEW c, NEW n, Shareable(m, c, n), NEW i \in 1 .. n, NEW j \in 1 .. n, c[i] > c[j]
  PROVE  Shares(m, c, n)[i] >= Shares(m, c, n)[j]
<1>1. PICK e : e = Whole(m, c, n)
  OBVIOUS
<1>2. PICK r : r = Remain(m, c, n)
  OBVIOUS
<1>3. PICK s : s = Shares(m, c, n)
  OBVIOUS
<1>4. PICK t : t = Total(n, c)
  OBVIOUS
<1>5. PICK T : T = Receive(m, c, n)
  OBVIOUS
<1>6. c \in [1 .. n -> Nat] /\ t \in Nat /\ t > 0 /\ m \in Nat
  BY <1>4 DEF Shareable
<1>7. \A k \in 1 .. n : e[k] \in Nat /\ r[k] \in Nat /\ r[k] < t /\ m * c[k] = t * e[k] + r[k]
  BY <1>1, <1>2, <1>4, SharedParts
<1>8. /\ s[i] = e[i] + (IF i \in T THEN 1 ELSE 0)
      /\ s[j] = e[j] + (IF j \in T THEN 1 ELSE 0)
  BY <1>1, <1>3, <1>5 DEF Shares
<1>9. /\ e[i] \in Nat /\ e[j] \in Nat /\ r[i] \in Nat /\ r[j] \in Nat /\ c[i] \in Nat /\ c[j] \in Nat
      /\ t * e[i] + r[i] = m * c[i] /\ t * e[j] + r[j] = m * c[j] /\ r[i] < t
  BY <1>6, <1>7
<1>10. e[j] <= e[i] /\ (m > 0 /\ e[i] = e[j] => r[i] > r[j])
  <2>1. WithRest(t, e[i], r[i], m * c[i]) /\ WithRest(t, e[j], r[j], m * c[j])
    BY <1>6, <1>7 DEF WithRest
  <2>2. \A k \in 1 .. n : e[k] \in Nat /\ r[k] \in Nat /\ c[k] \in Nat
    BY <1>6, <1>7
  <2> QED
    BY <1>6, <2>1, <2>2, MoreWhole
<1>11. CASE m = 0
  <2>1. \A k \in 1 .. n : e[k] = 0 /\ r[k] = 0
    <3> TAKE k \in 1 .. n
    <3>1. e[k] \in Nat /\ r[k] \in Nat /\ r[k] < t /\ m * c[k] = t * e[k] + r[k] /\ c[k] \in Nat
      BY <1>6, <1>7
    <3>2. m * c[k] = 0 /\ t * 0 = 0
      BY <1>6, <1>11, <3>1
    <3>3. t * e[k] + r[k] = t * 0
      BY <3>1, <3>2
    <3> QED
      BY <1>6, <3>1, <3>3, WholeExact
  <2>2. T = {}
    BY <1>2, <1>5, <2>1, NothingLeft
  <2>3. s[i] = s[j]
    BY <1>8, <2>1, <2>2
  <2>4. s[i] \in Nat
    BY <1>8, <1>9
  <2> QED
    BY <1>3, <2>3, <2>4
<1>12. CASE m > 0
  <2>1. CASE e[i] = e[j]
    <3>1. r[i] > r[j]
      BY <1>10, <1>12, <2>1
    <3>2. j \in T => i \in T
      <4> HAVE j \in T
      <4>1. PICK S : S = Carrying(c, n)
        OBVIOUS
      <4>2. PICK d : d = Left(m, c, n)
        OBVIOUS
      <4>3. j \in S /\ Rank(r, S, j) < d
        BY <1>2, <1>5, <4>1, <4>2 DEF Receive, Top
      <4>4. i \in S
        BY <1>9, <4>1 DEF Carrying
      <4>5. Scored(r, S)
        BY <1>2, <4>1, CarryingScored
      <4>6. Leads(r, i, j)
        BY <3>1 DEF Leads
      <4>7. Rank(r, S, i) < Rank(r, S, j)
        BY <4>3, <4>4, <4>5, <4>6, RankFollows
      <4>8. Rank(r, S, i) < d
        <5>1. PICK k : k = Cardinality(S) /\ k \in Nat
          BY <4>5, FS_CardinalityType DEF Scored
        <5>2. Rank(r, S, i) \in 0 .. k - 1 /\ Rank(r, S, j) \in 0 .. k - 1
          BY <4>3, <4>4, <4>5, <5>1, RankBounded
        <5>3. d \in 0 .. k
          BY <4>1, <4>2, <5>1, LeftBounded
        <5> QED
          BY <4>3, <4>7, <5>1, <5>2, <5>3
      <4> QED
        BY <1>2, <1>5, <4>1, <4>2, <4>4, <4>8 DEF Receive, Top
    <3> QED
      BY <1>3, <1>8, <1>9, <2>1, <3>2
  <2>2. CASE e[j] < e[i]
    BY <1>3, <1>8, <1>9, <2>2
  <2> QED
    BY <1>9, <1>10, <2>1, <2>2
<1> QED
  BY <1>6, <1>11, <1>12

-----------------------------------------------------------------------------
\* Marks inside a question

LEMMA PartsCardinality == \A S : Parts!Choice!Cardinality(S) = Cardinality(S) /\ Parts!Cardinality(S) = Cardinality(S)
  BY DEF Parts!Choice!Cardinality, Parts!Cardinality, Cardinality

LEMMA PartsSum == ASSUME NEW S, NEW f PROVE Parts!Choice!CountedSum(S, f) = SumIn(S, f, NParts)
  BY PartsTotal DEF Parts!Choice!CountedSum, Parts!Choice!SumOf, Parts!Choice!Rows, SumIn, On

LEMMA PartsGrouped ==
  ASSUME NEW groups PROVE Parts!Choice!Rows \ Parts!Choice!Grouped(groups) = Others(groups, NParts)
  BY DEF Parts!Choice!Rows, Parts!Choice!Grouped, Others, Covered

LEMMA PartsTaken ==
  ASSUME NEW score PROVE Parts!Choice!Reselected(score) = Taken(question.groups, score, NParts)
<1>1. \A G, n : {q \in G : Parts!Choice!Cardinality({p \in G : Parts!Choice!Ahead(score, p, q)}) < n}
                  = Top(score, G, n)
  <2> TAKE G, n
  <2>1. \A q : {p \in G : Parts!Choice!Ahead(score, p, q)} = Leaders(score, G, q)
    BY DEF Parts!Choice!Ahead, Leaders, Leads
  <2> QED
    BY <2>1, PartsCardinality DEF Top, Rank
<1>2. UNION {{q \in g.questions :
                Parts!Choice!Cardinality({p \in g.questions : Parts!Choice!Ahead(score, p, q)}) < g.answerN}
             : g \in question.groups} = Leading(question.groups, score)
  <2>1. \A x : (\E g \in question.groups :
                 x \in {q \in g.questions :
                        Parts!Choice!Cardinality({p \in g.questions : Parts!Choice!Ahead(score, p, q)})
                          < g.answerN})
               <=> \E g \in question.groups : x \in Top(score, g.questions, g.answerN)
    BY <1>1
  <2> QED
    BY <2>1 DEF Leading
<1> QED
  BY <1>2, PartsGrouped DEF Parts!Choice!Reselected, Taken

LEMMA PartsChoices == Parts!Choice!FullChoices = Selections(question.groups, NParts)
<1>1. \A S : (\A g \in question.groups : Parts!Choice!Cardinality(S \cap g.questions) = g.answerN)
               <=> \A g \in question.groups : Cardinality(S \cap g.questions) = g.answerN
  BY PartsCardinality
<1>2. Parts!Choice!Rows = 1 .. NParts
  BY DEF Parts!Choice!Rows
<1> QED
  BY <1>1, <1>2, PartsGrouped DEF Parts!Choice!FullChoices, Selections

LEMMA PartsMaximum ==
  ASSUME NEW max, NEW groups
  PROVE  Parts!Choice!CountedMax(max, groups)
           = SumIn(Others(groups, NParts), max, NParts) + OverGroups(max, groups)
<1>1. Parts!Choice!CountedMax(max, groups)
        = Parts!Choice!SumOf(Parts!Choice!Rows \ Parts!Choice!Grouped(groups), max)
            + OverGroups(max, groups)
  BY DEF Parts!Choice!CountedMax, Parts!Choice!MapThenSumSet, Parts!Choice!MapThenFoldSet, Some, OverGroups
<1> QED
  BY <1>1, PartsSum, PartsGrouped DEF Parts!Choice!CountedSum

LEMMA PartsMeans ==
  /\ NParts \in Nat /\ PartMax \in Nat
  /\ \A r \in QuestionForms : IsForm(r, NParts, PartMax) /\ r.cos \in Seq(Nat) /\ r.total \in Nat \ {0}
  BY PartsConstants DEF Parts!ConstantsOK, Parts!Parts, Parts!Choice!Groups, Parts!Choice!Rows, IsForm

LEMMA PartsAdmitted ==
  ASSUME NEW max, NEW groups, Parts!Choice!ValidGroups(max, groups) PROVE Admitted(max, groups)
<1>1. \A g \in groups : g.answerN >= 1 /\ g.answerN < Cardinality(g.questions)
                            /\ \A p, q \in g.questions : max[p] = max[q]
  BY PartsCardinality DEF Parts!Choice!ValidGroups, Parts!Choice!ValidGroup
<1>2. \A g, h \in groups : g # h => g.questions \cap h.questions = {}
  BY DEF Parts!Choice!ValidGroups
<1> QED
  BY <1>1, <1>2 DEF Admitted

\* A row of numbers has the length of its domain.
LEMMA LengthOf == ASSUME NEW n \in Nat, NEW f, f \in [1 .. n -> Nat] PROVE Len(f) = n /\ f \in Seq(Nat)
  OBVIOUS

LEMMA SequenceMeans ==
  ASSUME NEW f \in Seq(Nat)
  PROVE  Len(f) \in Nat /\ DOMAIN f = 1 .. Len(f) /\ f \in [1 .. Len(f) -> Nat]
  OBVIOUS

LEMMA SequenceTotal == ASSUME NEW n \in Nat, NEW f \in [1 .. n -> Nat] PROVE Parts!Total(f) = Total(n, f)
<1>1. Len(f) = n
  BY LengthOf
<1> QED
  BY <1>1, PartsTotal DEF Parts!Total

\* The shares of a mark, as they are computed.
LEMMA PartsAllocated ==
  ASSUME NEW m \in Nat, NEW c, c = question.cos, c \in Seq(Nat), NEW n, n = Len(c)
  PROVE  /\ Parts!Allocated(m) = Shares(m, c, n)
         /\ \A i \in 1 .. n : Parts!Exact(m, i) = Whole(m, c, n)[i]
<1>1. n \in Nat /\ DOMAIN c = 1 .. n /\ c \in [1 .. n -> Nat]
  BY SequenceMeans
<1>2. Parts!Total(c) = Total(n, c)
  BY <1>1, SequenceTotal
<1>3. PICK e : e = Whole(m, c, n)
  OBVIOUS
<1>4. PICK r : r = Remain(m, c, n)
  OBVIOUS
<1>5. \A i \in 1 .. n : Parts!Exact(m, i) = e[i] /\ Parts!Rest(m, i) = r[i]
  BY <1>2, <1>3, <1>4 DEF Parts!Exact, Parts!Rest, Whole, Remain
<1>6. PICK x : x = [i \in DOMAIN c |-> Parts!Exact(m, i)]
  OBVIOUS
<1>7. x = e
  BY <1>1, <1>3, <1>5, <1>6 DEF Whole
<1>8. Parts!Total(x) = Total(n, e)
  <2>1. \A s, k : Len(s) = k => Parts!Total(s) = Total(k, s)
    BY PartsTotal DEF Parts!Total
  <2>2. Len(e) = n
    <3>1. e = [i \in 1 .. n |-> e[i]]
      BY <1>3 DEF Whole
    <3> QED
      BY <1>1, <3>1
  <2> QED
    BY <1>7, <2>1, <2>2
<1>9. PICK d : d = m - Parts!Total(x)
  OBVIOUS
<1>10. d = Left(m, c, n)
  BY <1>3, <1>8, <1>9 DEF Left
<1>11. PICK S : S = Carrying(c, n)
  OBVIOUS
<1>12. Parts!Active = S
  BY <1>1, <1>11 DEF Parts!Active, Carrying
<1>13. \A i \in S : {j \in S : Parts!LargerRest(m, j, i)} = Leaders(r, S, i)
  <2> TAKE i \in S
  <2>1. \A j \in S : Parts!LargerRest(m, j, i) <=> Leads(r, j, i)
    <3> TAKE j \in S
    <3>1. Parts!Rest(m, i) = r[i] /\ Parts!Rest(m, j) = r[j]
      BY <1>5, <1>11 DEF Carrying
    <3> QED
      BY <3>1 DEF Parts!LargerRest, Leads
  <2> QED
    BY <2>1 DEF Leaders
<1>14. PICK T : T = Receive(m, c, n)
  OBVIOUS
<1>15. \A i \in 1 .. n :
         (i \in Parts!Active /\ Parts!Cardinality({j \in Parts!Active : Parts!LargerRest(m, j, i)}) < d)
           <=> i \in T
  BY <1>4, <1>10, <1>11, <1>12, <1>13, <1>14, PartsCardinality DEF Receive, Top, Rank
<1>16. \A i \in 1 .. n :
         Parts!Exact(m, i) +
           (IF i \in Parts!Active /\ Parts!Cardinality({j \in Parts!Active : Parts!LargerRest(m, j, i)}) < d
            THEN 1 ELSE 0)
         = e[i] + (IF i \in T THEN 1 ELSE 0)
  BY <1>5, <1>15
<1>17. Parts!Allocated(m) =
         [i \in DOMAIN c |->
            Parts!Exact(m, i) +
              (IF i \in Parts!Active /\ Parts!Cardinality({j \in Parts!Active : Parts!LargerRest(m, j, i)}) < d
               THEN 1 ELSE 0)]
  BY <1>6, <1>9 DEF Parts!Allocated
<1>18. Parts!Allocated(m) = [i \in 1 .. n |-> e[i] + (IF i \in T THEN 1 ELSE 0)]
  BY <1>1, <1>16, <1>17
<1> QED
  BY <1>3, <1>5, <1>14, <1>18 DEF Shares

\* A question that was saved.
QuestionFits(r) ==
  /\ r \in QuestionForms
  /\ r.parts => FormFits(r, NParts) /\ r.total = Parts!Choice!CountedMax(r.max, r.groups)
  /\ r.cos # << >> => Parts!Total(r.cos) = r.total

\* Marks of the outcomes x are those of a mark m.
AddUp(x, m, r) ==
  r.cos # << >> => Parts!Total(x) = m /\ \A i \in DOMAIN r.cos : x[i] <= r.cos[i]
IsFair(x, m, r) ==
  \A i, j \in DOMAIN r.cos :
    /\ x[i] - Whole(m, r.cos, Len(r.cos))[i] \in {0, 1}
    /\ r.cos[i] > r.cos[j] => x[i] >= x[j]
OfItsParts(w, r) ==
  w.parts # << >> =>
    /\ r.parts /\ Marked(w.parts, NParts)
    /\ w.counted = Taken(r.groups, w.parts, NParts)
    /\ w.awarded = SumIn(w.counted, w.parts, NParts)
IsRow(w) ==
  w = [parts |-> w.parts, counted |-> w.counted, awarded |-> w.awarded, final |-> w.final,
       cos |-> w.cos, coFinal |-> w.coFinal, by |-> w.by]
RowFits(w, r) ==
  /\ IsRow(w) /\ w.awarded \in Nat /\ OfItsParts(w, r)
  /\ AddUp(w.cos, w.awarded, r) /\ AddUp(w.coFinal, w.final, r)
  /\ w.by \in {"parts", "manual"} => IsFair(w.cos, w.awarded, r)

PartsInv ==
  /\ question = Parts!Absent \/ QuestionFits(question)
  /\ partRow = Parts!Absent \/ (QuestionFits(question) /\ RowFits(partRow, question))

\* The properties follow.
LEMMA PartsFollow ==
  ASSUME PartsInv PROVE Parts!BestPartsCount /\ Parts!OutcomesAddUp /\ Parts!SharesAreFair
<1> SUFFICES ASSUME partRow # Parts!Absent
             PROVE  Parts!BestPartsCount /\ Parts!OutcomesAddUp /\ Parts!SharesAreFair
  BY DEF Parts!BestPartsCount, Parts!OutcomesAddUp, Parts!SharesAreFair
<1>1. QuestionFits(question) /\ RowFits(partRow, question)
  BY DEF PartsInv
<1>2. Parts!BestPartsCount
  <2> SUFFICES ASSUME partRow.parts # << >>
               PROVE  /\ partRow.counted \in Parts!Choice!FullChoices
                      /\ partRow.awarded = Parts!Choice!CountedSum(partRow.counted, partRow.parts)
                      /\ \A S \in Parts!Choice!FullChoices :
                           Parts!Choice!CountedSum(S, partRow.parts) <= partRow.awarded
    BY DEF Parts!BestPartsCount
  <2>1. PICK f : f = partRow.parts
    OBVIOUS
  <2>2. PICK C : C = partRow.counted
    OBVIOUS
  <2>3. PICK G : G = question.groups
    OBVIOUS
  <2>4. question.parts /\ Marked(f, NParts) /\ C = Taken(G, f, NParts)
          /\ partRow.awarded = SumIn(C, f, NParts)
    BY <1>1, <2>1, <2>2, <2>3 DEF RowFits, OfItsParts
  <2>5. Sound(G, NParts) /\ NParts \in Nat
    BY <1>1, <2>3, <2>4 DEF QuestionFits, FormFits
  <2>6. C \in Selections(G, NParts)
    BY <2>4, <2>5, TakenIsChoice
  <2>7. \A S \in Selections(G, NParts) : SumIn(S, f, NParts) <= partRow.awarded
    BY <2>4, <2>5, TakenIsBest
  <2>8. Parts!Choice!FullChoices = Selections(G, NParts)
    BY <2>3, PartsChoices
  <2>9. \A S : Parts!Choice!CountedSum(S, f) = SumIn(S, f, NParts)
    BY PartsSum
  <2> QED
    BY <2>1, <2>2, <2>4, <2>6, <2>7, <2>8, <2>9
<1>3. Parts!OutcomesAddUp
  BY <1>1 DEF Parts!OutcomesAddUp, RowFits, AddUp
<1>4. Parts!SharesAreFair
  <2> SUFFICES ASSUME partRow.by \in {"parts", "manual"}, NEW i \in DOMAIN question.cos,
                      NEW j \in DOMAIN question.cos
               PROVE  /\ partRow.cos[i] - Parts!Exact(partRow.awarded, i) \in {0, 1}
                      /\ question.cos[i] > question.cos[j] => partRow.cos[i] >= partRow.cos[j]
    BY DEF Parts!SharesAreFair
  <2>1. PICK c : c = question.cos
    OBVIOUS
  <2>2. PICK n : n = Len(c)
    OBVIOUS
  <2>3. PICK m : m = partRow.awarded
    OBVIOUS
  <2>4. c \in Seq(Nat) /\ m \in Nat
    BY <1>1, <2>1, <2>3, PartsMeans DEF QuestionFits, RowFits
  <2>5. i \in 1 .. n
    BY <2>1, <2>2, <2>4, SequenceMeans
  <2>6. Parts!Exact(m, i) = Whole(m, c, n)[i]
    BY <2>1, <2>2, <2>4, <2>5, PartsAllocated
  <2>7. IsFair(partRow.cos, m, question)
    BY <1>1, <2>3 DEF RowFits
  <2>8. partRow.cos[i] - Whole(m, c, n)[i] \in {0, 1}
          /\ (question.cos[i] > question.cos[j] => partRow.cos[i] >= partRow.cos[j])
    BY <2>1, <2>2, <2>7 DEF IsFair
  <2> QED
    BY <2>3, <2>6, <2>8
<1> QED
  BY <1>2, <1>3, <1>4

LEMMA PartsInit == ASSUME Parts!Init PROVE PartsInv
  BY DEF Parts!Init, PartsInv

\* The shares of a mark within that of the question.
LEMMA AllocatedFits ==
  ASSUME QuestionFits(question), NEW m \in Nat, m <= question.total,
         NEW x, x = Parts!Allocated(m)
  PROVE  AddUp(x, m, question) /\ IsFair(x, m, question)
<1>1. PICK c : c = question.cos
  OBVIOUS
<1>2. PICK n : n = Len(c)
  OBVIOUS
<1>3. c \in Seq(Nat) /\ question.total \in Nat \ {0}
  BY <1>1, PartsMeans DEF QuestionFits
<1>4. n \in Nat /\ DOMAIN c = 1 .. n /\ c \in [1 .. n -> Nat]
  BY <1>2, <1>3, SequenceMeans
<1>5. CASE c = << >>
  <2>1. DOMAIN c = {}
    BY <1>5
  <2> QED
    BY <1>1, <1>5, <2>1 DEF AddUp, IsFair
<1>6. CASE c # << >>
  <2>1. Parts!Total(c) = question.total
    BY <1>1, <1>6 DEF QuestionFits
  <2>2. Total(n, c) = question.total
    BY <1>4, <2>1, SequenceTotal
  <2>3. Shareable(m, c, n)
    BY <1>3, <1>4, <2>2 DEF Shareable
  <2>4. x = Shares(m, c, n)
    BY <1>1, <1>2, <1>3, PartsAllocated
  <2>5. Total(n, x) = m
    BY <2>3, <2>4, SharesAdd
  <2>6. \A i \in 1 .. n : x[i] \in Nat /\ x[i] <= c[i] /\ x[i] - Whole(m, c, n)[i] \in {0, 1}
    BY <2>3, <2>4, SharesWithin
  <2>7. \A i, j \in 1 .. n : c[i] > c[j] => x[i] >= x[j]
    BY <2>3, <2>4, SharesOrdered
  <2>8. x \in [1 .. n -> Nat]
    <3>1. x = [i \in 1 .. n |-> x[i]]
      BY <2>4 DEF Shares
    <3> QED
      BY <2>6, <3>1
  <2>9. Parts!Total(x) = m
    BY <1>4, <2>5, <2>8, SequenceTotal
  <2>10. AddUp(x, m, question)
    BY <1>1, <1>4, <2>6, <2>9 DEF AddUp
  <2>11. IsFair(x, m, question)
    BY <1>1, <1>2, <1>4, <2>6, <2>7 DEF IsFair
  <2> QED
    BY <2>10, <2>11
<1> QED
  BY <1>5, <1>6

LEMMA NewRow ==
  ASSUME PartsInv, question # Parts!Absent, question' = question,
         NEW w, partRow' = w, QuestionFits(question) => RowFits(w, question)
  PROVE  PartsInv'
<1>1. QuestionFits(question)
  BY DEF PartsInv
<1>2. QuestionFits(question) /\ RowFits(w, question)
  BY <1>1
<1>3. QuestionFits(question') /\ RowFits(partRow', question')
  BY <1>2
<1> QED
  BY <1>3 DEF PartsInv

LEMMA StepSaveQuestion ==
  ASSUME PartsInv, NEW r \in QuestionForms, Parts!SaveQuestion(r) PROVE PartsInv'
<1>1. partRow = Parts!Absent /\ partRow' = partRow /\ question' = r
        /\ (r.parts => Parts!ValidParts(r)) /\ (r.cos # << >> => Parts!Total(r.cos) = r.total)
  BY DEF Parts!SaveQuestion
<1>2. r.parts => FormFits(r, NParts) /\ r.total = Parts!Choice!CountedMax(r.max, r.groups)
  <2> HAVE r.parts
  <2>1. Parts!Choice!ValidGroups(r.max, r.groups)
          /\ r.total = Parts!Choice!CountedMax(r.max, r.groups)
    BY <1>1 DEF Parts!ValidParts
  <2>2. FormFits(r, NParts)
    BY <2>1, PartsMeans, PartsAdmitted, AdmittedFits
  <2> QED
    BY <2>1, <2>2
<1>3. QuestionFits(r)
  BY <1>1, <1>2 DEF QuestionFits
<1>4. partRow' = Parts!Absent /\ QuestionFits(question')
  BY <1>1, <1>3
<1> QED
  BY <1>4 DEF PartsInv

LEMMA FirstRow ==
  ASSUME QuestionFits(question), NEW p, NEW C, NEW m \in Nat, NEW cos, NEW by,
         AddUp(cos, m, question), by \in {"parts", "manual"} => IsFair(cos, m, question),
         p # << >> => /\ question.parts /\ Marked(p, NParts)
                      /\ C = Taken(question.groups, p, NParts) /\ m = SumIn(C, p, NParts)
  PROVE  RowFits(Parts!Marked(p, C, m, cos, by), question)
<1>1. PICK w : w = Parts!Marked(p, C, m, cos, by)
  OBVIOUS
<1>2. w = [parts |-> p, counted |-> C, awarded |-> m, final |-> m, cos |-> cos, coFinal |-> cos, by |-> by]
  BY <1>1 DEF Parts!Marked
<1>3. w.parts = p /\ w.counted = C /\ w.awarded = m /\ w.final = m /\ w.cos = cos
        /\ w.coFinal = cos /\ w.by = by
  BY <1>2
<1>4. IsRow(w)
  BY <1>2, <1>3 DEF IsRow
<1>5. OfItsParts(w, question)
  BY <1>3 DEF OfItsParts
<1>6. RowFits(w, question)
  BY <1>3, <1>4, <1>5 DEF RowFits
<1> QED
  BY <1>1, <1>6

LEMMA StepGradeParts ==
  ASSUME PartsInv, NEW marks \in [Parts!Parts -> 0 .. PartMax], Parts!GradeParts(marks)
  PROVE  PartsInv'
<1>1. PICK C : C = Parts!Choice!Reselected(marks)
  OBVIOUS
<1>2. PICK m : m = Parts!Choice!CountedSum(C, marks)
  OBVIOUS
<1>3. PICK x : x = Parts!Allocated(m)
  OBVIOUS
<1>4. question # Parts!Absent /\ question.parts /\ question' = question
        /\ partRow' = Parts!Marked(marks, C, m, x, "parts")
        /\ \A p \in 1 .. NParts : marks[p] \in 0 .. question.max[p]
  BY <1>1, <1>2, <1>3 DEF Parts!GradeParts, Parts!Parts
<1>5. QuestionFits(question)
  BY <1>4 DEF PartsInv
<1>6. FormFits(question, NParts) /\ question.total = Parts!Choice!CountedMax(question.max, question.groups)
  BY <1>4, <1>5 DEF QuestionFits
<1>7. NParts \in Nat /\ Sound(question.groups, NParts) /\ Marked(question.max, NParts)
  BY <1>6 DEF FormFits
<1>8. Marked(marks, NParts) /\ \A p \in 1 .. NParts : 0 <= marks[p] /\ marks[p] <= question.max[p]
                                                       /\ marks[p] >= 0
  <2>1. \A p \in 1 .. NParts : question.max[p] \in Int
    BY <1>7 DEF Marked
  <2>2. \A p \in 1 .. NParts : marks[p] \in Int /\ 0 <= marks[p] /\ marks[p] <= question.max[p]
                                                 /\ marks[p] >= 0
    BY <1>4, <2>1
  <2> QED
    BY <2>2 DEF Marked
<1>9. C = Taken(question.groups, marks, NParts) /\ m = SumIn(C, marks, NParts)
  BY <1>1, <1>2, PartsTaken, PartsSum
<1>10. C \in Selections(question.groups, NParts)
  BY <1>7, <1>8, <1>9, TakenIsChoice
<1>11. m \in Nat /\ m <= question.total
  <2>1. SumIn(C, question.max, NParts) = question.total
    BY <1>6, <1>10, PartsMaximum, ChoiceOfForm
  <2>2. PICK y : y = question.max
    OBVIOUS
  <2>3. SumIn(C, marks, NParts) <= SumIn(C, y, NParts)
    BY <1>7, <1>8, <2>2, SumsCompare
  <2>4. SumIn(C, marks, NParts) >= 0
    BY <1>7, <1>8, SumNatural
  <2>5. SumIn(C, marks, NParts) \in Int /\ SumIn(C, y, NParts) \in Int
    BY <1>7, <1>8, <2>2, SumInInt
  <2> QED
    BY <1>9, <2>1, <2>2, <2>3, <2>4, <2>5
<1>12. AddUp(x, m, question) /\ IsFair(x, m, question)
  BY <1>3, <1>5, <1>11, AllocatedFits
<1>13. RowFits(Parts!Marked(marks, C, m, x, "parts"), question)
  BY <1>4, <1>5, <1>8, <1>9, <1>11, <1>12, FirstRow
<1> QED
  BY <1>4, <1>13, NewRow

LEMMA MarksOfQuestion ==
  ASSUME PartsInv, NEW m \in Parts!Marks
  PROVE  question # Parts!Absent /\ QuestionFits(question) /\ m \in Nat /\ m <= question.total
<1>1. question # Parts!Absent /\ m \in 0 .. question.total
  BY DEF Parts!Marks
<1>2. QuestionFits(question)
  BY <1>1 DEF PartsInv
<1>3. question.total \in Nat
  BY <1>2, PartsMeans DEF QuestionFits
<1> QED
  BY <1>1, <1>2, <1>3

\* Marks of the outcomes that are stated, each within its own.
LEMMA StatedAddUp ==
  ASSUME PartsInv, NEW m \in Parts!Marks, NEW cos \in Parts!OutcomeMarks,
         Parts!Within(cos), cos # << >> => Parts!Total(cos) = m
  PROVE  AddUp(cos, m, question)
<1>1. QuestionFits(question) /\ question # Parts!Absent
  BY MarksOfQuestion
<1>2. question.cos \in Seq(Nat)
  BY <1>1, PartsMeans DEF QuestionFits
<1>3. DOMAIN cos = DOMAIN question.cos /\ \A i \in DOMAIN question.cos : cos[i] <= question.cos[i]
  BY DEF Parts!Within
<1>4. question.cos # << >> => cos # << >>
  <2> SUFFICES ASSUME cos = << >> PROVE question.cos = << >>
    OBVIOUS
  <2>1. PICK c : c = question.cos
    OBVIOUS
  <2>2. DOMAIN c = {}
    BY <1>3, <2>1
  <2>3. Len(c) \in Nat /\ DOMAIN c = 1 .. Len(c)
    BY <1>2, <2>1, SequenceMeans
  <2>4. Len(c) = 0
    BY <2>2, <2>3
  <2>5. c = << >>
    BY <1>2, <2>1, <2>4
  <2> QED
    BY <2>1, <2>5
<1> QED
  BY <1>3, <1>4 DEF AddUp

LEMMA StepGradeWhole ==
  ASSUME PartsInv, NEW m \in Parts!Marks, NEW cos \in Parts!OutcomeMarks, Parts!GradeWhole(m, cos)
  PROVE  PartsInv'
<1>1. question' = question /\ partRow' = Parts!Marked(<< >>, {}, m, cos, "whole")
        /\ Parts!Within(cos) /\ (cos # << >> => Parts!Total(cos) = m)
  BY DEF Parts!GradeWhole
<1>2. question # Parts!Absent /\ QuestionFits(question) /\ m \in Nat
  BY MarksOfQuestion
<1>3. AddUp(cos, m, question)
  BY <1>1, StatedAddUp
<1>4. PICK p : p = << >>
  OBVIOUS
<1>5. PICK by : by = "whole"
  OBVIOUS
<1>6. by \notin {"parts", "manual"}
  BY <1>5
<1>7. RowFits(Parts!Marked(p, {}, m, cos, by), question)
  BY <1>2, <1>3, <1>4, <1>6, FirstRow
<1> QED
  BY <1>1, <1>2, <1>4, <1>5, <1>7, NewRow

LEMMA StepEnterParts ==
  ASSUME PartsInv, NEW m \in Parts!Marks, Parts!EnterManually(m) PROVE PartsInv'
<1>1. question' = question /\ partRow' = Parts!Marked(<< >>, {}, m, Parts!Allocated(m), "manual")
  BY DEF Parts!EnterManually
<1>2. question # Parts!Absent /\ QuestionFits(question) /\ m \in Nat /\ m <= question.total
  BY MarksOfQuestion
<1>3. PICK x : x = Parts!Allocated(m)
  OBVIOUS
<1>4. AddUp(x, m, question) /\ IsFair(x, m, question)
  BY <1>2, <1>3, AllocatedFits
<1>5. PICK p : p = << >>
  OBVIOUS
<1>6. RowFits(Parts!Marked(p, {}, m, x, "manual"), question)
  BY <1>2, <1>4, <1>5, FirstRow
<1> QED
  BY <1>1, <1>2, <1>3, <1>5, <1>6, NewRow

LEMMA StepReviewParts ==
  ASSUME PartsInv, NEW m \in Parts!Marks, NEW cos \in Parts!OutcomeMarks, Parts!Review(m, cos)
  PROVE  PartsInv'
<1>1. PICK by : by = IF partRow.by = "manual" THEN partRow.by ELSE "faculty"
  OBVIOUS
<1>2. PICK w : w = [partRow EXCEPT !.final = m, !.coFinal = cos, !.by = by]
  OBVIOUS
<1>3. partRow # Parts!Absent /\ question' = question /\ partRow' = w
        /\ Parts!Within(cos) /\ (cos # << >> => Parts!Total(cos) = m)
  BY <1>1, <1>2 DEF Parts!Review, Parts!OutcomesMatch
<1>4. question # Parts!Absent /\ QuestionFits(question)
  BY MarksOfQuestion
<1>5. RowFits(partRow, question)
  BY <1>3 DEF PartsInv
<1>6. AddUp(cos, m, question)
  BY <1>3, StatedAddUp
<1>7. /\ w.parts = partRow.parts /\ w.counted = partRow.counted /\ w.awarded = partRow.awarded
      /\ w.cos = partRow.cos /\ w.final = m /\ w.coFinal = cos /\ w.by = by
      /\ IsRow(w)
  BY <1>2, <1>5 DEF RowFits, IsRow
<1>8. by \in {"parts", "manual"} => IsFair(w.cos, w.awarded, question)
  <2> HAVE by \in {"parts", "manual"}
  <2>1. partRow.by = "manual"
    BY <1>1
  <2> QED
    BY <1>5, <1>7, <2>1 DEF RowFits
<1>9. OfItsParts(w, question)
  BY <1>5, <1>7 DEF RowFits, OfItsParts
<1>10. w.awarded \in Nat /\ AddUp(w.cos, w.awarded, question)
  BY <1>5, <1>7 DEF RowFits
<1>11. RowFits(w, question)
  BY <1>6, <1>7, <1>8, <1>9, <1>10 DEF RowFits
<1> QED
  BY <1>3, <1>4, <1>11, NewRow

LEMMA PartsStep == ASSUME PartsInv, [Parts!Next]_ofParts PROVE PartsInv'
<1>1. CASE UNCHANGED ofParts
  BY <1>1 DEF PartsInv, ofParts
<1>2. CASE Parts!Next
  <2>1. CASE \E r \in QuestionForms : Parts!SaveQuestion(r)
    BY <2>1, StepSaveQuestion
  <2>2. CASE \E marks \in [Parts!Parts -> 0 .. PartMax] : Parts!GradeParts(marks)
    BY <2>2, StepGradeParts
  <2>3. CASE \E m \in Parts!Marks, cos \in Parts!OutcomeMarks : Parts!GradeWhole(m, cos)
    BY <2>3, StepGradeWhole
  <2>4. CASE \E m \in Parts!Marks : Parts!EnterManually(m)
    BY <2>4, StepEnterParts
  <2>5. CASE \E m \in Parts!Marks, cos \in Parts!OutcomeMarks : Parts!Review(m, cos)
    BY <2>5, StepReviewParts
  <2> QED
    BY <1>2, <2>1, <2>2, <2>3, <2>4, <2>5 DEF Parts!Next
<1> QED
  BY <1>1, <1>2

-----------------------------------------------------------------------------
\* From a paper to its marks: a behaviour is of one component

PapersSideBySide ==
  /\ scenario = "papers" => PapersInv
  /\ scenario = "key" => KeyInv
  /\ scenario = "suggestions" => Suggestions!Inv /\ Suggestions!Alone
  /\ scenario = "overruled" => Overruled!Inv
  /\ scenario = "script" => ScriptInv
  /\ scenario = "marks" => MarksInv
  /\ scenario = "parts" => PartsInv

\* A step is one of the component that moves.
LEMMA OneMoves ==
  ASSUME [Next]_vars
  PROVE  /\ UNCHANGED scenario
         /\ scenario = "papers" => [Stored!Next]_Stored!vars
         /\ scenario = "key" => [AnswerKey!Next]_AnswerKey!vars
         /\ scenario = "suggestions" => [Suggestions!Next]_Suggestions!vars
         /\ scenario = "overruled" => [Overruled!Next]_Overruled!vars
         /\ scenario = "script" => [Script!Next]_Script!vars
         /\ scenario = "marks" => [Marks!Next]_ofMarks
         /\ scenario = "parts" => [Parts!Next]_ofParts
<1>1. CASE UNCHANGED vars
  BY <1>1 DEF vars, ofPapers, ofAnswerKey, ofSuggestions, ofScript,
              Stored!vars, AnswerKey!vars, Suggestions!vars, Overruled!vars, Script!vars
<1>2. CASE Next
  BY <1>2 DEF Next
<1> QED
  BY <1>1, <1>2

\* The inductive invariants of the components hold side by side.
THEOREM PapersSideInvariant == Spec => []PapersSideBySide
<1>1. Init => PapersSideBySide
  <2>1. Init /\ scenario = "papers" => PapersInv
    BY PapersInit, StoredConstants DEF Init
  <2>2. Init /\ scenario = "key" => KeyInv
    BY KeyInit, AnswerKeyConstants DEF Init
  <2>3. Init /\ scenario = "suggestions" => Suggestions!Inv /\ Suggestions!Alone
    BY Suggestions!InitInv, Suggestions!InitAlone, SuggestionsConstants DEF Init
  <2>4. Init /\ scenario = "overruled" => Overruled!Inv
    BY Overruled!InitInv, OverruledConstants DEF Init
  <2>5. Init /\ scenario = "script" => ScriptInv
    BY ScriptInit, ScriptConstants DEF Init
  <2>6. Init /\ scenario = "marks" => MarksInv
    BY MarksInit DEF Init
  <2>7. Init /\ scenario = "parts" => PartsInv
    BY PartsInit DEF Init
  <2> QED
    BY <2>1, <2>2, <2>3, <2>4, <2>5, <2>6, <2>7 DEF PapersSideBySide
<1>2. PapersSideBySide /\ [Next]_vars => PapersSideBySide'
  <2> SUFFICES ASSUME PapersSideBySide, [Next]_vars PROVE PapersSideBySide'
    OBVIOUS
  <2>1. scenario = "papers" => PapersInv'
    BY OneMoves, PapersStep, StoredConstants DEF PapersSideBySide
  <2>2. scenario = "key" => KeyInv'
    BY OneMoves, KeyStep, AnswerKeyConstants DEF PapersSideBySide
  <2>3. scenario = "suggestions" => Suggestions!Inv' /\ Suggestions!Alone'
    BY OneMoves, Suggestions!StepInv, Suggestions!StepAlone, SuggestionsConstants
       DEF PapersSideBySide
  <2>4. scenario = "overruled" => Overruled!Inv'
    BY OneMoves, Overruled!StepInv, OverruledConstants DEF PapersSideBySide
  <2>5. scenario = "script" => ScriptInv'
    BY OneMoves, ScriptStep, ScriptConstants DEF PapersSideBySide
  <2>6. scenario = "marks" => MarksInv'
    BY OneMoves, MarksStep DEF PapersSideBySide
  <2>7. scenario = "parts" => PartsInv'
    BY OneMoves, PartsStep DEF PapersSideBySide
  <2>8. scenario' = scenario
    BY OneMoves
  <2> QED
    BY <2>1, <2>2, <2>3, <2>4, <2>5, <2>6, <2>7, <2>8 DEF PapersSideBySide
<1> QED
  BY <1>1, <1>2, PTL DEF Spec

\* The file a paper refers to exists and shows its content, and no other file is
\* left that a failed call does not explain, whichever uploads and writes of the
\* paper fail, are in doubt or overtake each other (question_paper.py).
THEOREM PapersAreKept == Spec => []PapersKept
<1>1. PapersSideBySide => PapersKept
  BY PapersKeep, StoredConstants DEF PapersSideBySide, PapersKept, Stored!PapersKept
<1> QED
  BY <1>1, PapersSideInvariant, PTL

\* A stored answer key was resolved from the text the exam has, marks the key
\* decides come from the key of the text they were graded against
\* (mcq_grading.py), and marks rest on a script that was read to its end
\* (gemini.py).
THEOREM MarkedByOwnPaper == Spec => []ScriptsMarkedByOwnPaper
<1>1. PapersSideBySide => ScriptsMarkedByOwnPaper
  BY KeyHolds DEF PapersSideBySide, ScriptsMarkedByOwnPaper,
     ScriptInv, Script!MarksAreSupported, RowInv, GradingInv
<1> QED
  BY <1>1, PapersSideInvariant, PTL

\* A retry that passed neither rate limit nor budget buys nothing, a completed
\* suggestion was put together from one whole response for every batch
\* (rubric_suggestions.py), and what the ledger says of a script is what was
\* asked for, repeated and rejected pages included (gemini.py).
THEOREM PaidOnce == Spec => []PaidForOnce
<1>1. PapersSideBySide => PaidForOnce
  <2>1. Suggestions!Inv => Suggestions!FreeRetryBuysNothing /\ Suggestions!CompletedIsWhole
    BY DEF Suggestions!Inv, Suggestions!FreeInv, Suggestions!FreeRetryBuysNothing,
           Suggestions!RecordInv, Suggestions!CompletedIsWhole
  <2>2. ScriptInv => Script!ChargesAreExact
    BY DEF ScriptInv
  <2> QED
    BY <2>1, <2>2 DEF PapersSideBySide, PaidForOnce
<1> QED
  BY <1>1, PapersSideInvariant, PTL

\* Whatever sequence of evaluations, manual entries and reviews: a script's total
\* is the best any choice of questions gives, out of the rubric's total
\* (choice_groups.py, review_marks.py), and the mark of a question the best any
\* choice of its parts gives (question_parts.py); unanswered questions have no
\* marks, flagged ones those of the AI, and the marks of the course outcomes add
\* up to the question's in fair shares (manual_marks.py).
THEOREM BestMarksCount == Spec => []MarksAreBest
<1>1. PapersSideBySide => MarksAreBest
  BY MarksFollow, PartsFollow DEF PapersSideBySide, MarksAreBest
<1> QED
  BY <1>1, PapersSideInvariant, PTL

\* Concurrent requests for the same suggestions reuse one attempt: its workers
\* never buy a batch that is saved or being bought (rubric_suggestions.py).
THEOREM ImplementsPaidBatches == Spec => BatchesBoughtOnce
<1> DEFINE saved == IF scenario = "suggestions" THEN Suggestions!SavedBatches ELSE {}
           buying == IF scenario = "suggestions" THEN Suggestions!BuyingBatches ELSE {}
<1>1. Init => Paid!PaidInit
  <2>1. Init /\ scenario = "suggestions" => Suggestions!Paid!PaidInit
    BY Suggestions!InitPaid DEF Init
  <2> QED
    BY <2>1 DEF Paid!PaidInit, Suggestions!Paid!PaidInit
<1>2. PapersSideBySide /\ PapersSideBySide' /\ [Next]_vars => [Paid!PaidNext]_<<saved, buying>>
  <2> SUFFICES ASSUME PapersSideBySide, PapersSideBySide', [Next]_vars
               PROVE  [Paid!PaidNext]_<<saved, buying>>
    OBVIOUS
  <2>1. scenario' = scenario
    BY OneMoves
  <2>2. CASE scenario # "suggestions"
    BY <2>1, <2>2
  <2>3. CASE scenario = "suggestions"
    <3>1. [Suggestions!Paid!PaidNext]_<<Suggestions!SavedBatches, Suggestions!BuyingBatches>>
      BY <2>1, <2>3, OneMoves, Suggestions!StepPaid, SuggestionsConstants DEF PapersSideBySide
    <3> QED
      BY <2>1, <2>3, <3>1
         DEF Paid!PaidNext, Paid!Regenerate, Paid!Buy, Paid!Store, Paid!Lose,
             Suggestions!Paid!PaidNext, Suggestions!Paid!Regenerate, Suggestions!Paid!Buy,
             Suggestions!Paid!Store, Suggestions!Paid!Lose, Suggestions!Batches
  <2> QED
    BY <2>2, <2>3
<1> QED
  BY <1>1, <1>2, PapersSideInvariant, PTL DEF Spec, BatchesBoughtOnce, Paid!PaidSpec

\* A file that replaces the one of a paper was built from the header stored with
\* it, and the worker of an attempt that was replaced while it called the
\* provider writes nothing.
THEOREM OvertakenIsFenced == Spec => OvertakenWritesNothing
<1> DEFINE Fenced == /\ scenario = "papers" => Stored!HeaderStep
                     /\ scenario = "overruled" => Overruled!FencedStep
<1>1. PapersSideBySide /\ [Next]_vars => [Fenced]_vars
  <2> SUFFICES ASSUME PapersSideBySide, [Next]_vars PROVE Fenced
    OBVIOUS
  <2>1. CASE scenario = "papers"
    <3>1. [Stored!HeaderStep]_Stored!vars
      BY <2>1, OneMoves, PapersStep, StoredConstants DEF PapersSideBySide
    <3> QED
      BY <2>1, <3>1 DEF Stored!HeaderStep, Stored!vars
  <2>2. CASE scenario = "overruled"
    BY <2>2, OneMoves, Overruled!StepFenced, OverruledConstants DEF PapersSideBySide
  <2> QED
    BY <2>1, <2>2
<1> QED
  BY <1>1, PapersSideInvariant, PTL DEF Spec, OvertakenWritesNothing
=============================================================================
