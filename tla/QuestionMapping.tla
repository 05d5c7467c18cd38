--------------------------- MODULE QuestionMapping ---------------------------
(***************************************************************************)
(* Which printed questions are the rows of the evaluation: the automatic   *)
(* mapping of a paper's labels, the one the faculty confirms, and the      *)
(* marks the paper's own scheme gives (app/services/question_mapping.py,   *)
(* app/services/paper_marks.py, app/api/routers/evaluation.py).            *)
(*                                                                         *)
(* A text is a sequence of lines, and a line what the patterns make of it: *)
(* a section heading, a label with its root and subpart (0 for none), a    *)
(* letter alone, an "OR", anything else.  Prefixes ("Question 1") are      *)
(* explicit or absent, not spelled.                                        *)
(***************************************************************************)
EXTENDS Naturals, FiniteSets, Sequences, FiniteSetsExt, SequencesExt

CONSTANTS
  Texts,     \* extracted texts
  Counts,    \* numbers of questions a paper is uploaded with
  Later,     \* texts that are extracted afterwards
  MaxVersion,\* times the paper is replaced (the code has no limit)
  Schemes,   \* marking schemes a text may state
  Forms,     \* mapping forms the faculty fills in
  None

Line == [kind : {"heading", "label", "letter", "or", "other"}, root : Nat, sub : Nat,
         explicit : BOOLEAN]

ConstantsOK ==
  /\ \A t \in Texts \cup Later : t \in Seq(Line)
  /\ Counts \subseteq Nat \ {0}
  /\ MaxVersion \in Nat
  /\ \A s \in Schemes : /\ s.total \in Nat
                        /\ \A p \in s.sections : p.marks \in Nat
                        /\ \A r \in s.ranges : r.lo <= r.hi /\ r.marks \in Nat

VARIABLES
  paper,    \* text, number of questions, version, saved mapping, lock
  form,     \* what each form was filled in for, and how far its request is
  used      \* the mapping the latest rubric suggestion was prepared with

vars == <<paper, form, used>>

-----------------------------------------------------------------------------
(* Texts                                                                   *)

(* _lines: the section of a line, its own if it is a heading.              *)
Section(text, i) ==
  LET H == {h \in 1 .. i : text[h].kind = "heading"}
  IN  IF H = {} THEN 0 ELSE text[Max(H)].root

Headings(text) == {i \in DOMAIN text : text[i].kind = "heading"}
Candidates(text) == {i \in DOMAIN text : text[i].kind \in {"label", "letter"}}
Subpart(text, i) == text[i].kind = "letter" \/ text[i].sub # 0
Label(text, i) == <<text[i].root, text[i].sub>>

InOrder(S) == SetToSortSeq(S, <)

(* mapped_blocks: the selected lines, in order, under distinct labels.     *)
Mappable(text, selected, count) ==
  /\ Len(selected) = count
  /\ \A k \in 1 .. count : selected[k].start \in DOMAIN text
  /\ \A k, m \in 1 .. count : k < m =>
       /\ selected[k].start < selected[m].start
       /\ \/ selected[k].label # selected[m].label
          \/ Section(text, selected[k].start) # Section(text, selected[m].start)

(* A block ends at the next question or at a heading before it.            *)
EndOf(text, start, next) ==
  Min({next} \cup {h \in Headings(text) : start < h /\ h < next})

Mapped(text, selected) ==
  [k \in DOMAIN selected |->
     LET next == IF k = Len(selected) THEN Len(text) + 1 ELSE selected[k + 1].start
     IN  [start |-> selected[k].start, end |-> EndOf(text, selected[k].start, next),
          section |-> Section(text, selected[k].start), label |-> selected[k].label]]

-----------------------------------------------------------------------------
(* resolve_questions                                                       *)

(* Explicit labels go before plain ones; letters alone are never questions *)
(* and neither are numbers before the first section.                       *)
Eligible(text) ==
  LET explicit == {i \in Candidates(text) : text[i].explicit}
      numbered == {i \in Candidates(text) : text[i].kind = "label"}
  IN  IF explicit # {} THEN explicit
      ELSE IF Headings(text) # {} THEN {i \in numbered : i > Min(Headings(text))}
      ELSE numbered

SameQuestion(text, i, j) ==
  Section(text, i) = Section(text, j) /\ text[i].root = text[j].root

Group(text, i) == {j \in Eligible(text) : SameQuestion(text, i, j)}

(* The labels of one root stand together, and a label is repeated only     *)
(* after an "OR" of its own.                                               *)
Together(text, g) ==
  \A j \in Eligible(text) : Min(g) < j /\ j < Max(g) => j \in g

Repeats(text, g, j) ==
  \E i \in g : /\ i < j
               /\ \/ Label(text, i) = Label(text, j)
                  \/ ~Subpart(text, i) /\ ~Subpart(text, j)

Separated(text, g, j) ==
  LET previous == Max({i \in g : i < j})
  IN  \E k \in previous + 1 .. j - 1 : text[k].kind = "or"

ValidGroup(text, g) ==
  /\ Together(text, g)
  /\ \A j \in g : Repeats(text, g, j) => Separated(text, g, j)

(* One row for each label, unless a root has a line of its own.            *)
Separately(text) ==
  IF \E i \in Eligible(text) :
       /\ Cardinality(Group(text, i)) > 1
       /\ \E j \in Group(text, i) : ~Subpart(text, j)
  THEN {}
  ELSE {[k \in 1 .. Cardinality(Eligible(text)) |->
           LET i == InOrder(Eligible(text))[k] IN [start |-> i, label |-> Label(text, i)]]}

(* One row for each root.                                                  *)
Jointly(text) ==
  LET firsts == {i \in Eligible(text) : i = Min(Group(text, i))}
  IN  IF \E i \in Eligible(text) : ~ValidGroup(text, Group(text, i)) THEN {}
      ELSE {[k \in 1 .. Cardinality(firsts) |->
               LET i == InOrder(firsts)[k] IN [start |-> i, label |-> <<text[i].root, 0>>]]}

Layouts(text, count) ==
  {Mapped(text, selected) :
     selected \in {s \in Separately(text) \cup Jointly(text) : Mappable(text, s, count)}}

Starts(blocks) == [k \in DOMAIN blocks |-> blocks[k].start]

(* A layout is taken when it is the only one with this number of rows.     *)
Automatic(text, count) ==
  LET layouts == Layouts(text, count)
  IN  IF Cardinality({Starts(b) : b \in layouts}) # 1 THEN None
      ELSE CHOOSE b \in layouts : TRUE

-----------------------------------------------------------------------------
(* expected_marks: the marks of each row, where the scheme does not        *)
(* contradict itself, covers every row once and adds up.                   *)
Consistent(scheme) ==
  \A p, q \in scheme.sections : p.section = q.section =>
    /\ p.marks = q.marks
    /\ p.count = None \/ q.count = None \/ p.count = q.count

Stated(block, scheme) ==
  {r.marks : r \in {r \in scheme.ranges : r.lo <= block.label[1] /\ block.label[1] <= r.hi}}
  \cup {p.marks : p \in {p \in scheme.sections : p.section = block.section}}

CountsHold(blocks, scheme) ==
  \A p \in scheme.sections :
    p.count = None \/ p.count = Cardinality({k \in DOMAIN blocks : blocks[k].section = p.section})

AddsUp(blocks, scheme) ==
  LET MarksOf(k) == CHOOSE m \in Stated(blocks[k], scheme) : TRUE
  IN  MapThenSumSet(MarksOf, DOMAIN blocks) = scheme.total

Trusted(blocks, scheme) ==
  /\ blocks # << >>
  /\ Consistent(scheme)
  /\ \A k \in DOMAIN blocks : Cardinality(Stated(blocks[k], scheme)) = 1
  /\ CountsHold(blocks, scheme)
  /\ AddsUp(blocks, scheme)

-----------------------------------------------------------------------------
(* The paper and its mapping                                               *)

(* source_key: a digest of text, version, file and number of questions.    *)
Source == [text |-> paper.text, count |-> paper.count, version |-> paper.version]

Init ==
  /\ \E t \in Texts, n \in Counts :
       paper = [text |-> t, count |-> n, version |-> 0, mapping |-> None, locked |-> FALSE]
  /\ form = [f \in Forms |-> None]
  /\ used = None

(* Until the exam is locked: another file, whose text is not known yet.    *)
ReplacePaper ==
  /\ paper.version < MaxVersion /\ ~paper.locked
  /\ \E n \in Counts :
       paper' = [text |-> << >>, count |-> n, version |-> paper.version + 1,
                 mapping |-> None, locked |-> FALSE]
  /\ UNCHANGED <<form, used>>

(* The text of a version is extracted, for a second time if the job is     *)
(* delivered twice; a mapping of the text before is left where it is.      *)
ExtractText ==
  /\ \E t \in Later : paper' = [paper EXCEPT !.text = t]
  /\ UNCHANGED <<form, used>>

LockExam ==
  /\ ~paper.locked
  /\ paper' = [paper EXCEPT !.locked = TRUE]
  /\ UNCHANGED <<form, used>>

(* The form shows the lines of the paper and its source.  (Up to two rows  *)
(* are chosen.)                                                            *)
FillIn(f) ==
  /\ form[f] = None
  /\ \E n \in 1 .. 2 :
     \E S \in kSubset(n, DOMAIN paper.text), same \in IF n = 1 THEN {FALSE} ELSE BOOLEAN :
       form' = [form EXCEPT ![f] =
         [source |-> Source, at |-> "filled", seen |-> None,
          questions |-> [k \in 1 .. n |->
            LET i == InOrder(S)[k]
            IN  [start |-> i, label |-> IF same THEN <<1, 0>> ELSE <<k, 0>>]]]]
  /\ UNCHANGED <<paper, used>>

(* confirm_question_mapping: the source is compared with the paper read,   *)
(* and the write requires the paper to be that very one.                   *)
Submit(f) ==
  /\ form[f] # None /\ form[f].at = "filled"
  /\ form' = [form EXCEPT ![f] =
       IF /\ ~paper.locked
          /\ form[f].source = Source
          /\ Mappable(paper.text, form[f].questions, paper.count)
       THEN [form[f] EXCEPT !.at = "checked", !.seen = paper]
       ELSE [form[f] EXCEPT !.at = "refused"]]
  /\ UNCHANGED <<paper, used>>

Unchanged(f) == paper = form[f].seen

SaveMapping(f) ==
  /\ form[f] # None /\ form[f].at = "checked"
  /\ IF Unchanged(f)
     THEN /\ paper' = [paper EXCEPT !.mapping =
                         [source |-> form[f].source, questions |-> form[f].questions]]
          /\ form' = [form EXCEPT ![f].at = "saved"]
     ELSE /\ form' = [form EXCEPT ![f].at = "refused"]
          /\ UNCHANGED paper
  /\ UNCHANGED used

Confirmed == paper.mapping # None /\ paper.mapping.source = Source

(* build_context: the confirmed mapping if it is of this paper, else the   *)
(* automatic one; the faculty is asked when there is none.                 *)
PrepareSuggestion ==
  /\ used' =
       IF Confirmed
       THEN IF Mappable(paper.text, paper.mapping.questions, paper.count)
            THEN [text |-> paper.text, automatic |-> FALSE,
                  blocks |-> Mapped(paper.text, paper.mapping.questions)]
            ELSE None
       ELSE LET blocks == Automatic(paper.text, paper.count)
            IN  IF blocks = None THEN None
                ELSE [text |-> paper.text, automatic |-> TRUE, blocks |-> blocks]
  /\ UNCHANGED <<paper, form>>

Next ==
  \/ ReplacePaper \/ ExtractText \/ LockExam \/ PrepareSuggestion
  \/ \E f \in Forms : FillIn(f) \/ Submit(f) \/ SaveMapping(f)

Spec == Init /\ [][Next]_vars

-----------------------------------------------------------------------------
Block == [start : Nat, end : Nat, section : Nat, label : Nat \X Nat]

TypeOK ==
  /\ paper.text \in Texts \cup Later \cup {<< >>} /\ paper.count \in Counts
  /\ paper.version \in 0 .. MaxVersion /\ paper.locked \in BOOLEAN
  /\ used # None => \A k \in DOMAIN used.blocks : used.blocks[k] \in Block
  /\ \A f \in Forms : form[f] # None =>
       form[f].at \in {"filled", "checked", "saved", "refused"}

(* The evidence of a row is text of its own: no line belongs to two rows,  *)
(* no heading to the row before it, and nothing is left out between two    *)
(* rows but what follows a heading.                                        *)
RowsShareNothing ==
  used # None =>
    LET b == used.blocks IN
    /\ \A k, m \in DOMAIN b : k < m => b[k].start < b[k].end /\ b[k].end <= b[m].start
    /\ \A k \in DOMAIN b : Headings(used.text) \cap (b[k].start + 1 .. b[k].end - 1) = {}
    /\ \A k \in DOMAIN b : k + 1 \in DOMAIN b /\ b[k].end < b[k + 1].start
         => used.text[b[k].end].kind = "heading"

(* "Never discard a root", "never fold a later repeated root across        *)
(* another question": what is mapped without asking has every label it     *)
(* recognised in the row of its own question.  (A section whose heading is *)
(* printed again in the middle of a question is the exception.)            *)
PrintedAgain(text, i) ==
  \E h, g \in Headings(text) : h < g /\ g < i /\ text[h].root = text[g].root

NoLabelIsLost ==
  used # None /\ used.automatic =>
    \A i \in Eligible(used.text) :
      \/ PrintedAgain(used.text, i)
      \/ \E k \in DOMAIN used.blocks :
           /\ used.blocks[k].start <= i /\ i < used.blocks[k].end
           /\ SameQuestion(used.text, i, used.blocks[k].start)

(* A scheme is trusted for one layout of a paper at most: marks that are   *)
(* stated for each question are not taken for each of its parts.           *)
SchemeFitsOneLayout ==
  used = None => \A s \in Schemes :
    LET fitting == {sel \in Separately(paper.text) \cup Jointly(paper.text) :
                      /\ Mappable(paper.text, sel, Len(sel))
                      /\ Trusted(Mapped(paper.text, sel), s)}
    IN  Cardinality({Starts(sel) : sel \in fitting}) <= 1

(* The mapping that is stored belongs to the paper that is: a form that    *)
(* was overtaken never displaces it, and one in force can be applied.      *)
MappingBelongsToPaper ==
  paper.mapping # None =>
    /\ paper.mapping.source.version = paper.version
    /\ Confirmed => Mappable(paper.text, paper.mapping.questions, paper.count)
=============================================================================
