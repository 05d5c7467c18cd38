-------------------------- MODULE RoadmapMaterials --------------------------
(***************************************************************************)
(* What the provider writes for one subtopic of an open week on demand,    *)
(* kept in the roadmap document (app/api/routers/roadmap.py): study notes  *)
(* (of one style and difficulty), links to learning resources, practice    *)
(* questions.  Each handler looks at its slot, asks, and sets the slot     *)
(* alone.  The three differ in what counts as kept, in whether the learner *)
(* may ask again, in the second provider, and in what they store when the  *)
(* answer is of no use.                                                    *)
(***************************************************************************)
EXTENDS Integers, FiniteSets

CONSTANTS
  Requests,   \* requests in flight
  MaxAsks     \* bound on the requests that reach a provider

\* What the constants of an instance satisfy.
ConstantsOK ==
  /\ MaxAsks \in Nat

Slots == {"notes", "resources", "practice"}
Contents == {"none", "blank", "full"}   \* blank: stored, and nothing in it

VARIABLES
  exists,   \* the roadmap has not been deleted
  slot,     \* what the document holds for each slot
  task,     \* what each request does
  asks,     \* number of requests that reached a provider
  served    \* the last answer: what it held, and whether it came from the slot

vars == <<exists, slot, task, asks, served>>

Idle == [at |-> "idle"]
NoAnswer == [of |-> "none", content |-> "none", cached |-> FALSE]

Init ==
  /\ exists = TRUE
  /\ slot = [s \in Slots |-> "none"]
  /\ task = [r \in Requests |-> Idle]
  /\ asks = 0
  /\ served = NoAnswer

Goto(r, t) == task' = [task EXCEPT ![r] = t]
Answer(s, c, cached) == served' = [of |-> s, content |-> c, cached |-> cached]

(* Notes are kept when their key is there; resources when the object is    *)
(* not empty, and one with three empty lists is not; practice questions    *)
(* when the list is not empty.                                             *)
NotesKept == slot["notes"] # "none"
ResourcesKept == slot["resources"] # "none"

PracticeKept == slot["practice"] = "full"

Kept(s) == CASE s = "notes" -> NotesKept
             [] s = "resources" -> ResourcesKept
             [] s = "practice" -> PracticeKept

(* GET .../notes, /resources and /practice; the last knows no regenerate.  *)
Serve(r, s) ==
  /\ task[r] = Idle /\ exists /\ Kept(s)
  /\ Answer(s, slot[s], TRUE)
  /\ UNCHANGED <<exists, slot, task, asks>>

Begin(r, s, regenerate) ==
  /\ task[r] = Idle /\ exists /\ asks < MaxAsks
  /\ regenerate => s # "practice"
  /\ regenerate \/ ~Kept(s)
  /\ Goto(r, [at |-> IF s = "resources" THEN "search" ELSE "gemini",
              of |-> s, again |-> regenerate, seen |-> slot[s]])
  /\ asks' = asks + 1
  /\ UNCHANGED <<exists, slot, served>>

(* Three searches; when none finds anything nothing is stored.             *)
SearchFinds(r) ==
  /\ task[r].at = "search"
  /\ Goto(r, [task[r] EXCEPT !.at = "gemini"])
  /\ UNCHANGED <<exists, slot, asks, served>>

SearchFindsNothing(r) ==
  /\ task[r].at = "search"
  /\ Answer("resources", "blank", FALSE)
  /\ Goto(r, Idle)
  /\ UNCHANGED <<exists, slot, asks>>

(* Out of quota, notes and resources turn to the second provider.          *)
QuotaExceeded(r) ==
  /\ task[r].at = "gemini" /\ task[r].of # "practice"
  /\ Goto(r, [task[r] EXCEPT !.at = "claude"])
  /\ UNCHANGED <<exists, slot, asks, served>>

(* A provider error, or an answer that is cut off or not an object.        *)
Fail(r) ==
  /\ task[r].at \in {"gemini", "claude"}
  /\ Goto(r, Idle)
  /\ UNCHANGED <<exists, slot, asks, served>>

(* A roadmap that is gone is not written.                                  *)
Store(s, c) == slot' = IF exists THEN [slot EXCEPT ![s] = c] ELSE slot

SaveNotes(r) ==
  /\ task[r].at \in {"gemini", "claude"} /\ task[r].of = "notes"
  /\ Store("notes", "full")
  /\ Answer("notes", "full", FALSE)
  /\ Goto(r, Idle)
  /\ UNCHANGED <<exists, asks>>

(* The model picks candidates by index; picks that are no object, or name  *)
(* no candidate, are dropped, and what is left is stored.                  *)
SaveResources(r) ==
  /\ task[r].at \in {"gemini", "claude"} /\ task[r].of = "resources"
  /\ \E c \in {"blank", "full"} :
       /\ Store("resources", c)
       /\ Answer("resources", c, FALSE)
  /\ Goto(r, Idle)
  /\ UNCHANGED <<exists, asks>>

(* An answer without questions is stored as an empty list.                 *)
SavePractice(r) ==
  /\ task[r].at = "gemini" /\ task[r].of = "practice"
  /\ \E c \in {"blank", "full"} :
       /\ Store("practice", c)
       /\ Answer("practice", c, FALSE)
  /\ Goto(r, Idle)
  /\ UNCHANGED <<exists, asks>>

DeleteRoadmap ==
  /\ exists
  /\ exists' = FALSE
  /\ slot' = [s \in Slots |-> "none"]
  /\ UNCHANGED <<task, asks, served>>

RequestStep(r) ==
  \/ \E s \in Slots : Serve(r, s) \/ \E again \in BOOLEAN : Begin(r, s, again)
  \/ SearchFinds(r) \/ SearchFindsNothing(r)
  \/ QuotaExceeded(r) \/ Fail(r)
  \/ SaveNotes(r) \/ SaveResources(r) \/ SavePractice(r)

Next == DeleteRoadmap \/ \E r \in Requests : RequestStep(r)

Spec == Init /\ [][Next]_vars

-----------------------------------------------------------------------------
Asking == [at : {"search", "gemini", "claude"}, of : Slots, again : BOOLEAN,
           seen : Contents]

(* Types; notes are never blank, practice has one provider, and only       *)
(* resources are searched for.                                             *)
TypeOK ==
  /\ exists \in BOOLEAN
  /\ slot \in [Slots -> Contents] /\ slot["notes"] # "blank"
  /\ task \in [Requests -> Asking \cup {Idle}]
  /\ \A r \in Requests :
       /\ task[r].at = "search" => task[r].of = "resources"
       /\ task[r].at = "claude" => task[r].of # "practice"
  /\ asks \in 0 .. MaxAsks
  /\ served \in [of : Slots \cup {"none"}, content : Contents, cached : BOOLEAN]

(* Notes and practice questions served from the document are never empty:  *)
(* an answer without questions is stored, but asked for again.             *)
KeptLessonsHaveContent ==
  served.cached /\ served.of \in {"notes", "practice"} => served.content = "full"

(* Questions that are there give way to an empty list only when a request  *)
(* that found none was still asking.                                       *)
PracticeLostOnlyIfOverlapped ==
  [][slot["practice"] = "full" /\ slot'["practice"] = "blank"
     => \E r \in Requests : task[r] # Idle /\ task[r].of = "practice"
                            /\ task[r].seen # "full"]_vars

-----------------------------------------------------------------------------
\* What the documentation says beyond this and the code does not keep: the model
\* has behaviours against it (README, "Divergences").

(* "don't cache a permanent empty result, so a later request can retry"    *)
(* (roadmap.py:809).                                                       *)
NoPermanentEmptyResult ==
  served.of = "resources" /\ served.content = "blank" => ~served.cached
=============================================================================
