--------------------------- MODULE HierarchyCache ---------------------------
(***************************************************************************)
(* The dropdown lists of an institute's hierarchy, cached in Redis.        *)
(*                                                                         *)
(* A reader that finds no entry loads the list and stores it afterwards.   *)
(* A writer changes the database first, then scans for the entries of the  *)
(* institute and deletes those it found.  Nothing orders the two.          *)
(***************************************************************************)
EXTENDS Naturals, FiniteSets

CONSTANTS
    Lists,      \* cached lists of one institute (name and sub_id)
    Readers,
    Writers,
    MaxWrites,  \* bound on the changes of a list
    None

\* raced: the list was changed between the load and the store.
Entry == [version: 0..MaxWrites, raced: BOOLEAN]
Reading == [list: Lists, version: 0..MaxWrites, raced: BOOLEAN]

\* What the constants of an instance satisfy.
ConstantsOK ==
  /\ MaxWrites \in Nat
  /\ None \notin Entry \cup Reading

VARIABLES
    data,       \* how often each list was changed in the database
    entry,      \* what is cached of it
    reader,
    writer,
    missed      \* lists changed by a writer that stopped before the scan's end

vars == <<data, entry, reader, writer, missed>>

Init ==
    /\ data = [l \in Lists |-> 0]
    /\ entry = [l \in Lists |-> None]
    /\ reader = [r \in Readers |-> None]
    /\ writer = [w \in Writers |-> [at |-> "idle", keys |-> {}, lists |-> {}]]
    /\ missed = {}

Cached == {l \in Lists : entry[l] # None}
Stale(l) == entry[l] # None /\ entry[l].version # data[l]

-----------------------------------------------------------------------------
\* cached_get

\* A miss: the loader has read the database.
Load(r, l) ==
    /\ reader[r] = None /\ entry[l] = None
    /\ reader' = [reader EXCEPT ![r] = [list |-> l, version |-> data[l], raced |-> FALSE]]
    /\ UNCHANGED <<data, entry, writer, missed>>

Store(r) ==
    /\ reader[r] # None
    /\ LET l == reader[r].list IN
       /\ entry' = [entry EXCEPT ![l] = [version |-> reader[r].version, raced |-> reader[r].raced]]
       /\ missed' = missed \ {l}
    /\ reader' = [reader EXCEPT ![r] = None]
    /\ UNCHANGED <<data, writer>>

\* The TTL of an entry ends; a store that failed looks the same.
Expire(l) ==
    /\ entry[l] # None
    /\ entry' = [entry EXCEPT ![l] = None]
    /\ UNCHANGED <<data, reader, writer, missed>>

-----------------------------------------------------------------------------
\* A handler that changes the hierarchy, and bust_institute_hierarchy

Changed(lists) ==
    /\ data' = [l \in Lists |-> IF l \in lists THEN data[l] + 1 ELSE data[l]]
    /\ reader' = [r \in Readers |->
          IF reader[r] # None /\ reader[r].list \in lists
            THEN [reader[r] EXCEPT !.raced = TRUE] ELSE reader[r]]

Goes(w, next) == writer' = [writer EXCEPT ![w] = next]

Change(w) ==
    /\ writer[w].at = "idle"
    /\ \E lists \in SUBSET Lists \ {{}} :
          /\ \A l \in lists : data[l] < MaxWrites
          /\ Changed(lists)
          /\ Goes(w, [at |-> "scan", keys |-> {}, lists |-> lists])
    /\ UNCHANGED <<entry, missed>>

\* Mutant: only the first page of the scan is taken.
ScanBegin_FirstPage(w) ==
    /\ writer[w].at = "scan"
    /\ \E page \in SUBSET Cached : Goes(w, [writer[w] EXCEPT !.at = "scanning", !.keys = page])
    /\ UNCHANGED <<data, entry, reader, missed>>

\* scan_iter returns every key that is there from its beginning to its end.
ScanBegin(w) ==
    /\ writer[w].at = "scan"
    /\ Goes(w, [writer[w] EXCEPT !.at = "scanning", !.keys = Cached])
    /\ UNCHANGED <<data, entry, reader, missed>>

ScanEnd(w) ==
    /\ writer[w].at = "scanning"
    /\ \E late \in SUBSET Cached :
          Goes(w, [writer[w] EXCEPT !.at = "delete", !.keys = @ \cup late])
    /\ UNCHANGED <<data, entry, reader, missed>>

DeleteKeys(w) ==
    /\ writer[w].at = "delete"
    /\ entry' = [l \in Lists |-> IF l \in writer[w].keys THEN None ELSE entry[l]]
    /\ Goes(w, [at |-> "idle", keys |-> {}, lists |-> {}])
    /\ UNCHANGED <<data, reader, missed>>

\* Redis fails, or the handler ends with an error before the bust.
Miss(w) ==
    /\ writer[w].at # "idle"
    /\ missed' = missed \cup writer[w].lists
    /\ Goes(w, [at |-> "idle", keys |-> {}, lists |-> {}])
    /\ UNCHANGED <<data, entry, reader>>

Next ==
    \/ \E l \in Lists : Expire(l) \/ \E r \in Readers : Load(r, l)
    \/ \E r \in Readers : Store(r)
    \/ \E w \in Writers : Change(w) \/ ScanBegin(w) \/ ScanEnd(w) \/ DeleteKeys(w) \/ Miss(w)

Spec == Init /\ [][Next]_vars

-----------------------------------------------------------------------------
\* Properties

Progress == [at: {"idle", "scan", "scanning", "delete"},
             keys: SUBSET Lists, lists: SUBSET Lists]

TypeOK ==
    /\ data \in [Lists -> 0..MaxWrites]
    /\ entry \in [Lists -> Entry \cup {None}]
    /\ reader \in [Readers -> Reading \cup {None}]
    /\ writer \in [Writers -> Progress]
    /\ \A w \in Writers : writer[w].at = "idle" => writer[w].keys = {}
    /\ missed \subseteq Lists

\* "Busted on every hierarchy write": when no writer is at work, an entry is
\* out of date only if its own load overlapped a write or a bust was missed.
StaleOnlyIfRaced ==
    (\A w \in Writers : writer[w].at = "idle") =>
        \A l \in Lists : Stale(l) => entry[l].raced \/ l \in missed
=============================================================================
