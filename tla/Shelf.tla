------------------------------- MODULE Shelf -------------------------------
(***************************************************************************)
(* What the document library promises its users, setup included.  A        *)
(* document comes with a row and, once and for all or later, with what a   *)
(* search finds; it leaves with both.  A clone is its source as it was at  *)
(* one moment.  Setup stocks the shelf at once or not at all, and says so. *)
(* SetupSequence, on top of Library, implements this specification.        *)
(***************************************************************************)
EXTENDS Naturals

CONSTANTS Doc, Client, Run, Title, Sample, None

VARIABLES
    shelf,    \* shelf[d]: unused, the row of a document, or deleted
    findable, \* documents that a search can find
    asked,    \* asked[d]: the copy a clone request has taken and will put there
    underway, \* runs of setup under way
    told,     \* what setup says of itself
    personas, \* times setup brought the personas
    templates \* times it brought the templates

shelfVars == <<shelf, findable, asked, underway, told, personas, templates>>

Unused == [state |-> "unused"]
Deleted == [state |-> "deleted"]
Row(n, from, src, marked) ==
    [state |-> "present", name |-> n, from |-> from, src |-> src, marked |-> marked]

Present == {d \in Doc : shelf[d].state = "present"}

\* The shelf is empty; some ids may have been used up.
ShelfInit ==
    /\ shelf \in [Doc -> {Unused, Deleted}]
    /\ findable = {}
    /\ asked = [d \in Client |-> {}]
    /\ underway = {} /\ told = "none"
    /\ personas = 0 /\ templates = 0

\* An upload comes without anything to find ...
Put(d, n) ==
    /\ shelf[d] = Unused /\ asked[d] = {}
    /\ shelf' = [shelf EXCEPT ![d] = Row(n, "upload", None, FALSE)]
    /\ UNCHANGED <<findable, asked, underway, told, personas, templates>>

\* ... and it alone can get it later, while it is there.
Index(d) ==
    /\ d \in Present /\ shelf[d].from = "upload"
    /\ findable' = findable \union {d}
    /\ UNCHANGED <<shelf, asked, underway, told, personas, templates>>

Remove(d) ==
    /\ d \in Present
    /\ shelf' = [shelf EXCEPT ![d] = Deleted]
    /\ findable' = findable \ {d}
    /\ UNCHANGED <<asked, underway, told, personas, templates>>

\* The copy of a document is taken, by now perhaps of one that was deleted.
Take(d, s) ==
    /\ shelf[d] = Unused /\ asked[d] = {}
    /\ shelf[s] # Unused
    /\ \E n \in Title, m \in BOOLEAN :
         /\ s \in Present => n = shelf[s].name /\ m = shelf[s].marked
         /\ asked' = [asked EXCEPT ![d] = {[row |-> Row(n, "clone", s, m), full |-> s \in findable]}]
    /\ UNCHANGED <<shelf, findable, underway, told, personas, templates>>

\* It is put on the shelf as taken, whatever has become of its source.
Copy(d) ==
    /\ shelf[d] = Unused
    /\ \E job \in asked[d] :
         /\ shelf' = [shelf EXCEPT ![d] = job.row]
         /\ findable' = IF job.full THEN findable \union {d} ELSE findable
    /\ asked' = [asked EXCEPT ![d] = {}]
    /\ UNCHANGED <<underway, told, personas, templates>>

Ask(s) ==
    /\ s \notin underway
    /\ underway' = underway \union {s} /\ told' = "pending"
    /\ UNCHANGED <<shelf, findable, asked, personas, templates>>

\* A run of setup brings everything at once, searchable and each sample once,
\* and mends documents that are there.
Stock(s) ==
    /\ s \in underway
    /\ underway' = underway \ {s} /\ told' = "success"
    /\ \E new \in SUBSET {d \in Doc : shelf[d] = Unused}, mended \in SUBSET Present :
         /\ \E of \in [new -> Sample] :
              /\ \A d, e \in new : of[d] = of[e] => d = e
              /\ shelf' = [d \in Doc |-> IF d \in new THEN Row(of[d], "seed", None, TRUE) ELSE shelf[d]]
         /\ findable' = findable \union new \union mended
    /\ personas' \in {personas, personas + 1} /\ templates' \in {templates, templates + 1}
    /\ UNCHANGED asked

\* A run that fails has brought nothing, and says that it failed.
Fail(s) ==
    /\ s \in underway
    /\ underway' = underway \ {s} /\ told' = "error"
    /\ UNCHANGED <<shelf, findable, asked, personas, templates>>

\* The process dies: what is on the shelf stays, the rest is gone.
Die ==
    /\ asked' = [d \in Client |-> {}]
    /\ underway' = {} /\ told' = "none"
    /\ UNCHANGED <<shelf, findable, personas, templates>>

ShelfNext ==
    \/ \E d \in Client :
         \/ \E n \in Title : Put(d, n)
         \/ Index(d) \/ Copy(d)
         \/ \E s \in Doc : Take(d, s)
    \/ \E d \in Doc : Remove(d)
    \/ \E s \in Run : Ask(s) \/ Stock(s) \/ Fail(s)
    \/ Die

ShelfSpec == ShelfInit /\ [][ShelfNext]_shelfVars
=============================================================================
