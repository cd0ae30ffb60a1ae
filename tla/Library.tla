------------------------------ MODULE Library ------------------------------
(***************************************************************************)
(* The document library of the backend: documents and their chunks         *)
(* (api/routes/documents.py), the background task that splits, embeds and  *)
(* stores an upload (services/document_processing.py), and the embedding   *)
(* client, which learns from a first refusal that the model wants to know  *)
(* what a text is for (services/embedding_service.py).                     *)
(*                                                                         *)
(* A document is in the library from its commit on; it can be found by a   *)
(* search only if it has a chunk.  The database is external; statements    *)
(* read what is committed when they run.                                   *)
(***************************************************************************)
EXTENDS Naturals, FiniteSets

CONSTANTS
    Upload,    \* ids of the documents that uploads and clones make
    Query,     \* searches
    Setup,     \* runs of the setup sequence
    Sample,    \* names of the sample documents setup seeds
    OtherName, \* any other name
    None

\* No id is used twice.  Setup s makes at most one document of each sample.
Docs == Upload \union (Setup \X Sample)

\* Who embeds: the background task of an upload, a search, setup.
Callers == Upload \union Query \union Setup

ASSUME NamesApart == OtherName \notin Sample
ASSUME UploadsApart == Upload \intersect (Query \union Setup \union (Setup \X Sample)) = {}
ASSUME SetupsApart == Query \intersect Setup = {}

VARIABLES
    asymmetric, \* _ASYMMETRIC_REGISTRY of the configured model
    refuses,    \* the model served refuses a text without an input_type
    call,       \* the embedding call of each caller
    met,        \* history: callers whose call was in flight with another's
    doc,        \* the committed documents
    chunks,     \* documents with a committed chunk
    ingest,     \* the background task of each upload
    fate,       \* history: how that task ended
    copy,       \* the clone request that will make a document
    bare        \* history: documents ever without a chunk, or deleted

embedding == <<asymmetric, refuses, call, met>>
table == <<doc, chunks, bare>>
tasks == <<ingest, fate, copy>>
libVars == <<embedding, table, tasks>>

Unused == [state |-> "unused"]
Deleted == [state |-> "deleted"]
NoCopy == [at |-> "none"]

Present == {d \in Docs : doc[d].state = "present"}
Fresh == {d \in Upload : doc[d] = Unused /\ copy[d] = NoCopy}
Named(n) == {d \in Present : doc[d].name = n}

LibInit ==
    /\ asymmetric = FALSE
    /\ refuses \in BOOLEAN
    /\ call = [c \in Callers |-> "idle"]
    /\ met = {}
    /\ doc = [d \in Docs |-> Unused]
    /\ chunks = {}
    /\ ingest = [d \in Upload |-> "none"]
    /\ fate = [d \in Upload |-> "none"]
    /\ copy = [d \in Upload |-> NoCopy]
    /\ bare = {}

-----------------------------------------------------------------------------
(* The embedding client.                                                   *)

InFlight == {c \in Callers : call[c] \in {"typed", "untyped", "again"}}

\* Mutation: the input_type is never attached.
NeverTyped == "untyped"

\* get_embedding_model: what the registry says when the client is made.
get_embedding_model == IF asymmetric THEN "typed" ELSE "untyped"

StartCall(c) ==
    /\ call[c] = "idle"
    /\ call' = [call EXCEPT ![c] = get_embedding_model]
    /\ met' = IF InFlight = {} THEN met ELSE met \union InFlight \union {c}

\* Mutation: the refusal is noted and raised all the same.
NoRetry(c) ==
    /\ call[c] = "untyped" /\ refuses
    /\ asymmetric' = TRUE
    /\ call' = [call EXCEPT ![c] = "refused"]

\* A refusal nobody learned from yet is learned and retried; one that another
\* call learned from since this client was made is raised.
Refusal(c) ==
    /\ call[c] = "untyped" /\ refuses
    /\ asymmetric' = TRUE
    /\ call' = [call EXCEPT ![c] = IF asymmetric THEN "refused" ELSE "again"]

Embedded(c) ==
    /\ call[c] \in {"typed", "again"} \union (IF refuses THEN {} ELSE {"untyped"})
    /\ call' = [call EXCEPT ![c] = "ok"]
    /\ UNCHANGED asymmetric

\* Any other answer, or none within the client's 30 seconds.
EndpointFails(c) ==
    /\ c \in InFlight
    /\ call' = [call EXCEPT ![c] = "down"]
    /\ UNCHANGED asymmetric

Answered(c) ==
    /\ Refusal(c) \/ Embedded(c) \/ EndpointFails(c)
    /\ UNCHANGED <<refuses, met, table, tasks>>

\* The answer of c's call reaches its caller.
TakeAnswer(c, a) ==
    /\ call[c] = a
    /\ call' = [call EXCEPT ![c] = "idle"]
    /\ UNCHANGED <<asymmetric, refuses, met>>

\* semantic_search embeds the query before it searches.
Search(q) ==
    /\ StartCall(q)
    /\ UNCHANGED <<asymmetric, refuses, table, tasks>>

-----------------------------------------------------------------------------
(* Documents.                                                              *)

Row(n, from, src, marked) ==
    [state |-> "present", name |-> n, from |-> from, src |-> src, marked |-> marked]

\* upload_document: the document is committed, then the background task is
\* queued; it runs once the response is out.
upload_document(d) ==
    /\ d \in Fresh
    /\ \E n \in Sample \union {OtherName} :
         doc' = [doc EXCEPT ![d] = Row(n, "upload", None, FALSE)]
    /\ bare' = bare \union {d}
    /\ ingest' = [ingest EXCEPT ![d] = "queued"]
    /\ UNCHANGED <<embedding, chunks, fate, copy>>

\* process_file_content: no text in the file, or a file or settings that cannot be
\* read, ends the task; otherwise its chunks are embedded.
process_file_content(d) ==
    /\ ingest[d] = "queued"
    /\ \/ /\ fate' = [fate EXCEPT ![d] = "unread"]
          /\ ingest' = [ingest EXCEPT ![d] = "none"]
          /\ UNCHANGED <<call, met>>
       \/ /\ StartCall(d)
          /\ ingest' = [ingest EXCEPT ![d] = "embedding"]
          /\ UNCHANGED fate
    /\ UNCHANGED <<asymmetric, refuses, table, copy>>

\* The chunks are written in one commit, refused if the document is gone.
StoreChunks(d) ==
    /\ ingest[d] = "embedding"
    /\ TakeAnswer(d, "ok")
    /\ ingest' = [ingest EXCEPT ![d] = "none"]
    /\ chunks' = IF d \in Present THEN chunks \union {d} ELSE chunks
    /\ fate' = [fate EXCEPT ![d] = IF d \in Present THEN "whole" ELSE "orphan"]
    /\ UNCHANGED <<doc, bare, copy>>

\* Every exception ends here: it is logged and the document stays as it is.  With
\* the vectors there the commit can fail, or they are not one for each chunk.
ProcessingFailed(d) ==
    /\ ingest[d] = "embedding"
    /\ \E a \in {"refused", "down", "ok"} :
         /\ TakeAnswer(d, a)
         /\ fate' = [fate EXCEPT ![d] = IF a = "ok" THEN "unstored" ELSE a]
    /\ ingest' = [ingest EXCEPT ![d] = "none"]
    /\ UNCHANGED <<table, copy>>

\* Mutation: the chunks stay behind.
DeleteRowOnly(d) ==
    /\ d \in Present
    /\ doc' = [doc EXCEPT ![d] = Deleted]
    /\ bare' = bare \union {d}
    /\ UNCHANGED <<embedding, chunks, tasks>>

\* delete_document; the chunks go with the document.
delete_document(d) ==
    /\ d \in Present
    /\ doc' = [doc EXCEPT ![d] = Deleted]
    /\ chunks' = chunks \ {d}
    /\ bare' = bare \union {d}
    /\ UNCHANGED <<embedding, tasks>>

\* clone_document, its first statement: the source's row is read.
clone_document(d, s) ==
    /\ d \in Fresh
    /\ s \in Present
    /\ copy' = [copy EXCEPT ![d] = [at |-> "row", src |-> s, full |-> FALSE,
                                    row |-> Row(doc[s].name, "clone", s, doc[s].marked)]]
    /\ UNCHANGED <<embedding, table, ingest, fate>>

\* Its second: the source's chunks, as they are committed by now.
CopyChunks(d) ==
    /\ copy[d].at = "row"
    /\ copy' = [copy EXCEPT ![d] = [@ EXCEPT !.at = "chunks", !.full = copy[d].src \in chunks]]
    /\ UNCHANGED <<embedding, table, ingest, fate>>

\* Mutation: the chunks are left behind.
CommitRowOnly(d) ==
    /\ copy[d].at = "chunks"
    /\ doc' = [doc EXCEPT ![d] = copy[d].row]
    /\ bare' = bare \union {d}
    /\ copy' = [copy EXCEPT ![d] = NoCopy]
    /\ UNCHANGED <<embedding, chunks, ingest, fate>>

\* The row and the copied chunks are committed together.
CommitClone(d) ==
    /\ copy[d].at = "chunks"
    /\ doc' = [doc EXCEPT ![d] = copy[d].row]
    /\ chunks' = IF copy[d].full THEN chunks \union {d} ELSE chunks
    /\ bare' = IF copy[d].full THEN bare ELSE bare \union {d}
    /\ copy' = [copy EXCEPT ![d] = NoCopy]
    /\ UNCHANGED <<embedding, ingest, fate>>

-----------------------------------------------------------------------------
\* The process dies: its tasks, requests and the registry are gone.
LibRestart ==
    /\ asymmetric' = FALSE
    /\ call' = [c \in Callers |-> IF c \in Query \ InFlight THEN call[c] ELSE "idle"]
    /\ ingest' = [d \in Upload |-> "none"]
    /\ fate' = [d \in Upload |-> IF ingest[d] = "none" THEN fate[d] ELSE "lost"]
    /\ copy' = [d \in Upload |-> NoCopy]
    /\ UNCHANGED <<refuses, met, table>>

LibRequests ==
    \/ \E q \in Query : Search(q)
    \/ \E d \in Upload : upload_document(d)
    \/ \E d \in Docs : delete_document(d)
    \/ \E d \in Upload, s \in Docs : clone_document(d, s)

LibWork ==
    \/ \E c \in Callers : Answered(c)
    \/ \E d \in Upload : process_file_content(d) \/ StoreChunks(d) \/ ProcessingFailed(d)
    \/ \E d \in Upload : CopyChunks(d) \/ CommitClone(d)

-----------------------------------------------------------------------------
Rows == [state : {"present"}, name : Sample \union {OtherName}, from : {"upload", "clone", "seed"},
         src : Docs \union {None}, marked : BOOLEAN]

CopyJobs == [at : {"row", "chunks"}, src : Docs, full : BOOLEAN, row : Rows]

\* The types; the chunks belong to documents that are there.
LibTypeOK ==
    /\ asymmetric \in BOOLEAN /\ refuses \in BOOLEAN
    /\ call \in [Callers -> {"idle", "typed", "untyped", "again", "ok", "refused", "down"}]
    /\ met \subseteq Callers
    /\ doc \in [Docs -> Rows \union {Unused, Deleted}]
    /\ chunks \subseteq Present
    /\ ingest \in [Upload -> {"none", "queued", "embedding"}]
    /\ fate \in [Upload -> {"none", "whole", "unread", "refused", "down",
                          "unstored", "orphan", "lost"}]
    /\ copy \in [Upload -> CopyJobs \union {NoCopy}]
    /\ bare \subseteq Docs

\* An embedding call fails for want of the input_type only if another call was
\* in flight with it: a lone first call learns from its refusal and succeeds.
RefusedOnlyMet == \A c \in Callers : call[c] = "refused" => c \in met

\* A document that no search can find is an upload, or a clone of a document
\* that itself once had no chunk or was deleted.  What setup seeds, and what is
\* cloned from it while it lasts, is searchable from its commit on.
ChunklessExplained ==
    \A d \in Present \ chunks :
       \/ doc[d].from = "upload"
       \/ doc[d].from = "clone" /\ doc[d].src \in bare

\* An upload's background task ends, and ends with the document searchable,
\* unless its file or the settings could not be read, the document was deleted,
\* the process died, the endpoint or the commit of the chunks failed, or the
\* model refused a call that met another.
UploadsSettle ==
    \A d \in Upload :
       ingest[d] = "queued" ~>
          \/ d \in chunks \/ d \notin Present
          \/ fate[d] \in {"unread", "down", "unstored", "lost"}
          \/ fate[d] = "refused" /\ d \in met
=============================================================================
