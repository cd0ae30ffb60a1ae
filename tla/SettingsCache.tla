--------------------------- MODULE SettingsCache ---------------------------
(***************************************************************************)
(* The operator's tunables (services/settings_service.py, with its routes  *)
(* in api/routes/settings.py): one row of the database, made with defaults *)
(* by the first to need it, and a copy of it in the process.               *)
(*                                                                         *)
(* A content of the row is named by the number of updates it has seen.     *)
(* Database calls are awaited: other requests run between a statement and  *)
(* the use of what it returned.                                            *)
(***************************************************************************)
EXTENDS Naturals

CONSTANTS
    Reader,     \* tasks that read settings, one read at a time
    Updater,    \* requests that change them, one change at a time
    MaxUpdates, \* bound on committed changes
    NoRow

ASSUME ReadersApart == Reader \intersect Updater = {}
ASSUME UpdatesBound == MaxUpdates \in Nat /\ NoRow \notin Nat

VARIABLES
    row,    \* the settings row
    cache,  \* _cache
    step,   \* where each task is
    seen,   \* what it last read
    behind, \* history: reads that were under way when a change committed
    late,   \* history: the copy was made by such a read
    missed, \* history: a change failed before it dropped the copy
    raced   \* history: tasks that found no row while another was making it

cacheVars == <<row, cache, step, seen, behind, late, missed, raced>>

Tasks == Reader \union Updater

CacheInit ==
    /\ row = NoRow /\ cache = NoRow
    /\ step = [t \in Tasks |-> "idle"]
    /\ seen = [t \in Tasks |-> NoRow]
    /\ behind = {} /\ raced = {} /\ late = FALSE /\ missed = FALSE

To(t, from, to) ==
    /\ step[t] = from
    /\ step' = [step EXCEPT ![t] = to]

Rest(t, from) ==
    /\ To(t, from, "idle")
    /\ seen' = [seen EXCEPT ![t] = NoRow]
    /\ behind' = behind \ {t}
    /\ raced' = raced \ {t}

\* Tasks that have found no row and go on to make it.
Making == {t \in Tasks : step[t] # "idle" /\ seen[t] = NoRow}

\* session.get of the singleton row.
Get(t, to) ==
    /\ To(t, "idle", to)
    /\ seen' = [seen EXCEPT ![t] = row]
    /\ raced' = IF row = NoRow /\ Making # {} THEN raced \union Making \union {t} ELSE raced
    /\ UNCHANGED <<row, cache, behind, late, missed>>

\* _load_tunables with nothing cached, and get_settings_row, which falls back
\* on it when there is no row; a cached copy is returned without a step.
_load_tunables(r) == cache = NoRow /\ Get(r, "got")

\* Mutation: the row is inserted whether or not one was found.
BlindInsert(r) ==
    /\ To(r, "got", IF row = NoRow THEN "made" ELSE "failed")
    /\ row' = IF row = NoRow THEN 0 ELSE row
    /\ UNCHANGED <<cache, seen, behind, late, missed, raced>>

\* The row is made with defaults, unless somebody just made it: the insert then
\* fails on the primary key, and the request with it.
MakeRow(r) ==
    /\ seen[r] = NoRow /\ row = NoRow
    /\ To(r, "got", "made")
    /\ row' = 0
    /\ UNCHANGED <<cache, seen, behind, late, missed, raced>>

\* session.refresh
Refresh(r) ==
    /\ To(r, "made", "got")
    /\ seen' = [seen EXCEPT ![r] = row]
    /\ UNCHANGED <<row, cache, behind, late, missed, raced>>

\* The cache is set from what was read, whatever happened since.
Fill(r) ==
    /\ seen[r] # NoRow
    /\ Rest(r, "got")
    /\ cache' = seen[r] /\ late' = (r \in behind) /\ missed' = FALSE
    /\ UNCHANGED row

\* update_tunables reads the row first; names it does not know end it here.
update_tunables(u) == row # MaxUpdates /\ Get(u, "read")

Reject(u) ==
    /\ Rest(u, "read")
    /\ UNCHANGED <<row, cache, late, missed>>

\* The change is committed, to a row of its own making if it found none.
CommitUpdate(u) ==
    /\ row = NoRow <=> seen[u] = NoRow
    /\ row # MaxUpdates
    /\ To(u, "read", "committed")
    /\ row' = IF row = NoRow THEN 1 ELSE row + 1
    /\ seen' = [seen EXCEPT ![u] = row']
    /\ behind' = behind \union {r \in Reader : step[r] # "idle"}
    /\ UNCHANGED <<cache, late, missed, raced>>

\* Mutation: the copy is kept.
KeepCache(u) == Rest(u, "committed") /\ UNCHANGED <<row, cache, late, missed>>

\* After the refresh, invalidate_cache drops the copy.
invalidate_cache(u) ==
    /\ Rest(u, "committed")
    /\ cache' = NoRow /\ late' = FALSE /\ missed' = FALSE
    /\ UNCHANGED row

\* The insert of a row somebody else has made meanwhile is refused.
InsertRefused(t) ==
    /\ seen[t] = NoRow /\ row # NoRow
    /\ step[t] \in {"got", "read"}
    /\ step' = [step EXCEPT ![t] = "failed"]
    /\ UNCHANGED <<row, cache, seen, behind, late, missed, raced>>

ReportFailure(t) ==
    /\ Rest(t, "failed")
    /\ UNCHANGED <<row, cache, late, missed>>

\* The database fails a call under way, and the request ends with it.  A commit
\* that is made and not answered is one of these; a change so cut off after its
\* commit, by that or by the refresh, never drops the copy.
DatabaseFails(t) ==
    /\ step[t] \in {"made", "read", "committed"} \/ (step[t] = "got" /\ seen[t] = NoRow)
    /\ Rest(t, step[t])
    /\ missed' = (missed \/ (step[t] = "committed" /\ cache # NoRow))
    /\ UNCHANGED <<row, cache, late>>

\* The process dies: only the row is left.
CacheRestart ==
    /\ cache' = NoRow
    /\ step' = [t \in Tasks |-> "idle"]
    /\ seen' = [t \in Tasks |-> NoRow]
    /\ behind' = {} /\ raced' = {} /\ late' = FALSE /\ missed' = FALSE
    /\ UNCHANGED row

CacheNext ==
    \/ \E r \in Reader : _load_tunables(r) \/ MakeRow(r) \/ Refresh(r) \/ Fill(r)
    \/ \E u \in Updater : update_tunables(u) \/ Reject(u) \/ CommitUpdate(u) \/ invalidate_cache(u)
    \/ \E t \in Tasks : InsertRefused(t) \/ ReportFailure(t) \/ DatabaseFails(t)
    \/ CacheRestart

CacheSpec == CacheInit /\ [][CacheNext]_cacheVars

-----------------------------------------------------------------------------
\* A copy that is not what the row says is an older one, and is there only
\* between a change's commit and the drop of the copy, because a read that began
\* before the change was stored after it, or because the request that made the
\* change failed between the two.  The last two stay until the next change.
StaleAccountedFor ==
    cache \notin {NoRow, row} =>
       /\ row # NoRow /\ cache < row
       /\ late \/ missed \/ \E u \in Updater : step[u] = "committed"

\* The insert of the settings row is refused only if another found no row at the
\* same time: alone, the first reader and the first change both make the row.
RefusedOnlyRaced == \A t \in Tasks : step[t] = "failed" => t \in raced
=============================================================================
