------------------------------ MODULE Database ------------------------------
(***************************************************************************)
(* The two PostgreSQL tables of the crawler, urls (the crawl queue) and    *)
(* snapshots (the archive), and the transactions that the workers and the  *)
(* scheduler run on them (db/db.go, db/db_queries.go).                     *)
(*                                                                         *)
(* PostgreSQL itself is external.  What the code relies on is modelled:    *)
(* READ COMMITTED isolation; a statement that deletes or updates a row     *)
(* waits for the transaction that has an uncommitted delete of it; and the *)
(* unique index on urls.url makes an insert wait for an uncommitted insert *)
(* or delete of the same row.                                              *)
(***************************************************************************)
EXTENDS Naturals, FiniteSets

CONSTANTS
    URL,        \* the URLs of the instance, in the normalised form stored in urls.url
    Worker,     \* the worker goroutines; each runs at most one transaction
    Scheduler,  \* the job scheduler goroutine
    DryRun      \* config.DryRun: snapshots are logged, not stored

ASSUME DatabaseAssumption ==
    /\ IsFiniteSet(URL)
    /\ Scheduler \notin Worker
    /\ DryRun \in BOOLEAN

Tx == Worker \cup {Scheduler}

VARIABLES
    urls,    \* committed rows of urls: no row, a row to crawl, a row with being_processed
    recent,  \* URLs with a committed snapshot whose timestamp is after the skip cutoff
    hist,    \* age of last_crawled over the snapshots that the history query counts
    ins,     \* ins[t]: rows of urls that transaction t has inserted and not committed
    del,     \* del[t]: committed rows of urls that t has deleted and not committed
    wrote    \* wrote[t]: what t has written to snapshots and not committed

tables == <<urls, recent, hist>>
dbVars == <<urls, recent, hist, ins, del, wrote>>

RowState == {"absent", "pending", "processing"}

\* "never": the URL has no snapshot; "uncounted": only snapshots that the history
\* query leaves out (an error, another MIME type); "fresh" and "old": last_crawled of
\* the counted ones is after, or before, the cutoff of the history query.
HistState == {"never", "uncounted", "fresh", "old"}

\* A text/gemini success, any other snapshot, or a refreshed last_crawled.
WriteKind == {"gemtext", "other", "touch"}

DbTypeOK ==
    /\ urls \in [URL -> RowState]
    /\ recent \subseteq URL
    /\ hist \in [URL -> HistState]
    /\ ins \in [Tx -> SUBSET URL]
    /\ del \in [Tx -> SUBSET URL]
    /\ wrote \in [Tx -> SUBSET (URL \X WriteKind)]

\* The tables as an earlier run of the crawler may have left them: rows may be stuck
\* in being_processed, and a URL that has a recent snapshot has one.
DbInit ==
    /\ urls \in [URL -> RowState]
    /\ hist \in [URL -> HistState]
    /\ recent \in SUBSET {u \in URL : hist[u] # "never"}
    /\ ins = [t \in Tx |-> {}]
    /\ del = [t \in Tx |-> {}]
    /\ wrote = [t \in Tx |-> {}]

-----------------------------------------------------------------------------
(***************************************************************************)
(* What a statement of transaction t sees, and when it has to wait.        *)
(***************************************************************************)

\* A SELECT of t finds a row for u.
Sees(t, u) == (urls[u] # "absent" /\ u \notin del[t]) \/ u \in ins[t]

\* A SELECT of t finds a row for u that is not being processed.
SeesPending(t, u) == (urls[u] = "pending" /\ u \notin del[t]) \/ u \in ins[t]

\* No other transaction has an uncommitted delete of row u.  An uncommitted insert of
\* another transaction is invisible to UPDATE and DELETE ...
RowFree(t, u) == \A o \in Tx \ {t} : u \notin del[o]

\* ... but not to the unique index.
LockFree(t, u) == \A o \in Tx \ {t} : u \notin ins[o] \cup del[o]

-----------------------------------------------------------------------------
(***************************************************************************)
(* The statements.                                                         *)
(***************************************************************************)

\* Mutant of InsertURL: a row of an open transaction counts as a conflict.
InsertURLNoWait(t, u) ==
    ins' = IF Sees(t, u) \/ ~LockFree(t, u) THEN ins ELSE [ins EXCEPT ![t] = @ \cup {u}]

\* INSERT ... ON CONFLICT (url) DO NOTHING
InsertURL(t, u) ==
    /\ LockFree(t, u)
    /\ ins' = IF Sees(t, u) THEN ins ELSE [ins EXCEPT ![t] = @ \cup {u}]

\* DELETE FROM urls WHERE url = u
DeleteURL(t, u) ==
    /\ RowFree(t, u)
    /\ ins' = [ins EXCEPT ![t] = @ \ {u}]
    /\ del' = [del EXCEPT ![t] = IF urls[u] = "absent" THEN @ ELSE @ \cup {u}]

SaveSnapshot(t, u, kind) ==
    wrote' = IF DryRun THEN wrote ELSE [wrote EXCEPT ![t] = @ \cup {<<u, kind>>}]

\* UPDATE snapshots SET last_crawled = CURRENT_TIMESTAMP WHERE url = u
UpdateLastCrawled(t, u) == wrote' = [wrote EXCEPT ![t] = @ \cup {<<u, "touch">>}]

\* A touch sets last_crawled on every row of the URL, an error adds a row that the
\* history query does not count.
HistAfter(t, u) ==
    IF \/ <<u, "gemtext">> \in wrote[t]
       \/ <<u, "touch">> \in wrote[t] /\ hist[u] \in {"fresh", "old"}
    THEN "fresh"
    ELSE IF <<u, "other">> \in wrote[t] /\ hist[u] = "never" THEN "uncounted" ELSE hist[u]

\* The transaction forgets what it did: at commit, and at rollback.
Forget(t) ==
    /\ ins' = [ins EXCEPT ![t] = {}]
    /\ del' = [del EXCEPT ![t] = {}]
    /\ wrote' = [wrote EXCEPT ![t] = {}]

\* Mutant of MarkAndCommit: the rows are marked before the new ones are inserted.
MarkThenInsertAndCommit(t, marked) ==
    /\ urls' = [u \in URL |-> IF u \in ins[t] THEN "pending"
                               ELSE IF u \in marked /\ Sees(t, u) THEN "processing"
                               ELSE IF u \in del[t] THEN "absent" ELSE urls[u]]
    /\ recent' = recent \cup {u \in URL : {<<u, "gemtext">>, <<u, "other">>} \cap wrote[t] # {}}
    /\ hist' = [u \in URL |-> HistAfter(t, u)]
    /\ Forget(t)

\* UPDATE urls SET being_processed = true WHERE url IN marked, then COMMIT.
MarkAndCommit(t, marked) ==
    /\ \A u \in marked : RowFree(t, u)
    /\ urls' = [u \in URL |-> IF u \in marked /\ Sees(t, u) THEN "processing"
                               ELSE IF u \in ins[t] THEN "pending"
                               ELSE IF u \in del[t] THEN "absent" ELSE urls[u]]
    /\ recent' = recent \cup {u \in URL : {<<u, "gemtext">>, <<u, "other">>} \cap wrote[t] # {}}
    /\ hist' = [u \in URL |-> HistAfter(t, u)]
    /\ Forget(t)

Commit(t) == MarkAndCommit(t, {})

\* Mutant of Discard: the inserts were committed one by one.
DiscardKeepingInserts(t) ==
    /\ urls' = [u \in URL |-> IF u \in ins[t] THEN "pending" ELSE urls[u]]
    /\ UNCHANGED <<recent, hist>>
    /\ Forget(t)

\* UPDATE urls SET being_processed = false, a transaction of its own: it waits for every
\* uncommitted delete, and does not see uncommitted inserts.
UnmarkAll ==
    /\ \A t \in Tx : del[t] = {}
    /\ urls' = [u \in URL |-> IF urls[u] = "processing" THEN "pending" ELSE urls[u]]
    /\ UNCHANGED <<recent, hist, ins, del, wrote>>

\* ROLLBACK, also when PostgreSQL or database/sql aborts the transaction.
Discard(t) == Forget(t) /\ UNCHANGED tables

-----------------------------------------------------------------------------
(***************************************************************************)
(* Time passes: a snapshot crosses the cutoff of haveWeVisitedURL          *)
(* (timestamp), or of the history query (last_crawled).                    *)
(***************************************************************************)
AgeSnapshot(u) ==
    /\ u \in recent
    /\ recent' = recent \ {u}
    /\ UNCHANGED <<urls, hist, ins, del, wrote>>

AgeHistory(u) ==
    /\ hist[u] = "fresh"
    /\ hist' = [hist EXCEPT ![u] = "old"]
    /\ UNCHANGED <<urls, recent, ins, del, wrote>>
=============================================================================
