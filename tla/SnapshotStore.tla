--------------------------- MODULE SnapshotStore ---------------------------
(***************************************************************************)
(* The archive: the rows of the snapshots table, what a visit makes of its *)
(* response (store it, or only note that the URL was crawled), and the     *)
(* query that sends old roots to be crawled again (common/worker.go,       *)
(* db/db.go, db/db_queries.go).                                            *)
(*                                                                         *)
(* Time is in ticks of a day.  A transaction crosses at most one midnight: *)
(* the request context ends it after 120 s.  The clocks of the crawler and *)
(* of PostgreSQL are assumed to agree on the day.                          *)
(***************************************************************************)
EXTENDS Naturals, Sequences, FiniteSets

CONSTANTS
    URL,
    Root,          \* the gemini URLs that are the root of their host
    Gopher,        \* the gopher URLs
    HostOf,        \* the host of a URL
    Body,          \* the bodies of responses
    Empty,         \* the empty body
    ErrorText,     \* the bodies that a gopher client takes for an error message
    Null,          \* SQL's NULL
    Limit,         \* the number of roots that one history query returns, at most
    SkipDays,      \* config.SkipIfUpdatedDays: younger links are not followed, older roots crawled again
    MaxTime,       \* bound: the last day
    MaxRows        \* bound: the snapshots of a URL

ASSUME StoreAssumption ==
    /\ Root \subseteq URL /\ Gopher \subseteq URL /\ Root \cap Gopher = {}
    /\ Empty \in Body \ ErrorText /\ ErrorText \subseteq Body /\ Null \notin Body
    /\ Limit \in Nat
    /\ SkipDays \in Nat \ {0, 1}
    /\ MaxTime \in Nat /\ MaxRows \in Nat

Time == 0 .. MaxTime

VARIABLES
    now,      \* the day
    dryRun,   \* config.DryRun, of the process that runs now
    queue,    \* the URLs that have a row in urls
    picked,   \* what the history query returned and the scheduler has not inserted yet
    phase,    \* phase[u]: where the worker that has u is
    began,    \* began[u]: when its transaction began
    resp,     \* resp[u]: what its visit brought
    write,    \* write[u]: what its transaction wrote to snapshots
    snaps,    \* snaps[u]: the committed snapshots of u, the oldest first
    seen,     \* the last response whose commit wrote to snaps (history variable)
    attempt   \* the last_crawled that it left (history variable)

workVars  == <<phase, began, resp, write>>
seenVars  == <<snaps, seen, attempt>>
vars == <<now, dryRun, queue, picked, phase, began, resp, write, snaps, seen, attempt>>

-----------------------------------------------------------------------------
(***************************************************************************)
(* Responses.                                                              *)
(***************************************************************************)

Mime == {"text/gemini", "other", "none"}

\* The fields of a snapshot that its response determines; success is a code 20 to 29.
Response ==
    [gemtext : Body \cup {Null}, data : Body \cup {Null}, mime : Mime, error : BOOLEAN,
     success : BOOLEAN]

\* A header with the type text/gemini; nothing ties its code to a success.
Page(b, ok) == [gemtext |-> b, data |-> Null, mime |-> "text/gemini", error |-> FALSE, success |-> ok]
File(b)     == [gemtext |-> Null, data |-> b, mime |-> "other", error |-> FALSE, success |-> TRUE]
\* A code 3x, 4x, 5x, or no code at all, with whatever follows the header.  The client
\* does not count it as an error.
Status(b)   == [gemtext |-> Null, data |-> b, mime |-> "none", error |-> FALSE, success |-> FALSE]
\* text/gemini that is not UTF-8
Garbled     == [gemtext |-> Null, data |-> Null, mime |-> "text/gemini", error |-> TRUE, success |-> TRUE]
\* A network error, a response without a header line, the blacklist or robots.txt.
Unreachable == [gemtext |-> Null, data |-> Null, mime |-> "none", error |-> TRUE, success |-> FALSE]

\* gemini.Visit and UpdateSnapshotWithData
GeminiResponse ==
    {Page(b, ok) : b \in Body, ok \in BOOLEAN} \cup {File(b) : b \in Body} \cup {Status(b) : b \in Body}
    \cup {Garbled, Unreachable}

\* gopher.VisitWithContext: whether a text is an error message shows in the first character
\* of what was received.  The NULs in it are not stored, so the text of a response that
\* begins with one may look like an error message and not be an error.
GopherResponse ==
    {[gemtext |-> b, data |-> Null, mime |-> "none", error |-> FALSE, success |-> FALSE] : b \in Body}
    \cup {[gemtext |-> b, data |-> Null, mime |-> "none", error |-> TRUE, success |-> FALSE] :
        b \in ErrorText}
    \cup {[gemtext |-> Null, data |-> b, mime |-> "none", error |-> FALSE, success |-> FALSE] :
        b \in Body \ {Empty}}
    \cup {Unreachable}

Visit(u) == IF u \in Gopher THEN GopherResponse ELSE GeminiResponse

-----------------------------------------------------------------------------
(***************************************************************************)
(* The statements on the snapshots of one URL.                             *)
(***************************************************************************)

Snapshot ==
    [gemtext : Body \cup {Null}, data : Body \cup {Null}, mime : Mime, error : BOOLEAN,
     success : BOOLEAN, timestamp : Time, lastCrawled : Time]

\* Mutant of NewSnapshot: last_crawled is left at its zero value.
NewSnapshotUncrawled(r, t) ==
    [gemtext |-> r.gemtext, data |-> r.data, mime |-> r.mime, error |-> r.error,
     success |-> r.success, timestamp |-> t, lastCrawled |-> 0]

NewSnapshot(r, t) ==
    [gemtext |-> r.gemtext, data |-> r.data, mime |-> r.mime, error |-> r.error,
     success |-> r.success, timestamp |-> t, lastCrawled |-> t]

\* ORDER BY timestamp DESC LIMIT 1, for a URL that has snapshots: rows are appended with
\* the current time.
GetLatestSnapshot(rows) == rows[Len(rows)]

\* Mutant of SameBody: two fields that are NULL count as equal.
SameBodyOrNone(r, s) ==
    IF r.gemtext # Null /\ s.gemtext # Null THEN r.gemtext = s.gemtext ELSE r.data = s.data

SameBody(r, s) ==
    IF r.gemtext # Null /\ s.gemtext # Null
    THEN r.gemtext = s.gemtext
    ELSE r.data # Null /\ r.data = s.data

\* Mutant of IsContentIdentical: the order of the query is ascending.
IsContentIdenticalToOldest(r, rows) == rows # <<>> /\ SameBody(r, rows[1])

IsContentIdentical(r, rows) == rows # <<>> /\ SameBody(r, GetLatestSnapshot(rows))

\* Mutant of ShouldUpdateSnapshotData: every error is stored.
ShouldUpdateAlways(r, rows) == TRUE

\* At most one of consecutive errors is stored.
ShouldUpdateSnapshotData(r, rows) ==
    \/ ~r.error
    \/ rows = <<>>
    \/ ~GetLatestSnapshot(rows).error

\* Mutant of UpdateLastCrawled: it does what its comment says.
UpdateLastCrawledOfLatest(rows, t) ==
    [i \in 1 .. Len(rows) |-> IF i = Len(rows) THEN [rows[i] EXCEPT !.lastCrawled = t] ELSE rows[i]]

\* UPDATE snapshots SET last_crawled = t WHERE url = ...: every snapshot of the URL
UpdateLastCrawled(rows, t) ==
    [i \in 1 .. Len(rows) |-> [rows[i] EXCEPT !.lastCrawled = t]]

\* Mutant of SaveSnapshot: a new version replaces the last one.
SaveOverLatest(rows, s) == IF rows = <<>> THEN <<s>> ELSE [rows EXCEPT ![Len(rows)] = s]

\* A new version, whatever there is.
SaveSnapshot(rows, s) == Append(rows, s)

\* GetSnapshotAtTimestamp: how many rows are not younger than t; the last of these is it.
RowsUntil(rows, t) == Cardinality({i \in 1 .. Len(rows) : rows[i].timestamp <= t})

-----------------------------------------------------------------------------
(***************************************************************************)
(* The history query.                                                      *)
(***************************************************************************)

\* Mutant of Counted: the filter on errors is forgotten.
CountedWithErrors(s) == s.mime = "text/gemini"

\* The snapshots that latest_attempts looks at.
Counted(s) == s.mime = "text/gemini" /\ ~s.error

IsCounted(u) == \E i \in 1 .. Len(snaps[u]) : Counted(snaps[u][i])

HasContent(u) ==
    \E i \in 1 .. Len(snaps[u]) :
        LET s == snaps[u][i] IN (s.gemtext # Null \/ s.data # Null) /\ s.success

\* MAX(last_crawled) of the counted snapshots is before the cutoff.
BeforeCutoff(u) ==
    \A i \in 1 .. Len(snaps[u]) :
        Counted(snaps[u][i]) => snaps[u][i].lastCrawled + SkipDays < now

Eligible == {u \in Root : IsCounted(u) /\ HasContent(u) /\ BeforeCutoff(u)}

Smaller(m, n) == IF m < n THEN m ELSE n

\* One eligible root per host, Limit hosts at most.
HistoryChoice ==
    {S \in SUBSET Eligible :
        /\ \A u, v \in S : HostOf[u] = HostOf[v] => u = v
        /\ Cardinality(S) = Smaller(Limit, Cardinality({HostOf[u] : u \in Eligible}))}

\* haveWeVisitedURL, for a URL that is not in the queue
Recent(u) == \E i \in 1 .. Len(snaps[u]) : snaps[u][i].timestamp + SkipDays > now

-----------------------------------------------------------------------------
(***************************************************************************)
(* The actions.                                                            *)
(***************************************************************************)

\* What a transaction has written: nothing, a new snapshot, or last_crawled.
NoWrite == [kind |-> "none", at |-> 0]

Open(u) == phase[u] \in {"visiting", "written"}

TypeOK ==
    /\ now \in Time /\ dryRun \in BOOLEAN
    /\ queue \subseteq URL /\ picked \subseteq URL
    /\ phase \in [URL -> {"idle", "visiting", "written", "stuck"}]
    /\ began \in [URL -> Time]
    /\ resp \in [URL -> Response]
    /\ write \in [URL -> [kind : {"none", "save", "touch"}, at : Time]]
    /\ snaps \in [URL -> Seq(Snapshot)]
    /\ seen \in [URL -> Response]
    /\ attempt \in [URL -> Time]

\* An empty archive, and the seeds in the queue.
Init ==
    /\ now = 0 /\ dryRun \in BOOLEAN
    /\ queue \in SUBSET URL /\ picked = {}
    /\ phase = [u \in URL |-> "idle"]
    /\ began = [u \in URL |-> 0]
    /\ resp = [u \in URL |-> Unreachable]
    /\ write = [u \in URL |-> NoWrite]
    /\ snaps = [u \in URL |-> <<>>]
    /\ seen = [u \in URL |-> Unreachable]
    /\ attempt = [u \in URL |-> 0]

\* Another page links to u.
Link(u) ==
    /\ u \notin queue /\ ~Recent(u)
    /\ queue' = queue \cup {u}
    /\ UNCHANGED <<now, dryRun, picked, workVars, seenVars>>

\* The scheduler polls when every worker is done, but perhaps not all have committed.
FetchSnapshotsFromHistory ==
    /\ \A u \in URL : phase[u] # "visiting"
    /\ \A u \in queue : phase[u] # "idle"
    /\ picked = {} /\ Eligible # {}
    /\ picked' \in HistoryChoice
    /\ UNCHANGED <<now, dryRun, queue, workVars, seenVars>>

\* The INSERT waits for a transaction that is about to delete the row.
InsertHistory(u) ==
    /\ u \in picked /\ ~Open(u)
    /\ queue' = queue \cup {u}
    /\ picked' = picked \ {u}
    /\ UNCHANGED <<now, dryRun, workVars, seenVars>>

\* The scheduler claims the row of u and a worker begins its transaction.
Begin(u) ==
    /\ u \in queue /\ phase[u] = "idle" /\ picked = {}
    /\ phase' = [phase EXCEPT ![u] = "visiting"]
    /\ began' = [began EXCEPT ![u] = now]
    /\ UNCHANGED <<now, dryRun, queue, picked, resp, write, seenVars>>

\* What the transaction writes for response r; last_crawled is CURRENT_TIMESTAMP, the
\* start of the transaction, the timestamp of a snapshot is the clock of the crawler.
WriteFor(u, r) ==
    IF ~IsContentIdentical(r, snaps[u]) /\ ShouldUpdateSnapshotData(r, snaps[u])
    THEN IF dryRun THEN NoWrite ELSE [kind |-> "save", at |-> now]
    ELSE [kind |-> "touch", at |-> began[u]]

\* The visit, and WorkOnUrl from there to its end.
Work(u) ==
    /\ phase[u] = "visiting" /\ Len(snaps[u]) < MaxRows
    /\ \E r \in Visit(u) :
          /\ resp' = [resp EXCEPT ![u] = r]
          /\ write' = [write EXCEPT ![u] = WriteFor(u, r)]
    /\ phase' = [phase EXCEPT ![u] = "written"]
    /\ UNCHANGED <<now, dryRun, queue, picked, began, seenVars>>

RowsAfter(u) ==
    CASE write[u].kind = "save"  -> SaveSnapshot(snaps[u], NewSnapshot(resp[u], write[u].at))
      [] write[u].kind = "touch" -> UpdateLastCrawled(snaps[u], write[u].at)
      [] OTHER                   -> snaps[u]

\* The transaction is over, and what the worker had in its hands is gone.
Finish(u, p) ==
    /\ phase' = [phase EXCEPT ![u] = p]
    /\ began' = [began EXCEPT ![u] = 0]
    /\ resp' = [resp EXCEPT ![u] = Unreachable]
    /\ write' = [write EXCEPT ![u] = NoWrite]

\* The row leaves the queue with the write, in one transaction.
Commit(u) ==
    /\ phase[u] = "written"
    /\ snaps' = [snaps EXCEPT ![u] = RowsAfter(u)]
    /\ seen' = [seen EXCEPT ![u] = IF write[u].kind = "none" THEN @ ELSE resp[u]]
    /\ attempt' = [attempt EXCEPT ![u] = IF write[u].kind = "none" THEN @ ELSE write[u].at]
    /\ queue' = queue \ {u}
    /\ Finish(u, "idle")
    /\ UNCHANGED <<now, dryRun, picked>>

\* A statement or the commit fails, or the request runs out of time.
Abort(u) ==
    /\ Open(u)
    /\ Finish(u, "stuck")
    /\ UNCHANGED <<now, dryRun, queue, picked, seenVars>>

\* Shutdown unmarks the rows, and the crawler is started again, with or without -dry-run.
Restart ==
    /\ \A u \in URL : ~Open(u)
    /\ dryRun' \in BOOLEAN
    /\ phase' = [u \in URL |-> "idle"]
    /\ picked' = {}
    /\ UNCHANGED <<now, queue, began, resp, write, seenVars>>

Tick ==
    /\ now < MaxTime
    /\ \A u \in URL : Open(u) => began[u] = now
    /\ now' = now + 1
    /\ UNCHANGED <<dryRun, queue, picked, workVars, seenVars>>

Next ==
    \/ \E u \in URL : Link(u) \/ InsertHistory(u) \/ Begin(u) \/ Work(u) \/ Commit(u) \/ Abort(u)
    \/ FetchSnapshotsFromHistory \/ Restart \/ Tick

Spec == Init /\ [][Next]_vars

-----------------------------------------------------------------------------
(***************************************************************************)
(* What the archive promises.                                              *)
(***************************************************************************)

Rows(u) == 1 .. Len(snaps[u])

\* The snapshots of a URL are in the order of their timestamps, none is crawled for the
\* last time before it was taken, and none after the transaction that is open began.
InOrder ==
    \A u \in URL : \A i \in Rows(u) :
        /\ snaps[u][i].timestamp <= snaps[u][i].lastCrawled
        /\ snaps[u][i].lastCrawled <= (IF Open(u) THEN began[u] ELSE now)
        /\ \A j \in Rows(u) : i <= j => snaps[u][i].timestamp <= snaps[u][j].timestamp

Shows(s, r) ==
    /\ s.gemtext = r.gemtext /\ s.data = r.data
    /\ s.mime = r.mime /\ s.error = r.error /\ s.success = r.success

\* Each snapshot, and the last response, is one that the client of its protocol makes.
FromVisits ==
    \A u \in URL :
        /\ \A i \in Rows(u) : \E r \in Visit(u) : Shows(snaps[u][i], r)
        /\ seen[u] \in Visit(u) /\ resp[u] \in Visit(u)

\* What an open transaction has written still fits the snapshots that it looked at.
WritesFit ==
    \A u \in URL :
        /\ Open(u) => began[u] <= now /\ now <= began[u] + 1
        /\ phase[u] # "written" => write[u] = NoWrite
        /\ write[u].kind = "save" =>
              /\ began[u] <= write[u].at /\ write[u].at <= now
              /\ ~IsContentIdentical(resp[u], snaps[u])
              /\ ShouldUpdateSnapshotData(resp[u], snaps[u])
        /\ write[u].kind = "touch" =>
              /\ write[u].at = began[u]
              /\ \/ IsContentIdentical(resp[u], snaps[u])
                 \/ ~ShouldUpdateSnapshotData(resp[u], snaps[u])

\* The last attempt is the last_crawled of the latest snapshot, and of every other one, too,
\* unless it has stored the latest.
AttemptsNoted ==
    \A u \in URL : \A i \in Rows(u) :
        LET latest == GetLatestSnapshot(snaps[u]) IN
        /\ snaps[u][i].lastCrawled <= attempt[u] /\ latest.lastCrawled = attempt[u]
        /\ snaps[u][i].lastCrawled = attempt[u] \/ latest.timestamp = attempt[u]

\* The inductive invariant behind what the archive promises.
ArchiveInv == TypeOK /\ InOrder /\ FromVisits /\ WritesFit /\ AttemptsNoted

\* "This means that we can have a max of one consecutive snapshot with an error."
OneErrorInARow ==
    \A u \in URL : \A i \in Rows(u) :
        i + 1 \in Rows(u) => ~(snaps[u][i].error /\ snaps[u][i + 1].error)

\* Two versions that follow each other are never the same page or the same file.
NoRepeatedVersion ==
    \A u \in URL : \A i \in Rows(u) :
        i + 1 \in Rows(u) => ~SameBody(snaps[u][i + 1], snaps[u][i])

\* The latest snapshot has the body of the last visit that left a trace in the archive (a
\* snapshot or a last_crawled; one that was rolled back leaves none, and a new version that
\* -dry-run finds leaves none), or both are errors.  Of a gemini URL both are errors or none
\* is.  (The other fields are those of the first of the visits that brought this body: the
\* MIME type, the language, the header and the response code may be another one by now.)
LatestIsCurrent ==
    \A u \in URL : snaps[u] # <<>> =>
        LET latest == GetLatestSnapshot(snaps[u]) IN
        /\ \/ latest.gemtext = seen[u].gemtext /\ latest.data = seen[u].data
           \/ latest.error /\ seen[u].error
        /\ u \notin Gopher => latest.error = seen[u].error

\* A root with a page, and with a response that was a success, is found by the history
\* query when its last crawl is before the cutoff, and a root that is found although it was
\* crawled since then owes that to a snapshot that the query does not count, which was
\* stored by the last visit and not only confirmed by it.
RecrawledWhenDue ==
    \A u \in Root :
        /\ IsCounted(u) /\ HasContent(u) /\ attempt[u] + SkipDays < now => u \in Eligible
        /\ u \in Eligible /\ attempt[u] + SkipDays >= now =>
              LET latest == GetLatestSnapshot(snaps[u]) IN
              ~Counted(latest) /\ latest.timestamp = attempt[u]

\* What GetSnapshotAtTimestamp answers for a day before every open transaction never
\* changes, but for last_crawled.
PastIsStable ==
    [][\A u \in URL, t \in Time :
         t < now /\ (Open(u) => t < began[u]) =>
            /\ RowsUntil(snaps[u]', t) = RowsUntil(snaps[u], t)
            /\ \A i \in Rows(u) :
                  /\ i \in 1 .. Len(snaps[u]')
                  /\ snaps[u]'[i] = [snaps[u][i] EXCEPT !.lastCrawled = snaps[u]'[i].lastCrawled]
      ]_vars

-----------------------------------------------------------------------------
(***************************************************************************)
(* What the code says and does not do.                                     *)
(***************************************************************************)

\* "Find URLs where the LATEST crawl attempt (via last_crawled) is at least <age> days
\* old"
RecrawlsOnlyOldAttempts ==
    [][FetchSnapshotsFromHistory => \A u \in picked' : attempt[u] + SkipDays <= now]_vars
=============================================================================
