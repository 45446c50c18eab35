# A verification project for gemini-grc

gemini-grc crawls the Gemini (and Gopher) network into a PostgreSQL archive. This
directory holds TLA+ modules that model its crawl loop, its archive of snapshots, the way
a URL takes through it, its robots.txt cache and the life of its process, configurations that
check them with TLC on small instances, and theorems about them, for instances of every size,
that TLAPS checks.

## The system

| Part | State | Operations | Interacts with |
|---|---|---|---|
| job scheduler, `cmd/crawler/crawler.go` | transaction, hosts, batch | poll, recrawl from history, select and mark, send, wait | database, job channel, WaitGroup, fatal channel |
| workers, `common/worker.go` | job, transaction, snapshot | parse, refuse, visit, store links, save, commit or roll back | all the others |
| database, `db/` | tables `urls` (queue) and `snapshots` (archive), connection pool | insert, delete, mark, save, touch, select, reset | PostgreSQL |
| host pool, `hostPool/` | map of host names under a mutex | add (polls), remove | workers |
| robots.txt cache, `robotsMatch/` | `sync.Map` host -> disallowed URLs | load, download and store | workers, gemini client |
| process, `cmd/crawler/crawler.go` | signals and fatal channels | start, select once, shut down | scheduler, workers, database |
| gemini and gopher clients | none | visit | workers |
| URL normalisation, link extraction, robots.txt parsing | none | pure functions, applied to their own results | workers, clients, database |
| lists, configuration, logging | read once | match | workers |

What is hard in it: a worker calls `WorkerWG.Done` *before* it commits, so that rounds
overlap; links are looked up and inserted in two statements while other workers delete
the same rows; PostgreSQL makes an insert wait for the transaction that deletes the row,
and breaks cycles of waits; the deadline of 120 s may pass at any step, and database/sql
then rolls back under the worker; `being_processed` outlives a crash; fatal errors go
through an unbuffered channel that is read once; several goroutines share a bounded
pool of connections; Shutdown takes the marks off all rows while the goroutines go on;
whether a visit is stored depends on the last one that was; and the
text of a URL is parsed and printed anew at every hop, with a fragment that loses one
level of encoding each time. The hazards are listed, each at its line, in `PROJECT.json`.

What makes each part correct:

* scheduler and workers: a URL is with one worker at a time and marked while it is;
  the WaitGroup counts exactly what is outstanding; a round ends; a fatal error stops
  the application.
* database: a row leaves the queue only together with a record in the archive; a page is
  recorded only together with its links; what is rolled back leaves nothing.
* host pool: one visit per host, nothing left behind on any return path.
* robots.txt cache: no disallowed URL gets past it, whoever fills it.
* process: no connection is lost but the known ones, a shutdown ends and unmarks, a start
  that fails adds nothing to the queue, and the shutdown after it only takes marks away.
* archive: the latest snapshot has the body that the last visit found, there are no repeated
  versions and no two errors in a row, answers about the past never change, and a root is
  crawled again when it is due.
* URLs: one page has one text in rows, requests and snapshots; a row leaves the queue with
  its visit; what robots.txt disallows is not requested; a redirect is followed.

## The modules

| Module | Models |
|---|---|
| `Database` | the two tables, one operator per statement of `db.go`, and the transactions: READ COMMITTED and the unique index on `urls.url` |
| `HostPool` | `hostPool.go` |
| `Crawler` | extends both: the scheduler, the channel, the WaitGroup, the workers, main |
| `CrawlerInvariant` | its two inductive invariants: `IInv`, about claims, and `TxInv`, about what open transactions hold |
| `CrawlerProofs`, `CrawlerTxProofs` | the proofs of the two and of what follows from them |
| `Frontier` | what the crawl loop promises for each URL: none, queued, leased, stuck |
| `CrawlerRefinement`, `CrawlerRefinementProofs` | the refinement mapping from `Crawler` to `Frontier`, and the proof that it is one |
| `RobotsMatch`, `RobotsMatchProofs` | `robotsMatch.go` by several workers, with the host pool |
| `Lifecycle`, `LifecycleProofs` | process, connection pool, start with its seed file, shutdown, crash and restart |
| `SnapshotStore`, `SnapshotStoreProofs` | the rows of `snapshots`, the decision of a visit to store or to touch, the history query |
| `SnapshotRefinement`, `SnapshotRefinementProofs` | the mapping from `SnapshotStore` to what `Database` keeps of the archive, and its proof |
| `UrlText`, `UrlTextProofs` | `url.go`, and the hops at which the crawler parses and prints a URL |
| `MCCrawler`, `MCRobotsMatch`, `MCLifecycle`, `MCSnapshotStore`, `MCUrlText` | the instances for TLC |

`Crawler` is the composition: it extends `Database` and `HostPool` and takes from the other
parts only what it depends on. What it assumes of the archive is `Database`, and
`SnapshotRefinement` shows that `SnapshotStore` implements it; what it promises of the queue
is `Frontier`, which `CrawlerRefinement` shows that it implements.

### State and actions

In `Crawler` a control state of the scheduler (`sched`) or of a worker (`pc[w]`) stands
between two statements that another goroutine can see; everything from one to the next
is one action. `runJobScheduler` is `Poll`, `FetchSnapshotsFromHistory`,
`InsertHistory`, `RequeryHosts`, `GetRandomUrlsFromHosts`, `CommitBatch`, `Send`, `Wait`
and `SchedulerFails`. `RunWorkerWithTx` and `WorkOnUrl` are `Receive`, `ReturnEarly`,
`RejectScheme`, `Refuse`, `Admit`, `Acquire`, `VisitGemini`, `VisitGopher`,
`VisitRedirect`, `VisitBadRedirect`, `CheckLink` and `InsertLink` (one turn of
`storeLinks`), `RejectLink`, `LinksStored`, `Identical`, `Different`, `Save`, `Release`
(the deferred removal of the host), `Done`, and then `CommitTx`, `CommitFails` or
`RollbackTx`. `DbFails`, `TimesOut`, `TimesOutLate` and `DeadlockVictim` are what the
environment does to a worker. `main` is `ReceiveFatalOf`, `ReceiveFatalOfScheduler`,
`ReceiveSignal`, and then `ResetMarks`, the UPDATE of `Database.Shutdown` that takes the marks
off all rows (`UnmarkAll`). Scheduler and workers go on after it, as in the code, where nobody
stops them: rows of running jobs are pending, and one whose worker is past Done may be handed
out again before the commit that removes it. The properties about marks and about results
therefore hold until the reset (`ClaimedRowsMarked`), or say what is left after it
(`NoDoubleClaim`: no two workers before Done have the same URL). The UPDATE waits for
uncommitted deletes and is then one step; PostgreSQL may unmark some of the rows earlier, and a
row that is marked while it waits may keep its mark. `Lifecycle` has the end of the process.

`Frontier` says the same without transactions: `Unstick` is the reset, and `Drain` the end, in
whatever way, of a lease after it.

`urls` is the committed table; `ins`, `del` and `wrote` are what each open transaction
has done. `recent` and `hist` keep of the archive what the queue depends on: whether a
snapshot is after the cutoff of `haveWeVisitedURL` (by `timestamp`), and how old
`last_crawled` is for the history query. `hist` tells "fresh" from "old" for the sake of
the roots of gemini hosts; of other URLs only "never" matters.

In `SnapshotStore` a URL is "visiting" from the start of its transaction, then "written" when
`WorkOnUrl` has decided what to do (`WriteFor`: insert a snapshot, touch `last_crawled`, or,
in a dry run, nothing), until `Commit` or `Abort`. `snaps[u]` are the committed rows, oldest
first; `seen` and `attempt` are history variables: the response and the day that the last
commit stood for. A response is what `UpdateSnapshotWithData` or `VisitWithContext` makes of
it: text, data, type, error, and whether the code was a success.

In `UrlText` a behaviour follows one URL: `Start` (seed file), or `CheckLink` and `InsertLink`
(page, menu; the lookup and the INSERT of `storeLinks`, between which the visit of the URL may be
committed), puts its row into `urls`, `Claim` gives it to a worker, and `Visit`, `Refuse`, `Fail` or `ScanFails`
is the rest of `WorkOnUrl`. A path is a sequence of segments, one of each kind that `net/url`
and `path.Clean` tell apart (empty, `.`, `..`, plain, with a blank, with a character that may be
escaped, the same escaped, an escaped slash, escaped dots). A fragment is a character, a percent
sign or another one, and the number of times that it is percent-encoded. A `Selector` is what a
menu writes: it may have blanks around it, begin with a slash or not, be empty, and hold a `#` or
a `?`; `MenuLink` is the URL that `getGopherPageLinks` makes of it. The history variable
`overtaken` says that a visit has been committed since the lookup.

In `Lifecycle` main goes through "connect", "file" and "adding" (`initializeApp`,
`AddURLsFromFile`), "select" (`runApp`), "reset" and "close" (`Database.Shutdown`).

### Abstractions

* URLs are model values. All are in the normalised form, except those in `Unparseable`,
  which stand for rows and links that `ParseURL` rejects. Pages are sets of links, so the
  order of links is arbitrary.
* Jobs in the channel are a set: they are different, and their order is not used.
* `CommitBatch` is the UPDATE that marks, the COMMIT and `WorkerWG.Add`: nobody sees the
  first before the second, and nobody calls Done before the third. The two SELECTs of
  `haveWeVisitedURL` are one step.
* A deadline that passes aborts the transaction at once. That database/sql may be a little
  slower only adds the outcomes of `TimesOutLate` and of failing statements.
* A snapshot may age at any time (`Ageing`), and the same content may come back at any
  visit of a URL that has a snapshot.
* The verdict of robots.txt is a set of URLs in `Crawler`, where any URL may also be
  admitted (an unreachable robots.txt is an empty one); `RobotsMatch` has the cache itself.
* Days are the unit of time in `SnapshotStore`. A transaction crosses at most one midnight,
  because its context ends it after 120 s; `SkipDays` is therefore at least 2 (a limit of one day
  would make a day and a transaction equally long).
* Two types of response are enough there, text/gemini and any other; the header and the
  language are stored and never looked at. A text/gemini page whose code is not one of success
  is a response like any other; for `Crawler`, which has only pages and other responses, it is a
  page, so that there a history query may return a root that the real one, which asks for one
  success, does not.
* `UrlText` leaves out scheme, host and the case of letters, which the first parse settles, and
  bounds the growth of a path by relative redirects (`Len(job.path) <= MaxSegments + 1`): such a
  redirect to itself goes on for ever in the code. One link at a time is between its lookup and
  its INSERT. The target of a redirect is looked up and inserted within `Visit`. A menu item of
  type `h` with a whole URL is a link like that of a page, and left out.
* The clocks of the crawler and of PostgreSQL agree on the day (`SnapshotStore`).
* `RobotsMatch` takes the key of the cache, host and port, for the key of the host pool, too,
  which is the name of the host; the pool is stricter in the code, and no property depends on it.
* In `Lifecycle` the connection of a transaction that the deadline has ended comes back together
  with the return of its worker; the driver may be a moment later.
* `Lifecycle` keeps of a round and of a worker only which rows they hold and which
  connections: what happens between `NewTx` and the end of a transaction is `Crawler`'s.

## The runs

Instances of `Crawler` have two workers and three to five URLs on two hosts (a1, a2 on A;
b1, b2, b3 on B). Two workers are enough for every race between two transactions and for a
cycle of waits (`rounds` and `faults` take them as symmetric); two URLs on one host make workers
compete for the host; with a third row there are more jobs than workers and the channel fills
up. The scheduler takes up to `NumOfWorkers` rows of each host, as the code does. A link or a
redirect leads to a URL that may be new, queued, marked, leased, or deleted in an open
transaction. No counter needs a bound: the WaitGroup is bounded by the number of URLs, the
connections by the pool.

| Run | Instance | Question |
|---|---|---|
| `rounds` | three rows, nothing fails, and a signal may come at any time; a page of any URL may link or redirect to a2; a1 is due for a recrawl, and ages again | Are claims exclusive and marked, is a host visited by one worker at a time, is there a barrier between rounds? Does `Crawler` implement `Frontier` with leases that always end in a result, until the reset of Shutdown? |
| `faults` | five URLs: one on both lists, one that robots.txt disallows, a redirect target that does not parse, and, while gopher is off, a gopher row that an earlier run left and a gopher link; failing statements, deadlines, and the reset of Shutdown after a fatal error | Do the inductive invariants (`IInv`, and `TxInv` about open transactions) and the WaitGroup survive failures? Is a row removed only with a record? Are other schemes left alone? Does `Crawler` implement `Frontier` with leases that may be abandoned, also when the marks are reset under its jobs? |
| `live` | -gopher, every page links to both a2 and b2, a row of a scheme that cannot be crawled, transactions that cannot be opened; the first round has more jobs than the channel holds | Are links kept when transactions wait for each other and deadlock? Do rounds end, do fatal errors stop the application? |
| `robots` | two hosts, one with a rule; two workers; every kind of answer | Is the cache sound while two workers fill it, and does each entry become final? |
| `lifecycle` | three connections, two rows, two workers, seed files, failures, crashes, restarts | Where are the connections, what do a failed start and its shutdown do to the queue, what does a shutdown leave marked, does it end? |
| `archive` | a root and a gopher menu, three bodies (empty, a text, an error text), six days, three snapshots | Does the archive show the bodies that visits found, without repetitions, and is a root due when it should be? Does it implement `Database`? |
| `text` | every path of up to two segments of ten kinds, selectors as menus write them, queries, ports, fragments encoded up to five times, redirects, rules | Does a URL keep its identity on its way, and what becomes of those that do not? |

A property that is checked in `faults` or `live` only is one that needs the faults or the common
links of that run to be in danger. In `archive` one URL is crawled at a time (`OneAtATime`): two
archives have only the clock and the history query in common. Three rows give a snapshot a
predecessor and a successor; six days with a limit of two let a snapshot be fresh, at the limit
and old twice over. In `text` two segments suffice for a segment to remove, or be removed by, its
neighbour, and five encodings are one more than the deepest fate of a fragment.

Deadlock checking is off where the system really stops: once main has left its select, every
goroutine with a fatal error blocks (`faults`, `live`, `lifecycle_hangs`), and a round with a job
that got no Done never ends (`faults`, `stall`). In `archive`, `recrawl_error`, `text` and
`query_lost` it is off because behaviours end at the bounds: the last day, the last snapshot, a
URL that is in the archive and is not linked to again.

Five runs show where the code does not do what it, or a document, says; the findings in
`PROJECT.json` quote both sides:

* `stall`: a row whose URL does not parse stops the crawl (no `WorkerWG.Done`).
* `robots_timeout`: a timeout is cached after all.
* `recrawl_error`: a root whose last visit stored an error is crawled again at once, because
  the history query leaves that snapshot out.
* `query_lost`: a gemini request on the default port goes out without its query.
* `lifecycle_hangs`: empty polls leak connections until Shutdown waits for one for ever.

### Other things the models show

These follow from what the actions do and need no run of their own:

* A URL that has just been crawled can enter the queue again: through a link whose INSERT waited
  for the commit of the worker that crawled it (`CheckLink`, `InsertLink`; `NotQueuedAgain` says
  that without such a wait it does not), or through the history
  query when it runs between Done and Commit (`HistoryChoice`). `src/ARCHITECTURE.md:142` says that
  it will not.
* A redirect without a usable target is neither stored nor fatal: the row stays marked
  (`VisitBadRedirect`).
* robots.txt is downloaded outside the host pool (`Fetch`, before `Acquire`); and `-gopher`
  switches robots.txt off for gemini hosts, too (`MatchDisabled`; `DisallowedNotVisited` is about
  runs without it).
* "Empty path becomes /" (`src/common/url/url.go:143`) is not done: the root of a host has two
  texts, and `Disallow: /` does not cover the one without the slash (`DisallowedNotRequested`).
* A path may need two parses to reach its last form (`/a%2F/.`); links get them, seeds get one
  (`OnePath`, `RowLeavesWithVisit`).
* A percent sign in a fragment loses the page with the link, blocks the scheduler, leaves the row
  marked, or stops the crawler at the second visit, if it is encoded once, as often as there are
  hops to the row, once more, or twice more (`FragmentFates`).
* The target of a redirect loses its trailing slash, and a relative target hangs below the page
  (`RedirectFollowed`).
* The type of a gopher item that is neither a letter nor a digit (`+`, `;`, `:`) is sent as part of
  the selector; a selector loses the blanks around it, gets a slash when it does not begin with
  one or is empty, and is cut at a question mark or a `#` (`SelectorIsSent`).
* Rules of robots.txt with a blank, an escape or dots match nothing that the crawler asks for
  (`DisallowedNotRequested`).
* As long as the body does not change the archive keeps the response code, the header, the MIME
  type and the language of the first visit that brought it (`LatestIsCurrent`, which is about the
  body and about errors only).
* After the reset of Shutdown a row may be selected while the worker that has crawled it has not
  committed yet (`NoDoubleClaim`).
* An error of the robots.txt download stores the empty list twice, and the second Store may undo
  the one of a worker that found rules in between (`StoreAgain`).

### Fairness

`Fairness` in `Crawler` and in `Lifecycle` says that a goroutine that can take a step takes
one: the Go scheduler and PostgreSQL guarantee it, and a worker that polls for a host tries
again every 500 ms. The fairness of a worker is that of all its actions together, so that it
never promises one outcome of a visit. Failures, signals, deadlines and the passing of time
are under no fairness. In `live` there are no deadlines at all: a round ends without their
help, although workers wait for hosts and for each other's rows. `SF_vars(Reset)` is for Shutdown's UPDATE: when a
connection comes back, database/sql hands it to one of the waiting goroutines, chosen
without preference, so that a goroutine that waits while connections come back again and
again gets one.

## The proofs

`CrawlerProofs` proves `Spec => []IInv` for any finite sets of URLs and workers, any hosts,
links, lists and faults (`DatabaseAssumption`, `CrawlerAssumption`), and from it `TypeOK`,
`NoDoubleClaim`, `ClaimedRowsMarked`, `WaitGroupExact`, `HostPoolExact` and `RoundBarrier`.

Why a strengthening is needed: that a commit does not touch a row that somebody else has
claimed depends on what open transactions can contain. A row a transaction has inserted is
absent from the table and in no other transaction (`InsertsAreNew`, from the wait in
`InsertURL`), so a commit never turns a marked row into a pending one. A transaction deletes
the row of its own job only, at its end (`DeletesAreOwn`), so a commit never removes somebody
else's row. The rows that the scheduler has selected are still pending when it marks them
(`BatchStillPending`), although workers of the last round commit in between. Jobs that got no
Done stay unclaimed, and marked until the reset (`LostStayMarked`), and there are none outside a round
(`QuietBetweenRounds`): that is where `RoundBarrier` comes from, and with it the proof that
nobody inserts or marks while the scheduler's transaction is open. There is one lemma for each
kind of step (a step that leaves the tables alone, one that inserts, one that deletes, one that
ends a transaction, the scheduler's, main's, the reset), and the induction puts them together.
After the reset marks protect nobody: what remains of exclusivity rests on the barrier of the round
alone, and the conjuncts about marks are asked for before it only.

`RobotsMatchProofs` proves `RobotsInv`: an entry holds the rules of its host unless a download
of them has failed, and whoever has had an answer has stored one. `DisallowedNotVisited` is part
of it; `NoRefetch` follows. It leaves timeouts out: after one the comment of
`robotsMatch.go:47` wants the download to be repeated, which is what `robots_timeout` is about.

`EntriesFinal` is proved from the same invariant: a worker begins a download only
for a host without an entry, so once there is one the set of downloads on their way only shrinks.

`LifecycleProofs` proves `LifecycleInv`: the connections in use are those of the open
transactions, of Shutdown's unclosed rows and of the transactions that the scheduler, or a
failed start, has forgotten; between the UPDATE of Shutdown and the end only rounds mark rows,
which gives `ShutdownUnmarks`; and until `runApp`, and once the process is gone, no other
goroutine has anything to do (`AloneAtStart`), so that a change of the queue during the start is
the commit of the seeds; and when the start has failed main stays alone, so that the only change
after it is the UPDATE of Shutdown: `SeedsAllOrNone`.

`SnapshotStoreProofs` proves `ArchiveInv` for any sets of URLs and bodies and any bounds. The
properties compare neighbouring snapshots, but the decision to store is made when the response is
there, and the snapshot is added at the commit, when other rows could have come in between.
`WritesFit` closes that gap: what an open transaction has written still fits the rows, because
nobody else adds rows for the same URL. `InOrder` needs to know that a touch, which has the time
of the start of the transaction, is not before the rows that are there, hence the bound by
`began`. `FromVisits` keeps which client a snapshot came from: a gemini error has no body, so that
an equal body means an equal error, from which the second half of `LatestIsCurrent` follows; a
gopher error is found in the raw bytes, so that of two equal texts one may be an error.
`OneErrorInARow`, `NoRepeatedVersion` and `PastIsStable` are one more induction each over the step
that commits.

`RecrawledWhenDue` compares the date of the last attempt, which no column holds, with the query,
which looks at `last_crawled` of every snapshot that it counts. `AttemptsNoted` connects them: the
latest snapshot has the date of the last attempt as its `last_crawled`, and an older snapshot that
has another date is followed by one that this attempt stored.

`CrawlerTxProofs` proves `TxInv`, inductive relative to `IInv`: what the open transaction of a
worker holds agrees with where the worker is. `DeletesRecorded` says that a transaction that deletes
a row has written a record of its URL, or touches one that is there: `RemovedOnlyWithRecord`
follows. `LinksKept` says that a link that has been dealt with is seen as a row by its worker, or
has a snapshot, or is the page itself, *while other transactions commit*: when another worker
removes the row, `DeletesRecorded` of that worker provides the snapshot. `AllOrNothing` says that a
worker that returned without an error commits the delete of its job with all the rest, or nothing
at all (a deadline that passed late). `LinksQueuedOrCrawled` needs all three. Both theorems have the
hypothesis `~DryRun`: with `-dry-run` the code deletes rows and stores nothing. `OnlyGemini`
and `SendsOnlyGemini` follow a scheme from the rows and the links to the jobs, for
`OtherSchemesUntouched`.

`CrawlerRefinementProofs` proves that every behaviour of `Crawler` is one of `Frontier`: each step is
mapped to a lease, a result, the end without a result, the reset, the end of a lease after it, or a
stutter. When `Frontier` forbids the end
without a result (`MayAbandon = FALSE`, as in `rounds`), this is true of instances in which nothing
fails; `RefinementAssumption` says which those are (`NothingFails`: no faults but a signal, everything
parses, every scheme can be crawled, and no two links on one page, since two pages with two common
links can deadlock), and asks nothing when `MayAbandon = TRUE`. For those instances `UndisturbedInv`
says that no worker has met an error and that no worker waits for a row while it holds one.

`SnapshotRefinementProofs` proves that `SnapshotStore` implements what `Crawler` assumes of the archive:
a commit of the one is a commit of the other, with `recent` and `hist` computed from the rows.

`UrlTextProofs` proves `TextInv` and every other property of the run `text`, for paths of any length.
`TextInv` says how often the text of a row or a snapshot has been parsed, and thus what is left
of its fragment's encoding (`RowsInv`, `SnapshotsInv`), why a row may have stayed behind
(`RowsLeaveInv`, `Leftover`), and that a link which has been looked up still has its row unless a
visit has been committed since (`LookupInv`), from which `NotQueuedAgain` follows. The argument rests on `PathsSettle`: whatever the path, two parses bring
it to a form that a third leaves alone. The library's induction theorems take operators as
parameters, so `Induction` is proved for sets instead, from a least element that the library's
well-foundedness of finite subsets provides; with it `Clean`, a recursive function over the
prefixes of a path, and `FlattenSeq` are shown to be folds from the left (`CleanAppend`,
`FlattenAppend`). From there `NormalizeForm` gives the result of a parse, and `Settled` the segments
that no parse changes. `OnePath` and the properties of rows follow; `RedirectFollowed` needs
`Landing` (what comes before the last segment of the target only matters up to `path.Clean`),
`SelectorIsSent` needs `Proper` paths (what survives two parses and a decoding is exactly what has
no segment to be cleaned away), and `FragmentFates` needs three more facts about percent signs
(`Decoding`). `TextAssumption` asks that the segments are among those that `Unescape` covers, that
the bounds are naturals, and that the two null values are no text and no path.

Model-checked only, because liveness under fairness and ENABLED are out of the prover's reach:
`RoundEnds`, `FatalStopsMain` and `ShutdownEndsUnlessDrained`. Every invariant and every action
property of the other passing runs is proved, and both refinements are. `IInv`, `TxInv`, `ArchiveInv`,
`RobotsInv`, `LifecycleInv` and `TextInv` are also invariants of runs; `UndisturbedInv` is proved only.

## What is not modelled

Which lines of a page, a menu or a robots.txt file are links or rules, and the header's syntax
(only what becomes of the result matters to a property); TLS, read loops and the repair of other
character sets (input and output); loading of the lists and their regular expressions,
configuration and logging (no behaviour that depends on order); the links column of `snapshots`,
which is written and never read; `CheckAndUpdateNormalizedURL`, `OverwriteSnapshot`, `EscapeURL`,
`TrimTrailingPathSlash`, `GetAllSnapshotsForURL`, `GetSnapshotsByDateRange` and the gopher
functions without a context, which have no caller in the program.

## Plan

Done: 1. `Database`, `HostPool`, `Crawler` and the proof of its invariant; 2. `Frontier` and
the refinement; 3. `RobotsMatch`; 4. `Lifecycle`, with the start; 5. `SnapshotStore`, its proofs
and its refinement of `Database`; 6. `UrlText`; 7. the proofs about transactions
(`CrawlerTxProofs`) and of the refinement of `Frontier`; 8. the proofs of `RecrawledWhenDue`, of the
refinement of `Database`, and of all properties of `UrlText`.

Next, in this order:

9. Proofs: lemmas that a reader of `Frontier` and of `Database` would ask for, stated of the
   abstract modules themselves (what a lease, or a commit, can never do), so that they hold of
   everything that implements them.
10. A module for the lines of pages, menus and robots.txt files, if a property over more than one
   line turns up.
