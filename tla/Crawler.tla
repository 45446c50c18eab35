------------------------------ MODULE Crawler ------------------------------
(***************************************************************************)
(* The crawl loop: the job scheduler (cmd/crawler/crawler.go), the workers *)
(* (common/worker.go), the job channel and the WaitGroup between them, the *)
(* channel of fatal errors to main, the host pool and the database.        *)
(*                                                                         *)
(* One round: the scheduler picks rows of urls, marks them as being        *)
(* processed and commits, sends them to the workers, and waits for all of  *)
(* them.  A worker crawls one URL in one transaction: it waits for the     *)
(* host, visits, stores links, stores the snapshot and deletes the row,    *)
(* releases the host, tells the WaitGroup, and only then commits.          *)
(***************************************************************************)
EXTENDS Database, HostPool

CONSTANTS
    HostOf,        \* the host of a URL
    Scheme,        \* "gemini", "gopher" or "other"
    Root,          \* the gemini URLs that are the root of their host
    GopherEnable,  \* config.GopherEnable
    SkipRecent,    \* config.SkipIfUpdatedDays > 0
    Blacklist,     \* the URLs that match a blacklist expression
    Whitelist,     \* the URLs that match a whitelist expression
    Disallowed,    \* the URLs that a robots.txt disallows
    Unparseable,   \* the URLs, of rows or of links, that url.ParseURL rejects
    PageLinks,     \* the sets of links that a page may contain
    Redirects,     \* the targets that a redirect may have, NoURL for one that does not parse
    Ageing,        \* the URLs whose snapshots may cross a cutoff while the crawler runs
    Faults,        \* the failures of the environment in this instance, of FaultKind
    NoURL          \* no URL

FaultKind == {"newtx", "db", "timeout", "signal"}

ASSUME CrawlerAssumption ==
    /\ IsFiniteSet(Worker)
    /\ HostOf \in [URL -> Host]
    /\ Scheme \in [URL -> {"gemini", "gopher", "other"}]
    /\ \A u \in Root : u \in URL /\ Scheme[u] = "gemini" /\ u \notin Unparseable
    /\ GopherEnable \in BOOLEAN /\ SkipRecent \in BOOLEAN
    /\ PageLinks \subseteq SUBSET URL
    /\ Redirects \subseteq URL \cup {NoURL}
    /\ Ageing \subseteq URL
    /\ Faults \subseteq FaultKind
    /\ NoURL \notin URL

NumOfWorkers == Cardinality(Worker)

VARIABLES
    sched,   \* where runJobScheduler is
    hosts,   \* the scheduler's distinctHosts
    batch,   \* the scheduler's urls: to insert, to mark, or to send
    jobs,    \* the buffered channel of jobs
    wg,      \* the counter of WorkerWG
    lost,    \* jobs whose worker returned without WorkerWG.Done (history variable)
    main,    \* "select" in runApp, "shutdown" after it, "reset" after Shutdown's UPDATE
    pc,      \* where the worker is
    job,     \* its job
    res,     \* the error that WorkOnUrl returns
    kind,    \* what the visit brought: gemtext, a gopher text, something else, an error
    found,   \* the links of the page that shouldPersistURL accepts, or the redirect target
    stored,  \* those that the storing loop has dealt with
    link     \* the link that is about to be inserted, or NoURL

schedVars  == <<sched, hosts, batch>>
queueVars  == <<jobs, wg, lost>>
pageVars   == <<kind, found, stored, link>>
workerVars == <<pc, job, res, kind, found, stored, link>>
vars == <<urls, recent, hist, ins, del, wrote, hostnames, sched, hosts, batch, jobs, wg, lost,
          main, pc, job, res, kind, found, stored, link>>

SchedState  == {"poll", "history", "insert", "select", "commit", "send", "wait", "fatal", "stopped"}
WorkerState == {"idle", "start", "refuse", "acquire", "visit", "redirect", "compare", "links",
                "save", "release", "done", "end", "fatal"}

\* The scheduler has a transaction open.
InSchedulerTx == sched \in {"history", "insert", "select", "commit"}

\* The worker has taken a job and not returned from RunWorkerWithTx.
Active(w) == pc[w] \notin {"idle", "fatal"}

\* The worker has a job and has not called WorkerWG.Done for it.
Working(w) == Active(w) /\ pc[w] # "end"

\* The worker is between AddHostToHostPool and RemoveHostFromPool.
Holding(w) == pc[w] \in {"visit", "redirect", "compare", "links", "save", "release"}

TypeOK ==
    /\ DbTypeOK
    /\ hostnames \subseteq Host
    /\ sched \in SchedState /\ main \in {"select", "shutdown", "reset"}
    /\ hosts \subseteq Host /\ batch \subseteq URL
    /\ jobs \subseteq URL /\ wg \in Nat /\ lost \subseteq URL
    /\ pc \in [Worker -> WorkerState]
    /\ job \in [Worker -> URL \cup {NoURL}]
    /\ res \in [Worker -> {"ok", "ctx", "fail", "fatal"}]
    /\ kind \in [Worker -> {"gemtext", "menu", "other", "error"}]
    /\ found \in [Worker -> SUBSET URL]
    /\ stored \in [Worker -> SUBSET URL]
    /\ link \in [Worker -> URL \cup {NoURL}]

Init ==
    /\ DbInit
    /\ hostnames = {}
    /\ sched = "poll" /\ hosts = {} /\ batch = {}
    /\ jobs = {} /\ wg = 0 /\ lost = {}
    /\ main = "select"
    /\ pc = [w \in Worker |-> "idle"]
    /\ job = [w \in Worker |-> NoURL]
    /\ res = [w \in Worker |-> "ok"]
    /\ kind = [w \in Worker |-> "error"]
    /\ found = [w \in Worker |-> {}]
    /\ stored = [w \in Worker |-> {}]
    /\ link = [w \in Worker |-> NoURL]

-----------------------------------------------------------------------------
(***************************************************************************)
(* The job scheduler.                                                      *)
(***************************************************************************)

\* The rows that the queries of the scheduler return: without -gopher only gemini://
Claimable(u) == SeesPending(Scheduler, u) /\ (GopherEnable \/ Scheme[u] = "gemini")

GetUrlHosts == {HostOf[u] : u \in {v \in URL : Claimable(v)}}

SmallerOf(m, n) == IF m < n THEN m ELSE n

\* NewTx and GetUrlHosts
Poll ==
    /\ sched = "poll"
    /\ hosts' = GetUrlHosts
    /\ sched' = IF GetUrlHosts = {} THEN "history" ELSE "select"
    /\ UNCHANGED <<dbVars, hostnames, batch, queueVars, main, workerVars>>

\* The roots whose last counted crawl is before the cutoff.
Eligible == {u \in Root : hist[u] = "old"}

\* One eligible root per host, NumOfWorkers hosts at most.
HistoryChoice ==
    {S \in SUBSET Eligible :
        /\ \A u, v \in S : HostOf[u] = HostOf[v] => u = v
        /\ Cardinality(S) = SmallerOf(NumOfWorkers, Cardinality({HostOf[u] : u \in Eligible}))}

\* Nothing to recrawl: the scheduler sleeps and polls again.
FetchSnapshotsFromHistory ==
    /\ sched = "history"
    /\ batch' \in HistoryChoice
    /\ sched' = IF Eligible = {} THEN "poll" ELSE "insert"
    /\ UNCHANGED <<dbVars, hostnames, hosts, queueVars, main, workerVars>>

InsertHistory ==
    /\ sched = "insert"
    /\ \E u \in batch : InsertURL(Scheduler, u) /\ batch' = batch \ {u}
    /\ UNCHANGED <<tables, del, wrote, hostnames, sched, hosts, queueVars, main, workerVars>>

RequeryHosts ==
    /\ sched = "insert" /\ batch = {}
    /\ hosts' = GetUrlHosts
    /\ sched' = "select"
    /\ UNCHANGED <<dbVars, hostnames, batch, queueVars, main, workerVars>>

ClaimableOn(h) == {u \in URL : HostOf[u] = h /\ Claimable(u)}

\* NumOfWorkers random rows of each host
UrlsFromHosts ==
    {S \in SUBSET {u \in URL : HostOf[u] \in hosts /\ Claimable(u)} :
        \A h \in hosts : Cardinality(S \cap ClaimableOn(h))
                            = SmallerOf(NumOfWorkers, Cardinality(ClaimableOn(h)))}

\* The code asks for one host after another, here in one step.  A worker of the last round
\* that commits in between may add rows of hosts that have been asked already; they are
\* left for a later round, as are those of one that commits after this step.
GetRandomUrlsFromHosts ==
    /\ sched = "select"
    /\ batch' \in UrlsFromHosts
    /\ sched' = "commit"
    /\ UNCHANGED <<dbVars, hostnames, hosts, queueVars, main, workerVars>>

\* Mutant of CommitBatch: the batch is sent without having been marked.
CommitBatchUnmarked ==
    /\ sched = "commit"
    /\ Commit(Scheduler)
    /\ wg' = wg + Cardinality(batch)
    /\ sched' = IF batch = {} THEN "poll" ELSE "send"
    /\ UNCHANGED <<hostnames, hosts, batch, jobs, lost, main, workerVars>>

\* MarkURLsAsBeingProcessed, Commit and WorkerWG.Add; no row: sleep and poll again.
CommitBatch ==
    /\ sched = "commit"
    /\ MarkAndCommit(Scheduler, batch)
    /\ wg' = wg + Cardinality(batch)
    /\ sched' = IF batch = {} THEN "poll" ELSE "send"
    /\ UNCHANGED <<hostnames, hosts, batch, jobs, lost, main, workerVars>>

\* jobs <- url
Send ==
    /\ sched = "send"
    /\ Cardinality(jobs) < NumOfWorkers
    /\ \E u \in batch :
          /\ jobs' = jobs \cup {u}
          /\ batch' = batch \ {u}
    /\ sched' = IF batch' = {} THEN "wait" ELSE "send"
    /\ UNCHANGED <<dbVars, hostnames, hosts, wg, lost, main, workerVars>>

\* Mutant of Wait: the scheduler waits for the channel, not for the workers.
WaitForChannel ==
    /\ sched = "wait"
    /\ jobs = {}
    /\ sched' = "poll"
    /\ UNCHANGED <<dbVars, hostnames, hosts, batch, queueVars, main, workerVars>>

\* WorkerWG.Wait
Wait ==
    /\ sched = "wait"
    /\ wg = 0
    /\ sched' = "poll"
    /\ UNCHANGED <<dbVars, hostnames, hosts, batch, queueVars, main, workerVars>>

\* NewTx or a statement fails: PostgreSQL aborts the transaction and the scheduler
\* blocks on FatalErrorsChan.
SchedulerFails ==
    /\ \/ sched = "poll" /\ "newtx" \in Faults
       \/ InSchedulerTx /\ "db" \in Faults
    /\ sched' = "fatal"
    /\ Discard(Scheduler)
    /\ UNCHANGED <<hostnames, hosts, batch, queueVars, main, workerVars>>

SchedulerNext ==
    \/ Poll \/ FetchSnapshotsFromHistory \/ InsertHistory \/ RequeryHosts
    \/ GetRandomUrlsFromHosts \/ CommitBatch \/ Send \/ Wait

-----------------------------------------------------------------------------
(***************************************************************************)
(* The workers.                                                            *)
(***************************************************************************)

Goto(w, p) == pc' = [pc EXCEPT ![w] = p]

\* RunWorkerWithTx returns: the goroutine is back at the channel, or blocked on
\* FatalErrorsChan (p = "fatal").
Return(w, p) ==
    /\ Goto(w, p)
    /\ job' = [job EXCEPT ![w] = NoURL]
    /\ res' = [res EXCEPT ![w] = "ok"]
    /\ kind' = [kind EXCEPT ![w] = "error"]
    /\ found' = [found EXCEPT ![w] = {}]
    /\ stored' = [stored EXCEPT ![w] = {}]
    /\ link' = [link EXCEPT ![w] = NoURL]

\* Mutant of Fail: RemoveHostFromPool is not deferred and misses the error paths.
FailWithoutRelease(w, err) ==
    /\ res' = [res EXCEPT ![w] = err]
    /\ Goto(w, "done")

\* WorkOnUrl returns err; the deferred RemoveHostFromPool runs when the host is held.
Fail(w, err) ==
    /\ res' = [res EXCEPT ![w] = err]
    /\ Goto(w, IF Holding(w) THEN "release" ELSE "done")

\* job := <-jobs
Receive(w) ==
    /\ pc[w] = "idle"
    /\ \E u \in jobs :
          /\ jobs' = jobs \ {u}
          /\ job' = [job EXCEPT ![w] = u]
    /\ Goto(w, "start")
    /\ UNCHANGED <<dbVars, hostnames, schedVars, wg, lost, main, res, pageVars>>

\* Mutant of ReturnEarly: a transaction that cannot be opened is only logged.
ReturnEarlySilently(w) ==
    /\ pc[w] = "start"
    /\ job[w] \in Unparseable \/ "newtx" \in Faults
    /\ Return(w, "idle")
    /\ lost' = lost \cup {job[w]}
    /\ UNCHANGED <<dbVars, hostnames, schedVars, jobs, wg, main>>

\* The two early returns of RunWorkerWithTx, both without WorkerWG.Done: the job
\* does not parse, or no transaction can be opened.
ReturnEarly(w) ==
    /\ pc[w] = "start"
    /\ \/ job[w] \in Unparseable /\ Return(w, "idle")
       \/ job[w] \notin Unparseable /\ "newtx" \in Faults /\ Return(w, "fatal")
    /\ lost' = lost \cup {job[w]}
    /\ UNCHANGED <<dbVars, hostnames, schedVars, jobs, wg, main>>

Supported(u) == Scheme[u] = "gemini" \/ (Scheme[u] = "gopher" /\ GopherEnable)

\* robotsMatch.RobotMatch is asked only for gemini URLs, and answers no with -gopher.
RobotsApply(u) == Scheme[u] = "gemini" /\ ~GopherEnable

\* A scheme that cannot be crawled is an ordinary error.
RejectScheme(w) ==
    /\ pc[w] = "start" /\ job[w] \notin Unparseable
    /\ ~Supported(job[w])
    /\ Fail(w, "fail")
    /\ UNCHANGED <<dbVars, hostnames, schedVars, queueVars, main, job, pageVars>>

\* A blacklist or robots.txt match is stored as a snapshot with an error.
Refuse(w) ==
    /\ pc[w] = "start" /\ job[w] \notin Unparseable
    /\ Supported(job[w]) /\ job[w] \notin Whitelist
    /\ job[w] \in Blacklist \/ (RobotsApply(job[w]) /\ job[w] \in Disallowed)
    /\ Goto(w, "refuse")
    /\ UNCHANGED <<dbVars, hostnames, schedVars, queueVars, main, job, res, pageVars>>

\* robots.txt may be unreachable, and is then taken as empty.
Admit(w) ==
    /\ pc[w] = "start" /\ job[w] \notin Unparseable
    /\ Supported(job[w])
    /\ job[w] \in Whitelist \/ job[w] \notin Blacklist
    /\ Goto(w, "acquire")
    /\ UNCHANGED <<dbVars, hostnames, schedVars, queueVars, main, job, res, pageVars>>

Acquire(w) ==
    /\ pc[w] = "acquire"
    /\ AddHostToHostPool(HostOf[job[w]])
    /\ Goto(w, "visit")
    /\ UNCHANGED <<dbVars, schedVars, queueVars, main, job, res, pageVars>>

\* Mutant of ShouldPersist: any scheme will do.
ShouldPersistAnyScheme(u) == u \notin Blacklist

\* shouldPersistURL
ShouldPersist(u) ==
    /\ u \notin Blacklist
    /\ Scheme[u] = "gemini" \/ (GopherEnable /\ Scheme[u] = "gopher")

\* The visit brings a response of kind k with the links L.
Brings(w, k, L) ==
    /\ kind' = [kind EXCEPT ![w] = k]
    /\ found' = [found EXCEPT ![w] = {l \in L : ShouldPersist(l)}]
    /\ Goto(w, "compare")
    /\ UNCHANGED <<dbVars, hostnames, schedVars, queueVars, main, job, res, stored, link>>

\* gemini.Visit: a text/gemini page, any other response, or an error of the network.
VisitGemini(w) ==
    /\ pc[w] = "visit" /\ Scheme[job[w]] = "gemini"
    /\ \/ \E L \in PageLinks : Brings(w, "gemtext", L)
       \/ \E k \in {"other", "error"} : Brings(w, k, {})

\* gopher.VisitWithContext: text, in which lines that look like a menu are links, binary
\* data, or an error.  No MIME type is stored.
VisitGopher(w) ==
    /\ pc[w] = "visit" /\ Scheme[job[w]] = "gopher"
    /\ \/ \E L \in PageLinks : Brings(w, "menu", L)
       \/ \E k \in {"other", "error"} : Brings(w, k, {})

\* A gemini response 3x; its target may be one that shouldPersistURL rejects.
VisitRedirect(w) ==
    /\ pc[w] = "visit" /\ Scheme[job[w]] = "gemini"
    /\ kind' = [kind EXCEPT ![w] = "other"]
    /\ \E target \in Redirects \ {NoURL} :
          found' = [found EXCEPT ![w] = {u \in {target} : ShouldPersist(u)}]
    /\ Goto(w, "redirect")
    /\ UNCHANGED <<dbVars, hostnames, schedVars, queueVars, main, job, res, stored, link>>

\* The target of the redirect cannot be extracted or parsed.
VisitBadRedirect(w) ==
    /\ pc[w] = "visit" /\ Scheme[job[w]] = "gemini" /\ NoURL \in Redirects
    /\ Fail(w, "fail")
    /\ UNCHANGED <<dbVars, hostnames, schedVars, queueVars, main, job, pageVars>>

\* haveWeVisitedURL: a URL in the queue counts as not visited.
Visited(w, u) == ~Sees(w, u) /\ SkipRecent /\ u \in recent

\* One turn of the loop of storeLinks, or saveRedirectURL: the SELECTs ...
CheckLink(w) ==
    /\ pc[w] \in {"redirect", "links"} /\ link[w] = NoURL
    /\ \E l \in found[w] \ stored[w] :
          IF Visited(w, l)
          THEN stored' = [stored EXCEPT ![w] = @ \cup {l}] /\ UNCHANGED link
          ELSE link' = [link EXCEPT ![w] = l] /\ UNCHANGED stored
    /\ UNCHANGED <<dbVars, hostnames, schedVars, queueVars, main, pc, job, res, kind, found>>

\* ... and the INSERT, a statement of its own that may have to wait.
InsertLink(w) ==
    /\ pc[w] \in {"redirect", "links"} /\ link[w] # NoURL
    /\ link[w] \notin Unparseable
    /\ InsertURL(w, link[w])
    /\ stored' = [stored EXCEPT ![w] = @ \cup {link[w]}]
    /\ link' = [link EXCEPT ![w] = NoURL]
    /\ UNCHANGED <<tables, del, wrote, hostnames, schedVars, queueVars, main, pc, job, res,
                   kind, found>>

\* InsertURL normalises the link once more and returns the error when it cannot: one
\* such link, and the page is not stored.
RejectLink(w) ==
    /\ pc[w] \in {"redirect", "links"} /\ link[w] \in Unparseable
    /\ Fail(w, "fail")
    /\ UNCHANGED <<dbVars, hostnames, schedVars, queueVars, main, job, pageVars>>

LinksStored(w) ==
    /\ pc[w] \in {"redirect", "links"} /\ stored[w] = found[w]
    /\ Goto(w, IF pc[w] = "redirect" THEN "compare" ELSE "save")
    /\ UNCHANGED <<dbVars, hostnames, schedVars, queueVars, main, job, res, pageVars>>

\* Mutant of Identical: the row is not removed.
IdenticalKeepingRow(w) ==
    /\ pc[w] = "compare" /\ hist[job[w]] # "never"
    /\ UpdateLastCrawled(w, job[w])
    /\ Goto(w, "release")
    /\ UNCHANGED <<tables, ins, del, hostnames, schedVars, queueVars, main, job, res, pageVars>>

\* IsContentIdentical found the same content in the latest snapshot.
Identical(w) ==
    /\ pc[w] = "compare" /\ hist[job[w]] # "never"
    /\ UpdateLastCrawled(w, job[w])
    /\ DeleteURL(w, job[w])
    /\ Goto(w, "release")
    /\ UNCHANGED <<tables, hostnames, schedVars, queueVars, main, job, res, pageVars>>

\* Only a page has links; the target of a redirect is stored already.
Different(w) ==
    /\ pc[w] = "compare"
    /\ Goto(w, IF kind[w] \in {"gemtext", "menu"} THEN "links" ELSE "save")
    /\ UNCHANGED <<dbVars, hostnames, schedVars, queueVars, main, job, res, pageVars>>

\* Mutant of Save: an error is never stored, not even the first one.
SaveNoErrors(w) ==
    /\ pc[w] \in {"save", "refuse"}
    /\ IF kind[w] = "error" THEN UpdateLastCrawled(w, job[w])
                            ELSE SaveSnapshot(w, job[w], "other")
    /\ DeleteURL(w, job[w])
    /\ Goto(w, IF Holding(w) THEN "release" ELSE "done")
    /\ UNCHANGED <<tables, hostnames, schedVars, queueVars, main, job, res, pageVars>>

\* saveSnapshotAndRemoveURL: of consecutive errors only the first one is stored.
Save(w) ==
    /\ pc[w] \in {"save", "refuse"}
    /\ \/ SaveSnapshot(w, job[w], IF kind[w] = "gemtext" THEN "gemtext" ELSE "other")
       \/ kind[w] = "error" /\ hist[job[w]] # "never" /\ UpdateLastCrawled(w, job[w])
    /\ DeleteURL(w, job[w])
    /\ Goto(w, IF Holding(w) THEN "release" ELSE "done")
    /\ UNCHANGED <<tables, hostnames, schedVars, queueVars, main, job, res, pageVars>>

Release(w) ==
    /\ pc[w] = "release"
    /\ RemoveHostFromPool(HostOf[job[w]])
    /\ Goto(w, "done")
    /\ UNCHANGED <<dbVars, schedVars, queueVars, main, job, res, pageVars>>

\* WorkerWG.Done, before the transaction ends
Done(w) ==
    /\ pc[w] = "done"
    /\ wg' = wg - 1
    /\ Goto(w, "end")
    /\ UNCHANGED <<dbVars, hostnames, schedVars, jobs, lost, main, job, res, pageVars>>

\* Mutant of CommitTx: Done is called once more after the commit.
CommitTxAndDone(w) ==
    /\ pc[w] = "end" /\ res[w] = "ok"
    /\ Commit(w)
    /\ Return(w, "idle")
    /\ wg' = wg - 1
    /\ UNCHANGED <<hostnames, schedVars, jobs, lost, main>>

CommitTx(w) ==
    /\ pc[w] = "end" /\ res[w] = "ok"
    /\ Commit(w)
    /\ Return(w, "idle")
    /\ UNCHANGED <<hostnames, schedVars, queueVars, main>>

\* Commit fails: the rollback that follows finds the transaction finished.
CommitFails(w) ==
    /\ pc[w] = "end" /\ res[w] = "ok" /\ "db" \in Faults
    /\ Discard(w)
    /\ Return(w, "idle")
    /\ UNCHANGED <<hostnames, schedVars, queueVars, main>>

\* Mutant of RollbackTx: the error path calls Done, too.
RollbackTxAndDone(w) ==
    /\ pc[w] = "end" /\ res[w] # "ok"
    /\ Discard(w)
    /\ Return(w, IF res[w] = "fatal" THEN "fatal" ELSE "idle")
    /\ wg' = wg - 1
    /\ UNCHANGED <<hostnames, schedVars, jobs, lost, main>>

\* A failed rollback is fatal, whatever the error it was for.
RollbackTx(w) ==
    /\ pc[w] = "end" /\ res[w] # "ok"
    /\ Discard(w)
    /\ \/ Return(w, IF res[w] = "fatal" THEN "fatal" ELSE "idle")
       \/ "db" \in Faults /\ Return(w, "fatal")
    /\ UNCHANGED <<hostnames, schedVars, queueVars, main>>

-----------------------------------------------------------------------------
(***************************************************************************)
(* Failures of a worker.                                                   *)
(***************************************************************************)

\* The steps of WorkOnUrl that use the database.
UsesDb(w) == pc[w] \in {"refuse", "redirect", "compare", "links", "save"}

\* saveRedirectURL's error is wrapped with %s and loses what it was.
StatementError(w) == IF pc[w] = "redirect" THEN "fail" ELSE "fatal"

\* A statement fails and PostgreSQL aborts the transaction.
DbFails(w) ==
    /\ "db" \in Faults /\ UsesDb(w)
    /\ Discard(w)
    /\ Fail(w, StatementError(w))
    /\ UNCHANGED <<hostnames, schedVars, queueVars, main, job, pageVars>>

\* w waits for the lock of its link, and o holds it.
WaitsFor(w, o) ==
    /\ pc[w] \in {"redirect", "links"} /\ link[w] # NoURL
    /\ o # w /\ link[w] \in ins[o] \cup del[o]

InDeadlock(S) == S # {} /\ \A w \in S : \E o \in S : WaitsFor(w, o)

\* PostgreSQL breaks a cycle of waits by aborting one of the transactions.
DeadlockVictim(w) ==
    /\ \E S \in SUBSET Worker : w \in S /\ InDeadlock(S)
    /\ Discard(w)
    /\ Fail(w, StatementError(w))
    /\ UNCHANGED <<hostnames, schedVars, queueVars, main, job, pageVars>>

\* The 120 s of the request context are over: database/sql rolls the transaction back
\* and whatever WorkOnUrl does next returns the error.
TimesOut(w) ==
    /\ "timeout" \in Faults
    /\ UsesDb(w) \/ pc[w] \in {"acquire", "visit"}
    /\ Discard(w)
    /\ Fail(w, IF pc[w] = "redirect" THEN "fail" ELSE "ctx")
    /\ UNCHANGED <<hostnames, schedVars, queueVars, main, job, pageVars>>

\* The same after WorkOnUrl has returned nil, or is about to: nobody notices.
TimesOutLate(w) ==
    /\ "timeout" \in Faults
    /\ pc[w] \in {"release", "done", "end"} /\ res[w] = "ok"
    /\ Discard(w)
    /\ UNCHANGED <<hostnames, schedVars, queueVars, main, workerVars>>

WorkerNext(w) ==
    \/ Receive(w) \/ ReturnEarly(w) \/ RejectScheme(w) \/ Refuse(w) \/ Admit(w) \/ Acquire(w)
    \/ VisitGemini(w) \/ VisitGopher(w) \/ VisitRedirect(w) \/ VisitBadRedirect(w)
    \/ CheckLink(w) \/ InsertLink(w) \/ RejectLink(w) \/ LinksStored(w)
    \/ Identical(w) \/ Different(w) \/ Save(w)
    \/ Release(w) \/ Done(w) \/ CommitTx(w) \/ RollbackTx(w) \/ DeadlockVictim(w)

WorkerFails(w) == CommitFails(w) \/ DbFails(w) \/ TimesOut(w) \/ TimesOutLate(w)

-----------------------------------------------------------------------------
(***************************************************************************)
(* main: runApp selects between the two channels once, and returns to the  *)
(* shutdown of the application.  Nobody tells the scheduler and the        *)
(* workers: they go on until the process exits, which is left out, as it   *)
(* only ends a behaviour.                                                  *)
(***************************************************************************)

\* Mutant of ReceiveFatalOf: main logs the error and selects again.
ReceiveFatalAndGoOn(w) ==
    /\ main = "select" /\ pc[w] = "fatal"
    /\ Goto(w, "idle")
    /\ UNCHANGED <<dbVars, hostnames, schedVars, queueVars, main, job, res, pageVars>>

ReceiveFatalOf(w) ==
    /\ main = "select" /\ pc[w] = "fatal"
    /\ main' = "shutdown"
    /\ Goto(w, "idle")
    /\ UNCHANGED <<dbVars, hostnames, schedVars, queueVars, job, res, pageVars>>

ReceiveFatalOfScheduler ==
    /\ main = "select" /\ sched = "fatal"
    /\ main' = "shutdown"
    /\ sched' = "stopped"
    /\ UNCHANGED <<dbVars, hostnames, hosts, batch, queueVars, workerVars>>

ReceiveSignal ==
    /\ main = "select" /\ "signal" \in Faults
    /\ main' = "shutdown"
    /\ UNCHANGED <<dbVars, hostnames, schedVars, queueVars, workerVars>>

\* The first thing that Database.Shutdown does, while the other goroutines go on: the rows
\* of their jobs lose the mark, too.  (That it may fail is only logged: as if it had not
\* come to it.)
ResetMarks ==
    /\ main = "shutdown"
    /\ UnmarkAll
    /\ main' = "reset"
    /\ UNCHANGED <<hostnames, schedVars, queueVars, workerVars>>

MainNext == ReceiveFatalOfScheduler \/ \E w \in Worker : ReceiveFatalOf(w)

-----------------------------------------------------------------------------
TimePasses ==
    /\ \E u \in Ageing : AgeSnapshot(u) \/ AgeHistory(u)
    /\ UNCHANGED <<hostnames, schedVars, queueVars, main, workerVars>>

Next ==
    \/ SchedulerNext \/ SchedulerFails
    \/ \E w \in Worker : WorkerNext(w) \/ WorkerFails(w)
    \/ MainNext \/ ReceiveSignal \/ ResetMarks
    \/ TimePasses

Spec == Init /\ [][Next]_vars

\* Goroutines that can run do run; no failure, signal or ageing has to happen.
Fairness ==
    /\ WF_vars(SchedulerNext)
    /\ WF_vars(MainNext)
    /\ \A w \in Worker : WF_vars(WorkerNext(w))

FairSpec == Spec /\ Fairness

-----------------------------------------------------------------------------
(***************************************************************************)
(* Safety.                                                                 *)
(***************************************************************************)

SendQueue == IF sched = "send" THEN batch ELSE {}

\* The worker has its job to itself: until its transaction has ended, by the mark of the
\* row, or, once Shutdown has reset the marks, until Done, by the barrier of the round.
Claims(w) == Working(w) \/ (Active(w) /\ main # "reset")

\* A URL that the scheduler has marked is in one place at most: on its way to the
\* channel, in the channel, or with one worker, until that worker's transaction has
\* ended.  (WorkerWG.Done comes before Commit, so a round starts while transactions of
\* the last one are open; being_processed is what keeps their rows from being claimed.
\* After Shutdown's UPDATE nothing does, and such a row may be handed out again, but still
\* no two workers are before Done with the same URL.)
NoDoubleClaim ==
    /\ SendQueue \cap jobs = {}
    /\ \A w \in Worker : Claims(w) => job[w] \notin jobs \cup SendQueue
    /\ \A v, w \in Worker : v # w /\ Claims(v) /\ Claims(w) => job[v] # job[w]

\* Until Shutdown resets the marks, whatever has been claimed is marked in the committed
\* table, so that only the worker that has it, and no other query, can take it.
ClaimedRowsMarked ==
    main # "reset" =>
        /\ \A u \in SendQueue \cup jobs : urls[u] = "processing"
        /\ \A w \in Worker : Active(w) => urls[job[w]] = "processing"

\* Two workers never visit the same host at a time, and the pool holds the hosts that
\* are visited and no other: no return path of WorkOnUrl leaves a host behind.
HostPoolExact ==
    /\ hostnames = {HostOf[job[w]] : w \in {v \in Worker : Holding(v)}}
    /\ \A v, w \in Worker : v # w /\ Holding(v) /\ Holding(w) => HostOf[job[v]] # HostOf[job[w]]

\* What WorkerWG is waiting for.
Outstanding == SendQueue \cup jobs \cup lost \cup {job[w] : w \in {v \in Worker : Working(v)}}

\* WorkerWG counts exactly the jobs that have no Done yet: it never goes negative (Go
\* panics), and Wait returns when the last job is done and not before.
WaitGroupExact == wg = Cardinality(Outstanding)

\* While the scheduler has a transaction open no worker can be waiting for a row of it:
\* they are idle, or have only the end of their transaction left.  (The scheduler runs
\* without a timeout: a cycle of waits through it would be broken at a worker's cost.)
RoundBarrier == InSchedulerTx => \A w \in Worker : ~Working(w)

\* A page that is about to be committed has each of its links in the queue or crawled,
\* also when the row it found, or waited for, belonged to another transaction.
LinksQueuedOrCrawled ==
    \A w \in Worker :
        (res[w] = "ok" /\ pc[w] \in {"save", "release", "done", "end"} /\ wrote[w] # {}) =>
            \A l \in stored[w] : Sees(w, l) \/ hist[l] # "never" \/ l = job[w]

\* Without -gopher the rows of other schemes, as a run with -gopher or a seed file leaves
\* them, are neither claimed nor removed, and the links of pages add none; Shutdown takes
\* the marks off those that were stuck.
OtherSchemesUntouched ==
    [][\A u \in URL :
          ~GopherEnable /\ Scheme[u] # "gemini" =>
              \/ urls'[u] = urls[u]
              \/ main = "shutdown" /\ main' = "reset"
                 /\ urls[u] = "processing" /\ urls'[u] = "pending"]_vars

\* A row leaves the queue only when the archive has a snapshot of its URL: the delete
\* and the snapshot are committed together or not at all.
RemovedOnlyWithRecord ==
    [][\A u \in URL : urls[u] # "absent" /\ urls'[u] = "absent" => hist'[u] # "never"]_vars

-----------------------------------------------------------------------------
(***************************************************************************)
(* Liveness.                                                               *)
(***************************************************************************)

\* Every round comes to its end, the sending of its jobs included, or the application is
\* shutting down.
RoundEnds == (sched \in {"send", "wait"}) ~> (sched = "poll" \/ main # "select")

\* A fatal error, of whichever goroutine, ends runApp.
FatalStopsMain ==
    (sched = "fatal" \/ \E w \in Worker : pc[w] = "fatal") ~> (main # "select")

-----------------------------------------------------------------------------
(***************************************************************************)
(* What the code or its documents say and the code does not do.            *)
(***************************************************************************)

\* "Wait for all workers to complete their jobs": the scheduler waits only while there
\* is a job that has not been completed.
WaitsOnlyForWork ==
    (sched = "wait" /\ jobs = {} /\ \A w \in Worker : ~Working(w)) => wg = 0
=============================================================================
