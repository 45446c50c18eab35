------------------------------ MODULE Lifecycle ------------------------------
(***************************************************************************)
(* The life of the process: start, crawl, stop or crash, start again       *)
(* (cmd/crawler/crawler.go), and the pool of database connections that its *)
(* goroutines share (db/db.go; the pool is that of database/sql).          *)
(*                                                                         *)
(* A transaction holds a connection from NewTx to its Commit or Rollback.  *)
(* The scheduler forgets some transactions without ending them, and the    *)
(* statement that Shutdown runs needs a connection, too.  What a worker    *)
(* does between NewTx and the end of its transaction is in Crawler; here   *)
(* it takes a row, and ends with the row gone or still marked.             *)
(***************************************************************************)
EXTENDS Naturals, FiniteSets

CONSTANTS
    URL,
    Worker,
    MaxDbConnections,  \* config.MaxDbConnections
    Faults             \* what may go wrong, of {"db", "files", "crash"}

ASSUME LifecycleAssumption ==
    /\ IsFiniteSet(Worker)
    /\ MaxDbConnections \in Nat \ {0}
    /\ Faults \subseteq {"db", "files", "crash"}

VARIABLES
    urls,     \* the committed rows of urls
    main,     \* where main is
    sched,    \* where runJobScheduler is
    counted,  \* what it has counted: "none", or "some" rows
    jobs,     \* the rows of the round that no worker has taken
    pc,       \* where the worker is
    job,      \* the row it works on (as a set)
    lost,     \* jobs without WorkerWG.Done (history variable)
    inUse,    \* the connections that the pool has handed out
    leaked,   \* those of transactions that nobody will end (history variable)
    late      \* the rows that this process has marked, since its reset if any (history variable)

vars == <<urls, main, sched, counted, jobs, pc, job, lost, inUse, leaked, late>>

TypeOK ==
    /\ urls \in [URL -> {"absent", "pending", "processing"}]
    /\ main \in {"connect", "file", "adding", "select", "reset", "close", "closeMarked", "down"}
    /\ sched \in {"count", "counting", "seed", "seeding", "poll", "tx", "wait",
                  "fatal", "fatalCounting", "stopped"}
    /\ counted \in {"none", "some"}
    /\ jobs \subseteq URL /\ lost \subseteq URL /\ late \subseteq URL
    /\ pc \in [Worker -> {"idle", "begin", "tx", "end", "fatal"}]
    /\ job \in [Worker -> SUBSET URL]
    /\ inUse \in Nat /\ leaked \in Nat

Init ==
    /\ urls \in [URL -> {"absent", "pending"}]
    /\ main = "connect"
    /\ sched = "stopped" /\ counted = "none"
    /\ jobs = {} /\ lost = {}
    /\ pc = [w \in Worker |-> "idle"]
    /\ job = [w \in Worker |-> {}]
    /\ inUse = 0 /\ leaked = 0
    /\ late = {}

Rows(state) == {u \in URL : urls[u] = state}

\* The goroutines of the process run, also while main is in shutdownApp.  (Before runApp
\* there are none: the scheduler is stopped, and nobody has sent a job.)
Running == main # "down"

\* db.BeginTxx gets a connection; without a free one it waits.
Take == inUse < MaxDbConnections /\ inUse' = inUse + 1

\* The transaction ends and the connection goes back.
Give == inUse' = inUse - 1

-----------------------------------------------------------------------------
(***************************************************************************)
(* The job scheduler.                                                      *)
(***************************************************************************)

\* The first transaction counts the rows, marked ones included, ...
BeginCount ==
    /\ Running /\ sched = "count"
    /\ Take
    /\ sched' = "counting"
    /\ UNCHANGED <<urls, main, counted, jobs, pc, job, lost, leaked, late>>

EndCount ==
    /\ Running /\ sched = "counting"
    /\ counted' = IF \A u \in URL : urls[u] = "absent" THEN "none" ELSE "some"
    /\ Give
    /\ sched' = "seed"
    /\ UNCHANGED <<urls, main, jobs, pc, job, lost, leaked, late>>

\* ... and the second one is for the seed URLs, ...
BeginSeed ==
    /\ Running /\ sched = "seed"
    /\ Take
    /\ sched' = "seeding"
    /\ UNCHANGED <<urls, main, counted, jobs, pc, job, lost, leaked, late>>

\* ... committed when the table was empty, and overwritten by the first poll otherwise.
\* (enqueueSeedURLs adds nothing: its body is commented out.)
EndSeed ==
    /\ Running /\ sched = "seeding"
    /\ \/ counted = "none" /\ Give /\ UNCHANGED leaked
       \/ counted = "some" /\ leaked' = leaked + 1 /\ UNCHANGED inUse
    /\ sched' = "poll"
    /\ UNCHANGED <<urls, main, counted, jobs, pc, job, lost, late>>

Poll ==
    /\ Running /\ sched = "poll"
    /\ Take
    /\ sched' = "tx"
    /\ UNCHANGED <<urls, main, counted, jobs, pc, job, lost, leaked, late>>

\* Nothing to crawl: the loop sleeps and continues, the transaction stays open.
EmptyPoll ==
    /\ Running /\ sched = "tx"
    /\ Rows("pending") = {}
    /\ leaked' = leaked + 1
    /\ sched' = "poll"
    /\ UNCHANGED <<urls, main, counted, jobs, pc, job, lost, inUse, late>>

\* The history has only URLs whose rows are marked already: no row is new, nothing is
\* selected, and the transaction is committed.
EmptyRound ==
    /\ Running /\ sched = "tx"
    /\ Rows("pending") = {} /\ Rows("processing") # {}
    /\ Give
    /\ sched' = "poll"
    /\ UNCHANGED <<urls, main, counted, jobs, pc, job, lost, leaked, late>>

\* Some pending rows, or some from the history, are marked, committed and sent.
StartRound ==
    /\ Running /\ sched = "tx"
    /\ \E old \in SUBSET Rows("absent") :
          /\ Rows("pending") # {} => old = {}
          /\ \E batch \in SUBSET (Rows("pending") \cup old) \ {{}} :
                /\ urls' = [u \in URL |-> IF u \in batch THEN "processing"
                                          ELSE IF u \in old THEN "pending" ELSE urls[u]]
                /\ jobs' = batch
                /\ late' = late \cup batch
    /\ Give
    /\ sched' = "wait"
    /\ UNCHANGED <<main, counted, pc, job, lost, leaked>>

\* WorkerWG.Wait
EndRound ==
    /\ Running /\ sched = "wait"
    /\ jobs = {} /\ lost = {} /\ \A w \in Worker : pc[w] \notin {"begin", "tx"}
    /\ sched' = "poll"
    /\ UNCHANGED <<urls, main, counted, jobs, pc, job, lost, inUse, leaked, late>>

\* NewTx, a statement or a commit fails and the error is on its way to main.  A failed
\* commit ends the transaction, a failed statement does not: the deferred rollback is
\* for the first transaction and no other.
SchedulerFails ==
    /\ Running /\ "db" \in Faults
    /\ \/ /\ sched \in {"count", "seed", "poll"}
          /\ sched' = "fatal" /\ UNCHANGED <<inUse, leaked>>
       \/ /\ sched \in {"counting", "tx"} \/ (sched = "seeding" /\ counted = "none")
          /\ sched' = "fatal" /\ Give /\ UNCHANGED leaked
       \/ /\ sched = "counting"
          /\ sched' = "fatalCounting" /\ UNCHANGED <<inUse, leaked>>
       \/ /\ sched = "tx"
          /\ sched' = "fatal" /\ leaked' = leaked + 1 /\ UNCHANGED inUse
    /\ UNCHANGED <<urls, main, counted, jobs, pc, job, lost, late>>

-----------------------------------------------------------------------------
(***************************************************************************)
(* The workers.                                                            *)
(***************************************************************************)

Goto(w, p) == pc' = [pc EXCEPT ![w] = p]

Receive(w) ==
    /\ Running /\ pc[w] = "idle"
    /\ \E u \in jobs :
          /\ jobs' = jobs \ {u}
          /\ job' = [job EXCEPT ![w] = {u}]
    /\ Goto(w, "begin")
    /\ UNCHANGED <<urls, main, sched, counted, lost, inUse, leaked, late>>

NewTx(w) ==
    /\ Running /\ pc[w] = "begin"
    /\ Take
    /\ Goto(w, "tx")
    /\ UNCHANGED <<urls, main, sched, counted, jobs, job, lost, leaked, late>>

\* The 120 s of the request context are over before there is a connection, or the
\* database refuses: the worker returns without WorkerWG.Done.
NewTxFails(w) ==
    /\ Running /\ pc[w] = "begin"
    /\ inUse = MaxDbConnections \/ "db" \in Faults
    /\ lost' = lost \cup job[w]
    /\ job' = [job EXCEPT ![w] = {}]
    /\ Goto(w, "fatal")
    /\ UNCHANGED <<urls, main, sched, counted, jobs, inUse, leaked, late>>

\* WorkOnUrl returns, and WorkerWG.Done is called.
Done(w) ==
    /\ Running /\ pc[w] = "tx"
    /\ Goto(w, "end")
    /\ UNCHANGED <<urls, main, sched, counted, jobs, job, lost, inUse, leaked, late>>

\* Commit: the row is gone, the links of the page are new rows.
Commit(w) ==
    /\ Running /\ pc[w] = "end"
    /\ \E links \in SUBSET Rows("absent") :
          urls' = [u \in URL |-> IF u \in job[w] THEN "absent"
                                 ELSE IF u \in links THEN "pending" ELSE urls[u]]
    /\ job' = [job EXCEPT ![w] = {}]
    /\ Give
    /\ Goto(w, "idle")
    /\ UNCHANGED <<main, sched, counted, jobs, lost, leaked, late>>

\* Mutant of Rollback: the error is sent to main before the transaction is rolled back.
RollbackLate(w) ==
    /\ Running /\ pc[w] = "end"
    /\ job' = [job EXCEPT ![w] = {}]
    /\ \/ Goto(w, "idle") /\ Give
       \/ "db" \in Faults /\ Goto(w, "fatal") /\ UNCHANGED inUse
    /\ UNCHANGED <<urls, main, sched, counted, jobs, lost, leaked, late>>

\* SafeRollback: the row stays, and stays marked.
Rollback(w) ==
    /\ Running /\ pc[w] = "end"
    /\ job' = [job EXCEPT ![w] = {}]
    /\ Give
    /\ \/ Goto(w, "idle")
       \/ "db" \in Faults /\ Goto(w, "fatal")
    /\ UNCHANGED <<urls, main, sched, counted, jobs, lost, leaked, late>>

-----------------------------------------------------------------------------
(***************************************************************************)
(* main: initializeApp, ...                                                *)
(***************************************************************************)

\* runApp: the goroutines start.
RunApp == main' = "select" /\ sched' = "count"

\* Database.Initialize has reached the database; there may be a file of seeds to add.
Connect ==
    /\ main = "connect"
    /\ \/ RunApp
       \/ main' = "file" /\ UNCHANGED sched
    /\ UNCHANGED <<urls, counted, jobs, pc, job, lost, inUse, leaked, late>>

\* AddURLsFromFile: NewTx, ...
BeginFile ==
    /\ main = "file"
    /\ Take
    /\ main' = "adding"
    /\ UNCHANGED <<urls, sched, counted, jobs, pc, job, lost, leaked, late>>

\* Mutant of CommitFile: every insert is a transaction of its own.
CommitLine ==
    /\ main = "adding"
    /\ \/ /\ \E u \in Rows("absent") : urls' = [urls EXCEPT ![u] = "pending"]
          /\ UNCHANGED <<main, sched, inUse>>
       \/ Give /\ RunApp /\ UNCHANGED urls
    /\ UNCHANGED <<counted, jobs, pc, job, lost, leaked, late>>

\* ... an insert for each line (what is in the table is left alone), and Commit.
CommitFile ==
    /\ main = "adding"
    /\ \E seeds \in SUBSET Rows("absent") :
          urls' = [u \in URL |-> IF u \in seeds THEN "pending" ELSE urls[u]]
    /\ Give
    /\ RunApp
    /\ UNCHANGED <<counted, jobs, pc, job, lost, leaked, late>>

\* The file cannot be read, there is no transaction, a line is no URL, an insert or the
\* commit fails.  shutdownApp follows; nobody rolls the transaction back.
FileFails ==
    /\ \/ /\ main = "file" /\ Faults \cap {"db", "files"} # {}
          /\ UNCHANGED <<inUse, leaked>>
       \/ /\ main = "adding" /\ Faults \cap {"db", "files"} # {}
          /\ leaked' = leaked + 1 /\ UNCHANGED inUse
       \/ /\ main = "adding" /\ "db" \in Faults
          /\ Give /\ UNCHANGED leaked
    /\ main' = "reset"
    /\ UNCHANGED <<urls, sched, counted, jobs, pc, job, lost, late>>

-----------------------------------------------------------------------------
(***************************************************************************)
(* ... the select of runApp, and shutdownApp.                              *)
(***************************************************************************)

\* A signal; from now on nobody reads the two channels.
ReceiveSignal ==
    /\ main = "select"
    /\ main' = "reset"
    /\ UNCHANGED <<urls, sched, counted, jobs, pc, job, lost, inUse, leaked, late>>

ReceiveFatalOf(w) ==
    /\ main = "select" /\ pc[w] = "fatal"
    /\ main' = "reset"
    /\ Goto(w, "idle")
    /\ UNCHANGED <<urls, sched, counted, jobs, job, lost, inUse, leaked, late>>

\* The scheduler returns, and its deferred rollback ends the first transaction.
ReceiveFatalOfScheduler ==
    /\ main = "select"
    /\ \/ sched = "fatal" /\ UNCHANGED inUse
       \/ sched = "fatalCounting" /\ Give
    /\ main' = "reset"
    /\ sched' = "stopped"
    /\ UNCHANGED <<urls, counted, jobs, pc, job, lost, leaked, late>>

\* Mutant of Reset: only the rows that this process has marked.
ResetOwn ==
    /\ main = "reset"
    /\ Take
    /\ urls' = [u \in URL |-> IF urls[u] = "processing" /\ u \in late THEN "pending" ELSE urls[u]]
    /\ late' = {}
    /\ main' = "close"
    /\ UNCHANGED <<sched, counted, jobs, pc, job, lost, leaked>>

\* Shutdown: UPDATE urls SET being_processed=false.  The rows object of the query is
\* never closed, and keeps its connection.
Reset ==
    /\ main = "reset"
    /\ Take
    /\ urls' = [u \in URL |-> IF urls[u] = "processing" THEN "pending" ELSE urls[u]]
    /\ late' = {}
    /\ main' = "close"
    /\ UNCHANGED <<sched, counted, jobs, pc, job, lost, leaked>>

\* The UPDATE fails: the error is logged, and the shutdown goes on.
ResetFails ==
    /\ main = "reset" /\ "db" \in Faults
    /\ main' = "closeMarked"
    /\ UNCHANGED <<urls, sched, counted, jobs, pc, job, lost, inUse, leaked, late>>

\* The process is gone: PostgreSQL rolls back what is open.
Ends ==
    /\ main' = "down"
    /\ sched' = "stopped" /\ counted' = "none"
    /\ jobs' = {} /\ lost' = {}
    /\ pc' = [w \in Worker |-> "idle"]
    /\ job' = [w \in Worker |-> {}]
    /\ inUse' = 0 /\ leaked' = 0
    /\ UNCHANGED <<urls, late>>

\* db.Close and the return of main, or os.Exit.
Close == main \in {"close", "closeMarked"} /\ Ends

\* A list, or the database, cannot be read: shutdownApp calls Shutdown without a
\* connection, and the nil pointer ends the process.
StartFails ==
    /\ main = "connect" /\ Faults \cap {"db", "files"} # {}
    /\ Ends

\* A kill, a panic, a power failure.
Crash == "crash" \in Faults /\ Running /\ Ends

\* The operator starts the crawler again: nothing looks at being_processed.
Start ==
    /\ main = "down"
    /\ main' = "connect"
    /\ late' = {}
    /\ UNCHANGED <<urls, sched, counted, jobs, pc, job, lost, inUse, leaked>>

-----------------------------------------------------------------------------
SchedulerNext ==
    \/ BeginCount \/ EndCount \/ BeginSeed \/ EndSeed
    \/ Poll \/ EmptyPoll \/ EmptyRound \/ StartRound \/ EndRound

WorkerNext(w) == Receive(w) \/ NewTx(w) \/ NewTxFails(w) \/ Done(w) \/ Commit(w) \/ Rollback(w)

StartNext == Connect \/ BeginFile \/ CommitFile

MainNext == ReceiveFatalOfScheduler \/ (\E w \in Worker : ReceiveFatalOf(w)) \/ Reset \/ Close

Next ==
    \/ SchedulerNext \/ SchedulerFails
    \/ \E w \in Worker : WorkerNext(w)
    \/ StartNext \/ FileFails \/ StartFails
    \/ MainNext \/ ResetFails \/ ReceiveSignal \/ Crash \/ Start

Spec == Init /\ [][Next]_vars

\* Goroutines that can run do run.  Which of the waiting goroutines gets a connection
\* that comes back is left to chance (database/sql), so that main, when it asks again and
\* again, gets one: strong fairness.
Fairness ==
    /\ WF_vars(SchedulerNext) /\ WF_vars(StartNext) /\ WF_vars(MainNext)
    /\ \A w \in Worker : WF_vars(WorkerNext(w))
    /\ SF_vars(Reset)

FairSpec == Spec /\ Fairness

-----------------------------------------------------------------------------
SchedulerTx == IF sched \in {"counting", "seeding", "tx", "fatalCounting"} THEN 1 ELSE 0
MainConn == IF main \in {"adding", "close"} THEN 1 ELSE 0
WorkerTxs == {w \in Worker : pc[w] \in {"tx", "end"}}

\* Every connection that the pool has handed out is that of a transaction somebody will
\* end, or of one of those that the scheduler, or a failed start, has forgotten: the
\* workers leak none, on no path, and there are never more than MaxDbConnections.  (When
\* the deadline ends a transaction the driver may give its connection back a moment after
\* the worker has returned; Rollback takes the two for one.)
ConnectionsAccounted ==
    /\ inUse = leaked + SchedulerTx + MainConn + Cardinality(WorkerTxs)
    /\ inUse <= MaxDbConnections

\* Unless the UPDATE of Shutdown has failed, a row that is marked when the process has shut
\* itself down is one that the scheduler, which nobody stops, has marked since the UPDATE;
\* whatever this process, or one that crashed before it, had marked is in the queue again.
ShutdownUnmarks == [][main = "close" /\ Close => Rows("processing") \subseteq late]_vars

\* Between the UPDATE of Shutdown and the end of the process only rounds mark rows.
UnmarkedSinceReset == main = "close" => Rows("processing") \subseteq late

Starting == main \in {"connect", "file", "adding"}

\* Nobody but main has anything to do: the goroutines have not been started.
Alone == sched = "stopped" /\ jobs = {} /\ \A w \in Worker : pc[w] = "idle"

\* A start adds the rows of its seed file together, with the step that completes it, or,
\* when anything fails on the way, none of them, and it touches no row that is there.  The
\* shutdown after a start that failed takes marks away (those of an earlier process that
\* crashed), and that is all: it adds no row, removes none and marks none.
SeedsAllOrNone ==
    [][/\ Starting /\ urls' # urls =>
              /\ main' = "select"
              /\ \A u \in URL : urls[u] # "absent" => urls'[u] = urls[u]
       /\ main \in {"reset", "close", "closeMarked"} /\ Alone =>
              \A u \in URL : urls'[u] # urls[u] => urls[u] = "processing" /\ urls'[u] = "pending"]_vars

\* Until runApp, and once the process is gone, main is alone.
AloneAtStart == Starting \/ main = "down" => Alone

\* The inductive invariant behind the properties above.
LifecycleInv == TypeOK /\ ConnectionsAccounted /\ UnmarkedSinceReset /\ AloneAtStart

\* shutdownApp comes to its end, whatever has failed before or fails meanwhile, unless the
\* transactions that the scheduler has forgotten use up the whole pool.
ShutdownEndsUnlessDrained ==
    (main = "reset") ~> (main = "down" \/ leaked = MaxDbConnections)

\* "Press Ctrl+C to exit": shutdownApp comes to its end.
ShutdownEnds == (main = "reset") ~> (main = "down")
=============================================================================
