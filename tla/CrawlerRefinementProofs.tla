---------------------- MODULE CrawlerRefinementProofs ----------------------
(***************************************************************************)
(* The crawl loop implements Frontier: every step of a goroutine is a      *)
(* lease, the end of one, or nothing at all to the queue.                  *)
(***************************************************************************)
EXTENDS CrawlerRefinement, CrawlerTxProofs

USE DEF Tx

-----------------------------------------------------------------------------
(***************************************************************************)
(* The mapping.                                                            *)
(***************************************************************************)

\* What is leased is marked, until Shutdown takes the marks off.
LEMMA LeasedAreMarked ==
    ASSUME IInv, main # "reset"
    PROVE  \A u \in Leased : u \in URL /\ urls[u] = "processing"
  BY DEF IInv, Leased, SendQueue, TypeOK, JobsAreURLs, ClaimedRowsMarked

\* The state of a URL in Frontier.
LEMMA StateOf ==
    ASSUME TypeOK, NEW u \in URL
    PROVE  /\ FrontierState[u] \in Promise!State
           /\ u \in Leased => FrontierState[u] = "leased"
           /\ u \notin Leased /\ urls[u] = "absent" => FrontierState[u] = "none"
           /\ u \notin Leased /\ urls[u] = "pending" => FrontierState[u] = "queued"
           /\ u \notin Leased /\ urls[u] = "processing" => FrontierState[u] = "stuck"
  BY DEF FrontierState, Unleased, TypeOK, DbTypeOK, RowState, Promise!State

LEMMA NextStateOf ==
    ASSUME TypeOK'
    PROVE  FrontierState' \in [URL -> Promise!State]
  BY DEF FrontierState, Unleased, TypeOK, DbTypeOK, RowState, Promise!State

\* What the step means for unstuck, which is (main = "reset").
SamePhase == (main' = "reset") = (main = "reset")

\* A step that neither claims nor writes means nothing to Frontier.
LEMMA NothingHappens ==
    ASSUME urls' = urls, Leased' = Leased, SamePhase
    PROVE  UNCHANGED <<FrontierState, (main = "reset")>>
  BY DEF FrontierState, SamePhase

\* Only Shutdown's UPDATE begins the second phase, and nothing ends it.
LEMMA PhaseStays ==
    ASSUME IInv, [Next]_vars, ~ResetMarks
    PROVE  SamePhase
  <1>1. CASE \E w \in Worker : WorkerNext(w) \/ WorkerFails(w)
    BY <1>1, OthersStandStill DEF IInv, SamePhase
  <1>2. CASE SchedulerNext \/ SchedulerFails
    BY <1>2 DEF SchedulerNext, SchedulerFails, Poll, FetchSnapshotsFromHistory, InsertHistory,
       RequeryHosts, GetRandomUrlsFromHosts, CommitBatch, Send, Wait, SamePhase
  <1>3. CASE MainNext \/ ReceiveSignal \/ TimePasses \/ UNCHANGED vars
    BY <1>3 DEF MainNext, ReceiveFatalOfScheduler, ReceiveFatalOf, ReceiveSignal, TimePasses, vars,
       SamePhase
  <1> QED
    BY <1>1, <1>2, <1>3 DEF Next

\* A URL that keeps its row and its claim keeps its state.
LEMMA StateStays ==
    ASSUME TypeOK, TypeOK', NEW u \in URL, urls'[u] = urls[u], u \in Leased' <=> u \in Leased
    PROVE  FrontierState'[u] = FrontierState[u]
  BY DEF FrontierState

-----------------------------------------------------------------------------
(***************************************************************************)
(* Who is leased.                                                          *)
(***************************************************************************)

\* The steps of a worker in the middle of its job keep its claim.
LEMMA WorkerKeepsClaim ==
    ASSUME IInv, NEW w \in Worker, WorkerNext(w) \/ WorkerFails(w),
           ~CommitTx(w), ~CommitFails(w), ~RollbackTx(w), ~ReturnEarly(w)
    PROVE  Leased' = Leased
  <1>0. TypeOK
    BY DEF IInv
  <1>1. CASE Receive(w)
    <2>1. PICK u \in jobs : jobs' = jobs \ {u} /\ job' = [job EXCEPT ![w] = u]
      BY <1>1 DEF Receive
    <2>2. /\ pc[w] = "idle" /\ pc' = [pc EXCEPT ![w] = "start"] /\ UNCHANGED <<sched, batch>>
      BY <1>1 DEF Receive, Goto, schedVars
    <2>3. ~Active(w) /\ Active(w)' /\ job'[w] = u
      BY <1>0, <2>1, <2>2 DEF Active, TypeOK
    <2>4. \A v \in Worker : v # w => (Active(v)' <=> Active(v)) /\ job'[v] = job[v]
      BY <1>0, <2>1, <2>2 DEF Active, TypeOK
    <2>5. SendQueue' = SendQueue
      BY <2>2 DEF SendQueue
    <2> QED
      BY <2>1, <2>3, <2>4, <2>5 DEF Leased
  <1>2. CASE ~Receive(w)
    <2>1. UNCHANGED <<sched, batch, jobs, job>>
      BY <1>2 DEF WorkerNext, WorkerFails, RejectScheme, Refuse, Admit, Acquire,
         VisitGemini, VisitGopher, VisitRedirect, VisitBadRedirect, Brings, CheckLink, InsertLink,
         RejectLink, LinksStored, Identical, Different, Save, Release, Done, DeadlockVictim,
         DbFails, TimesOut, TimesOutLate, schedVars, queueVars, workerVars
    <2>2. \A v \in Worker : v # w => pc'[v] = pc[v]
      BY <1>0, <1>2 DEF WorkerNext, WorkerFails, RejectScheme, Refuse, Admit, Acquire,
         VisitGemini, VisitGopher, VisitRedirect, VisitBadRedirect, Brings, CheckLink, InsertLink,
         RejectLink, LinksStored, Identical, Different, Save, Release, Done, DeadlockVictim,
         DbFails, TimesOut, TimesOutLate, workerVars, Goto, Fail, TypeOK
    <2>3. Active(w) /\ Active(w)'
      <3>1. CASE DeadlockVictim(w)
        BY <1>0, <3>1 DEF DeadlockVictim, InDeadlock, WaitsFor, Fail, Goto, Active, TypeOK
      <3>2. CASE DbFails(w) \/ TimesOut(w)
        BY <1>0, <3>2 DEF DbFails, TimesOut, UsesDb, Fail, Goto, Active, TypeOK
      <3>3. CASE TimesOutLate(w)
        BY <1>0, <3>3 DEF TimesOutLate, Active, workerVars
      <3>4. CASE ~DeadlockVictim(w) /\ ~DbFails(w) /\ ~TimesOut(w) /\ ~TimesOutLate(w)
        BY <1>0, <1>2, <3>4 DEF WorkerNext, WorkerFails, RejectScheme, Refuse, Admit, Acquire,
           VisitGemini, VisitGopher, VisitRedirect, VisitBadRedirect, Brings, CheckLink, InsertLink,
           RejectLink, LinksStored, Identical, Different, Save, Release, Done,
           Goto, Fail, Active, TypeOK
      <3> QED
        BY <3>1, <3>2, <3>3, <3>4
    <2>4. SendQueue' = SendQueue
      BY <2>1 DEF SendQueue
    <2>5. \A v \in Worker : Active(v)' <=> Active(v)
      BY <2>2, <2>3 DEF Active
    <2> QED
      BY <2>1, <2>4, <2>5 DEF Leased
  <1> QED
    BY <1>1, <1>2

\* A worker that returns gives up its claim, and, until the reset, only it had that.
LEMMA ReturnDropsClaim ==
    ASSUME IInv, NEW w \in Worker, Active(w), NEW p \in {"idle", "fatal"}, Return(w, p),
           UNCHANGED <<sched, batch, jobs>>
    PROVE  /\ Leased' \subseteq Leased /\ Leased \ {job[w]} \subseteq Leased' /\ job[w] \in Leased
           /\ main # "reset" => Leased' = Leased \ {job[w]}
  <1>1. ~Active(w)'
    BY DEF Return, Goto, Active, IInv, TypeOK
  <1>2. \A v \in Worker : v # w => (Active(v)' <=> Active(v)) /\ job'[v] = job[v]
    BY DEF Return, Goto, Active, IInv, TypeOK
  <1>3. SendQueue' = SendQueue
    BY DEF SendQueue
  <1>4. main # "reset" => /\ job[w] \notin SendQueue \cup jobs
                          /\ \A v \in Worker : v # w /\ Active(v) => job[v] # job[w]
    BY DEF IInv, NoDoubleClaim, Claims
  <1> QED
    BY <1>1, <1>2, <1>3, <1>4 DEF Leased

\* The steps of the scheduler but for the commit, and those of main and of the clock.
LEMMA OthersKeepClaims ==
    ASSUME IInv,
           \/ Poll \/ FetchSnapshotsFromHistory \/ InsertHistory \/ RequeryHosts
           \/ GetRandomUrlsFromHosts \/ Send \/ Wait \/ SchedulerFails
           \/ MainNext \/ ReceiveSignal \/ ResetMarks \/ TimePasses \/ UNCHANGED vars
    PROVE  Leased' = Leased
  <1>0. TypeOK
    BY DEF IInv
  <1>1. CASE \/ Poll \/ FetchSnapshotsFromHistory \/ InsertHistory \/ RequeryHosts
             \/ GetRandomUrlsFromHosts \/ Wait \/ SchedulerFails
    <2>1. UNCHANGED <<jobs, pc, job>> /\ sched # "send" /\ sched' # "send"
      BY <1>1 DEF Poll, FetchSnapshotsFromHistory, InsertHistory, RequeryHosts, GetRandomUrlsFromHosts,
         Wait, SchedulerFails, InSchedulerTx, queueVars, workerVars
    <2> QED
      BY <2>1 DEF Leased, SendQueue, Active
  <1>2. CASE Send
    <2>1. PICK u \in batch : jobs' = jobs \cup {u} /\ batch' = batch \ {u}
      BY <1>2 DEF Send
    <2>2. /\ sched = "send" /\ sched' = (IF batch' = {} THEN "wait" ELSE "send")
          /\ UNCHANGED <<pc, job>>
      BY <1>2 DEF Send, workerVars
    <2>3. SendQueue' \cup jobs' = SendQueue \cup jobs
      BY <2>1, <2>2 DEF SendQueue
    <2> QED
      BY <2>2, <2>3 DEF Leased, Active
  <1>3. CASE MainNext \/ ReceiveSignal \/ ResetMarks \/ TimePasses \/ UNCHANGED vars
    <2>1. UNCHANGED <<batch, jobs, job>>
      BY <1>3 DEF MainNext, ReceiveFatalOfScheduler, ReceiveFatalOf, ReceiveSignal, ResetMarks, TimePasses,
         schedVars, queueVars, workerVars, vars
    <2>2. SendQueue' = SendQueue
      BY <1>3 DEF MainNext, ReceiveFatalOfScheduler, ReceiveFatalOf, ReceiveSignal, ResetMarks, TimePasses,
         schedVars, vars, SendQueue
    <2>3. \A v \in Worker : Active(v)' <=> Active(v)
      BY <1>0, <1>3 DEF MainNext, ReceiveFatalOfScheduler, ReceiveFatalOf, ReceiveSignal, ResetMarks, TimePasses,
         workerVars, vars, Active, Goto, TypeOK
    <2> QED
      BY <2>1, <2>2, <2>3 DEF Leased
  <1> QED
    BY <1>1, <1>2, <1>3

-----------------------------------------------------------------------------
(***************************************************************************)
(* The steps of Frontier.                                                  *)
(***************************************************************************)

\* MarkURLsAsBeingProcessed and Commit lease the batch, and the recrawled roots that are
\* not in the batch enter the queue.
LEMMA BatchIsLeased ==
    ASSUME IInv, IInv', CommitBatch
    PROVE  Promise!Lease
  <1>0. TypeOK /\ TypeOK' /\ DbTypeOK /\ DatabaseAssumption /\ batch \in SUBSET URL
    BY DatabaseAssumption DEF IInv, TypeOK
  <1>1. /\ sched = "commit" /\ MarkAndCommit(Scheduler, batch)
        /\ sched' = (IF batch = {} THEN "poll" ELSE "send")
        /\ UNCHANGED <<batch, jobs, pc, job>>
    BY DEF CommitBatch, workerVars
  <1>2. Leased' = Leased \cup batch
    BY <1>1 DEF Leased, SendQueue, Active
  <1>3. /\ \A u \in batch : urls[u] # "processing"
        /\ \A u \in ins[Scheduler] : urls[u] = "absent"
        /\ del[Scheduler] = {}
    BY <1>1 DEF IInv, BatchStillPending, InsertsAreNew, DeletesAreOwn
  <1>4. SamePhase
    BY PhaseStays DEF CommitBatch, ResetMarks, SamePhase
  <1>5. ASSUME NEW u \in URL
        PROVE  \/ FrontierState'[u] = FrontierState[u]
               \/ FrontierState[u] = "none" /\ FrontierState'[u] = "queued"
               \/ FrontierState[u] \in {"none", "queued"} /\ FrontierState'[u] = "leased"
    <2>1. CASE u \in batch
      <3>1. urls[u] \in {"pending", "absent"} /\ u \in Leased'
        BY <1>0, <1>2, <1>3, <2>1 DEF DbTypeOK, RowState
      <3>2. FrontierState[u] \in {"none", "queued", "leased"}
        BY <1>0, <3>1, StateOf
      <3>3. FrontierState'[u] = "leased"
        BY <3>1 DEF FrontierState
      <3> QED
        BY <3>2, <3>3
    <2>2. CASE u \notin batch /\ u \in ins[Scheduler]
      <3>1. urls[u] = "absent" /\ urls'[u] = "pending" /\ (u \in Leased' <=> u \in Leased)
        BY <1>0, <1>1, <1>2, <1>3, <2>2, CommitEffect
      <3> QED
        BY <3>1 DEF FrontierState, Unleased
    <2>3. CASE u \notin batch /\ u \notin ins[Scheduler]
      <3>1. urls'[u] = urls[u] /\ (u \in Leased' <=> u \in Leased)
        BY <1>0, <1>1, <1>2, <1>3, <2>3, CommitEffect
      <3> QED
        BY <1>0, <3>1, StateStays
    <2> QED
      BY <2>1, <2>2, <2>3
  <1> QED
    BY <1>0, <1>4, <1>5, NextStateOf DEF Promise!Lease, Promise!StaysOrEnters, SamePhase

\* The commit of a worker that has done all its work completes the lease of its job, and
\* the links of the page enter the queue in the same step.
LEMMA WorkIsCompleted ==
    ASSUME IInv, IInv', main # "reset", NEW w \in Worker, CommitTx(w), del[w] = {job[w]}
    PROVE  Promise!Complete
  <1>0. TypeOK /\ TypeOK' /\ DbTypeOK /\ DatabaseAssumption
    BY DatabaseAssumption DEF IInv, TypeOK
  <1>1. MarkAndCommit(w, {}) /\ Return(w, "idle") /\ Active(w) /\ UNCHANGED <<sched, batch, jobs, main>>
    BY DEF CommitTx, Commit, Active, schedVars, queueVars
  <1>2. Leased' = Leased \ {job[w]} /\ job[w] \in Leased
    BY <1>1, ReturnDropsClaim
  <1>3. /\ \A u \in Leased : u \in URL /\ urls[u] = "processing"
        /\ \A u \in ins[w] : urls[u] = "absent"
    BY LeasedAreMarked DEF IInv, InsertsAreNew
  <1>4. FrontierState[job[w]] = "leased" /\ FrontierState'[job[w]] = "none"
    <2>1. job[w] \in URL /\ job[w] \notin ins[w] /\ job[w] \notin Leased'
      BY <1>2, <1>3
    <2>2. urls'[job[w]] = "absent"
      BY <1>0, <1>1, <2>1, CommitEffect
    <2> QED
      BY <1>2, <2>1, <2>2 DEF FrontierState, Unleased
  <1>5. ASSUME NEW u \in URL \ {job[w]}
        PROVE  \/ FrontierState'[u] = FrontierState[u]
               \/ FrontierState[u] = "none" /\ FrontierState'[u] = "queued"
    <2>1. CASE u \in ins[w]
      <3>1. urls[u] = "absent" /\ urls'[u] = "pending" /\ u \notin Leased /\ u \notin Leased'
        BY <1>0, <1>1, <1>2, <1>3, <2>1, CommitEffect
      <3> QED
        BY <3>1 DEF FrontierState, Unleased
    <2>2. CASE u \notin ins[w]
      <3>1. urls'[u] = urls[u] /\ (u \in Leased' <=> u \in Leased)
        BY <1>0, <1>1, <1>2, <2>2, CommitEffect
      <3> QED
        BY <1>0, <3>1, StateStays
    <2> QED
      BY <2>1, <2>2
  <1>6. job[w] \in URL
    BY <1>2, <1>3
  <1> QED
    BY <1>0, <1>1, <1>4, <1>5, <1>6, NextStateOf DEF Promise!Complete, Promise!StaysOrEnters

\* A worker that returns and commits nothing leaves the row of its job marked.
LEMMA WorkIsAbandoned ==
    ASSUME IInv, IInv', main # "reset", main' = main, MayAbandon, NEW w \in Worker, Active(w),
           urls' = urls, Leased' = Leased \ {job[w]}, job[w] \in Leased
    PROVE  Promise!Abandon
  <1>0. TypeOK /\ TypeOK'
    BY DEF IInv
  <1>1. job[w] \in URL /\ urls[job[w]] = "processing"
    BY LeasedAreMarked
  <1>2. FrontierState[job[w]] = "leased" /\ FrontierState'[job[w]] = "stuck"
    BY <1>1 DEF FrontierState, Unleased
  <1>3. \A u \in URL \ {job[w]} : FrontierState'[u] = FrontierState[u]
    BY <1>0, StateStays
  <1>4. FrontierState' = [FrontierState EXCEPT ![job[w]] = "stuck"]
    BY <1>1, <1>2, <1>3 DEF FrontierState
  <1> QED
    BY <1>1, <1>2, <1>4 DEF Promise!Abandon

\* After the reset, the end of a worker's transaction, whatever it commits, ends the lease
\* of its job at most, and its links enter the queue.
LEMMA WorkIsDrained ==
    ASSUME IInv, IInv', main = "reset", main' = main, NEW w \in Worker, Active(w),
           MarkAndCommit(w, {}) \/ urls' = urls,
           Leased' \subseteq Leased, Leased \ {job[w]} \subseteq Leased', job[w] \in Leased
    PROVE  Promise!Drain
  <1>0. TypeOK /\ TypeOK' /\ DbTypeOK /\ DatabaseAssumption
    BY DatabaseAssumption DEF IInv, TypeOK
  <1>1. job[w] \in URL /\ FrontierState[job[w]] = "leased"
    BY DEF IInv, JobsAreURLs, FrontierState
  <1>2. ASSUME NEW u \in URL \ {job[w]}
        PROVE  \/ FrontierState'[u] = FrontierState[u]
               \/ FrontierState[u] = "none" /\ FrontierState'[u] = "queued"
    <2>1. u \in Leased' <=> u \in Leased
      OBVIOUS
    <2>2. CASE MarkAndCommit(w, {}) /\ u \in ins[w]
      <3>1. urls[u] = "absent" /\ urls'[u] = "pending"
        BY <1>0, <2>2, CommitEffect DEF IInv, InsertsAreNew
      <3> QED
        BY <2>1, <3>1 DEF FrontierState, Unleased
    <2>3. CASE urls' = urls \/ u \notin ins[w]
      <3>1. u \notin del[w]
        BY DEF IInv, DeletesAreOwn
      <3>2. urls'[u] = urls[u]
        BY <1>0, <2>3, <3>1, CommitEffect
      <3> QED
        BY <1>0, <2>1, <3>2, StateStays
    <2> QED
      BY <2>2, <2>3
  <1> QED
    BY <1>0, <1>1, <1>2, NextStateOf DEF Promise!Drain, Promise!StaysOrEnters

\* Shutdown's UPDATE queues what is stuck and leaves the leases.
LEMMA MarksAreReset ==
    ASSUME IInv, IInv', ResetMarks
    PROVE  Promise!Unstick
  <1>0. TypeOK /\ DbTypeOK /\ Leased' = Leased
    BY OthersKeepClaims DEF IInv, TypeOK
  <1>1. /\ main = "shutdown" /\ main' = "reset"
        /\ \A u \in URL : urls'[u] = IF urls[u] = "processing" THEN "pending" ELSE urls[u]
    BY DEF ResetMarks, UnmarkAll
  <1>2. ASSUME NEW u \in URL
        PROVE  FrontierState'[u] = IF FrontierState[u] = "stuck" THEN "queued" ELSE FrontierState[u]
    <2>1. CASE u \in Leased
      BY <1>0, <2>1 DEF FrontierState
    <2>2. CASE u \notin Leased
      <3>1. /\ FrontierState[u] = Unleased[urls[u]] /\ FrontierState'[u] = Unleased[urls'[u]]
            /\ urls[u] \in {"absent", "pending", "processing"}
        BY <1>0, <2>2 DEF FrontierState, DbTypeOK, RowState
      <3> QED
        BY <1>1, <3>1 DEF Unleased
    <2> QED
      BY <2>1, <2>2
  <1>3. FrontierState' = [u \in URL |-> IF FrontierState[u] = "stuck" THEN "queued" ELSE FrontierState[u]]
    BY <1>2 DEF FrontierState
  <1> QED
    BY <1>1, <1>3 DEF Promise!Unstick

-----------------------------------------------------------------------------
(***************************************************************************)
(* Where nothing fails, no visit ends without a result.                    *)
(***************************************************************************)

\* A worker that does not move stays undisturbed.
LEMMA StaysUndisturbed ==
    ASSUME NEW v \in Worker, Undisturbed(v), SameWorker(v), main = "reset" => main' = "reset"
    PROVE  Undisturbed(v)'
  BY DEF Undisturbed, BeforeVisit, SameWorker

\* Two pages cannot wait for each other: a page has one link, and who waits to insert it
\* has inserted nothing.
LEMMA NoCycleOfWaits ==
    ASSUME IInv, NothingFails, \A v \in Worker : Undisturbed(v), NEW w \in Worker
    PROVE  ~DeadlockVictim(w)
  <1> SUFFICES ASSUME DeadlockVictim(w)
               PROVE  FALSE
    OBVIOUS
  <1>1. PICK S \in SUBSET Worker : w \in S /\ InDeadlock(S)
    BY DEF DeadlockVictim
  <1>2. PICK o \in S : WaitsFor(w, o)
    BY <1>1 DEF InDeadlock
  <1>3. \E x \in S : WaitsFor(o, x)
    BY <1>1 DEF InDeadlock
  <1>4. pc[o] \in {"redirect", "links"} /\ link[o] # NoURL
    BY <1>3 DEF WaitsFor
  <1>5. link[o] \in found[o] \ stored[o] /\ stored[o] \subseteq found[o] /\ ins[o] \subseteq stored[o]
    BY <1>4 DEF Undisturbed
  <1>6. ins[o] = {}
    BY <1>5 DEF Undisturbed
  <1>7. del[o] = {}
    BY <1>4 DEF IInv, DeletesAreOwn
  <1> QED
    BY <1>2, <1>6, <1>7 DEF WaitsFor

\* None of the steps that end a visit without a result is taken.
LEMMA NothingGoesWrong ==
    ASSUME IInv, TxInv, NothingFails, \A v \in Worker : Undisturbed(v), NEW w \in Worker
    PROVE  /\ ~ReturnEarly(w) /\ ~RejectScheme(w) /\ ~VisitBadRedirect(w) /\ ~RejectLink(w)
           /\ ~RollbackTx(w) /\ ~DeadlockVictim(w) /\ ~WorkerFails(w)
  <1>1. ~ReturnEarly(w)
    BY DEF ReturnEarly, NothingFails
  <1>2. ~RejectScheme(w)
    <2> SUFFICES ASSUME RejectScheme(w)
                 PROVE  FALSE
      OBVIOUS
    <2>1. Active(w) /\ job[w] \in URL /\ ~Supported(job[w])
      BY DEF RejectScheme, Active, IInv, JobsAreURLs
    <2>2. Scheme[job[w]] \in {"gemini", "gopher", "other"}
      BY <2>1, CrawlerAssumption
    <2>3. ~GopherEnable => Scheme[job[w]] = "gemini"
      BY <2>1 DEF TxInv, WorkerTxInv, OnlyGemini
    <2> QED
      BY <2>1, <2>2, <2>3 DEF Supported, NothingFails
  <1>3. ~VisitBadRedirect(w) /\ ~RejectLink(w)
    BY DEF VisitBadRedirect, RejectLink, NothingFails
  <1>4. ~RollbackTx(w)
    BY DEF RollbackTx, Undisturbed
  <1>5. ~WorkerFails(w)
    BY DEF WorkerFails, CommitFails, DbFails, TimesOut, TimesOutLate, NothingFails
  <1> QED
    BY <1>1, <1>2, <1>3, <1>4, <1>5, NoCycleOfWaits

\* The steps of a worker, where nothing fails.
LEMMA WorkerStaysUndisturbed ==
    ASSUME IInv, TxInv, NothingFails, \A v \in Worker : Undisturbed(v), NEW w \in Worker,
           WorkerNext(w) \/ WorkerFails(w)
    PROVE  \A v \in Worker : Undisturbed(v)'
  <1>0. TypeOK /\ DbTypeOK /\ DatabaseAssumption /\ Undisturbed(w)
    BY DatabaseAssumption DEF IInv, TypeOK
  <1>1. (\A v \in Worker : v # w => SameWorker(v)) /\ main' = main
    BY OthersStandStill DEF IInv
  <1>2. SUFFICES Undisturbed(w)'
    BY <1>1, StaysUndisturbed
  <1>3. CASE Receive(w)
    <2>1. /\ pc[w] = "idle" /\ pc'[w] = "start"
          /\ UNCHANGED <<ins, del, res, found, stored, link>>
      BY <1>0, <1>3 DEF Receive, Goto, dbVars, pageVars, TypeOK
    <2> QED
      BY <1>0, <1>1, <2>1 DEF Undisturbed, BeforeVisit
  <1>4. CASE Refuse(w) \/ Admit(w) \/ Acquire(w)
    <2>1. /\ BeforeVisit(w) /\ pc'[w] \in {"refuse", "acquire", "visit"}
          /\ UNCHANGED <<ins, del, job, res, found, stored, link>>
      BY <1>0, <1>4 DEF Refuse, Admit, Acquire, Goto, dbVars, pageVars, TypeOK, BeforeVisit
    <2> QED
      BY <1>0, <1>1, <2>1 DEF Undisturbed, BeforeVisit
  <1>5. CASE VisitGemini(w) \/ VisitGopher(w) \/ VisitRedirect(w)
    <2>1. /\ pc[w] = "visit" /\ pc'[w] \in {"compare", "redirect"}
          /\ UNCHANGED <<ins, del, job, res, stored, link>>
      BY <1>0, <1>5 DEF VisitGemini, VisitGopher, VisitRedirect, Brings, Goto, dbVars, TypeOK
    <2>2. \A k, l \in found'[w] : k = l
      <3>1. CASE VisitRedirect(w)
        <4>1. PICK target \in Redirects \ {NoURL} :
                 found' = [found EXCEPT ![w] = {u \in {target} : ShouldPersist(u)}]
          BY <3>1 DEF VisitRedirect
        <4> QED
          BY <1>0, <4>1 DEF TypeOK
      <3>2. CASE VisitGemini(w) \/ VisitGopher(w)
        <4>1. PICK L \in PageLinks \cup {{}} : found' = [found EXCEPT ![w] = {l \in L : ShouldPersist(l)}]
          BY <3>2 DEF VisitGemini, VisitGopher, Brings
        <4>2. \A k, l \in L : k = l
          BY <4>1 DEF NothingFails
        <4> QED
          BY <1>0, <4>1, <4>2 DEF TypeOK
      <3> QED
        BY <1>5, <3>1, <3>2
    <2>3. ins[w] = {} /\ stored[w] = {} /\ link[w] = NoURL
      BY <1>0, <1>1, <2>1 DEF Undisturbed, BeforeVisit
    <2> QED
      BY <1>0, <2>1, <2>2, <2>3 DEF Undisturbed, BeforeVisit
  <1>6. CASE CheckLink(w)
    <2>1. /\ pc[w] \in {"redirect", "links"} /\ link[w] = NoURL
          /\ UNCHANGED <<ins, del, pc, job, res, found>>
      BY <1>6 DEF CheckLink, dbVars
    <2>2. PICK l \in found[w] \ stored[w] :
             IF Visited(w, l)
             THEN stored' = [stored EXCEPT ![w] = @ \cup {l}] /\ UNCHANGED link
             ELSE link' = [link EXCEPT ![w] = l] /\ UNCHANGED stored
      BY <1>6 DEF CheckLink
    <2>3. \/ stored'[w] = stored[w] \cup {l} /\ link'[w] = NoURL
          \/ link'[w] = l /\ stored'[w] = stored[w]
      BY <1>0, <2>1, <2>2 DEF TypeOK
    <2> QED
      BY <1>0, <1>1, <2>1, <2>3 DEF Undisturbed, BeforeVisit
  <1>7. CASE InsertLink(w)
    <2>1. /\ pc[w] \in {"redirect", "links"} /\ link[w] # NoURL /\ InsertURL(w, link[w])
          /\ UNCHANGED <<del, pc, job, res, found>>
      BY <1>7 DEF InsertLink
    <2>2. /\ stored'[w] = stored[w] \cup {link[w]} /\ link'[w] = NoURL
          /\ ins'[w] \subseteq ins[w] \cup {link[w]}
      BY <1>0, <1>7, <2>1 DEF InsertLink, InsertURL, DbTypeOK, TypeOK
    <2> QED
      BY <1>0, <2>1, <2>2 DEF Undisturbed, BeforeVisit
  <1>8. CASE LinksStored(w) \/ Different(w)
    <2>1. /\ pc'[w] \in {"compare", "links", "save"}
          /\ UNCHANGED <<ins, del, job, res, found, stored, link>>
      BY <1>0, <1>8 DEF LinksStored, Different, Goto, dbVars, pageVars, TypeOK
    <2> QED
      BY <1>0, <1>1, <2>1 DEF Undisturbed, BeforeVisit
  <1>9. CASE Identical(w) \/ Save(w)
    <2>1. /\ pc[w] \in {"compare", "save", "refuse"} /\ pc'[w] \in {"release", "done"}
          /\ DeleteURL(w, job[w]) /\ UNCHANGED <<job, res, found, stored, link>>
      BY <1>0, <1>9 DEF Identical, Save, Goto, Holding, pageVars, TypeOK
    <2>2. job[w] \in URL /\ del[w] = {} /\ (main # "reset" => urls[job[w]] = "processing")
      BY <2>1 DEF IInv, JobsAreURLs, ClaimedRowsMarked, DeletesAreOwn, Active
    <2>3. ins'[w] \subseteq ins[w] /\ (main # "reset" => del'[w] = {job[w]})
      BY <1>0, <2>1, <2>2 DEF DeleteURL, DbTypeOK
    <2> QED
      BY <1>0, <1>1, <2>1, <2>3 DEF Undisturbed, BeforeVisit
  <1>10. CASE Release(w) \/ Done(w)
    <2>1. /\ pc[w] \in {"release", "done"} /\ pc'[w] \in {"done", "end"}
          /\ UNCHANGED <<ins, del, job, res, found, stored, link>>
      BY <1>0, <1>10 DEF Release, Done, Goto, dbVars, pageVars, TypeOK
    <2> QED
      BY <1>0, <1>1, <2>1 DEF Undisturbed, BeforeVisit
  <1>11. CASE CommitTx(w)
    <2>1. /\ Forget(w) /\ pc'[w] = "idle" /\ res'[w] = "ok"
          /\ found'[w] = {} /\ stored'[w] = {} /\ link'[w] = NoURL
      BY <1>0, <1>11 DEF CommitTx, Commit, MarkAndCommit, Return, Goto, TypeOK
    <2>2. ins'[w] = {}
      BY <1>0, <2>1, ForgetEffect
    <2> QED
      BY <2>1, <2>2 DEF Undisturbed, BeforeVisit
  <1> QED
    BY <1>3, <1>4, <1>5, <1>6, <1>7, <1>8, <1>9, <1>10, <1>11, NothingGoesWrong DEF WorkerNext

\* The scheduler, main, a signal and the clock leave the workers alone, but for one that
\* is blocked on FatalErrorsChan.
LEMMA OthersLeaveWorkers ==
    ASSUME IInv, \A v \in Worker : pc[v] # "fatal", NEW v \in Worker,
           \/ SchedulerNext \/ SchedulerFails
           \/ MainNext \/ ReceiveSignal \/ ResetMarks \/ TimePasses \/ UNCHANGED vars
    PROVE  SameWorker(v)
  <1>0. TypeOK /\ DbTypeOK /\ DatabaseAssumption
    BY DatabaseAssumption DEF IInv, TypeOK
  <1>1. UNCHANGED workerVars
    BY DEF SchedulerNext, Poll, FetchSnapshotsFromHistory, InsertHistory, RequeryHosts,
       GetRandomUrlsFromHosts, CommitBatch, Send, Wait, SchedulerFails, MainNext, ReceiveFatalOf,
       ReceiveFatalOfScheduler, ReceiveSignal, ResetMarks, TimePasses, vars, workerVars
  <1>2. ins'[v] = ins[v] /\ del'[v] = del[v] /\ wrote'[v] = wrote[v]
    <2>1. CASE InsertHistory
      <3>1. PICK u \in batch : InsertURL(Scheduler, u)
        BY <2>1 DEF InsertHistory
      <3>2. UNCHANGED <<del, wrote>> /\ u \in URL
        BY <1>0, <2>1 DEF InsertHistory, TypeOK
      <3> QED
        BY <1>0, <3>1, <3>2, InsertURLEffect
    <2>2. CASE CommitBatch \/ SchedulerFails
      <3>1. Forget(Scheduler)
        BY <2>2 DEF CommitBatch, MarkAndCommit, SchedulerFails, Discard
      <3> QED
        BY <1>0, <3>1, ForgetLeavesOthers
    <2>3. CASE ~InsertHistory /\ ~CommitBatch /\ ~SchedulerFails
      BY <2>3 DEF SchedulerNext, Poll, FetchSnapshotsFromHistory, RequeryHosts,
         GetRandomUrlsFromHosts, Send, Wait, MainNext, ReceiveFatalOf, ReceiveFatalOfScheduler,
         ReceiveSignal, ResetMarks, UnmarkAll, TimePasses, AgeSnapshot, AgeHistory, dbVars, vars
    <2> QED
      BY <2>1, <2>2, <2>3
  <1> QED
    BY <1>1, <1>2 DEF SameWorker, workerVars

LEMMA UndisturbedNext == IInv /\ TxInv /\ UndisturbedInv /\ [Next]_vars => UndisturbedInv'
  <1> SUFFICES ASSUME IInv, TxInv, [Next]_vars, NothingFails, \A w \in Worker : Undisturbed(w)
               PROVE  \A w \in Worker : Undisturbed(w)'
    BY DEF UndisturbedInv, NothingFails
  <1>1. CASE \E w \in Worker : WorkerNext(w) \/ WorkerFails(w)
    BY <1>1, WorkerStaysUndisturbed
  <1>2. CASE \/ SchedulerNext \/ SchedulerFails
             \/ MainNext \/ ReceiveSignal \/ ResetMarks \/ TimePasses \/ UNCHANGED vars
    <2>1. \A v \in Worker : pc[v] # "fatal"
      BY DEF Undisturbed
    <2>2. main = "reset" => main' = "reset"
      BY PhaseStays DEF SamePhase, ResetMarks
    <2> QED
      BY <1>2, <2>1, <2>2, OthersLeaveWorkers, StaysUndisturbed
  <1> QED
    BY <1>1, <1>2 DEF Next

\* Where nothing fails, every worker gets through its job.
LEMMA UndisturbedInvariance == Spec => []UndisturbedInv
  <1>1. Init => UndisturbedInv
    BY DatabaseAssumption DEF Init, DbInit, UndisturbedInv, Undisturbed, BeforeVisit
  <1> QED
    BY <1>1, UndisturbedNext, Invariance, TxInvariance, PTL DEF Spec

-----------------------------------------------------------------------------
(***************************************************************************)
(* The refinement.                                                         *)
(***************************************************************************)

\* The crawler starts with no lease; rows may be stuck from an earlier run.
LEMMA FrontierInit == Init => Promise!Init
  <1> SUFFICES ASSUME Init
               PROVE  Promise!Init
    OBVIOUS
  <1>1. Leased = {}
    BY DEF Init, Leased, SendQueue, Active
  <1>2. urls \in [URL -> RowState] /\ main # "reset"
    BY DEF Init, DbInit
  <1> QED
    BY <1>1, <1>2 DEF Promise!Init, Promise!State, FrontierState, Unleased, RowState

\* The end of a worker's transaction: the lease is over, with all of the work or with none.
LEMMA WorkEnds ==
    ASSUME IInv, IInv', TxInv, UndisturbedInv, NEW w \in Worker,
           CommitTx(w) \/ CommitFails(w) \/ RollbackTx(w) \/ ReturnEarly(w)
    PROVE  Promise!Next
  <1>0. TypeOK /\ DbTypeOK /\ DatabaseAssumption
    BY DatabaseAssumption DEF IInv, TypeOK
  <1>1. Active(w) /\ UNCHANGED <<sched, batch, jobs, main>>
    BY DEF CommitTx, CommitFails, RollbackTx, ReturnEarly, Active, schedVars, queueVars
  <1>2. PICK p \in {"idle", "fatal"} : Return(w, p)
    BY DEF CommitTx, CommitFails, RollbackTx, ReturnEarly
  <1>3. /\ Leased' \subseteq Leased /\ Leased \ {job[w]} \subseteq Leased' /\ job[w] \in Leased
        /\ main # "reset" => Leased' = Leased \ {job[w]}
    BY <1>1, <1>2, ReturnDropsClaim
  <1>a. CASE main = "reset"
    <2>1. MarkAndCommit(w, {}) \/ urls' = urls
      BY DEF CommitTx, Commit, CommitFails, RollbackTx, ReturnEarly, Discard, dbVars, tables
    <2> QED
      BY <1>1, <1>3, <1>a, <2>1, WorkIsDrained DEF Promise!Next
  <1>4. CASE main # "reset" /\ CommitTx(w) /\ del[w] = {job[w]}
    BY <1>4, WorkIsCompleted DEF Promise!Next
  <1>5. CASE main # "reset" /\ CommitTx(w) /\ del[w] # {job[w]}
    <2>1. ins[w] = {} /\ del[w] = {} /\ pc[w] = "end"
      BY <1>5 DEF CommitTx, TxInv, WorkerTxInv, AllOrNothing
    <2>2. MarkAndCommit(w, {})
      BY <1>5 DEF CommitTx, Commit
    <2>3. urls' = urls
      <3>1. urls' = [u \in URL |-> urls[u]]
        BY <2>1, <2>2 DEF MarkAndCommit
      <3> QED
        BY <1>0, <3>1 DEF DbTypeOK
    <2>4. MayAbandon
      BY <1>5, <2>1, RefinementAssumption DEF UndisturbedInv, Undisturbed
    <2> QED
      BY <1>1, <1>3, <1>5, <2>3, <2>4, WorkIsAbandoned DEF Promise!Next
  <1>6. CASE main # "reset" /\ (CommitFails(w) \/ RollbackTx(w) \/ ReturnEarly(w))
    <2>1. urls' = urls
      BY <1>6 DEF CommitFails, RollbackTx, ReturnEarly, Discard, dbVars, tables
    <2>2. MayAbandon
      BY <1>6, RefinementAssumption, NothingGoesWrong DEF UndisturbedInv, WorkerFails
    <2> QED
      BY <1>1, <1>3, <1>6, <2>1, <2>2, WorkIsAbandoned DEF Promise!Next
  <1> QED
    BY <1>a, <1>4, <1>5, <1>6

LEMMA FrontierNext ==
    IInv /\ IInv' /\ TxInv /\ UndisturbedInv /\ [Next]_vars
        => [Promise!Next]_<<FrontierState, (main = "reset")>>
  <1> SUFFICES ASSUME IInv, IInv', TxInv, UndisturbedInv, [Next]_vars
               PROVE  [Promise!Next]_<<FrontierState, (main = "reset")>>
    OBVIOUS
  <1>1. CASE CommitBatch
    BY <1>1, BatchIsLeased DEF Promise!Next
  <1>2. CASE \E w \in Worker : CommitTx(w) \/ CommitFails(w) \/ RollbackTx(w) \/ ReturnEarly(w)
    BY <1>2, WorkEnds
  <1>4. CASE ResetMarks
    BY <1>4, MarksAreReset DEF Promise!Next
  <1>3. CASE /\ ~CommitBatch /\ ~ResetMarks
             /\ ~\E w \in Worker : CommitTx(w) \/ CommitFails(w) \/ RollbackTx(w) \/ ReturnEarly(w)
    <2>1. urls' = urls
      BY <1>3, OnlyCommitsWrite
    <2>2. Leased' = Leased
      <3>1. CASE \E w \in Worker : WorkerNext(w) \/ WorkerFails(w)
        BY <1>3, <3>1, WorkerKeepsClaim
      <3>2. CASE SchedulerNext \/ SchedulerFails \/ MainNext \/ ReceiveSignal \/ TimePasses \/ UNCHANGED vars
        BY <1>3, <3>2, OthersKeepClaims DEF SchedulerNext
      <3> QED
        BY <1>3, <3>1, <3>2 DEF Next
    <2> QED
      BY <1>3, <2>1, <2>2, PhaseStays, NothingHappens
  <1> QED
    BY <1>1, <1>2, <1>3, <1>4

\* The crawl loop implements Frontier: every lease is of a row that was free, is held by
\* one goroutine at a time, and ends with the row's removal and the new links in one step,
\* or, where something can fail, with a row that stays marked (runJobScheduler,
\* RunWorkerWithTx, WorkOnUrl), until Database.Shutdown queues the marked rows again; from
\* then on a commit still ends one lease at most and takes no row that is not leased.
THEOREM FrontierIsImplemented == Spec => ImplementsFrontier
  BY FrontierInit, FrontierNext, Invariance, TxInvariance, UndisturbedInvariance, PTL
     DEF Spec, ImplementsFrontier, Promise!Spec
=============================================================================
