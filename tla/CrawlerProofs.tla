--------------------------- MODULE CrawlerProofs ---------------------------
(***************************************************************************)
(* Proofs that the safety properties of Crawler hold for every set of      *)
(* URLs and workers, every configuration and every choice of faults.       *)
(***************************************************************************)
EXTENDS CrawlerInvariant, FiniteSetTheorems, TLAPS

-----------------------------------------------------------------------------
(***************************************************************************)
(* Operators of the database.                                              *)
(***************************************************************************)

USE DEF Tx

\* An insert keeps the types, touches the transaction t only, and adds at most u, and
\* that only when t does not see a row and nobody else has inserted one (InsertURL).
LEMMA InsertURLEffect ==
    ASSUME NEW t \in Tx, NEW u \in URL, DbTypeOK, InsertURL(t, u)
    PROVE  /\ ins' \in [Tx -> SUBSET URL]
           /\ \A o \in Tx : o # t => ins'[o] = ins[o]
           /\ ins'[t] = ins[t] \/ (/\ ins'[t] = ins[t] \cup {u} /\ ~Sees(t, u)
                                   /\ \A o \in Tx : o # t => u \notin ins[o])
  BY DEF InsertURL, DbTypeOK, LockFree

\* A delete keeps the types and touches the transaction t only (DeleteURL).
LEMMA DeleteURLEffect ==
    ASSUME NEW t \in Tx, NEW u \in URL, DbTypeOK, DeleteURL(t, u)
    PROVE  /\ ins' \in [Tx -> SUBSET URL] /\ del' \in [Tx -> SUBSET URL]
           /\ \A o \in Tx : o # t => ins'[o] = ins[o] /\ del'[o] = del[o]
           /\ ins'[t] \subseteq ins[t]
           /\ del'[t] \subseteq del[t] \cup {u}
  BY DEF DeleteURL, DbTypeOK

\* The end of a transaction empties it and leaves the other transactions alone (Commit
\* and Rollback).
LEMMA ForgetEffect ==
    ASSUME NEW t \in Tx, DbTypeOK, Forget(t)
    PROVE  /\ ins' \in [Tx -> SUBSET URL] /\ del' \in [Tx -> SUBSET URL]
           /\ wrote' \in [Tx -> SUBSET (URL \X WriteKind)]
           /\ ins'[t] = {} /\ del'[t] = {} /\ wrote'[t] = {}
           /\ \A o \in Tx : o # t => ins'[o] = ins[o] /\ del'[o] = del[o]
  BY DEF Forget, DbTypeOK

\* What a commit does to a row of urls (MarkAndCommit).
LEMMA CommitEffect ==
    ASSUME NEW t \in Tx, NEW marked \in SUBSET URL, DbTypeOK, MarkAndCommit(t, marked)
    PROVE  /\ DbTypeOK'
           /\ Forget(t)
           /\ \A u \in URL :
                 /\ u \in marked /\ Sees(t, u) => urls'[u] = "processing"
                 /\ u \in marked /\ ~Sees(t, u) => urls'[u] = "absent"
                 /\ u \notin marked /\ u \in ins[t] => urls'[u] = "pending"
                 /\ u \notin marked /\ u \notin ins[t] /\ u \notin del[t] => urls'[u] = urls[u]
                 /\ u \notin marked /\ u \notin ins[t] /\ u \in del[t] => urls'[u] = "absent"
  <1>1. Forget(t)
    BY DEF MarkAndCommit
  <1>2. urls' \in [URL -> RowState]
    BY DEF MarkAndCommit, DbTypeOK, RowState
  <1>3. hist' \in [URL -> HistState]
    <2>1. \A u \in URL : HistAfter(t, u) \in HistState
      BY DEF HistAfter, HistState, DbTypeOK
    <2> QED
      BY <2>1 DEF MarkAndCommit
  <1>4. recent' \subseteq URL
    BY DEF MarkAndCommit, DbTypeOK
  <1>5. DbTypeOK'
    BY <1>1, <1>2, <1>3, <1>4, ForgetEffect DEF DbTypeOK
  <1>6. ASSUME NEW u \in URL
        PROVE  /\ u \in marked /\ Sees(t, u) => urls'[u] = "processing"
               /\ u \in marked /\ ~Sees(t, u) => urls'[u] = "absent"
               /\ u \notin marked /\ u \in ins[t] => urls'[u] = "pending"
               /\ u \notin marked /\ u \notin ins[t] /\ u \notin del[t] => urls'[u] = urls[u]
               /\ u \notin marked /\ u \notin ins[t] /\ u \in del[t] => urls'[u] = "absent"
    BY DEF MarkAndCommit, Sees
  <1> QED
    BY <1>1, <1>5, <1>6

\* A rollback keeps the types and the tables (Rollback, SafeRollback).
LEMMA DiscardEffect ==
    ASSUME NEW t \in Tx, DbTypeOK, Discard(t)
    PROVE  DbTypeOK' /\ Forget(t) /\ UNCHANGED <<urls, recent, hist>>
  BY ForgetEffect DEF Discard, tables, DbTypeOK

-----------------------------------------------------------------------------
(***************************************************************************)
(* Types.                                                                  *)
(***************************************************************************)

LEMMA FiniteInstance ==
    /\ NumOfWorkers \in Nat
    /\ \A S \in SUBSET URL : IsFiniteSet(S) /\ Cardinality(S) \in Nat
  BY CrawlerAssumption, DatabaseAssumption, FS_CardinalityType, FS_Subset DEF NumOfWorkers

\* A worker that calls WorkerWG.Done is counted (RunWorkerWithTx).
LEMMA CountedWhileWorking ==
    ASSUME TypeOK, JobsAreURLs, WaitGroupExact, NEW w \in Worker, Working(w)
    PROVE  wg >= 1 /\ Outstanding \subseteq URL
  <1>1. Outstanding \subseteq URL
    BY DEF Outstanding, SendQueue, TypeOK, JobsAreURLs, Working
  <1>2. job[w] \in Outstanding
    BY DEF Outstanding
  <1>3. Outstanding # {} /\ IsFiniteSet(Outstanding)
    BY <1>1, <1>2, FiniteInstance
  <1>4. Cardinality(Outstanding) \in Nat /\ Cardinality(Outstanding) # 0
    BY <1>3, FS_CardinalityType, FS_EmptySet
  <1> QED
    BY <1>1, <1>4 DEF WaitGroupExact

\* The scheduler's steps keep the types (runJobScheduler).
LEMMA SchedulerTypeOK ==
    ASSUME TypeOK, SchedulerNext \/ SchedulerFails
    PROVE  TypeOK'
  <1> USE DEF TypeOK, SchedState, dbVars, queueVars, workerVars, tables, schedVars
  <1>1. CASE Poll
    <2>1. GetUrlHosts \subseteq Host
      BY CrawlerAssumption DEF GetUrlHosts
    <2> QED
      BY <1>1, <2>1 DEF Poll, DbTypeOK
  <1>2. CASE FetchSnapshotsFromHistory
    <2>1. batch' \subseteq URL
      BY <1>2, CrawlerAssumption DEF FetchSnapshotsFromHistory, HistoryChoice, Eligible
    <2> QED
      BY <1>2, <2>1 DEF FetchSnapshotsFromHistory, DbTypeOK
  <1>3. CASE InsertHistory
    <2>1. PICK u \in batch : InsertURL(Scheduler, u) /\ batch' = batch \ {u}
      BY <1>3 DEF InsertHistory
    <2>2. u \in URL
      BY <2>1
    <2>3. ins' \in [Tx -> SUBSET URL]
      BY <2>1, <2>2, InsertURLEffect
    <2> QED
      BY <1>3, <2>1, <2>3 DEF InsertHistory, DbTypeOK
  <1>4. CASE RequeryHosts
    <2>1. GetUrlHosts \subseteq Host
      BY CrawlerAssumption DEF GetUrlHosts
    <2> QED
      BY <1>4, <2>1 DEF RequeryHosts, DbTypeOK
  <1>5. CASE GetRandomUrlsFromHosts
    <2>1. batch' \subseteq URL
      BY <1>5 DEF GetRandomUrlsFromHosts, UrlsFromHosts
    <2> QED
      BY <1>5, <2>1 DEF GetRandomUrlsFromHosts, DbTypeOK
  <1>6. CASE CommitBatch
    <2>1. DbTypeOK'
      BY <1>6, CommitEffect DEF CommitBatch
    <2>2. wg' \in Nat
      BY <1>6, FiniteInstance DEF CommitBatch
    <2> QED
      BY <1>6, <2>1, <2>2 DEF CommitBatch
  <1>7. CASE Send
    BY <1>7 DEF Send, DbTypeOK
  <1>8. CASE Wait
    BY <1>8 DEF Wait, DbTypeOK
  <1>9. CASE SchedulerFails
    <2>1. DbTypeOK'
      BY <1>9, DiscardEffect DEF SchedulerFails
    <2> QED
      BY <1>9, <2>1 DEF SchedulerFails
  <1> QED
    BY <1>1, <1>2, <1>3, <1>4, <1>5, <1>6, <1>7, <1>8, <1>9 DEF SchedulerNext

\* The steps of main and of the clock keep the types (runApp).
LEMMA EnvironmentTypeOK ==
    ASSUME TypeOK, MainNext \/ ReceiveSignal \/ ResetMarks \/ TimePasses
    PROVE  TypeOK'
  <1> USE DEF TypeOK, DbTypeOK, dbVars, queueVars, workerVars, pageVars, schedVars
  <1>1. CASE ReceiveFatalOfScheduler
    BY <1>1 DEF ReceiveFatalOfScheduler, SchedState
  <1>2. CASE \E w \in Worker : ReceiveFatalOf(w)
    BY <1>2 DEF ReceiveFatalOf, Goto, WorkerState
  <1>3. CASE ReceiveSignal
    BY <1>3 DEF ReceiveSignal
  <1>4. CASE TimePasses
    BY <1>4 DEF TimePasses, AgeSnapshot, AgeHistory, HistState
  <1>5. CASE ResetMarks
    BY <1>5 DEF ResetMarks, UnmarkAll, RowState
  <1> QED
    BY <1>1, <1>2, <1>3, <1>4, <1>5 DEF MainNext

\* The steps of a worker keep the types (RunWorkerWithTx, WorkOnUrl).
LEMMA WorkerTypeOK ==
    ASSUME TypeOK, JobsAreURLs, WaitGroupExact, NEW w \in Worker,
           WorkerNext(w) \/ WorkerFails(w)
    PROVE  TypeOK'
  <1> USE DEF TypeOK, WorkerState, dbVars, queueVars, workerVars, pageVars, schedVars, Goto
  <1>a. Active(w) => job[w] \in URL
    BY DEF JobsAreURLs
  <1>1. CASE Receive(w)
    BY <1>1 DEF Receive, DbTypeOK
  <1>2. CASE ReturnEarly(w)
    <2>1. job[w] \in URL
      BY <1>2, <1>a DEF ReturnEarly, Active
    <2> QED
      BY <1>2, <2>1 DEF ReturnEarly, Return, DbTypeOK
  <1>3. CASE RejectScheme(w)
    BY <1>3 DEF RejectScheme, Fail, DbTypeOK
  <1>4. CASE Refuse(w)
    BY <1>4 DEF Refuse, DbTypeOK
  <1>5. CASE Admit(w)
    BY <1>5 DEF Admit, DbTypeOK
  <1>6. CASE Acquire(w)
    <2>1. HostOf[job[w]] \in Host
      BY <1>6, <1>a, CrawlerAssumption DEF Acquire, Active
    <2> QED
      BY <1>6, <2>1 DEF Acquire, AddHostToHostPool, DbTypeOK
  <1>7. CASE VisitGemini(w) \/ VisitGopher(w)
    <2>1. PICK k \in {"gemtext", "menu", "other", "error"}, L \in SUBSET URL : Brings(w, k, L)
      BY <1>7, CrawlerAssumption DEF VisitGemini, VisitGopher
    <2> QED BY <2>1 DEF Brings, DbTypeOK
  <1>8. CASE VisitRedirect(w)
    BY <1>8, CrawlerAssumption DEF VisitRedirect, DbTypeOK
  <1>9. CASE VisitBadRedirect(w)
    BY <1>9 DEF VisitBadRedirect, Fail, DbTypeOK
  <1>10. CASE CheckLink(w)
    BY <1>10 DEF CheckLink, DbTypeOK
  <1>11. CASE InsertLink(w)
    <2>1. link[w] \in URL
      BY <1>11 DEF InsertLink
    <2>2. ins' \in [Tx -> SUBSET URL]
      BY <1>11, <2>1, InsertURLEffect DEF InsertLink
    <2> QED
      BY <1>11, <2>1, <2>2 DEF InsertLink, DbTypeOK, tables
  <1>12. CASE RejectLink(w)
    BY <1>12 DEF RejectLink, Fail, DbTypeOK
  <1>13. CASE LinksStored(w)
    BY <1>13 DEF LinksStored, DbTypeOK
  <1>14. CASE Identical(w)
    <2>1. job[w] \in URL
      BY <1>14, <1>a DEF Identical, Active
    <2>2. ins' \in [Tx -> SUBSET URL] /\ del' \in [Tx -> SUBSET URL]
      BY <1>14, <2>1, DeleteURLEffect DEF Identical
    <2>3. wrote' \in [Tx -> SUBSET (URL \X WriteKind)]
      BY <1>14, <2>1 DEF Identical, UpdateLastCrawled, DbTypeOK, WriteKind
    <2> QED
      BY <1>14, <2>2, <2>3 DEF Identical, DbTypeOK, tables
  <1>15. CASE Different(w)
    BY <1>15 DEF Different, DbTypeOK
  <1>16. CASE Save(w)
    <2>1. job[w] \in URL
      BY <1>16, <1>a DEF Save, Active
    <2>2. ins' \in [Tx -> SUBSET URL] /\ del' \in [Tx -> SUBSET URL]
      BY <1>16, <2>1, DeleteURLEffect DEF Save
    <2>3. wrote' \in [Tx -> SUBSET (URL \X WriteKind)]
      BY <1>16, <2>1 DEF Save, SaveSnapshot, UpdateLastCrawled, DbTypeOK, WriteKind
    <2> QED
      BY <1>16, <2>2, <2>3 DEF Save, DbTypeOK, tables
  <1>17. CASE Release(w)
    BY <1>17 DEF Release, RemoveHostFromPool, DbTypeOK
  <1>18. CASE Done(w)
    <2>1. wg >= 1
      BY <1>18, CountedWhileWorking DEF Done, Working, Active
    <2> QED
      BY <1>18, <2>1 DEF Done, DbTypeOK
  <1>19. CASE CommitTx(w)
    <2>1. DbTypeOK'
      BY <1>19, CommitEffect DEF CommitTx, Commit
    <2> QED
      BY <1>19, <2>1 DEF CommitTx, Return
  <1>20. CASE RollbackTx(w)
    <2>1. DbTypeOK'
      BY <1>20, DiscardEffect DEF RollbackTx
    <2> QED
      BY <1>20, <2>1 DEF RollbackTx, Return
  <1>21. CASE DeadlockVictim(w)
    <2>1. DbTypeOK'
      BY <1>21, DiscardEffect DEF DeadlockVictim
    <2> QED
      BY <1>21, <2>1 DEF DeadlockVictim, Fail, StatementError
  <1>22. CASE CommitFails(w)
    <2>1. DbTypeOK'
      BY <1>22, DiscardEffect DEF CommitFails
    <2> QED
      BY <1>22, <2>1 DEF CommitFails, Return
  <1>23. CASE DbFails(w)
    <2>1. DbTypeOK'
      BY <1>23, DiscardEffect DEF DbFails
    <2> QED
      BY <1>23, <2>1 DEF DbFails, Fail, StatementError
  <1>24. CASE TimesOut(w)
    <2>1. DbTypeOK'
      BY <1>24, DiscardEffect DEF TimesOut
    <2> QED
      BY <1>24, <2>1 DEF TimesOut, Fail
  <1>25. CASE TimesOutLate(w)
    <2>1. DbTypeOK'
      BY <1>25, DiscardEffect DEF TimesOutLate
    <2> QED
      BY <1>25, <2>1 DEF TimesOutLate
  <1> QED
    BY <1>1, <1>2, <1>3, <1>4, <1>5, <1>6, <1>7, <1>8, <1>9, <1>10, <1>11, <1>12, <1>13,
       <1>14, <1>15, <1>16, <1>17, <1>18, <1>19, <1>20, <1>21, <1>22, <1>23, <1>24, <1>25
       DEF WorkerNext, WorkerFails

-----------------------------------------------------------------------------
(***************************************************************************)
(* The inductive invariant: steps inside one transaction.                  *)
(***************************************************************************)

\* A step of a worker inside its transaction keeps the invariant: it claims nothing and
\* drops no claim, keeps its place in the host pool, inserts only rows that nobody has,
\* and deletes only the row of its job, at the end (WorkOnUrl).
LEMMA LocalStep ==
    ASSUME IInv, TypeOK', NEW w \in Worker, Active(w),
           UNCHANGED <<urls, hostnames, sched, batch, jobs, wg, lost, main, job>>,
           \A v \in Worker : v # w => pc'[v] = pc[v],
           Active(w)', pc'[w] # "start",
           Working(w)' <=> Working(w), Holding(w)' <=> Holding(w),
           \A t \in Tx : t # w => ins'[t] = ins[t] /\ del'[t] = del[t],
           \A u \in ins'[w] :
               u \in ins[w] \/ (urls[u] = "absent" /\ \A t \in Tx : t # w => u \notin ins[t]),
           del'[w] \subseteq {job[w]},
           del'[w] # {} => pc'[w] \in {"release", "done", "end"}
    PROVE  IInv'
  <1> USE DatabaseAssumption DEF IInv, Claims
  <1>1. \A v \in Worker : /\ Active(v)' <=> Active(v)
                          /\ Working(v)' <=> Working(v)
                          /\ Holding(v)' <=> Holding(v)
    BY DEF Active, Working, Holding
  <1>2. SendQueue' = SendQueue
    BY DEF SendQueue
  <1>3. Outstanding' = Outstanding
    BY <1>1, <1>2 DEF Outstanding
  <1>4. JobsAreURLs'
    BY <1>1 DEF JobsAreURLs
  <1>5. NoTxWhenIdle'
    BY <1>1 DEF NoTxWhenIdle
  <1>6. InsertsAreNew'
    BY DEF InsertsAreNew
  <1>7. DeletesAreOwn'
    BY DEF DeletesAreOwn
  <1>8. NoDoubleClaim' /\ ClaimedRowsMarked'
    BY <1>1, <1>2 DEF NoDoubleClaim, ClaimedRowsMarked
  <1>9. LostStayMarked'
    BY <1>1, <1>2 DEF LostStayMarked
  <1>10. BatchStillPending'
    BY DEF BatchStillPending, SeesPending
  <1>11. QuietBetweenRounds' /\ WaitGroupExact'
    BY <1>3 DEF QuietBetweenRounds, WaitGroupExact
  <1>12. HostPoolExact'
    BY <1>1 DEF HostPoolExact
  <1> QED
    BY <1>4, <1>5, <1>6, <1>7, <1>8, <1>9, <1>10, <1>11, <1>12

\* A step of the scheduler inside its transaction, or between two rounds, keeps the
\* invariant when there is nothing left to wait for (runJobScheduler).
LEMMA SchedulerLocalStep ==
    ASSUME IInv, TypeOK', Outstanding = {}, sched # "send", sched' \notin {"send", "wait"},
           UNCHANGED <<urls, hostnames, jobs, wg, lost, main, pc, job, del>>,
           \A w \in Worker : ins'[w] = ins[w],
           \A u \in ins'[Scheduler] :
               u \in ins[Scheduler] \/ (urls[u] = "absent" /\ \A w \in Worker : u \notin ins[w]),
           BatchStillPending'
    PROVE  IInv'
  <1> USE DatabaseAssumption DEF IInv, Claims
  <1>1. \A v \in Worker : /\ Active(v)' <=> Active(v)
                          /\ Working(v)' <=> Working(v)
                          /\ Holding(v)' <=> Holding(v)
    BY DEF Active, Working, Holding
  <1>2. SendQueue' = {} /\ SendQueue = {}
    BY DEF SendQueue
  <1>3. Outstanding' = Outstanding
    BY <1>1, <1>2 DEF Outstanding
  <1>4. JobsAreURLs' /\ NoTxWhenIdle'
    BY <1>1 DEF JobsAreURLs, NoTxWhenIdle
  <1>5. InsertsAreNew'
    BY DEF InsertsAreNew
  <1>6. DeletesAreOwn'
    BY DEF DeletesAreOwn
  <1>7. NoDoubleClaim' /\ ClaimedRowsMarked'
    BY <1>1, <1>2 DEF NoDoubleClaim, ClaimedRowsMarked
  <1>8. LostStayMarked'
    BY <1>1, <1>2 DEF LostStayMarked
  <1>9. QuietBetweenRounds' /\ WaitGroupExact'
    BY <1>3 DEF QuietBetweenRounds, WaitGroupExact
  <1>10. HostPoolExact'
    BY <1>1 DEF HostPoolExact
  <1> QED
    BY <1>4, <1>5, <1>6, <1>7, <1>8, <1>9, <1>10

\* The steps of WorkOnUrl between the start of the transaction and Done, but for those
\* that enter or leave the host pool.
LEMMA InsideTxStep ==
    ASSUME IInv, TypeOK', NEW w \in Worker,
           \/ RejectScheme(w) \/ Refuse(w) \/ Admit(w)
           \/ VisitGemini(w) \/ VisitGopher(w) \/ VisitRedirect(w) \/ VisitBadRedirect(w)
           \/ CheckLink(w) \/ RejectLink(w) \/ LinksStored(w) \/ Different(w)
    PROVE  IInv'
  <1>1. /\ Active(w) /\ pc[w] \notin {"release", "done", "end"}
        /\ UNCHANGED <<urls, hostnames, sched, batch, jobs, wg, lost, main, job, ins, del>>
        /\ \A v \in Worker : v # w => pc'[v] = pc[v]
        /\ Active(w)' /\ pc'[w] # "start"
        /\ (Working(w)' <=> Working(w)) /\ (Holding(w)' <=> Holding(w))
    BY DEF IInv, TypeOK, RejectScheme, Refuse, Admit, VisitGemini, VisitGopher, Brings,
           VisitRedirect, VisitBadRedirect,
           CheckLink, RejectLink, LinksStored, Different, Fail, Goto, Active, Working, Holding,
           dbVars, schedVars, queueVars, DbTypeOK
  <1>2. del[w] = {}
    BY <1>1 DEF IInv, DeletesAreOwn
  <1> QED
    BY <1>1, <1>2, LocalStep

\* A transaction that is rolled back under a worker, and the error that WorkOnUrl then
\* returns, keep the invariant.
LEMMA AbortStep ==
    ASSUME IInv, TypeOK', NEW w \in Worker,
           DeadlockVictim(w) \/ DbFails(w) \/ TimesOut(w) \/ TimesOutLate(w)
    PROVE  IInv'
  <1>1. Discard(w)
    BY DEF DeadlockVictim, DbFails, TimesOut, TimesOutLate
  <1>2. /\ ins'[w] = {} /\ del'[w] = {} /\ UNCHANGED urls
        /\ \A t \in Tx : t # w => ins'[t] = ins[t] /\ del'[t] = del[t]
    BY <1>1, DiscardEffect, ForgetEffect DEF IInv, TypeOK
  <1>3. CASE TimesOutLate(w)
    <2>1. Active(w) /\ pc[w] # "start" /\ UNCHANGED <<hostnames, sched, batch, jobs, wg, lost, main, job, pc>>
      BY <1>3 DEF TimesOutLate, Active, schedVars, queueVars, workerVars
    <2> QED
      BY <1>2, <2>1, LocalStep DEF Active, Working, Holding
  <1>4. CASE DeadlockVictim(w) \/ DbFails(w) \/ TimesOut(w)
    <2>1. pc[w] \in {"refuse", "acquire", "visit", "redirect", "compare", "links", "save"}
      <3>1. CASE DeadlockVictim(w)
        BY <3>1 DEF DeadlockVictim, InDeadlock, WaitsFor
      <3>2. CASE DbFails(w) \/ TimesOut(w)
        BY <3>2 DEF DbFails, TimesOut, UsesDb
      <3> QED
        BY <1>4, <3>1, <3>2
    <2>2. \E e \in {"ctx", "fail", "fatal"} : Fail(w, e)
      BY <1>4 DEF DeadlockVictim, DbFails, TimesOut, StatementError
    <2>3. UNCHANGED <<hostnames, sched, batch, jobs, wg, lost, main, job>>
      BY <1>4 DEF DeadlockVictim, DbFails, TimesOut, schedVars, queueVars
    <2>4. /\ Active(w) /\ Active(w)'
          /\ Working(w)' <=> Working(w)
          /\ Holding(w)' <=> Holding(w)
          /\ pc'[w] # "start" /\ \A v \in Worker : v # w => pc'[v] = pc[v]
      BY <2>1, <2>2 DEF Fail, Goto, Active, Working, Holding, IInv, TypeOK
    <2> QED
      BY <1>2, <2>3, <2>4, LocalStep
  <1> QED
    BY <1>3, <1>4

\* The insert of a link.
LEMMA InsertLinkStep ==
    ASSUME IInv, TypeOK', NEW w \in Worker, InsertLink(w)
    PROVE  IInv'
  <1>1. /\ UNCHANGED <<urls, hostnames, sched, batch, jobs, wg, lost, main, job, pc, del>>
        /\ pc[w] \in {"redirect", "links"}
    BY DEF InsertLink, tables, schedVars, queueVars
  <1>2. link[w] \in URL /\ InsertURL(w, link[w])
    BY DEF InsertLink, IInv, TypeOK
  <1>3. del[w] = {}
    BY <1>1 DEF IInv, DeletesAreOwn
  <1>4. /\ \A t \in Tx : t # w => ins'[t] = ins[t]
        /\ \A u \in ins'[w] :
              u \in ins[w] \/ (urls[u] = "absent" /\ \A t \in Tx : t # w => u \notin ins[t])
    BY <1>2, <1>3, InsertURLEffect DEF IInv, TypeOK, Sees
  <1>5. Active(w)
    BY <1>1 DEF Active
  <1>6. Active(w)' /\ (Working(w)' <=> Working(w)) /\ (Holding(w)' <=> Holding(w))
    BY <1>1, <1>5 DEF Active, Working, Holding
  <1> QED
    BY <1>1, <1>3, <1>4, <1>5, <1>6, LocalStep

\* The delete of the row of the job, which ends WorkOnUrl.
LEMMA RemoveStep ==
    ASSUME IInv, TypeOK', NEW w \in Worker, Identical(w) \/ Save(w)
    PROVE  IInv'
  <1>1. /\ UNCHANGED <<urls, hostnames, sched, batch, jobs, wg, lost, main, job>>
        /\ pc[w] \in {"compare", "save", "refuse"}
        /\ DeleteURL(w, job[w])
    BY DEF Identical, Save, tables, schedVars, queueVars
  <1>2. /\ pc'[w] \in {"release", "done"}
        /\ \A v \in Worker : v # w => pc'[v] = pc[v]
        /\ Active(w) /\ Active(w)'
        /\ Working(w)' <=> Working(w)
        /\ Holding(w)' <=> Holding(w)
    BY DEF Identical, Save, Goto, Active, Working, Holding, IInv, TypeOK
  <1>3. job[w] \in URL
    BY <1>2 DEF IInv, JobsAreURLs
  <1>4. /\ \A t \in Tx : t # w => ins'[t] = ins[t] /\ del'[t] = del[t]
        /\ ins'[w] \subseteq ins[w]
        /\ del'[w] \subseteq {job[w]}
    BY <1>1, <1>3, DeleteURLEffect DEF IInv, TypeOK, DeletesAreOwn
  <1> QED
    BY <1>1, <1>2, <1>4, LocalStep

-----------------------------------------------------------------------------
(***************************************************************************)
(* The inductive invariant: the scheduler.                                 *)
(***************************************************************************)

\* The steps of the scheduler that send nothing.
LEMMA QuietSchedulerStep ==
    ASSUME IInv, TypeOK',
           \/ Poll \/ FetchSnapshotsFromHistory \/ InsertHistory \/ RequeryHosts
           \/ GetRandomUrlsFromHosts \/ Wait \/ SchedulerFails
    PROVE  IInv'
  <1> USE DatabaseAssumption DEF IInv, dbVars, tables, queueVars, workerVars, InSchedulerTx
  <1>1. CASE Wait
    <2>1. Outstanding \subseteq URL
      BY DEF Outstanding, SendQueue, TypeOK, JobsAreURLs, Working
    <2>2. Outstanding = {}
      BY <1>1, <2>1, FiniteInstance, FS_EmptySet DEF Wait, WaitGroupExact
    <2>3. BatchStillPending'
      BY <1>1 DEF Wait, BatchStillPending
    <2> QED
      BY <1>1, <2>2, <2>3, SchedulerLocalStep DEF Wait
  <1>2. sched \notin {"send", "wait"} => Outstanding = {}
    BY DEF QuietBetweenRounds
  <1>3. CASE Poll \/ RequeryHosts
    <2>1. BatchStillPending'
      BY <1>3 DEF Poll, RequeryHosts, BatchStillPending
    <2> QED
      BY <1>2, <1>3, <2>1, SchedulerLocalStep DEF Poll, RequeryHosts
  <1>4. CASE FetchSnapshotsFromHistory
    <2>1. BatchStillPending'
      BY <1>4 DEF FetchSnapshotsFromHistory, BatchStillPending
    <2> QED
      BY <1>2, <1>4, <2>1, SchedulerLocalStep DEF FetchSnapshotsFromHistory
  <1>5. CASE GetRandomUrlsFromHosts
    <2>1. \A u \in batch' : SeesPending(Scheduler, u)
      BY <1>5 DEF GetRandomUrlsFromHosts, UrlsFromHosts, Claimable
    <2>2. UNCHANGED <<urls, ins, del, hostnames, jobs, wg, lost, main, pc, job>>
      BY <1>5 DEF GetRandomUrlsFromHosts
    <2>a. \A u \in batch' : urls[u] # "processing"
      BY <2>1 DEF SeesPending, InsertsAreNew
    <2>3. BatchStillPending'
      BY <2>1, <2>2, <2>a DEF BatchStillPending, SeesPending
    <2>4. sched = "select" /\ sched' = "commit"
      BY <1>5 DEF GetRandomUrlsFromHosts
    <2> QED
      BY <1>2, <2>2, <2>3, <2>4, SchedulerLocalStep
  <1>6. CASE InsertHistory
    <2>1. PICK u \in batch : InsertURL(Scheduler, u)
      BY <1>6 DEF InsertHistory
    <2>2. u \in URL
      BY <2>1 DEF TypeOK
    <2>3. /\ \A w \in Worker : ins'[w] = ins[w]
          /\ \A v \in ins'[Scheduler] :
                v \in ins[Scheduler] \/ (urls[v] = "absent" /\ \A w \in Worker : v \notin ins[w])
      BY <2>1, <2>2, InsertURLEffect DEF TypeOK, Sees, DeletesAreOwn
    <2>4. BatchStillPending'
      BY <1>6 DEF InsertHistory, BatchStillPending
    <2> QED
      BY <1>2, <1>6, <2>3, <2>4, SchedulerLocalStep DEF InsertHistory
  <1>7. CASE SchedulerFails
    <2>1. /\ ins'[Scheduler] = {} /\ UNCHANGED urls
          /\ \A w \in Worker : ins'[w] = ins[w] /\ del'[w] = del[w]
          /\ del'[Scheduler] = {}
      BY <1>7, DiscardEffect, ForgetEffect DEF SchedulerFails, TypeOK
    <2>2. del' = del
      <3>1. \A t \in Tx : del'[t] = del[t]
        BY <2>1 DEF DeletesAreOwn
      <3>2. del = [t \in Tx |-> del[t]] /\ del' = [t \in Tx |-> del'[t]]
        BY DEF TypeOK, DbTypeOK
      <3> QED
        BY <3>1, <3>2
    <2>3. BatchStillPending'
      BY <1>7 DEF SchedulerFails, BatchStillPending
    <2> QED
      BY <1>2, <1>7, <2>1, <2>2, <2>3, SchedulerLocalStep DEF SchedulerFails
  <1> QED
    BY <1>1, <1>3, <1>4, <1>5, <1>6, <1>7

\* The claim of a batch: its rows were free, so no worker whose transaction is still
\* open has one of them.
LEMMA CommitBatchStep ==
    ASSUME IInv, TypeOK', CommitBatch
    PROVE  IInv'
  <1> USE DatabaseAssumption DEF IInv, Claims
  <1> DEFINE S == Scheduler
  <1>1. /\ sched = "commit" /\ MarkAndCommit(S, batch) /\ wg' = wg + Cardinality(batch)
        /\ sched' = (IF batch = {} THEN "poll" ELSE "send")
        /\ UNCHANGED <<hostnames, batch, jobs, lost, main, pc, job>>
    BY DEF CommitBatch, workerVars
  <1>2. batch \in SUBSET URL
    BY DEF TypeOK
  <1>3. main # "reset" => \A u \in batch : SeesPending(S, u)
    BY <1>1 DEF BatchStillPending
  <1>4. /\ ins'[S] = {} /\ del'[S] = {}
        /\ \A w \in Worker : ins'[w] = ins[w] /\ del'[w] = del[w]
    BY <1>1, <1>2, CommitEffect, ForgetEffect DEF TypeOK
  <1>5. \A u \in URL : /\ u \in batch /\ Sees(S, u) => urls'[u] = "processing"
                       /\ u \in batch /\ ~Sees(S, u) => urls'[u] = "absent"
                       /\ u \notin batch /\ u \in ins[S] => urls'[u] = "pending"
                       /\ u \notin batch /\ u \notin ins[S] => urls'[u] = urls[u]
    BY <1>1, <1>2, CommitEffect DEF TypeOK, DeletesAreOwn
  <1>6. main # "reset" =>
          \A u \in URL : u \in batch \cup ins[S] => urls[u] \in {"pending", "absent"}
    BY <1>3 DEF InsertsAreNew, SeesPending
  <1>7. \A v \in Worker : /\ Active(v)' <=> Active(v)
                          /\ Working(v)' <=> Working(v)
                          /\ Holding(v)' <=> Holding(v)
    BY <1>1 DEF Active, Working, Holding
  <1>8. Outstanding = {} /\ SendQueue = {} /\ jobs = {} /\ lost = {}
    BY <1>1 DEF QuietBetweenRounds, Outstanding, SendQueue
  <1>9. SendQueue' = batch
    BY <1>1 DEF SendQueue
  <1>a. \A v \in Worker : ~Working(v)
    BY <1>8 DEF Outstanding
  <1>10. Outstanding' = batch
    BY <1>1, <1>7, <1>8, <1>9, <1>a DEF Outstanding
  <1>11. \A w \in Worker : main # "reset" /\ Active(w) =>
            job[w] \in URL /\ urls[job[w]] = "processing"
    BY DEF JobsAreURLs, ClaimedRowsMarked
  <1>12. \A w \in Worker : main # "reset" /\ Active(w) => job[w] \notin batch \cup ins[S]
    BY <1>6, <1>11
  <1>13. JobsAreURLs' /\ NoTxWhenIdle'
    BY <1>1, <1>4, <1>7 DEF JobsAreURLs, NoTxWhenIdle
  <1>14. InsertsAreNew'
    <2>1. \A w \in Worker : \A u \in ins[w] : u \in URL /\ urls[u] = "absent" /\ u \notin ins[S]
      BY DEF InsertsAreNew, TypeOK, DbTypeOK
    <2>2. \A w \in Worker : \A u \in ins[w] : ~Sees(S, u)
      BY <2>1 DEF Sees
    <2>3. \A w \in Worker : \A u \in ins'[w] : urls'[u] = "absent"
      BY <1>4, <1>5, <2>1, <2>2
    <2> QED
      BY <1>4, <2>3 DEF InsertsAreNew
  <1>15. DeletesAreOwn'
    BY <1>1, <1>4 DEF DeletesAreOwn
  <1>16. NoDoubleClaim'
    BY <1>1, <1>7, <1>8, <1>9, <1>a, <1>12 DEF NoDoubleClaim
  <1>17. ClaimedRowsMarked'
    <2>1. main # "reset" => \A u \in batch : Sees(S, u)
      BY <1>3 DEF Sees, SeesPending
    <2> QED
      BY <1>1, <1>2, <1>5, <1>7, <1>8, <1>9, <1>11, <1>12, <2>1 DEF ClaimedRowsMarked
  <1>18. LostStayMarked'
    BY <1>1, <1>8 DEF LostStayMarked
  <1>19. BatchStillPending'
    BY <1>1 DEF BatchStillPending
  <1>20. QuietBetweenRounds'
    BY <1>1, <1>10 DEF QuietBetweenRounds
  <1>21. WaitGroupExact'
    <2>1. wg = 0
      BY <1>8, FS_EmptySet DEF WaitGroupExact
    <2> QED
      BY <1>1, <1>2, <1>10, <2>1, FiniteInstance DEF WaitGroupExact
  <1>22. HostPoolExact'
    BY <1>1, <1>7 DEF HostPoolExact
  <1> QED
    BY <1>13, <1>14, <1>15, <1>16, <1>17, <1>18, <1>19, <1>20, <1>21, <1>22

\* A URL goes from the batch into the channel.
LEMMA SendStep ==
    ASSUME IInv, TypeOK', Send
    PROVE  IInv'
  <1> USE DatabaseAssumption DEF IInv, Claims
  <1>1. /\ sched = "send" /\ sched' \in {"send", "wait"}
        /\ batch' # {} => sched' = "send"
        /\ UNCHANGED <<urls, ins, del, hostnames, wg, lost, main, pc, job>>
    BY DEF Send, dbVars, workerVars
  <1>2. PICK u \in batch : jobs' = jobs \cup {u} /\ batch' = batch \ {u}
    BY DEF Send
  <1>3. \A v \in Worker : /\ Active(v)' <=> Active(v)
                          /\ Working(v)' <=> Working(v)
                          /\ Holding(v)' <=> Holding(v)
    BY <1>1 DEF Active, Working, Holding
  <1>4. SendQueue = batch /\ SendQueue' = batch'
    BY <1>1 DEF SendQueue
  <1>5. SendQueue' \cup jobs' = SendQueue \cup jobs
    BY <1>2, <1>4
  <1>6. Outstanding' = Outstanding
    BY <1>1, <1>3, <1>5 DEF Outstanding
  <1>7. JobsAreURLs' /\ NoTxWhenIdle' /\ InsertsAreNew' /\ DeletesAreOwn'
    BY <1>1, <1>3 DEF JobsAreURLs, NoTxWhenIdle, InsertsAreNew, DeletesAreOwn
  <1>8. NoDoubleClaim' /\ ClaimedRowsMarked'
    BY <1>1, <1>2, <1>3, <1>4 DEF NoDoubleClaim, ClaimedRowsMarked
  <1>9. LostStayMarked'
    BY <1>1, <1>3, <1>5 DEF LostStayMarked
  <1>10. BatchStillPending' /\ QuietBetweenRounds' /\ WaitGroupExact'
    BY <1>1, <1>6 DEF BatchStillPending, QuietBetweenRounds, WaitGroupExact
  <1>11. HostPoolExact'
    BY <1>1, <1>3 DEF HostPoolExact
  <1> QED
    BY <1>7, <1>8, <1>9, <1>10, <1>11

-----------------------------------------------------------------------------
(***************************************************************************)
(* The inductive invariant: a worker takes a job, enters and leaves the    *)
(* host pool, calls Done, and ends its transaction.                        *)
(***************************************************************************)

\* A claim moves from the channel to the worker.
LEMMA ReceiveStep ==
    ASSUME IInv, TypeOK', NEW w \in Worker, Receive(w)
    PROVE  IInv'
  <1> USE DatabaseAssumption DEF IInv, Claims
  <1>1. PICK u \in jobs : jobs' = jobs \ {u} /\ job' = [job EXCEPT ![w] = u]
    BY DEF Receive
  <1>2. /\ pc[w] = "idle" /\ pc' = [pc EXCEPT ![w] = "start"]
        /\ UNCHANGED <<urls, ins, del, hostnames, sched, batch, wg, lost, main>>
    BY DEF Receive, Goto, dbVars, schedVars
  <1>3. /\ ~Active(w) /\ ~Working(w) /\ ~Holding(w)
        /\ Active(w)' /\ Working(w)' /\ ~Holding(w)'
        /\ job'[w] = u /\ u \in URL
    BY <1>1, <1>2 DEF Active, Working, Holding, TypeOK
  <1>4. \A v \in Worker : v # w => /\ Active(v)' <=> Active(v)
                                   /\ Working(v)' <=> Working(v)
                                   /\ Holding(v)' <=> Holding(v)
                                   /\ job'[v] = job[v] /\ pc'[v] = pc[v]
    BY <1>1, <1>2 DEF Active, Working, Holding, TypeOK
  <1>5. SendQueue' = SendQueue
    BY <1>2 DEF SendQueue
  <1>6. Outstanding' = Outstanding
    BY <1>1, <1>2, <1>3, <1>4, <1>5 DEF Outstanding
  <1>7. JobsAreURLs' /\ NoTxWhenIdle' /\ InsertsAreNew'
    BY <1>2, <1>3, <1>4 DEF JobsAreURLs, NoTxWhenIdle, InsertsAreNew
  <1>8. DeletesAreOwn'
    <2>1. del[w] = {}
      BY <1>3 DEF NoTxWhenIdle
    <2> QED
      BY <1>2, <1>4, <2>1 DEF DeletesAreOwn
  <1>9. NoDoubleClaim' /\ ClaimedRowsMarked'
    BY <1>1, <1>2, <1>3, <1>4, <1>5 DEF NoDoubleClaim, ClaimedRowsMarked
  <1>10. LostStayMarked'
    BY <1>1, <1>2, <1>3, <1>4, <1>5 DEF LostStayMarked
  <1>11. BatchStillPending' /\ QuietBetweenRounds' /\ WaitGroupExact'
    BY <1>2, <1>6 DEF BatchStillPending, SeesPending, QuietBetweenRounds, WaitGroupExact
  <1>12. HostPoolExact'
    BY <1>2, <1>3, <1>4 DEF HostPoolExact
  <1> QED
    BY <1>7, <1>8, <1>9, <1>10, <1>11, <1>12

\* A worker that returns with its transaction ended drops its claim.
LEMMA ReturnStep ==
    ASSUME IInv, TypeOK', NEW w \in Worker, NEW p \in {"idle", "fatal"},
           pc[w] = "end", Return(w, p), Discard(w),
           UNCHANGED <<hostnames, sched, hosts, batch, jobs, wg, lost, main>>
    PROVE  IInv'
  <1> USE DatabaseAssumption DEF IInv, Claims
  <1>1. /\ ins'[w] = {} /\ del'[w] = {} /\ UNCHANGED urls
        /\ \A t \in Tx : t # w => ins'[t] = ins[t] /\ del'[t] = del[t]
    BY DiscardEffect, ForgetEffect DEF TypeOK
  <1>2. /\ Active(w) /\ ~Working(w) /\ ~Holding(w)
        /\ ~Active(w)' /\ ~Working(w)' /\ ~Holding(w)'
    BY DEF Active, Working, Holding, Return, Goto, TypeOK
  <1>3. \A v \in Worker : v # w => /\ Active(v)' <=> Active(v)
                                   /\ Working(v)' <=> Working(v)
                                   /\ Holding(v)' <=> Holding(v)
                                   /\ job'[v] = job[v] /\ pc'[v] = pc[v]
    BY DEF Active, Working, Holding, Return, Goto, TypeOK
  <1>4. SendQueue' = SendQueue
    BY DEF SendQueue
  <1>5. Outstanding' = Outstanding
    BY <1>2, <1>3, <1>4 DEF Outstanding
  <1>6. JobsAreURLs' /\ NoTxWhenIdle' /\ InsertsAreNew'
    BY <1>1, <1>2, <1>3 DEF JobsAreURLs, NoTxWhenIdle, InsertsAreNew
  <1>7. DeletesAreOwn'
    BY <1>1, <1>3 DEF DeletesAreOwn
  <1>8. NoDoubleClaim' /\ ClaimedRowsMarked' /\ LostStayMarked'
    BY <1>1, <1>2, <1>3, <1>4 DEF NoDoubleClaim, ClaimedRowsMarked, LostStayMarked
  <1>9. BatchStillPending' /\ QuietBetweenRounds' /\ WaitGroupExact'
    BY <1>1, <1>5 DEF BatchStillPending, SeesPending, QuietBetweenRounds, WaitGroupExact
  <1>10. HostPoolExact'
    BY <1>2, <1>3 DEF HostPoolExact
  <1> QED
    BY <1>6, <1>7, <1>8, <1>9, <1>10

\* The commit of a worker writes the row of its own job and rows that nobody has
\* claimed, and the scheduler's batch is still there after it.
LEMMA CommitTxStep ==
    ASSUME IInv, TypeOK', NEW w \in Worker, CommitTx(w)
    PROVE  IInv'
  <1> USE DatabaseAssumption DEF IInv, Claims
  <1>1. /\ pc[w] = "end" /\ MarkAndCommit(w, {}) /\ Return(w, "idle")
        /\ UNCHANGED <<hostnames, sched, batch, jobs, wg, lost, main>>
    BY DEF CommitTx, Commit, schedVars, queueVars
  <1>2. /\ ins'[w] = {} /\ del'[w] = {}
        /\ \A t \in Tx : t # w => ins'[t] = ins[t] /\ del'[t] = del[t]
    BY <1>1, CommitEffect, ForgetEffect DEF TypeOK
  <1>3. \A u \in URL : /\ u \in ins[w] => urls'[u] = "pending"
                       /\ u \notin ins[w] /\ u \in del[w] => urls'[u] = "absent"
                       /\ u \notin ins[w] /\ u \notin del[w] => urls'[u] = urls[u]
    BY <1>1, CommitEffect DEF TypeOK
  <1>4. \A u \in URL : u \in ins[w] => urls[u] = "absent"
    BY DEF InsertsAreNew
  <1>5. /\ Active(w) /\ ~Working(w) /\ ~Holding(w)
        /\ ~Active(w)' /\ ~Working(w)' /\ ~Holding(w)'
    BY <1>1 DEF Active, Working, Holding, Return, Goto, TypeOK
  <1>6. \A v \in Worker : v # w => /\ Active(v)' <=> Active(v)
                                   /\ Working(v)' <=> Working(v)
                                   /\ Holding(v)' <=> Holding(v)
                                   /\ job'[v] = job[v] /\ pc'[v] = pc[v]
    BY <1>1 DEF Active, Working, Holding, Return, Goto, TypeOK
  <1>7. job[w] \in URL /\ del[w] \subseteq {job[w]}
    BY <1>5 DEF JobsAreURLs, DeletesAreOwn
  <1>8. \A u \in URL : u # job[w] /\ urls[u] = "processing" => urls'[u] = "processing"
    BY <1>3, <1>4, <1>7
  <1>9. SendQueue' = SendQueue
    BY <1>1 DEF SendQueue
  <1>10. Outstanding' = Outstanding
    BY <1>1, <1>5, <1>6, <1>9 DEF Outstanding
  <1>11. JobsAreURLs' /\ NoTxWhenIdle'
    BY <1>2, <1>5, <1>6 DEF JobsAreURLs, NoTxWhenIdle
  <1>12. InsertsAreNew'
    <2>1. ASSUME NEW t \in Tx, t # w, NEW u \in ins[t]
          PROVE  urls'[u] = "absent"
      <3>1. u \in URL /\ urls[u] = "absent" /\ u \notin ins[w]
        BY <2>1 DEF InsertsAreNew, TypeOK, DbTypeOK
      <3> QED
        BY <1>3, <1>7, <3>1
    <2> QED
      BY <1>2, <2>1 DEF InsertsAreNew
  <1>13. DeletesAreOwn'
    BY <1>2, <1>6 DEF DeletesAreOwn
  <1>14. NoDoubleClaim'
    BY <1>1, <1>5, <1>6, <1>9 DEF NoDoubleClaim
  <1>15. SendQueue \cup jobs \cup lost \subseteq URL
    BY DEF SendQueue, TypeOK
  <1>16. ClaimedRowsMarked'
    <2> SUFFICES ASSUME main # "reset" PROVE ClaimedRowsMarked'
      BY <1>1 DEF ClaimedRowsMarked
    <2>1. \A u \in SendQueue \cup jobs : u # job[w] /\ urls[u] = "processing"
      BY <1>5 DEF NoDoubleClaim, ClaimedRowsMarked
    <2>2. \A v \in Worker : v # w /\ Active(v) =>
             job[v] \in URL /\ job[v] # job[w] /\ urls[job[v]] = "processing"
      BY <1>5 DEF NoDoubleClaim, ClaimedRowsMarked, JobsAreURLs
    <2> QED
      BY <1>1, <1>5, <1>6, <1>8, <1>9, <1>15, <2>1, <2>2 DEF ClaimedRowsMarked
  <1>17. LostStayMarked'
    BY <1>1, <1>5, <1>6, <1>8, <1>9, <1>15 DEF LostStayMarked
  <1>18. BatchStillPending'
    <2>a. \A u \in batch : u \in URL /\ (sched = "commit" => urls'[u] # "processing")
      BY <1>3 DEF BatchStillPending, TypeOK
    <2> SUFFICES ASSUME main # "reset", sched = "commit", NEW u \in batch
                 PROVE  SeesPending(Scheduler, u)'
      BY <1>1, <2>a DEF BatchStillPending
    <2>1. SeesPending(Scheduler, u) /\ u \in URL
      BY DEF BatchStillPending, TypeOK
    <2>2. urls[job[w]] = "processing"
      BY <1>5 DEF ClaimedRowsMarked
    <2>3. u \notin ins[Scheduler] => u \notin ins[w] /\ u \notin del[w]
      BY <1>4, <1>7, <2>1, <2>2 DEF SeesPending
    <2> QED
      BY <1>2, <1>3, <2>1, <2>3 DEF SeesPending
  <1>19. QuietBetweenRounds' /\ WaitGroupExact'
    BY <1>1, <1>10 DEF QuietBetweenRounds, WaitGroupExact
  <1>20. HostPoolExact'
    BY <1>1, <1>5, <1>6 DEF HostPoolExact
  <1> QED
    BY <1>11, <1>12, <1>13, <1>14, <1>16, <1>17, <1>18, <1>19, <1>20

\* The two returns without Done: the job is lost to the WaitGroup.
LEMMA ReturnEarlyStep ==
    ASSUME IInv, TypeOK', NEW w \in Worker, ReturnEarly(w)
    PROVE  IInv'
  <1> USE DatabaseAssumption DEF IInv, Claims
  <1>1. /\ pc[w] = "start" /\ \E p \in {"idle", "fatal"} : Return(w, p)
        /\ lost' = lost \cup {job[w]}
        /\ UNCHANGED <<urls, ins, del, hostnames, sched, batch, jobs, wg, main>>
    BY DEF ReturnEarly, dbVars, schedVars
  <1>2. /\ Active(w) /\ Working(w) /\ ~Holding(w)
        /\ ~Active(w)' /\ ~Working(w)' /\ ~Holding(w)'
    BY <1>1 DEF Active, Working, Holding, Return, Goto, TypeOK
  <1>3. \A v \in Worker : v # w => /\ Active(v)' <=> Active(v)
                                   /\ Working(v)' <=> Working(v)
                                   /\ Holding(v)' <=> Holding(v)
                                   /\ job'[v] = job[v] /\ pc'[v] = pc[v]
    BY <1>1 DEF Active, Working, Holding, Return, Goto, TypeOK
  <1>4. SendQueue' = SendQueue
    BY <1>1 DEF SendQueue
  <1>5. Outstanding' = Outstanding
    BY <1>1, <1>2, <1>3, <1>4 DEF Outstanding
  <1>6. JobsAreURLs' /\ InsertsAreNew'
    BY <1>1, <1>2, <1>3 DEF JobsAreURLs, InsertsAreNew
  <1>7. DeletesAreOwn'
    <2>1. del[w] = {}
      BY <1>1 DEF DeletesAreOwn
    <2> QED
      BY <1>1, <1>3, <2>1 DEF DeletesAreOwn
  <1>8. NoDoubleClaim' /\ ClaimedRowsMarked' /\ LostStayMarked'
    BY <1>1, <1>2, <1>3, <1>4 DEF NoDoubleClaim, ClaimedRowsMarked, LostStayMarked
  <1>9. BatchStillPending' /\ QuietBetweenRounds' /\ WaitGroupExact'
    BY <1>1, <1>5 DEF BatchStillPending, SeesPending, QuietBetweenRounds, WaitGroupExact
  <1>10. HostPoolExact'
    BY <1>1, <1>2, <1>3 DEF HostPoolExact
  <1>11. NoTxWhenIdle'
    <2>1. ins[w] = {} /\ del[w] = {}
      BY <1>1 DEF NoTxWhenIdle
    <2> QED
      BY <1>1, <1>2, <1>3, <2>1 DEF NoTxWhenIdle
  <1> QED
    BY <1>6, <1>7, <1>8, <1>9, <1>10, <1>11

\* A worker gets its host: the pool had no other visitor of it.
LEMMA AcquireStep ==
    ASSUME IInv, TypeOK', NEW w \in Worker, Acquire(w)
    PROVE  IInv'
  <1> USE DatabaseAssumption DEF IInv, Claims
  <1>1. /\ pc[w] = "acquire" /\ pc' = [pc EXCEPT ![w] = "visit"]
        /\ HostOf[job[w]] \notin hostnames /\ hostnames' = hostnames \cup {HostOf[job[w]]}
        /\ UNCHANGED <<urls, ins, del, sched, batch, jobs, wg, lost, main, job>>
    BY DEF Acquire, AddHostToHostPool, Goto, dbVars, schedVars, queueVars
  <1>2. /\ Active(w) /\ Working(w) /\ ~Holding(w)
        /\ Active(w)' /\ Working(w)' /\ Holding(w)'
    BY <1>1 DEF Active, Working, Holding, TypeOK
  <1>3. \A v \in Worker : v # w => /\ Active(v)' <=> Active(v)
                                   /\ Working(v)' <=> Working(v)
                                   /\ Holding(v)' <=> Holding(v)
                                   /\ pc'[v] = pc[v]
    BY <1>1 DEF Active, Working, Holding, TypeOK
  <1>4. SendQueue' = SendQueue
    BY <1>1 DEF SendQueue
  <1>5. Outstanding' = Outstanding
    BY <1>1, <1>2, <1>3, <1>4 DEF Outstanding
  <1>6. JobsAreURLs' /\ NoTxWhenIdle' /\ InsertsAreNew'
    BY <1>1, <1>2, <1>3 DEF JobsAreURLs, NoTxWhenIdle, InsertsAreNew
  <1>7. DeletesAreOwn'
    BY <1>1, <1>3 DEF DeletesAreOwn
  <1>8. NoDoubleClaim' /\ ClaimedRowsMarked' /\ LostStayMarked'
    BY <1>1, <1>2, <1>3, <1>4 DEF NoDoubleClaim, ClaimedRowsMarked, LostStayMarked
  <1>9. BatchStillPending' /\ QuietBetweenRounds' /\ WaitGroupExact'
    BY <1>1, <1>5 DEF BatchStillPending, SeesPending, QuietBetweenRounds, WaitGroupExact
  <1>10. HostPoolExact'
    <2>1. \A v \in Worker : Holding(v) => HostOf[job[v]] \in hostnames
      BY DEF HostPoolExact
    <2>2. \A v \in Worker : Holding(v)' <=> (Holding(v) \/ v = w)
      BY <1>2, <1>3
    <2>3. hostnames' = {HostOf[job[v]] : v \in {x \in Worker : Holding(x)'}}
      BY <1>1, <2>2 DEF HostPoolExact
    <2>4. \A u, v \in Worker : u # v /\ Holding(u)' /\ Holding(v)' => HostOf[job[u]] # HostOf[job[v]]
      BY <1>1, <2>1, <2>2 DEF HostPoolExact
    <2> QED
      BY <1>1, <2>3, <2>4 DEF HostPoolExact
  <1> QED
    BY <1>6, <1>7, <1>8, <1>9, <1>10

\* A worker gives its host back, and nobody else's.
LEMMA ReleaseStep ==
    ASSUME IInv, TypeOK', NEW w \in Worker, Release(w)
    PROVE  IInv'
  <1> USE DatabaseAssumption DEF IInv, Claims
  <1>1. /\ pc[w] = "release" /\ pc' = [pc EXCEPT ![w] = "done"]
        /\ hostnames' = hostnames \ {HostOf[job[w]]}
        /\ UNCHANGED <<urls, ins, del, sched, batch, jobs, wg, lost, main, job>>
    BY DEF Release, RemoveHostFromPool, Goto, dbVars, schedVars, queueVars
  <1>2. /\ Active(w) /\ Working(w) /\ Holding(w)
        /\ Active(w)' /\ Working(w)' /\ ~Holding(w)'
    BY <1>1 DEF Active, Working, Holding, TypeOK
  <1>3. \A v \in Worker : v # w => /\ Active(v)' <=> Active(v)
                                   /\ Working(v)' <=> Working(v)
                                   /\ Holding(v)' <=> Holding(v)
                                   /\ pc'[v] = pc[v]
    BY <1>1 DEF Active, Working, Holding, TypeOK
  <1>4. SendQueue' = SendQueue
    BY <1>1 DEF SendQueue
  <1>5. Outstanding' = Outstanding
    BY <1>1, <1>2, <1>3, <1>4 DEF Outstanding
  <1>6. JobsAreURLs' /\ NoTxWhenIdle' /\ InsertsAreNew'
    BY <1>1, <1>2, <1>3 DEF JobsAreURLs, NoTxWhenIdle, InsertsAreNew
  <1>7. DeletesAreOwn'
    BY <1>1, <1>3 DEF DeletesAreOwn, TypeOK
  <1>8. NoDoubleClaim' /\ ClaimedRowsMarked' /\ LostStayMarked'
    BY <1>1, <1>2, <1>3, <1>4 DEF NoDoubleClaim, ClaimedRowsMarked, LostStayMarked
  <1>9. BatchStillPending' /\ QuietBetweenRounds' /\ WaitGroupExact'
    BY <1>1, <1>5 DEF BatchStillPending, SeesPending, QuietBetweenRounds, WaitGroupExact
  <1>10. HostPoolExact'
    <2>1. \A v \in Worker : Holding(v)' <=> (Holding(v) /\ v # w)
      BY <1>2, <1>3
    <2>2. hostnames' = {HostOf[job[v]] : v \in {x \in Worker : Holding(x)'}}
      BY <1>1, <1>2, <2>1 DEF HostPoolExact
    <2> QED
      BY <1>1, <2>1, <2>2 DEF HostPoolExact
  <1> QED
    BY <1>6, <1>7, <1>8, <1>9, <1>10

\* Done takes one job off the count, and only that worker had it.
LEMMA DoneStep ==
    ASSUME IInv, TypeOK', NEW w \in Worker, Done(w)
    PROVE  IInv'
  <1> USE DatabaseAssumption DEF IInv, Claims
  <1>1. /\ pc[w] = "done" /\ pc' = [pc EXCEPT ![w] = "end"] /\ wg' = wg - 1
        /\ UNCHANGED <<urls, ins, del, hostnames, sched, batch, jobs, lost, main, job>>
    BY DEF Done, Goto, dbVars, schedVars
  <1>2. /\ Active(w) /\ Working(w) /\ ~Holding(w)
        /\ Active(w)' /\ ~Working(w)' /\ ~Holding(w)'
    BY <1>1 DEF Active, Working, Holding, TypeOK
  <1>3. \A v \in Worker : v # w => /\ Active(v)' <=> Active(v)
                                   /\ Working(v)' <=> Working(v)
                                   /\ Holding(v)' <=> Holding(v)
                                   /\ pc'[v] = pc[v]
    BY <1>1 DEF Active, Working, Holding, TypeOK
  <1>4. SendQueue' = SendQueue
    BY <1>1 DEF SendQueue
  <1>5. Outstanding' = Outstanding \ {job[w]} /\ job[w] \in Outstanding
    <2>1. job[w] \notin SendQueue \cup jobs \cup lost
      BY <1>2 DEF NoDoubleClaim, LostStayMarked
    <2>2. \A v \in Worker : v # w /\ Working(v) => job[v] # job[w]
      BY <1>2 DEF NoDoubleClaim, Working
    <2>3. \A v \in Worker : Working(v)' <=> (Working(v) /\ v # w)
      BY <1>2, <1>3
    <2> QED
      BY <1>1, <1>2, <1>4, <2>1, <2>2, <2>3 DEF Outstanding
  <1>6. WaitGroupExact'
    <2>1. Outstanding \subseteq URL
      BY <1>2, CountedWhileWorking
    <2> QED
      BY <1>1, <1>5, <2>1, FiniteInstance, FS_RemoveElement DEF WaitGroupExact
  <1>7. QuietBetweenRounds'
    BY <1>1, <1>5 DEF QuietBetweenRounds
  <1>8. JobsAreURLs' /\ NoTxWhenIdle' /\ InsertsAreNew'
    BY <1>1, <1>2, <1>3 DEF JobsAreURLs, NoTxWhenIdle, InsertsAreNew
  <1>9. DeletesAreOwn'
    BY <1>1, <1>3 DEF DeletesAreOwn, TypeOK
  <1>10. NoDoubleClaim' /\ ClaimedRowsMarked' /\ LostStayMarked'
    BY <1>1, <1>2, <1>3, <1>4 DEF NoDoubleClaim, ClaimedRowsMarked, LostStayMarked
  <1>11. BatchStillPending'
    BY <1>1 DEF BatchStillPending, SeesPending
  <1>12. HostPoolExact'
    BY <1>1, <1>2, <1>3 DEF HostPoolExact
  <1> QED
    BY <1>6, <1>7, <1>8, <1>9, <1>10, <1>11, <1>12

\* A step that takes a blocked goroutine off FatalErrorsChan, a signal, and the time
\* that passes: no claim, transaction or count changes.
LEMMA FrameStep ==
    ASSUME IInv, TypeOK',
           UNCHANGED <<urls, ins, del, hostnames, batch, jobs, wg, lost, job>>,
           main' = "reset" <=> main = "reset",
           sched' = sched \/ (sched = "fatal" /\ sched' = "stopped"),
           \A v \in Worker : pc'[v] = pc[v] \/ (pc[v] = "fatal" /\ pc'[v] = "idle")
    PROVE  IInv'
  <1> USE DatabaseAssumption DEF IInv, Claims
  <1>1. \A v \in Worker : /\ Active(v)' <=> Active(v)
                          /\ Working(v)' <=> Working(v)
                          /\ Holding(v)' <=> Holding(v)
    BY DEF Active, Working, Holding
  <1>2. SendQueue' = SendQueue
    BY DEF SendQueue
  <1>3. Outstanding' = Outstanding
    BY <1>1, <1>2 DEF Outstanding
  <1>4. JobsAreURLs' /\ NoTxWhenIdle' /\ InsertsAreNew' /\ DeletesAreOwn'
    BY <1>1 DEF JobsAreURLs, NoTxWhenIdle, InsertsAreNew, DeletesAreOwn
  <1>5. NoDoubleClaim' /\ ClaimedRowsMarked' /\ LostStayMarked'
    BY <1>1, <1>2 DEF NoDoubleClaim, ClaimedRowsMarked, LostStayMarked
  <1>6. BatchStillPending' /\ QuietBetweenRounds' /\ WaitGroupExact'
    BY <1>3 DEF BatchStillPending, SeesPending, QuietBetweenRounds, WaitGroupExact
  <1>7. HostPoolExact'
    BY <1>1 DEF HostPoolExact
  <1> QED
    BY <1>4, <1>5, <1>6, <1>7

\* Shutdown's UPDATE changes no claim, transaction or count, and no row that is absent.
LEMMA ResetStep ==
    ASSUME IInv, TypeOK', ResetMarks
    PROVE  IInv'
  <1> USE DatabaseAssumption DEF IInv, Claims
  <1>1. /\ main' = "reset"
        /\ \A u \in URL : (urls[u] = "absent" => urls'[u] = "absent") /\ urls'[u] # "processing"
        /\ UNCHANGED <<ins, del, hostnames, sched, batch, jobs, wg, lost, pc, job>>
    BY DEF ResetMarks, UnmarkAll, schedVars, queueVars, workerVars, TypeOK, DbTypeOK, RowState
  <1>2. \A v \in Worker : /\ Active(v)' <=> Active(v)
                          /\ Working(v)' <=> Working(v)
                          /\ Holding(v)' <=> Holding(v)
    BY <1>1 DEF Active, Working, Holding
  <1>3. SendQueue' = SendQueue
    BY <1>1 DEF SendQueue
  <1>4. Outstanding' = Outstanding
    BY <1>1, <1>2, <1>3 DEF Outstanding
  <1>5. JobsAreURLs' /\ NoTxWhenIdle' /\ DeletesAreOwn'
    BY <1>1, <1>2 DEF JobsAreURLs, NoTxWhenIdle, DeletesAreOwn
  <1>6. InsertsAreNew'
    <2>1. \A t \in Tx : ins[t] \subseteq URL
      BY DEF TypeOK, DbTypeOK
    <2> QED
      BY <1>1, <2>1 DEF InsertsAreNew
  <1>7. NoDoubleClaim' /\ ClaimedRowsMarked' /\ LostStayMarked'
    BY <1>1, <1>2, <1>3 DEF NoDoubleClaim, ClaimedRowsMarked, LostStayMarked
  <1>8. BatchStillPending' /\ QuietBetweenRounds' /\ WaitGroupExact'
    BY <1>1, <1>4 DEF BatchStillPending, QuietBetweenRounds, WaitGroupExact, TypeOK
  <1>9. HostPoolExact'
    BY <1>1, <1>2 DEF HostPoolExact
  <1> QED
    BY <1>5, <1>6, <1>7, <1>8, <1>9

-----------------------------------------------------------------------------
(***************************************************************************)
(* The inductive invariant holds.                                          *)
(***************************************************************************)

\* Every initial state of the crawler, whatever an earlier run left in the tables.
THEOREM InvariantInit == Init => IInv
  <1> SUFFICES ASSUME Init PROVE IInv
    OBVIOUS
  <1> USE DEF Init, DbInit, IInv
  <1>1. TypeOK
    BY DEF TypeOK, DbTypeOK, SchedState, WorkerState
  <1>2. \A w \in Worker : ~Active(w) /\ ~Working(w) /\ ~Holding(w)
    BY DEF Active, Working, Holding
  <1>3. SendQueue = {}
    BY DEF SendQueue
  <1>4. Outstanding = {}
    BY <1>2, <1>3 DEF Outstanding
  <1>5. JobsAreURLs /\ NoTxWhenIdle /\ InsertsAreNew /\ DeletesAreOwn
    BY <1>2 DEF JobsAreURLs, NoTxWhenIdle, InsertsAreNew, DeletesAreOwn
  <1>6. NoDoubleClaim /\ ClaimedRowsMarked /\ LostStayMarked /\ BatchStillPending
    BY <1>2, <1>3 DEF Claims, NoDoubleClaim, ClaimedRowsMarked, LostStayMarked, BatchStillPending
  <1>7. QuietBetweenRounds /\ WaitGroupExact
    BY <1>4, FS_EmptySet DEF QuietBetweenRounds, WaitGroupExact
  <1>8. HostPoolExact
    BY <1>2 DEF HostPoolExact
  <1> QED
    BY <1>1, <1>5, <1>6, <1>7, <1>8

LEMMA WorkerStep ==
    ASSUME IInv, NEW w \in Worker, WorkerNext(w) \/ WorkerFails(w)
    PROVE  IInv'
  <1>1. TypeOK'
    BY WorkerTypeOK DEF IInv
  <1>2. CASE CommitFails(w) \/ RollbackTx(w)
    <2>1. /\ pc[w] = "end" /\ Discard(w)
          /\ \E p \in {"idle", "fatal"} : Return(w, p)
          /\ UNCHANGED <<hostnames, sched, hosts, batch, jobs, wg, lost, main>>
      BY <1>2 DEF CommitFails, RollbackTx, schedVars, queueVars
    <2> QED
      BY <1>1, <2>1, ReturnStep
  <1>3. CASE \/ RejectScheme(w) \/ Refuse(w) \/ Admit(w)
             \/ VisitGemini(w) \/ VisitGopher(w) \/ VisitRedirect(w) \/ VisitBadRedirect(w)
             \/ CheckLink(w) \/ RejectLink(w) \/ LinksStored(w) \/ Different(w)
    BY <1>1, <1>3, InsideTxStep
  <1>4. CASE DeadlockVictim(w) \/ DbFails(w) \/ TimesOut(w) \/ TimesOutLate(w)
    BY <1>1, <1>4, AbortStep
  <1>5. CASE Receive(w)
    BY <1>1, <1>5, ReceiveStep
  <1>6. CASE ReturnEarly(w)
    BY <1>1, <1>6, ReturnEarlyStep
  <1>7. CASE Acquire(w)
    BY <1>1, <1>7, AcquireStep
  <1>8. CASE InsertLink(w)
    BY <1>1, <1>8, InsertLinkStep
  <1>9. CASE Identical(w) \/ Save(w)
    BY <1>1, <1>9, RemoveStep
  <1>10. CASE Release(w)
    BY <1>1, <1>10, ReleaseStep
  <1>11. CASE Done(w)
    BY <1>1, <1>11, DoneStep
  <1>12. CASE CommitTx(w)
    BY <1>1, <1>12, CommitTxStep
  <1> QED
    BY <1>2, <1>3, <1>4, <1>5, <1>6, <1>7, <1>8, <1>9, <1>10, <1>11, <1>12
       DEF WorkerNext, WorkerFails

\* Every step of the scheduler, a worker, main or the environment.
THEOREM InvariantNext == IInv /\ [Next]_vars => IInv'
  <1> SUFFICES ASSUME IInv, [Next]_vars PROVE IInv'
    OBVIOUS
  <1>1. CASE SchedulerNext \/ SchedulerFails
    <2>1. TypeOK'
      BY <1>1, SchedulerTypeOK DEF IInv
    <2> QED
      BY <1>1, <2>1, QuietSchedulerStep, CommitBatchStep, SendStep DEF SchedulerNext
  <1>2. CASE \E w \in Worker : WorkerNext(w) \/ WorkerFails(w)
    BY <1>2, WorkerStep
  <1>3. CASE MainNext \/ ReceiveSignal \/ ResetMarks \/ TimePasses
    <2>1. TypeOK'
      BY <1>3, EnvironmentTypeOK DEF IInv
    <2>2. CASE ReceiveFatalOfScheduler
      BY <2>1, <2>2, FrameStep DEF ReceiveFatalOfScheduler, dbVars, queueVars, workerVars
    <2>3. CASE \E w \in Worker : ReceiveFatalOf(w)
      <3>1. PICK w \in Worker : ReceiveFatalOf(w)
        BY <2>3
      <3>2. \A v \in Worker : pc'[v] = pc[v] \/ (pc[v] = "fatal" /\ pc'[v] = "idle")
        BY <3>1 DEF ReceiveFatalOf, Goto, IInv, TypeOK
      <3> QED
        BY <2>1, <3>1, <3>2, FrameStep DEF ReceiveFatalOf, dbVars, schedVars, queueVars
    <2>4. CASE ReceiveSignal \/ TimePasses
      BY <2>1, <2>4, FrameStep
         DEF ReceiveSignal, TimePasses, AgeSnapshot, AgeHistory,
             dbVars, schedVars, queueVars, workerVars
    <2>5. CASE ResetMarks
      BY <2>1, <2>5, ResetStep
    <2> QED
      BY <1>3, <2>2, <2>3, <2>4, <2>5 DEF MainNext
  <1>4. CASE UNCHANGED vars
    <2>1. TypeOK'
      BY <1>4 DEF IInv, TypeOK, DbTypeOK, vars
    <2> QED
      BY <1>4, <2>1, FrameStep DEF vars
  <1> QED
    BY <1>1, <1>2, <1>3, <1>4 DEF Next

THEOREM Invariance == Spec => []IInv
  BY InvariantInit, InvariantNext, PTL DEF Spec

-----------------------------------------------------------------------------
(***************************************************************************)
(* What follows from it.                                                   *)
(***************************************************************************)

\* The variables of the crawler have their types in every reachable state (the state of
\* cmd/crawler and common/worker.go).
THEOREM TypeCorrect == Spec => []TypeOK
  <1>1. IInv => TypeOK
    BY DEF IInv
  <1> QED
    BY <1>1, Invariance, PTL

\* A URL that the scheduler has marked is with one goroutine or one channel slot at most,
\* although a round starts before the transactions of the last one have ended
\* (RunWorkerWithTx calls WorkerWG.Done before Commit); after Shutdown's UPDATE, which runs
\* while the goroutines go on, only until the worker has called Done.
THEOREM ClaimsAreExclusive == Spec => []NoDoubleClaim
  <1>1. IInv => NoDoubleClaim
    BY DEF IInv
  <1> QED
    BY <1>1, Invariance, PTL

\* What is claimed is marked in the committed table (MarkURLsAsBeingProcessed), until
\* Database.Shutdown takes the marks off.
THEOREM ClaimsAreMarked == Spec => []ClaimedRowsMarked
  <1>1. IInv => ClaimedRowsMarked
    BY DEF IInv
  <1> QED
    BY <1>1, Invariance, PTL

\* WorkerWG counts the jobs that have no Done yet, so it never goes below zero and Wait
\* never returns early (runJobScheduler, RunWorkerWithTx).
THEOREM WaitGroupCounts == Spec => []WaitGroupExact
  <1>1. IInv => WaitGroupExact
    BY DEF IInv
  <1> QED
    BY <1>1, Invariance, PTL

\* One visit per host, and no host left behind on any path (AddHostToHostPool and the
\* deferred RemoveHostFromPool).
THEOREM OneVisitPerHost == Spec => []HostPoolExact
  <1>1. IInv => HostPoolExact
    BY DEF IInv
  <1> QED
    BY <1>1, Invariance, PTL

\* No worker can be waiting for a row while the scheduler has a transaction open
\* (WorkerWG.Wait).
THEOREM SchedulerRunsAlone == Spec => []RoundBarrier
  <1>1. IInv => RoundBarrier
    BY DEF IInv, QuietBetweenRounds, RoundBarrier, InSchedulerTx, Outstanding
  <1> QED
    BY <1>1, Invariance, PTL
=============================================================================
