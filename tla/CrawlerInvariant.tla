-------------------------- MODULE CrawlerInvariant --------------------------
(***************************************************************************)
(* The inductive invariant behind the safety properties of Crawler.        *)
(*                                                                         *)
(* NoDoubleClaim and ClaimedRowsMarked are not inductive: that a commit of *)
(* one worker does not touch a row that somebody else has claimed follows  *)
(* only from what open transactions can contain.                           *)
(***************************************************************************)
EXTENDS Crawler

\* A worker with a job has a URL.
JobsAreURLs == \A w \in Worker : Active(w) => job[w] \in URL

\* A worker that has no transaction, or none yet, has done nothing in one.
NoTxWhenIdle == \A w \in Worker : ~Active(w) \/ pc[w] = "start" => ins[w] = {} /\ del[w] = {}

\* A row inserted and not committed is in no committed table and in one transaction.
InsertsAreNew ==
    /\ \A t \in Tx : \A u \in ins[t] : urls[u] = "absent"
    /\ \A s, t \in Tx : s # t => ins[s] \cap ins[t] = {}

\* A worker deletes the row of its job and no other, as the last thing it does; the
\* scheduler deletes nothing.
DeletesAreOwn ==
    /\ \A w \in Worker : del[w] \subseteq {job[w]}
    /\ \A w \in Worker : del[w] # {} => pc[w] \in {"release", "done", "end"}
    /\ del[Scheduler] = {}

\* The jobs that never got a Done are claimed by nobody, also after the reset, as WorkerWG
\* stays above zero; until then they stay marked.
LostStayMarked ==
    /\ main # "reset" => \A u \in lost : urls[u] = "processing"
    /\ lost \cap (jobs \cup SendQueue) = {}
    /\ \A w \in Worker : Claims(w) => job[w] \notin lost

\* The rows that the scheduler is about to mark are not marked, and, until the reset, still
\* there.  (After it, a worker that is past Done may remove them first.)
BatchStillPending ==
    sched = "commit" =>
        \A u \in batch : /\ urls[u] # "processing"
                         /\ main # "reset" => SeesPending(Scheduler, u)

\* Outside of "send" and "wait" there is no job that lacks its Done.
QuietBetweenRounds == sched \notin {"send", "wait"} => Outstanding = {}

IInv ==
    /\ TypeOK
    /\ JobsAreURLs
    /\ NoTxWhenIdle
    /\ InsertsAreNew
    /\ DeletesAreOwn
    /\ NoDoubleClaim
    /\ ClaimedRowsMarked
    /\ LostStayMarked
    /\ BatchStillPending
    /\ QuietBetweenRounds
    /\ WaitGroupExact
    /\ HostPoolExact

-----------------------------------------------------------------------------
(***************************************************************************)
(* The second inductive invariant: what the open transactions of the       *)
(* workers will have done to the tables when they commit.  It is inductive *)
(* relative to IInv.                                                       *)
(***************************************************************************)

\* Without -gopher no other scheme gets on its way to the workers ...
SendsOnlyGemini ==
    ~GopherEnable => \A u \in batch \cup jobs \cup ins[Scheduler] : Scheme[u] = "gemini"

\* ... or, through a page or a redirect, on its way to the queue.
OnlyGemini(w) ==
    ~GopherEnable =>
        /\ Active(w) => Scheme[job[w]] = "gemini"
        /\ link[w] # NoURL => Scheme[link[w]] = "gemini"
        /\ \A u \in ins[w] \cup found[w] : Scheme[u] = "gemini"

\* A URL with a recent snapshot has a snapshot.
RecentHaveHistory == \A u \in recent : hist[u] # "never"

\* When t commits there is a snapshot of u.
WillHaveRecord(t, u) ==
    \/ <<u, "gemtext">> \in wrote[t] \/ <<u, "other">> \in wrote[t]
    \/ <<u, "touch">> \in wrote[t] /\ hist[u] # "never"

DeletesRecorded(w) == ~DryRun => \A u \in del[w] : WillHaveRecord(w, u)

\* A worker whose WorkOnUrl returned nil commits all that it did, or, when its time ran
\* out after that, nothing.  (After the reset it may have found no row to remove.)
AllOrNothing(w) ==
    main # "reset" /\ res[w] = "ok" /\ pc[w] \in {"release", "done", "end"} =>
        \/ del[w] = {job[w]}
        \/ ins[w] = {} /\ del[w] = {} /\ wrote[w] = {}

\* The transaction of w is intact, and has got to the links of the page, or past them.
KeepsLinks(w) ==
    \/ pc[w] \in {"redirect", "compare", "links", "save"}
    \/ res[w] = "ok" /\ pc[w] \in {"release", "done", "end"} /\ wrote[w] # {}

\* Of a link that has been dealt with there is a row or a snapshot, whatever the other
\* transactions commit meanwhile.
LinksKept(w) ==
    /\ pc[w] \in {"idle", "start", "refuse", "acquire", "visit", "fatal"} => stored[w] = {}
    /\ ~DryRun /\ KeepsLinks(w) =>
          \A l \in stored[w] : Sees(w, l) \/ hist[l] # "never" \/ l = job[w]

WorkerTxInv(w) == OnlyGemini(w) /\ DeletesRecorded(w) /\ AllOrNothing(w) /\ LinksKept(w)

TxInv ==
    /\ SendsOnlyGemini
    /\ RecentHaveHistory
    /\ \A w \in Worker : WorkerTxInv(w)
=============================================================================
