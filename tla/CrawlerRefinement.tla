------------------------- MODULE CrawlerRefinement -------------------------
(***************************************************************************)
(* Crawler implements Frontier: what the queue table and the claims of the *)
(* scheduler and of the workers amount to for each URL.                    *)
(***************************************************************************)
EXTENDS Crawler

CONSTANT MayAbandon

\* An instance in which no visit has to end without a result: what the environment can
\* fail at does not happen, every URL and every target of a redirect parses and can be
\* crawled, and no page has two links (with two, pages can wait for each other's rows).
NothingFails ==
    /\ Faults \subseteq {"signal"}
    /\ Unparseable = {} /\ NoURL \notin Redirects
    /\ GopherEnable => \A u \in URL : Scheme[u] # "other"
    /\ \A L \in PageLinks : \A k, l \in L : k = l

\* Frontier may forbid the end without a result only for such an instance.
ASSUME RefinementAssumption == MayAbandon \/ NothingFails

Leased == SendQueue \cup jobs \cup {job[w] : w \in {v \in Worker : Active(v)}}

Unleased == [absent |-> "none", pending |-> "queued", processing |-> "stuck"]

FrontierState == [u \in URL |-> IF u \in Leased THEN "leased" ELSE Unleased[urls[u]]]

Promise == INSTANCE Frontier WITH st <- FrontierState, unstuck <- (main = "reset")

\* Every lease is taken from a row that is free, is never lost or doubled, and ends
\* with the page's removal and its new links in one step, or with a stuck row, until
\* Shutdown's UPDATE queues the stuck rows again, and the leased ones when their workers
\* end.
ImplementsFrontier == Promise!Spec

-----------------------------------------------------------------------------
(***************************************************************************)
(* Why nothing is abandoned in such an instance.  The invariant is         *)
(* inductive relative to IInv and TxInv of CrawlerInvariant.               *)
(***************************************************************************)

\* Before the visit brings it something.
BeforeVisit(w) == pc[w] \in {"idle", "start", "refuse", "acquire", "visit"}

\* w has met no error, a transaction that is over for WorkOnUrl has removed the row of its
\* job (until the reset), and a worker that waits for a row has inserted none itself.
Undisturbed(w) ==
    /\ res[w] = "ok" /\ pc[w] # "fatal"
    /\ main # "reset" /\ pc[w] \in {"release", "done", "end"} => del[w] = {job[w]}
    /\ BeforeVisit(w) => found[w] = {}
    /\ ins[w] \subseteq stored[w] /\ stored[w] \subseteq found[w]
    /\ link[w] # NoURL => link[w] \in found[w] \ stored[w]
    /\ \A k, l \in found[w] : k = l

UndisturbedInv == NothingFails => \A w \in Worker : Undisturbed(w)
=============================================================================
