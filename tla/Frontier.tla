------------------------------ MODULE Frontier ------------------------------
(***************************************************************************)
(* What the crawler promises about its queue, without workers, channels or *)
(* transactions.  A URL is not in the queue, queued, leased for a visit,   *)
(* or stuck: marked as being processed while nobody processes it.          *)
(*                                                                         *)
(* A lease ends in one step in which the URL leaves the queue and the      *)
(* links that its page brought enter it, or it is abandoned.               *)
(*                                                                         *)
(* When the crawler shuts down, the stuck URLs are queued again, while     *)
(* visits still go on.  From then on less is promised of a lease: it may   *)
(* end in any way, but no URL leaves the queue without a lease, and none   *)
(* but a leased one gets stuck.                                            *)
(***************************************************************************)
CONSTANTS
    URL,
    MayAbandon  \* a visit may end without a result

VARIABLES
    st,
    unstuck     \* the crawler is shutting down and has queued the stuck URLs again

State == {"none", "queued", "leased", "stuck"}

Init == st \in [URL -> State \ {"leased"}] /\ unstuck = FALSE

\* URLs that are not in the queue may enter it at any step, and keep their state otherwise.
StaysOrEnters(u) == st'[u] = st[u] \/ (st[u] = "none" /\ st'[u] = "queued")

\* A round starts: some URLs are leased, recrawled roots enter the queue.
Lease ==
    /\ st' \in [URL -> State]
    /\ \A u \in URL : StaysOrEnters(u) \/ (st[u] \in {"none", "queued"} /\ st'[u] = "leased")
    /\ UNCHANGED unstuck

\* A visit ends with a result and new links.
Complete ==
    /\ st' \in [URL -> State]
    /\ \E u \in URL :
          /\ st[u] = "leased" /\ st'[u] = "none"
          /\ \A v \in URL \ {u} : StaysOrEnters(v)
    /\ UNCHANGED unstuck

Abandon ==
    /\ MayAbandon
    /\ \E u \in {v \in URL : st[v] = "leased"} : st' = [st EXCEPT ![u] = "stuck"]
    /\ UNCHANGED unstuck

Unstick ==
    /\ ~unstuck
    /\ st' = [u \in URL |-> IF st[u] = "stuck" THEN "queued" ELSE st[u]]
    /\ unstuck' = TRUE

\* A visit that goes on after that ends: the URL leaves the queue, is queued again, or is
\* stuck, and links enter the queue.
Drain ==
    /\ unstuck
    /\ st' \in [URL -> State]
    /\ \E u \in URL :
          /\ st[u] = "leased"
          /\ \A v \in URL \ {u} : StaysOrEnters(v)
    /\ UNCHANGED unstuck

Next == Lease \/ Complete \/ Abandon \/ Unstick \/ Drain

Spec == Init /\ [][Next]_<<st, unstuck>>
=============================================================================
