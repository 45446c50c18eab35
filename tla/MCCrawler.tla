----------------------------- MODULE MCCrawler -----------------------------
(***************************************************************************)
(* Instances of Crawler for TLC: URLs a1 and a2 on host A, b1 to b3 on     *)
(* host B, and two workers.  The cfg files choose what the instance may    *)
(* do: which pages link to what, and what may fail.                        *)
(***************************************************************************)
EXTENDS CrawlerInvariant, CrawlerRefinement, TLC

CONSTANTS a1, a2, b1, b2, b3, A, B, w1, w2, scheduler, noURL

ThreeURLs == {a1, a2, b1}
FiveURLs == {a1, a2, b1, b2, b3}
TwoWorkers == {w1, w2}
MCHost == {A, B}
MCHostOf == [u \in URL |-> IF u \in {a1, a2} THEN A ELSE B]
AllGemini == [u \in URL |-> "gemini"]
GopherB1B3 == [u \in URL |-> IF u \in {b1, b3} THEN "gopher" ELSE "gemini"]
MixedSchemes == [u \in URL |-> IF u \in {a2, b2} THEN "gopher" ELSE IF u = b3 THEN "other" ELSE "gemini"]

NoLinks == {{}}
LinkA2 == {{}, {a2}}
LinkA2B2 == {{a2, b2}}
LinkA2B3 == {{a2, b3}}

NewURLs(queued) ==
    /\ urls = [u \in URL |-> IF u \in queued THEN "pending" ELSE "absent"]
    /\ hist = [u \in URL |-> "never"] /\ recent = {}

\* Two rows to crawl, and a URL that only a link can bring in.
InitTwoQueued == NewURLs({a1, b1}) /\ Init
SpecTwoQueued == InitTwoQueued /\ [][Next]_vars

\* The same, and a row of a scheme that cannot be crawled.
InitMixed == NewURLs({a1, b1, b3}) /\ Init
FairSpecMixed == InitMixed /\ [][Next]_vars /\ Fairness

\* Three rows to crawl; the root a1 was crawled long ago.
InitQueued ==
    /\ urls = [u \in URL |-> "pending"]
    /\ hist = [u \in URL |-> IF u = a1 THEN "old" ELSE "never"] /\ recent = {}
    /\ Init
SpecQueued == InitQueued /\ [][Next]_vars

\* An earlier run, with -gopher, left a snapshot of each root and the row of b1.
InitLeftOver ==
    /\ urls = [u \in URL |-> IF u \in {a1, a2, b1} THEN "pending" ELSE "absent"]
    /\ hist = [u \in URL |-> IF u \in {a1, b1} THEN "old" ELSE "never"] /\ recent = {}
    /\ Init
SpecLeftOver == InitLeftOver /\ [][Next]_vars

WorkerSymmetry == Permutations(Worker)
=============================================================================
