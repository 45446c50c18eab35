-------------------------- MODULE RobotsMatchProofs --------------------------
(***************************************************************************)
(* Proofs about the robots.txt cache, for every set of workers and hosts   *)
(* and whatever the servers answer.                                        *)
(***************************************************************************)
EXTENDS RobotsMatch, TLAPS

USE RobotsAssumption

\* The initial states satisfy the invariant.
LEMMA RobotsInit == Init => RobotsInv
  BY DEF Init, RobotsInv, TypeOK, HasURL, EntriesSound, AnswersStored, ErrorsNoted,
         DisallowedNotVisited

\* What the end of a download does to the cache and to the history (populateRobotsCache).
LEMMA FetchedEffect ==
    ASSUME RobotsInv, NEW w \in Worker, Fetched(w)
    PROVE  \E answer \in AnswerKind :
              /\ DOMAIN RobotsCache' = DOMAIN RobotsCache \cup {Key(w)}
              /\ RobotsCache' \in [DOMAIN RobotsCache' -> SUBSET URL]
              /\ RobotsCache'[Key(w)] = Entries(answer, Key(w))
              /\ \A h \in DOMAIN RobotsCache : h # Key(w) => RobotsCache'[h] = RobotsCache[h]
              /\ answered' = [answered EXCEPT ![Key(w)] = @ \cup {<<w, answer>>}]
              /\ answered' \in [Host -> SUBSET (Worker \X AnswerKind)]
              /\ <<w, answer>> \in answered'[Key(w)]
              /\ \A h \in Host : answered[h] \subseteq answered'[h]
              /\ pc' = [pc EXCEPT ![w] = IF url[w] \in Entries(answer, Key(w))
                                         THEN "idle" ELSE "acquire"]
  <1>1. Key(w) \in Host
    BY DEF RobotsInv, HasURL, Fetched, Key
  <1>2. PICK answer \in Answers :
            /\ Store(Key(w), Entries(answer, Key(w)))
            /\ answered' = [answered EXCEPT ![Key(w)] = @ \cup {<<w, answer>>}]
            /\ Verdict(w, Entries(answer, Key(w)))
    BY DEF Fetched
  <1>3. Entries(answer, Key(w)) \in SUBSET URL
    BY <1>1 DEF Entries
  <1>4. /\ DOMAIN RobotsCache' = DOMAIN RobotsCache \cup {Key(w)}
        /\ RobotsCache' \in [DOMAIN RobotsCache' -> SUBSET URL]
        /\ RobotsCache'[Key(w)] = Entries(answer, Key(w))
        /\ \A h \in DOMAIN RobotsCache : h # Key(w) => RobotsCache'[h] = RobotsCache[h]
    BY <1>2, <1>3 DEF Store, RobotsInv, TypeOK
  <1>5. /\ answered' \in [Host -> SUBSET (Worker \X AnswerKind)]
        /\ <<w, answer>> \in answered'[Key(w)]
        /\ \A h \in Host : answered[h] \subseteq answered'[h]
    BY <1>1, <1>2 DEF RobotsInv, TypeOK
  <1>6. pc' = [pc EXCEPT ![w] = IF url[w] \in Entries(answer, Key(w)) THEN "idle" ELSE "acquire"]
    BY <1>2 DEF Verdict, Goto
  <1> QED
    BY <1>2, <1>4, <1>5, <1>6

\* Every step preserves the invariant.
LEMMA RobotsNext == RobotsInv /\ [Next]_vars => RobotsInv'
  <1> SUFFICES ASSUME RobotsInv, [Next]_vars PROVE RobotsInv'
    OBVIOUS
  <1> USE DEF RobotsInv
  <1>1. CASE UNCHANGED vars
    BY <1>1 DEF vars, TypeOK, HasURL, EntriesSound, AnswersStored, DisallowedNotVisited,
                ErrorsNoted, Failed, Key
  <1>2. ASSUME NEW w \in Worker, Start(w) PROVE RobotsInv'
    <2>1. TypeOK' /\ HasURL'
      BY <1>2 DEF Start, Goto, TypeOK, HasURL
    <2>2. EntriesSound' /\ AnswersStored'
      BY <1>2 DEF Start, EntriesSound, AnswersStored, Failed
    <2>3. ErrorsNoted'
      BY <1>2 DEF Start, Goto, TypeOK, ErrorsNoted, Key
    <2>4. DisallowedNotVisited'
      BY <1>2 DEF Start, Goto, TypeOK, DisallowedNotVisited, Failed, Key
    <2> QED BY <2>1, <2>2, <2>3, <2>4
  <1>3. ASSUME NEW w \in Worker, MatchDisabled(w) PROVE RobotsInv'
    <2>1. TypeOK' /\ HasURL'
      BY <1>3 DEF MatchDisabled, Goto, TypeOK, HasURL
    <2>2. EntriesSound' /\ AnswersStored'
      BY <1>3 DEF MatchDisabled, EntriesSound, AnswersStored, Failed
    <2>3. ErrorsNoted'
      BY <1>3 DEF MatchDisabled, Goto, TypeOK, ErrorsNoted, Key
    <2>4. DisallowedNotVisited'
      BY <1>3 DEF MatchDisabled, DisallowedNotVisited
    <2> QED BY <2>1, <2>2, <2>3, <2>4
  <1>4. ASSUME NEW w \in Worker, MatchCached(w) PROVE RobotsInv'
    <2>1. TypeOK' /\ HasURL'
      BY <1>4 DEF MatchCached, Verdict, Goto, TypeOK, HasURL
    <2>2. EntriesSound' /\ AnswersStored'
      BY <1>4 DEF MatchCached, EntriesSound, AnswersStored, Failed
    <2>3. ErrorsNoted'
      BY <1>4 DEF MatchCached, Verdict, Goto, TypeOK, ErrorsNoted, Key
    <2>4. DisallowedNotVisited'
      <3>1. RobotsCache[Key(w)] = Disallow[Key(w)] \/ Failed(Key(w))
        BY <1>4 DEF MatchCached, EntriesSound
      <3> QED
        BY <1>4, <3>1 DEF MatchCached, Verdict, Goto, TypeOK, DisallowedNotVisited, Failed, Key
    <2> QED BY <2>1, <2>2, <2>3, <2>4
  <1>5. ASSUME NEW w \in Worker, Fetch(w) PROVE RobotsInv'
    <2>1. TypeOK' /\ HasURL'
      BY <1>5 DEF Fetch, Goto, TypeOK, HasURL
    <2>2. EntriesSound' /\ AnswersStored'
      BY <1>5 DEF Fetch, EntriesSound, AnswersStored, Failed
    <2>3. ErrorsNoted'
      BY <1>5 DEF Fetch, Goto, TypeOK, ErrorsNoted, Key
    <2>4. DisallowedNotVisited'
      BY <1>5 DEF Fetch, Goto, TypeOK, DisallowedNotVisited, Failed, Key
    <2> QED BY <2>1, <2>2, <2>3, <2>4
  <1>6. ASSUME NEW w \in Worker, Fetched(w) PROVE RobotsInv'
    <2>1. /\ Key(w) \in Host
          /\ UNCHANGED <<hostnames, GopherEnable, url>>
          /\ Key(w)' = Key(w)
      BY <1>6 DEF HasURL, Fetched, Key
    <2>2. PICK answer \in AnswerKind :
              /\ DOMAIN RobotsCache' = DOMAIN RobotsCache \cup {Key(w)}
              /\ RobotsCache' \in [DOMAIN RobotsCache' -> SUBSET URL]
              /\ RobotsCache'[Key(w)] = Entries(answer, Key(w))
              /\ \A h \in DOMAIN RobotsCache : h # Key(w) => RobotsCache'[h] = RobotsCache[h]
              /\ answered' = [answered EXCEPT ![Key(w)] = @ \cup {<<w, answer>>}]
              /\ answered' \in [Host -> SUBSET (Worker \X AnswerKind)]
              /\ <<w, answer>> \in answered'[Key(w)]
              /\ \A h \in Host : answered[h] \subseteq answered'[h]
              /\ pc' = [pc EXCEPT ![w] = IF url[w] \in Entries(answer, Key(w))
                                         THEN "idle" ELSE "acquire"]
      BY <1>6, FetchedEffect
    <2>3. TypeOK' /\ HasURL'
      BY <1>6, <2>1, <2>2 DEF Fetched, TypeOK, HasURL
    <2>4. /\ \A h \in Host : Failed(h) => Failed(h)'
          /\ Entries(answer, Key(w)) = Disallow[Key(w)] \/ Failed(Key(w))'
      <3>1. \A h \in Host : Failed(h) => Failed(h)'
        BY <2>2 DEF Failed
      <3>2. CASE answer = "rules"
        BY <3>1, <3>2 DEF Entries
      <3>3. CASE answer # "rules"
        BY <2>1, <2>2, <3>1, <3>3 DEF Failed
      <3> QED BY <3>1, <3>2, <3>3
    <2>5. EntriesSound'
      <3> SUFFICES ASSUME NEW h \in DOMAIN RobotsCache'
                   PROVE  RobotsCache'[h] = Disallow[h] \/ Failed(h)'
        BY DEF EntriesSound
      <3>1. CASE h = Key(w)
        BY <2>1, <2>2, <2>4, <3>1
      <3>2. CASE h # Key(w)
        <4>1. h \in DOMAIN RobotsCache /\ h \in Host
          BY <2>2, <3>2 DEF TypeOK
        <4> QED BY <2>2, <2>4, <3>2, <4>1 DEF EntriesSound
      <3> QED BY <3>1, <3>2
    <2>6. AnswersStored'
      BY <2>1, <2>2 DEF AnswersStored, TypeOK
    <2>7. DisallowedNotVisited'
      <3> SUFFICES ASSUME NEW v \in Worker, pc'[v] \in {"acquire", "visit"}, ~GopherEnable',
                          url'[v] \in Disallow[Key(v)']
                   PROVE  Failed(Key(v))'
        BY DEF DisallowedNotVisited
      <3>1. CASE v = w
        BY <2>1, <2>2, <2>4, <3>1 DEF TypeOK, Key
      <3>2. CASE v # w
        <4>1. pc[v] = pc'[v] /\ url[v] \in Disallow[Key(v)] /\ Key(v)' = Key(v)
          BY <2>1, <2>2, <3>2 DEF TypeOK, Key
        <4>2. Key(v) \in Host /\ Failed(Key(v))
          BY <2>1, <4>1 DEF DisallowedNotVisited, HasURL, Key
        <4> QED BY <2>4, <4>1, <4>2
      <3> QED BY <3>1, <3>2
    <2>8. ErrorsNoted'
      BY <2>1, <2>2 DEF ErrorsNoted, HasURL, TypeOK, Key
    <2> QED BY <2>3, <2>5, <2>6, <2>7, <2>8
  <1>7. ASSUME NEW w \in Worker, Acquire(w) PROVE RobotsInv'
    <2>1. Key(w) \in Host
      BY <1>7 DEF Acquire, HasURL, Key
    <2>2. TypeOK' /\ HasURL'
      BY <1>7, <2>1 DEF Acquire, AddHostToHostPool, Goto, TypeOK, HasURL
    <2>3. EntriesSound' /\ AnswersStored'
      BY <1>7 DEF Acquire, EntriesSound, AnswersStored, Failed
    <2>4. ErrorsNoted'
      BY <1>7 DEF Acquire, Goto, TypeOK, ErrorsNoted, Key
    <2>5. DisallowedNotVisited'
      BY <1>7 DEF Acquire, Goto, TypeOK, DisallowedNotVisited, Failed, Key
    <2> QED BY <2>2, <2>3, <2>4, <2>5
  <1>8. ASSUME NEW w \in Worker, GiveUp(w) PROVE RobotsInv'
    <2>1. TypeOK' /\ HasURL'
      BY <1>8 DEF GiveUp, Goto, TypeOK, HasURL
    <2>2. EntriesSound' /\ AnswersStored'
      BY <1>8 DEF GiveUp, EntriesSound, AnswersStored, Failed
    <2>3. ErrorsNoted'
      BY <1>8 DEF GiveUp, Goto, TypeOK, ErrorsNoted, Key
    <2>4. DisallowedNotVisited'
      BY <1>8 DEF GiveUp, Goto, TypeOK, DisallowedNotVisited, Failed, Key
    <2> QED BY <2>1, <2>2, <2>3, <2>4
  <1>9. ASSUME NEW w \in Worker, Leave(w) PROVE RobotsInv'
    <2>1. TypeOK' /\ HasURL'
      BY <1>9 DEF Leave, RemoveHostFromPool, Goto, TypeOK, HasURL
    <2>2. EntriesSound' /\ AnswersStored'
      BY <1>9 DEF Leave, EntriesSound, AnswersStored, Failed
    <2>3. ErrorsNoted'
      BY <1>9 DEF Leave, Goto, TypeOK, ErrorsNoted, Key
    <2>4. DisallowedNotVisited'
      BY <1>9 DEF Leave, Goto, TypeOK, DisallowedNotVisited, Failed, Key
    <2> QED BY <2>1, <2>2, <2>3, <2>4
  <1>10. ASSUME NEW w \in Worker, FetchFails(w) \/ StoreAgain(w) PROVE RobotsInv'
    <2>1. /\ Key(w) \in Host
          /\ UNCHANGED <<hostnames, GopherEnable, url>>
          /\ \A v \in Worker : Key(v)' = Key(v)
      BY <1>10 DEF HasURL, FetchFails, StoreAgain, Key
    <2>2. /\ DOMAIN RobotsCache' = DOMAIN RobotsCache \cup {Key(w)}
          /\ RobotsCache' \in [DOMAIN RobotsCache' -> SUBSET URL]
          /\ RobotsCache'[Key(w)] = {}
          /\ \A h \in DOMAIN RobotsCache : h # Key(w) => RobotsCache'[h] = RobotsCache[h]
      BY <1>10 DEF FetchFails, StoreAgain, Store, TypeOK
    <2>3. /\ answered' \in [Host -> SUBSET (Worker \X AnswerKind)]
          /\ \A h \in Host : answered[h] \subseteq answered'[h]
          /\ \A h \in Host : h # Key(w) => answered'[h] = answered[h]
          /\ <<w, "error">> \in answered'[Key(w)]
      BY <1>10, <2>1 DEF FetchFails, StoreAgain, TypeOK, ErrorsNoted, AnswerKind
    <2>4. /\ pc' \in [Worker -> {"idle", "match", "fetch", "failed", "acquire", "visit"}]
          /\ \A v \in Worker : v # w => pc'[v] = pc[v]
          /\ pc[w] # "idle" /\ pc'[w] \in {"failed", "acquire"}
      BY <1>10 DEF FetchFails, StoreAgain, Goto, TypeOK
    <2>5. /\ \A h \in Host : Failed(h) => Failed(h)'
          /\ Failed(Key(w))'
      BY <2>1, <2>3 DEF Failed, AnswerKind
    <2>6. TypeOK' /\ HasURL'
      BY <2>1, <2>2, <2>3, <2>4 DEF TypeOK, HasURL
    <2>7. EntriesSound'
      BY <2>1, <2>2, <2>5 DEF EntriesSound, TypeOK
    <2>8. AnswersStored'
      BY <2>1, <2>2, <2>3 DEF AnswersStored
    <2>9. ErrorsNoted'
      BY <2>1, <2>3, <2>4 DEF ErrorsNoted, HasURL, Key
    <2>10. DisallowedNotVisited'
      BY <2>1, <2>4, <2>5 DEF DisallowedNotVisited, HasURL, Key
    <2> QED BY <2>6, <2>7, <2>8, <2>9, <2>10
  <1> QED
    BY <1>1, <1>2, <1>3, <1>4, <1>5, <1>6, <1>7, <1>8, <1>9, <1>10 DEF Next

\* The invariant holds throughout.
THEOREM RobotsInvariance == Spec => []RobotsInv
  BY RobotsInit, RobotsNext, PTL DEF Spec

\* No worker visits a URL that a robots.txt disallows unless a download of that robots.txt
\* has failed or the check is off (RobotMatch), however the workers that fill and read
\* the cache interleave.
THEOREM RobotsObeyed == Spec => []DisallowedNotVisited
  <1>1. RobotsInv => DisallowedNotVisited
    BY DEF RobotsInv
  <1> QED BY <1>1, RobotsInvariance, PTL

\* A worker that has had an answer for the robots.txt of a host, or an error other than a
\* timeout, does not download it again: the paths of populateRobotsCache that return without
\* rules leave an entry, too.
THEOREM NeverFetchedAgain == Spec => NoRefetch
  <1>1. RobotsInv /\ [Next]_vars =>
            [\A w \in Worker : pc[w] = "match" /\ pc'[w] = "fetch" =>
                \A a \in AnswerKind \ {"timeout"} : <<w, a>> \notin answered[Key(w)]]_vars
    <2> SUFFICES ASSUME RobotsInv, Next, NEW w \in Worker, pc[w] = "match", pc'[w] = "fetch",
                        NEW a \in AnswerKind, <<w, a>> \in answered[Key(w)]
                 PROVE  FALSE
      OBVIOUS
    <2>1. Key(w) \in DOMAIN RobotsCache
      BY DEF RobotsInv, HasURL, AnswersStored, Key
    <2>2. Fetch(w)
      BY DEF Next, Start, MatchDisabled, MatchCached, Fetched, Verdict, FetchFails, StoreAgain,
             Acquire, GiveUp, Leave, Fetch, Goto, RobotsInv, TypeOK
    <2> QED BY <2>1, <2>2 DEF Fetch
  <1> QED BY <1>1, RobotsInvariance, PTL DEF Spec, NoRefetch

\* An entry is written again by downloads only that began before there was one, and its
\* rules are lost only when such a download fails (populateRobotsCache's deferred Store).
THEOREM EntriesSettle == Spec => EntriesFinal
  <1>1. ASSUME RobotsInv, Next, NEW h \in DOMAIN RobotsCache
        PROVE  /\ Fetching(h)' \subseteq Fetching(h)
               /\ RobotsCache'[h] # RobotsCache[h] =>
                    \E w \in Fetching(h) :
                        \/ w \notin Fetching(h)' /\ RobotsCache'[h] = Disallow[h]
                        \/ \E a \in AnswerKind \ {"rules"} : <<w, a>> \in answered'[h]
    <2> USE DEF RobotsInv
    <2>1. PICK w \in Worker :
             \/ Start(w) \/ MatchDisabled(w) \/ MatchCached(w) \/ Fetch(w) \/ Fetched(w)
             \/ FetchFails(w) \/ StoreAgain(w) \/ Acquire(w) \/ GiveUp(w) \/ Leave(w)
      BY <1>1 DEF Next
    <2>2. CASE Fetch(w)
      <3>1. Key(w) # h /\ RobotsCache' = RobotsCache /\ url' = url
        BY <1>1, <2>2 DEF Fetch
      <3>2. \A v \in Worker : v # w => pc'[v] = pc[v]
        BY <1>1, <2>2 DEF Fetch, Goto, TypeOK
      <3> QED BY <3>1, <3>2 DEF Fetching, Key
    <2>3. CASE Fetched(w)
      <3>1. PICK answer \in AnswerKind :
                /\ Key(w) \in Host /\ w \in Fetching(Key(w))
                /\ url' = url
                /\ RobotsCache'[Key(w)] = Entries(answer, Key(w))
                /\ \A k \in DOMAIN RobotsCache : k # Key(w) => RobotsCache'[k] = RobotsCache[k]
                /\ <<w, answer>> \in answered'[Key(w)]
                /\ pc' = [pc EXCEPT ![w] = IF url[w] \in Entries(answer, Key(w))
                                           THEN "idle" ELSE "acquire"]
        <4>1. PICK answer \in AnswerKind :
                /\ RobotsCache'[Key(w)] = Entries(answer, Key(w))
                /\ \A k \in DOMAIN RobotsCache : k # Key(w) => RobotsCache'[k] = RobotsCache[k]
                /\ <<w, answer>> \in answered'[Key(w)]
                /\ pc' = [pc EXCEPT ![w] = IF url[w] \in Entries(answer, Key(w))
                                           THEN "idle" ELSE "acquire"]
          BY <1>1, <2>3, FetchedEffect
        <4>2. Key(w) \in Host /\ w \in Fetching(Key(w)) /\ url' = url
          BY <1>1, <2>3 DEF Fetched, Fetching, HasURL, Key
        <4> QED BY <4>1, <4>2
      <3>2. Fetching(h)' \subseteq Fetching(h) /\ w \notin Fetching(h)'
        BY <1>1, <3>1 DEF Fetching, Key, TypeOK
      <3>3. ASSUME RobotsCache'[h] # RobotsCache[h]
            PROVE  \/ RobotsCache'[h] = Disallow[h]
                   \/ \E a \in AnswerKind \ {"rules"} : <<w, a>> \in answered'[h]
        <4>1. h = Key(w)
          BY <1>1, <3>1, <3>3
        <4> QED BY <3>1, <4>1 DEF Entries
      <3>4. RobotsCache'[h] # RobotsCache[h] => h = Key(w)
        BY <1>1, <3>1
      <3> QED BY <3>1, <3>2, <3>3, <3>4
    <2>4. CASE Start(w) \/ MatchDisabled(w) \/ MatchCached(w) \/ Acquire(w) \/ GiveUp(w) \/ Leave(w)
      <3>1. RobotsCache' = RobotsCache
        BY <2>4 DEF Start, MatchDisabled, MatchCached, Acquire, GiveUp, Leave
      <3>2. \A v \in Worker : v # w => pc'[v] = pc[v] /\ url'[v] = url[v]
        BY <1>1, <2>4 DEF Start, MatchDisabled, MatchCached, Acquire, GiveUp, Leave, Goto, Verdict, TypeOK
      <3>3. pc'[w] \notin {"fetch", "failed"}
        BY <1>1, <2>4 DEF Start, MatchDisabled, MatchCached, Acquire, GiveUp, Leave, Goto, Verdict, TypeOK
      <3> QED BY <3>1, <3>2, <3>3 DEF Fetching, Key
    <2>5. CASE FetchFails(w) \/ StoreAgain(w)
      <3>1. Key(w) \in Host /\ w \in Fetching(Key(w)) /\ url' = url
        BY <1>1, <2>5 DEF FetchFails, StoreAgain, Fetching, HasURL, Key
      <3>2. Fetching(h)' \subseteq Fetching(h)
        BY <1>1, <2>5, <3>1 DEF FetchFails, StoreAgain, Goto, Fetching, Key, TypeOK
      <3>3. h # Key(w) => RobotsCache'[h] = RobotsCache[h]
        BY <1>1, <2>5 DEF FetchFails, StoreAgain, Store
      <3>4. <<w, "error">> \in answered'[Key(w)]
        BY <1>1, <2>5, <3>1 DEF FetchFails, StoreAgain, ErrorsNoted, TypeOK
      <3> QED BY <3>1, <3>2, <3>3, <3>4 DEF AnswerKind
    <2> QED BY <2>1, <2>2, <2>3, <2>4, <2>5
  <1>2. RobotsInv /\ [Next]_vars =>
            [\A h \in DOMAIN RobotsCache :
                /\ Fetching(h)' \subseteq Fetching(h)
                /\ RobotsCache'[h] # RobotsCache[h] =>
                     \E w \in Fetching(h) :
                         \/ w \notin Fetching(h)' /\ RobotsCache'[h] = Disallow[h]
                         \/ \E a \in AnswerKind \ {"rules"} : <<w, a>> \in answered'[h]]_vars
    BY <1>1
  <1> QED BY <1>2, RobotsInvariance, PTL DEF Spec, EntriesFinal
=============================================================================
