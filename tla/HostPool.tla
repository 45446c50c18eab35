------------------------------ MODULE HostPool ------------------------------
(***************************************************************************)
(* The pool of hosts that are being visited (hostPool/hostPool.go): a map  *)
(* of host names under a mutex.  A worker polls every 500 ms until it can  *)
(* add its host, and gives up when its context is done; giving up is an    *)
(* action of the worker.                                                   *)
(***************************************************************************)
CONSTANT Host

VARIABLE hostnames

\* Mutant of AddHostToHostPool: the host is added without a look at the map.
AddHostUnchecked(h) == hostnames' = hostnames \cup {h}

\* One turn of the polling loop that finds the host free: the look-up and the insert
\* are made under the lock, and the turns that find it taken change nothing.
AddHostToHostPool(h) ==
    /\ h \notin hostnames
    /\ hostnames' = hostnames \cup {h}

\* delete() is silent when the host is not there; the jitter that follows the
\* unlock keeps the worker, not the host.
RemoveHostFromPool(h) == hostnames' = hostnames \ {h}
=============================================================================
