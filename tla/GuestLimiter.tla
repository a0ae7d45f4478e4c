---------------------------- MODULE GuestLimiter ----------------------------
(***************************************************************************)
(* The guest throttle (internal/server/limit.go): for every peer a rolling *)
(* budget of requests, one of token mints, one of enroll legs and a number *)
(* of open connections, all under one lock, and a scrubber that forgets    *)
(* idle peers.                                                             *)
(*                                                                         *)
(* The middleware and the scrubber read the clock before they wait for the *)
(* lock, so a locked step may use a time that is already past; a request   *)
(* takes the lock once for each budget it counts toward.  What is under    *)
(* the lock is one step.  GET /health changes nothing and is left out.     *)
(*                                                                         *)
(* A list of timestamps is the set of the requests that put them there:    *)
(* prune looks at every entry, so their order does not matter.             *)
(***************************************************************************)
EXTENDS FiniteSets, Naturals

CONSTANTS
    Peer,                 \* peer keys, "unknown" among them
    Conn,                 \* TCP connections
    From,                 \* From[c]: the peers connection c may come from
    Req,                  \* limited requests, numbered as they arrive (bounds them)
    limitWindow,          \* 60 s in the code
    Limits,               \* the limits to check; one in the code: 120, 30, 6, 16
    MaxTime,              \* bound on the clock
    NoPeer, NoConn, NoTime

\* The rolling budgets, and limitKind: what a log line can be about.
Budget == {"request", "token", "enroll"}
limitKind == Budget \cup {"conn"}

ASSUME LimiterAssumption ==
    /\ IsFiniteSet(Req) /\ IsFiniteSet(Conn)
    /\ From \in [Conn -> SUBSET Peer]
    /\ limitWindow \in Nat \ {0}
    /\ Limits \subseteq [limitKind -> Nat]
    /\ MaxTime \in Nat
    /\ NoPeer \notin Peer /\ NoConn \notin Conn /\ NoTime \notin Nat

VARIABLES
    limit,   \* maxRequestsPerPeer, maxTokenPUTsPerPeer, maxEnrollPerPeer and
             \* maxConnsPerPeer: never written
    clock,   \* time.Now()
    peers,   \* the keys of the map of peer budgets
    times,   \* times[p][b]: the requests whose timestamps are in p's list b
    conns,   \* conns[p], 0 without an entry
    logged,  \* logged[p][k]: when a line about k was last logged for p
    overCap, \* connections closed at StateNew
    conn,    \* the connections the HTTP server knows
    req,     \* the requests
    scrubAt, \* the time a scrub that waits for the lock has read
    line     \* history: when the last line about k was logged for p

budgets == <<peers, times, conns, logged>>
vars    == <<clock, budgets, overCap, conn, req, scrubAt, line, limit>>

Max(b) == limit[b]
maxConnsPerPeer == limit["conn"]

Closed  == [st |-> "closed", peer |-> NoPeer]
NotSent == [st |-> "unsent", peer |-> NoPeer, conn |-> NoConn, kind |-> "request",
            at |-> 0, counted |-> {}]

ConnRec == [st : {"closed", "open", "over"}, peer : Peer \cup {NoPeer}]
ReqRec  == [st : Budget \cup {"unsent", "handled", "refused"},
            peer : Peer \cup {NoPeer}, conn : Conn \cup {NoConn},
            kind : Budget, at : Nat, counted : SUBSET Budget]

\* The budgets, the connections and the requests have their types.
TypeOK ==
    /\ clock \in Nat
    /\ peers \subseteq Peer
    /\ times \in [Peer -> [Budget -> SUBSET Req]]
    /\ conns \in [Peer -> Nat]
    /\ logged \in [Peer -> [limitKind -> Nat \cup {NoTime}]]
    /\ overCap \subseteq Conn
    /\ conn \in [Conn -> ConnRec]
    /\ req \in [Req -> ReqRec]
    /\ scrubAt \in Nat \cup {NoTime}
    /\ line \in [Peer -> [limitKind -> Nat \cup {NoTime}]]
    /\ limit \in [limitKind -> Nat]

\* newGuestLimiter.
Init ==
    /\ clock = 0
    /\ peers = {}
    /\ times = [p \in Peer |-> [b \in Budget |-> {}]]
    /\ conns = [p \in Peer |-> 0]
    /\ logged = [p \in Peer |-> [k \in limitKind |-> NoTime]]
    /\ overCap = {}
    /\ conn = [c \in Conn |-> Closed]
    /\ req = [r \in Req |-> NotSent]
    /\ scrubAt = NoTime
    /\ line = [p \in Peer |-> [k \in limitKind |-> NoTime]]
    /\ limit \in Limits

-----------------------------------------------------------------------------
\* Faulty variant: a timestamp at the very end of the window still counts.
pruneLate(S, now) == {r \in S : req[r].at + limitWindow >= now}

\* Faulty variant: a timestamp is dropped before its window is over.
pruneEarly(S, now) == {r \in S : req[r].at + limitWindow > now + 1}

\* prune: the timestamps after now - limitWindow.
prune(S, now) == {r \in S : req[r].at + limitWindow > now}

\* The last line about k for p is not a window old.
Recent(p, k, now) == logged[p][k] # NoTime /\ logged[p][k] + limitWindow > now

\* trip: log, at most once per window; it reads the clock under the lock.
trip(p, k) ==
    IF Recent(p, k, clock)
    THEN UNCHANGED <<logged, line>>
    ELSE /\ logged' = [logged EXCEPT ![p][k] = clock]
         /\ line' = [line EXCEPT ![p][k] = clock]

\* A request of connection c is in the middleware.
Serving(c) == \E r \in Req : req[r].conn = c

-----------------------------------------------------------------------------
(***************************************************************************)
(* trackConnState.  (StateActive and StateIdle only look the entry up, and *)
(* an open connection has one.)                                            *)
(***************************************************************************)
StateNew(c, p) ==
    /\ conn[c] = Closed
    /\ peers' = peers \cup {p}
    /\ \/ /\ conns[p] >= maxConnsPerPeer
          /\ trip(p, "conn")
          /\ overCap' = overCap \cup {c}
          /\ conn' = [conn EXCEPT ![c] = [st |-> "over", peer |-> p]]
          /\ UNCHANGED conns
       \/ /\ conns[p] < maxConnsPerPeer
          /\ conns' = [conns EXCEPT ![p] = @ + 1]
          /\ conn' = [conn EXCEPT ![c] = [st |-> "open", peer |-> p]]
          /\ UNCHANGED <<logged, line, overCap>>
    /\ UNCHANGED <<clock, times, req, scrubAt, limit>>

\* The serving goroutine of c ends: at once for a connection beyond the cap,
\* whose read fails, otherwise between two requests or after the last one.
StateClosed(c) ==
    /\ conn[c] # Closed /\ ~Serving(c)
    /\ peers' = peers \cup {conn[c].peer}
    /\ conns' = IF c \in overCap THEN conns
                ELSE [conns EXCEPT ![conn[c].peer] = IF @ > 0 THEN @ - 1 ELSE @]
    /\ overCap' = overCap \ {c}
    /\ conn' = [conn EXCEPT ![c] = Closed]
    /\ UNCHANGED <<clock, times, logged, req, scrubAt, line, limit>>

-----------------------------------------------------------------------------
(***************************************************************************)
(* guestLimitMiddleware.                                                   *)
(***************************************************************************)
\* A request arrives on an open connection and its time is read.
Receive(r, c, k) ==
    /\ req[r] = NotSent /\ \A u \in Req : u < r => req[u] # NotSent
    /\ conn[c].st = "open" /\ ~Serving(c)
    /\ req' = [req EXCEPT ![r] = [st |-> "request", peer |-> conn[c].peer, conn |-> c,
                                  kind |-> k, at |-> clock, counted |-> {}]]
    /\ UNCHANGED <<clock, budgets, overCap, conn, scrubAt, line, limit>>

\* Where a request goes that was allowed by budget b.
Onward(r, b) == IF b = "request" /\ req[r].kind # "request" THEN req[r].kind ELSE "handled"

\* allowRequest, allowToken and allowEnroll.
allow(r) ==
    LET p == req[r].peer
        b == req[r].st
        S == prune(times[p][b], req[r].at)
    IN /\ b \in Budget
       /\ peers' = peers \cup {p}
       /\ \/ /\ Cardinality(S) >= Max(b)
             /\ times' = [times EXCEPT ![p][b] = S]
             /\ trip(p, b)
             /\ req' = [req EXCEPT ![r].st = "refused", ![r].conn = NoConn]
          \/ /\ Cardinality(S) < Max(b)
             /\ times' = [times EXCEPT ![p][b] = S \cup {r}]
             /\ req' = [req EXCEPT
                  ![r].st = Onward(r, b),
                  ![r].counted = @ \cup {b},
                  ![r].conn = IF Onward(r, b) = "handled" THEN NoConn ELSE @]
             /\ UNCHANGED <<logged, line>>
       /\ UNCHANGED <<clock, conns, overCap, conn, scrubAt, limit>>

-----------------------------------------------------------------------------
(***************************************************************************)
(* scrubLoop.                                                              *)
(***************************************************************************)
\* The minute ticker: the time is read, then the scrub waits for the lock.
scrubLoop ==
    /\ scrubAt = NoTime
    /\ scrubAt' = clock
    /\ UNCHANGED <<clock, budgets, overCap, conn, req, line, limit>>

\* Faulty variant: a recent log line does not keep the entry.
IdleUnlogged(p, now) ==
    /\ conns[p] = 0
    /\ \A b \in Budget : prune(times[p][b], now) = {}

\* Faulty variant: open connections do not keep the entry.
IdleConnected(p, now) ==
    /\ \A b \in Budget : prune(times[p][b], now) = {}
    /\ \A k \in limitKind : ~Recent(p, k, now)

\* Faulty variant: any log line keeps the entry, however old.
IdleNeverLogged(p, now) ==
    /\ conns[p] = 0
    /\ \A b \in Budget : prune(times[p][b], now) = {}
    /\ \A k \in limitKind : logged[p][k] = NoTime

\* What scrubIdlePeers deletes: no connection, no timestamp and no log line left.
Idle(p, now) ==
    /\ conns[p] = 0
    /\ \A b \in Budget : prune(times[p][b], now) = {}
    /\ \A k \in limitKind : ~Recent(p, k, now)

\* scrubIdlePeers under the lock: every list is pruned, idle peers are deleted.
scrubIdlePeers ==
    /\ scrubAt # NoTime
    /\ peers' = {p \in peers : ~Idle(p, scrubAt)}
    /\ times' = [p \in Peer |-> [b \in Budget |->
          IF Idle(p, scrubAt) THEN {} ELSE prune(times[p][b], scrubAt)]]
    /\ conns' = [p \in Peer |-> IF Idle(p, scrubAt) THEN 0 ELSE conns[p]]
    /\ logged' = [p \in Peer |-> [k \in limitKind |->
          IF Idle(p, scrubAt) THEN NoTime ELSE logged[p][k]]]
    /\ scrubAt' = NoTime
    /\ UNCHANGED <<clock, overCap, conn, req, line, limit>>

\* Time passes.
Tick ==
    /\ clock < MaxTime
    /\ clock' = clock + 1
    /\ UNCHANGED <<budgets, overCap, conn, req, scrubAt, line, limit>>

Scrub == scrubLoop \/ scrubIdlePeers

Next ==
    \/ \E c \in Conn : (\E p \in From[c] : StateNew(c, p)) \/ StateClosed(c)
    \/ \E r \in Req, c \in Conn, k \in Budget : Receive(r, c, k)
    \/ \E r \in Req : allow(r)
    \/ Scrub
    \/ Tick

Spec == Init /\ [][Next]_vars

\* The scrubber lives as long as the process and time passes.
FairSpec ==
    /\ Spec
    /\ WF_vars(Scrub)
    /\ WF_vars(Tick)

-----------------------------------------------------------------------------
(***************************************************************************)
(* Properties.                                                             *)
(***************************************************************************)
\* The requests of p that were counted toward budget b.
Counted(p, b) == {r \in Req : req[r].peer = p /\ b \in req[r].counted}

\* Looking back from now, no peer got more than its budget out of the last
\* window, although locked steps prune with times that are past and the
\* scrubber forgets whole entries.
WithinBudget ==
    \A p \in Peer, b \in Budget :
        Cardinality({r \in Counted(p, b) : req[r].at + limitWindow > clock}) <= Max(b)

\* A request is refused with 429 only when its own peer has used up the very budget
\* that refuses it: that many requests of the peer had been counted toward it by
\* then, none of them a window or more older than the request.  No other peer, no
\* other budget, no scrub and no wait for the lock costs a peer its share.
RefusalsJustified ==
    [][\A r \in Req :
          req[r].st \in Budget /\ req'[r].st = "refused" =>
              Cardinality({u \in Counted(req[r].peer, req[r].st) :
                              req[u].at + limitWindow > req[r].at}) >= Max(req[r].st)]_vars

\* The count of a peer's connections is the number of its connections that are
\* open and were not turned away, never above the cap; it survives the scrubber
\* and the late StateClosed of a connection beyond the cap.
SlotsAreConns ==
    \A p \in Peer :
        /\ conns[p] = Cardinality({c \in Conn : conn[c] = [st |-> "open", peer |-> p]})
        /\ conns[p] <= maxConnsPerPeer

\* A flooding peer writes at most one log line per kind and window, also when its
\* budget is forgotten in between.
OneLinePerWindow ==
    [][\A p \in Peer, k \in limitKind :
          line'[p][k] # line[p][k] /\ line[p][k] # NoTime
              => line'[p][k] >= line[p][k] + limitWindow]_vars

\* What keeps p's entry at this moment.
InUse(p) ==
    \/ \E c \in Conn : conn[c].peer = p
    \/ \E r \in Req : req[r].peer = p /\ req[r].at + limitWindow > clock
    \/ \E k \in limitKind : line[p][k] # NoTime /\ line[p][k] + limitWindow > clock

\* "The per-peer throttle state SHALL NOT retain a peer entry forever."
IdleForgotten == \A p \in Peer : p \in peers ~> p \notin peers \/ InUse(p)
=============================================================================
