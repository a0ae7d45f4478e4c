------------------------- MODULE GuestLimiterProofs -------------------------
(***************************************************************************)
(* Theorems about GuestLimiter, for any peers, connections and requests,   *)
(* any limits and any window.                                              *)
(***************************************************************************)
EXTENDS GuestLimiter, FiniteSetTheorems, TLAPS

\* The open connections of p.
OpenOf(p) == {c \in Conn : conn[c] = [st |-> "open", peer |-> p]}

\* A connection the server knows has a peer; overCap holds the ones turned away.
ConnInv ==
    \A c \in Conn :
        /\ conn[c] # Closed => conn[c].peer \in Peer /\ conn[c].st # "closed"
        /\ c \in overCap <=> conn[c].st = "over"

\* No request comes from the future, and one under way has a peer.
ReqInv ==
    \A r \in Req :
        /\ req[r].at <= clock
        /\ req[r].st \in Budget => req[r].peer \in Peer

\* Nor does the time of a scrub.
ScrubInv == scrubAt # NoTime => scrubAt <= clock

\* A list holds requests that were counted, not more than the limit, and every
\* one of the present window.
ListInv ==
    \A p \in Peer, b \in Budget :
        /\ times[p][b] \subseteq Req
        /\ Cardinality(times[p][b]) <= Max(b)
        /\ \A r \in Counted(p, b) : req[r].at + limitWindow > clock => r \in times[p][b]

IInv == TypeOK /\ ConnInv /\ SlotsAreConns /\ ReqInv /\ ScrubInv /\ ListInv

-----------------------------------------------------------------------------
\* Sets of requests and of connections are finite.
LEMMA Finite ==
    /\ \A S : S \subseteq Req => IsFiniteSet(S) /\ Cardinality(S) \in Nat
    /\ \A S : S \subseteq Conn => IsFiniteSet(S) /\ Cardinality(S) \in Nat
BY LimiterAssumption, FS_Subset, FS_CardinalityType

\* The limits are numbers.
LEMMA MaxNat == TypeOK => maxConnsPerPeer \in Nat /\ \A b \in Budget : Max(b) \in Nat
BY DEF TypeOK, limitKind, Max, maxConnsPerPeer

\* They do not change.
LEMMA LimitsKept ==
    ASSUME [Next]_vars
    PROVE  /\ limit' = limit /\ maxConnsPerPeer' = maxConnsPerPeer
           /\ \A b : Max(b)' = Max(b)
<1>1. limit' = limit
  BY DEF Next, StateNew, StateClosed, Receive, allow, Scrub, scrubLoop, scrubIdlePeers, Tick, vars
<1>2. QED
  BY <1>1 DEF Max, maxConnsPerPeer

\* A connection comes from a peer.
LEMMA FromPeers == \A c \in Conn : \A p \in From[c] : p \in Peer
BY LimiterAssumption

\* A part of a set of requests is not larger.
LEMMA PartSmaller ==
    ASSUME NEW S, S \subseteq Req, NEW D, D \subseteq S
    PROVE  Cardinality(D) <= Cardinality(S) /\ Cardinality(D) \in Nat
BY Finite, FS_Subset

\* An update of one entry of a table of tables.
LEMMA Nested ==
    ASSUME NEW A, NEW B, NEW T, NEW f \in [A -> [B -> T]], NEW a \in A, NEW b \in B,
           NEW v \in T, NEW g, g = [f EXCEPT ![a][b] = v]
    PROVE  /\ g \in [A -> [B -> T]]
           /\ g[a][b] = v
           /\ \A x \in A, y \in B : x # a \/ y # b => g[x][y] = f[x][y]
OBVIOUS

\* What a refusal changes of the request.
LEMMA ReqRefused ==
    ASSUME NEW r \in Req, req \in [Req -> ReqRec], req' = [req EXCEPT ![r].st = "refused", ![r].conn = NoConn]
    PROVE  /\ req' \in [Req -> ReqRec]
           /\ \A u \in Req : /\ req'[u].at = req[u].at /\ req'[u].peer = req[u].peer
                             /\ req'[u].counted = req[u].counted
           /\ \A u \in Req : u # r => req'[u] = req[u]
<1>1. req' \in [Req -> ReqRec]
  BY ZenonT(40) DEF ReqRec
<1>2. \A u \in Req : /\ req'[u].at = req[u].at /\ req'[u].peer = req[u].peer
                     /\ req'[u].counted = req[u].counted
  BY DEF ReqRec
<1>3. QED
  BY <1>1, <1>2

\* A request is counted toward budget b and goes on to s, with or without its connection.
AllowedTo(r, s, b, n) ==
    req' = [req EXCEPT ![r].st = s, ![r].counted = @ \cup {b}, ![r].conn = n]

\* What counting a request toward budget b changes of it.
LEMMA ReqAllowed ==
    ASSUME NEW r \in Req, req \in [Req -> ReqRec], NEW s \in Budget \cup {"handled"}, NEW n \in Conn \cup {NoConn},
           NEW b \in Budget, AllowedTo(r, s, b, n)
    PROVE  /\ req' \in [Req -> ReqRec]
           /\ \A u \in Req : req'[u].at = req[u].at /\ req'[u].peer = req[u].peer
           /\ \A u \in Req : u # r => req'[u] = req[u]
           /\ req'[r].counted = req[r].counted \cup {b} /\ req'[r].st = s
<1> DEFINE w == req[r].counted \cup {b}
           f == [req EXCEPT ![r].st = s]
           g == [f EXCEPT ![r].counted = w]
           h == [g EXCEPT ![r].conn = n]
<1>1. w \in SUBSET Budget
  BY DEF ReqRec
<1>2. req' = h
  BY DEF AllowedTo
<1> HIDE DEF w
<1>3. /\ f \in [Req -> ReqRec] /\ f[r].st = s
      /\ \A u \in Req : f[u].at = req[u].at /\ f[u].peer = req[u].peer
      /\ \A u \in Req : u # r => f[u] = req[u]
  BY DEF ReqRec
<1> HIDE DEF f
<1>4. /\ g \in [Req -> ReqRec] /\ g[r].st = s /\ g[r].counted = w
      /\ \A u \in Req : g[u].at = req[u].at /\ g[u].peer = req[u].peer
      /\ \A u \in Req : u # r => g[u] = req[u]
  BY <1>1, <1>3 DEF ReqRec
<1> HIDE DEF g
<1>5. /\ h \in [Req -> ReqRec] /\ h[r].st = s /\ h[r].counted = w
      /\ \A u \in Req : h[u].at = req[u].at /\ h[u].peer = req[u].peer
      /\ \A u \in Req : u # r => h[u] = req[u]
  BY <1>4 DEF ReqRec
<1> HIDE DEF h
<1>6. QED
  BY <1>2, <1>5 DEF w

\* The two ways out of allow.
LEMMA AllowCases ==
    ASSUME TypeOK, ReqInv, NEW r \in Req, allow(r)
    PROVE  LET p == req[r].peer
               b == req[r].st
               S == prune(times[p][b], req[r].at)
           IN /\ p \in Peer /\ b \in Budget
              /\ UNCHANGED <<clock, conns, overCap, conn, scrubAt>>
              /\ peers' = peers \cup {p}
              /\ \/ /\ times' = [times EXCEPT ![p][b] = S]
                    /\ req' = [req EXCEPT ![r].st = "refused", ![r].conn = NoConn]
                    /\ trip(p, b)
                 \/ /\ Cardinality(S) < Max(b)
                    /\ times' = [times EXCEPT ![p][b] = S \cup {r}]
                    /\ \E s \in Budget \cup {"handled"}, n \in Conn \cup {NoConn} :
                         AllowedTo(r, s, b, n)
                    /\ UNCHANGED <<logged, line>>
<1>1. req[r].st \in Budget /\ req[r].peer \in Peer
  BY DEF allow, ReqInv
<1>2. Onward(r, req[r].st) \in Budget \cup {"handled"}
  BY DEF Onward, TypeOK, ReqRec
<1>3. (IF Onward(r, req[r].st) = "handled" THEN NoConn ELSE req[r].conn) \in Conn \cup {NoConn}
  BY DEF TypeOK, ReqRec
<1>4. QED
  BY <1>1, <1>2, <1>3 DEF allow, AllowedTo

\* allow leaves the times and the peers of requests alone, and other requests.
LEMMA AllowFrame ==
    ASSUME TypeOK, ReqInv, NEW r \in Req, allow(r)
    PROVE  /\ \A u \in Req : req'[u].at = req[u].at /\ req'[u].peer = req[u].peer
           /\ \A u \in Req : u # r => req'[u] = req[u]
<1>1. req \in [Req -> ReqRec] /\ req[r].st \in Budget
  BY AllowCases DEF TypeOK
<1>2. CASE req' = [req EXCEPT ![r].st = "refused", ![r].conn = NoConn]
  BY <1>1, <1>2, ReqRefused
<1>3. ASSUME NEW s \in Budget \cup {"handled"}, NEW n \in Conn \cup {NoConn}, NEW b \in Budget,
             AllowedTo(r, s, b, n)
      PROVE  /\ \A u \in Req : req'[u].at = req[u].at /\ req'[u].peer = req[u].peer
             /\ \A u \in Req : u # r => req'[u] = req[u]
  BY <1>1, <1>3, ReqAllowed
<1>4. \/ req' = [req EXCEPT ![r].st = "refused", ![r].conn = NoConn]
      \/ \E s \in Budget \cup {"handled"}, n \in Conn \cup {NoConn} :
           AllowedTo(r, s, req[r].st, n)
  BY AllowCases
<1>5. QED
  BY <1>1, <1>2, <1>3, <1>4

\* trip keeps the types of what it writes.
LEMMA TripType ==
    ASSUME TypeOK, NEW p \in Peer, NEW k \in limitKind, trip(p, k)
    PROVE  /\ logged' \in [Peer -> [limitKind -> Nat \cup {NoTime}]]
           /\ line' \in [Peer -> [limitKind -> Nat \cup {NoTime}]]
<1> DEFINE T == Nat \cup {NoTime}
<1>1. clock \in T /\ logged \in [Peer -> [limitKind -> T]] /\ line \in [Peer -> [limitKind -> T]]
  BY DEF TypeOK
<1>2. \/ UNCHANGED <<logged, line>>
      \/ /\ logged' = [logged EXCEPT ![p][k] = clock]
         /\ line' = [line EXCEPT ![p][k] = clock]
  BY DEF trip
<1> HIDE DEF T
<1>3. CASE UNCHANGED <<logged, line>>
  BY <1>1, <1>3 DEF T
<1>4. CASE /\ logged' = [logged EXCEPT ![p][k] = clock]
           /\ line' = [line EXCEPT ![p][k] = clock]
  <2>1. logged' \in [Peer -> [limitKind -> T]] /\ line' \in [Peer -> [limitKind -> T]]
    BY <1>1, <1>4, Nested
  <2>2. QED
    BY <2>1 DEF T
<1>5. QED
  BY <1>2, <1>3, <1>4

\* newGuestLimiter satisfies the invariant.
LEMMA InitIInv == Init => IInv
<1> SUFFICES ASSUME Init
             PROVE  IInv
  OBVIOUS
<1> USE LimiterAssumption
<1>1. TypeOK
  BY DEF Init, TypeOK, ConnRec, ReqRec, Closed, NotSent, Budget, limitKind
<1>2. ConnInv /\ ReqInv /\ ScrubInv
  BY DEF Init, ConnInv, ReqInv, ScrubInv, Closed, NotSent, Budget
<1>3. SlotsAreConns
  <2>1. \A p \in Peer : {c \in Conn : conn[c] = [st |-> "open", peer |-> p]} = {}
    BY DEF Init, Closed
  <2>2. Cardinality({}) = 0 /\ 0 <= maxConnsPerPeer
    BY <1>1, MaxNat, FS_EmptySet
  <2>3. \A p \in Peer : conns[p] = 0
    BY DEF Init
  <2>4. QED
    BY <2>1, <2>2, <2>3, Zenon DEF SlotsAreConns
<1>4. ListInv
  <2>1. \A p \in Peer, b \in Budget : Counted(p, b) = {} /\ times[p][b] = {}
    BY DEF Init, Counted, NotSent
  <2>2. ASSUME NEW b \in Budget
        PROVE  Cardinality({}) <= Max(b)
    BY <1>1, MaxNat, FS_EmptySet
  <2>3. QED
    BY <2>1, <2>2, Zenon DEF ListInv
<1>5. QED
  BY <1>1, <1>2, <1>3, <1>4 DEF IInv

\* Every step keeps the types.
LEMMA TypeStep ==
    ASSUME IInv, [Next]_vars
    PROVE  TypeOK'
<1> USE LimiterAssumption DEF budgets
<1>0. limit' = limit
  BY LimitsKept
<1>1. TypeOK
  BY DEF IInv
<1>2. ASSUME NEW c \in Conn, NEW p \in Peer, StateNew(c, p)
      PROVE  TypeOK'
  <2>1. /\ logged' \in [Peer -> [limitKind -> Nat \cup {NoTime}]]
        /\ line' \in [Peer -> [limitKind -> Nat \cup {NoTime}]]
    <3>1. CASE trip(p, "conn")
      BY <1>1, <3>1, TripType DEF limitKind
    <3>2. CASE UNCHANGED <<logged, line>>
      BY <1>1, <3>2 DEF TypeOK
    <3>3. QED
      BY <1>2, <3>1, <3>2 DEF StateNew
  <2>2. conn' \in [Conn -> ConnRec]
    <3>1. [st |-> "open", peer |-> p] \in ConnRec /\ [st |-> "over", peer |-> p] \in ConnRec
      BY DEF ConnRec
    <3>2. QED
      BY <1>1, <1>2, <3>1, ZenonT(40) DEF StateNew, TypeOK
  <2>3. conns' \in [Peer -> Nat]
    <3>1. conns \in [Peer -> Nat]
      BY <1>1 DEF TypeOK
    <3>2. conns' = conns \/ conns' = [conns EXCEPT ![p] = @ + 1]
      BY <1>2 DEF StateNew
    <3>3. QED
      BY <3>1, <3>2
  <2>4. overCap' \subseteq Conn /\ peers' \subseteq Peer /\ UNCHANGED <<clock, times, req, scrubAt>>
    BY <1>1, <1>2 DEF StateNew, TypeOK
  <2>5. QED
    BY <1>0, <1>1, <2>1, <2>2, <2>3, <2>4 DEF TypeOK
<1>3. ASSUME NEW c \in Conn, StateClosed(c)
      PROVE  TypeOK'
  <2>1. conn[c].peer \in Peer
    BY <1>3 DEF IInv, ConnInv, StateClosed
  <2>2. conn' \in [Conn -> ConnRec]
    BY <1>1, <1>3 DEF StateClosed, TypeOK, ConnRec, Closed
  <2>3. conns' \in [Peer -> Nat]
    <3>1. conns \in [Peer -> Nat]
      BY <1>1 DEF TypeOK
    <3>2. \/ conns' = conns
          \/ conns' = [conns EXCEPT ![conn[c].peer] = IF @ > 0 THEN @ - 1 ELSE @]
      BY <1>3 DEF StateClosed
    <3>3. QED
      BY <2>1, <3>1, <3>2
  <2>4. overCap' \subseteq Conn /\ peers' \subseteq Peer
        /\ UNCHANGED <<clock, times, logged, req, scrubAt, line>>
    BY <1>1, <1>3, <2>1 DEF StateClosed, TypeOK
  <2>5. QED
    BY <1>0, <1>1, <2>2, <2>3, <2>4 DEF TypeOK
<1>4. ASSUME NEW r \in Req, NEW c \in Conn, NEW k \in Budget, Receive(r, c, k)
      PROVE  TypeOK'
  <2>1. conn[c].peer \in Peer
    BY <1>4 DEF IInv, ConnInv, Receive, Closed
  <2>2. req' \in [Req -> ReqRec]
    BY <1>1, <1>4, <2>1 DEF Receive, TypeOK, ReqRec, Budget
  <2>3. QED
    BY <1>0, <1>1, <1>4, <2>2 DEF Receive, TypeOK
<1>5. ASSUME NEW r \in Req, allow(r)
      PROVE  TypeOK'
  <2> DEFINE p == req[r].peer
             b == req[r].st
             S == prune(times[p][b], req[r].at)
  <2>1. /\ p \in Peer /\ b \in Budget
        /\ UNCHANGED <<clock, conns, overCap, conn, scrubAt>>
        /\ peers' = peers \cup {p}
        /\ \/ /\ times' = [times EXCEPT ![p][b] = S]
              /\ req' = [req EXCEPT ![r].st = "refused", ![r].conn = NoConn]
              /\ trip(p, b)
           \/ /\ times' = [times EXCEPT ![p][b] = S \cup {r}]
              /\ \E s \in Budget \cup {"handled"}, n \in Conn \cup {NoConn} :
                   AllowedTo(r, s, b, n)
              /\ UNCHANGED <<logged, line>>
    BY <1>1, <1>5, AllowCases DEF IInv
  <2>2. times \in [Peer -> [Budget -> SUBSET Req]] /\ req \in [Req -> ReqRec]
    BY <1>1 DEF TypeOK
  <2>3. S \in SUBSET Req /\ S \cup {r} \in SUBSET Req
    BY <2>1, <2>2 DEF prune
  <2> HIDE DEF p, b, S
  <2>4. times' \in [Peer -> [Budget -> SUBSET Req]]
    <3>1. PICK V \in SUBSET Req : times' = [times EXCEPT ![p][b] = V]
      BY <2>1, <2>3
    <3>2. QED
      BY <2>1, <2>2, <3>1, Nested
  <2>5. req' \in [Req -> ReqRec]
    <3>1. CASE req' = [req EXCEPT ![r].st = "refused", ![r].conn = NoConn]
      BY <2>2, <3>1, ReqRefused
    <3>2. ASSUME NEW s \in Budget \cup {"handled"}, NEW n \in Conn \cup {NoConn},
                 AllowedTo(r, s, b, n)
          PROVE  req' \in [Req -> ReqRec]
      BY <2>1, <2>2, <3>2, ReqAllowed
    <3>3. QED
      BY <2>1, <3>1, <3>2
  <2>6. /\ logged' \in [Peer -> [limitKind -> Nat \cup {NoTime}]]
        /\ line' \in [Peer -> [limitKind -> Nat \cup {NoTime}]]
    <3>1. CASE trip(p, b)
      BY <1>1, <2>1, <3>1, TripType DEF limitKind
    <3>2. CASE UNCHANGED <<logged, line>>
      BY <1>1, <3>2 DEF TypeOK
    <3>3. QED
      BY <2>1, <3>1, <3>2
  <2>7. QED
    BY <1>0, <1>1, <2>1, <2>4, <2>5, <2>6 DEF TypeOK
<1>6. CASE scrubLoop \/ Tick
  <2>1. clock' \in Nat /\ scrubAt' \in Nat \cup {NoTime}
    <3>1. clock \in Nat /\ clock + 1 \in Nat
      BY <1>1 DEF TypeOK
    <3>2. QED
      BY <1>1, <1>6, <3>1, Zenon DEF scrubLoop, Tick, TypeOK
  <2>2. UNCHANGED <<peers, times, conns, logged, overCap, conn, req, line>>
    BY <1>6 DEF scrubLoop, Tick
  <2>3. QED
    BY <1>0, <1>1, <2>1, <2>2 DEF TypeOK
<1>7. CASE scrubIdlePeers
  <2>1. times' \in [Peer -> [Budget -> SUBSET Req]]
    <3>1. \A p \in Peer, b \in Budget : prune(times[p][b], scrubAt) \subseteq Req
      BY <1>1 DEF TypeOK, prune
    <3>2. QED
      BY <1>7, <3>1 DEF scrubIdlePeers
  <2>2. conns' \in [Peer -> Nat]
    <3>1. \A p \in Peer : conns[p] \in Nat
      BY <1>1 DEF TypeOK
    <3>2. QED
      BY <1>7, <3>1 DEF scrubIdlePeers
  <2>3. logged' \in [Peer -> [limitKind -> Nat \cup {NoTime}]]
    <3> DEFINE T == Nat \cup {NoTime}
    <3>1. NoTime \in T /\ \A p \in Peer : \A k \in limitKind : logged[p][k] \in T
      BY <1>1 DEF TypeOK
    <3> HIDE DEF T
    <3>2. logged' \in [Peer -> [limitKind -> T]]
      BY <1>7, <3>1 DEF scrubIdlePeers
    <3>3. QED
      BY <3>2 DEF T
  <2>4. peers' \subseteq Peer /\ scrubAt' \in Nat \cup {NoTime}
        /\ UNCHANGED <<clock, overCap, conn, req, line>>
    BY <1>1, <1>7 DEF scrubIdlePeers, TypeOK
  <2>5. QED
    BY <1>0, <1>1, <2>1, <2>2, <2>3, <2>4 DEF TypeOK
<1>8. CASE UNCHANGED vars
  BY <1>1, <1>8 DEF vars, TypeOK
<1>9. QED
  BY <1>2, <1>3, <1>4, <1>5, <1>6, <1>7, <1>8, FromPeers DEF Next, Scrub

\* trackConnState counts every connection once, and nobody else counts.
LEMMA SlotsStep ==
    ASSUME IInv, [Next]_vars
    PROVE  ConnInv' /\ SlotsAreConns'
<1> USE LimiterAssumption DEF budgets
<1>0. maxConnsPerPeer' = maxConnsPerPeer
  BY LimitsKept
<1>1. TypeOK /\ ConnInv /\ \A p \in Peer : /\ conns[p] = Cardinality(OpenOf(p))
                                           /\ conns[p] <= maxConnsPerPeer
  BY DEF IInv, SlotsAreConns, OpenOf
<1>2. SUFFICES ConnInv' /\ \A p \in Peer : /\ conns'[p] = Cardinality(OpenOf(p)')
                                           /\ conns'[p] <= maxConnsPerPeer
  BY <1>0 DEF SlotsAreConns, OpenOf
<1>3. ASSUME UNCHANGED <<conn, conns, overCap>>
      PROVE  ConnInv' /\ \A p \in Peer : /\ conns'[p] = Cardinality(OpenOf(p)')
                                         /\ conns'[p] <= maxConnsPerPeer
  BY <1>1, <1>3 DEF ConnInv, OpenOf
<1>4. ASSUME NEW c \in Conn, NEW p \in Peer, StateNew(c, p)
      PROVE  ConnInv' /\ \A q \in Peer : /\ conns'[q] = Cardinality(OpenOf(q)')
                                         /\ conns'[q] <= maxConnsPerPeer
  <2>1. \A q \in Peer : c \notin OpenOf(q)
    BY <1>4 DEF StateNew, OpenOf, Closed
  <2>2. CASE conns[p] >= maxConnsPerPeer /\ conn' = [conn EXCEPT ![c] = [st |-> "over", peer |-> p]]
             /\ overCap' = overCap \cup {c} /\ UNCHANGED conns
    <3>1. \A q \in Peer : OpenOf(q)' = OpenOf(q)
      BY <1>1, <2>1, <2>2 DEF OpenOf, TypeOK
    <3>2. ConnInv'
      BY <1>1, <2>2 DEF ConnInv, TypeOK
    <3>3. QED
      BY <1>1, <2>2, <3>1, <3>2
  <2>3. CASE conns[p] < maxConnsPerPeer /\ conn' = [conn EXCEPT ![c] = [st |-> "open", peer |-> p]]
             /\ overCap' = overCap /\ conns' = [conns EXCEPT ![p] = @ + 1]
    <3>1. OpenOf(p)' = OpenOf(p) \cup {c} /\ \A q \in Peer : q # p => OpenOf(q)' = OpenOf(q)
      BY <1>1, <2>1, <2>3 DEF OpenOf, TypeOK
    <3>2. Cardinality(OpenOf(p) \cup {c}) = Cardinality(OpenOf(p)) + 1
      <4>1. OpenOf(p) \subseteq Conn
        BY DEF OpenOf
      <4>2. QED
        BY <2>1, <4>1, Finite, FS_AddElement
    <3>3. c \notin overCap
      BY <1>1, <1>4 DEF ConnInv, StateNew, Closed
    <3>4. ConnInv'
      BY <1>1, <2>3, <3>3 DEF ConnInv, TypeOK
    <3>5. conns[p] \in Nat /\ conns'[p] = conns[p] + 1 /\ \A q \in Peer : q # p => conns'[q] = conns[q]
      BY <1>1, <2>3 DEF TypeOK
    <3>6. conns'[p] = Cardinality(OpenOf(p)') /\ conns'[p] <= maxConnsPerPeer
      BY <1>1, <2>3, <3>1, <3>2, <3>5, MaxNat
    <3>7. QED
      BY <1>1, <3>1, <3>4, <3>5, <3>6
  <2>4. QED
    BY <1>4, <2>2, <2>3 DEF StateNew
<1>5. ASSUME NEW c \in Conn, StateClosed(c)
      PROVE  ConnInv' /\ \A q \in Peer : /\ conns'[q] = Cardinality(OpenOf(q)')
                                         /\ conns'[q] <= maxConnsPerPeer
  <2>0. conn[c].peer \in Peer
    BY <1>1, <1>5 DEF StateClosed, ConnInv
  <2> PICK p \in Peer : p = conn[c].peer
    BY <2>0
  <2>1. p \in Peer /\ conn[c].st \in {"open", "over"} /\ conn' = [conn EXCEPT ![c] = Closed]
        /\ overCap' = overCap \ {c}
    BY <1>1, <1>5 DEF StateClosed, ConnInv, TypeOK, ConnRec
  <2>2. ConnInv'
    BY <1>1, <2>1 DEF ConnInv, TypeOK, Closed
  <2>3. CASE c \in overCap
    <3>1. \A q \in Peer : OpenOf(q)' = OpenOf(q)
      BY <1>1, <2>1, <2>3 DEF OpenOf, TypeOK, ConnInv, Closed
    <3>2. conns' = conns
      BY <1>5, <2>3 DEF StateClosed
    <3>3. QED
      BY <1>1, <2>2, <3>1, <3>2
  <2>4. CASE c \notin overCap
    <3>1. conn[c] = [st |-> "open", peer |-> p]
      BY <1>1, <2>1, <2>4 DEF ConnInv, TypeOK, ConnRec
    <3>2. c \in OpenOf(p) /\ OpenOf(p) \subseteq Conn
      BY <3>1 DEF OpenOf
    <3>3. OpenOf(p)' = OpenOf(p) \ {c} /\ \A q \in Peer : q # p => OpenOf(q)' = OpenOf(q)
      <4>1. c \notin OpenOf(p)' /\ \A q \in Peer : q # p => c \notin OpenOf(q) /\ c \notin OpenOf(q)'
        BY <1>1, <2>1, <3>1 DEF OpenOf, TypeOK, Closed
      <4>2. \A q \in Peer, d \in Conn : d # c => (d \in OpenOf(q)' <=> d \in OpenOf(q))
        BY <1>1, <2>1 DEF OpenOf, TypeOK
      <4>3. \A q \in Peer : OpenOf(q) \subseteq Conn /\ OpenOf(q)' \subseteq Conn
        BY DEF OpenOf
      <4>4. OpenOf(p)' = OpenOf(p) \ {c}
        BY <4>1, <4>2, <4>3
      <4>5. ASSUME NEW q \in Peer, q # p
            PROVE  OpenOf(q)' = OpenOf(q)
        <5>1. \A d : d \in OpenOf(q)' <=> d \in OpenOf(q)
          BY <4>1, <4>2, <4>3, <4>5, Zenon
        <5>2. QED
          BY <5>1
      <4>6. QED
        BY <4>4, <4>5
    <3>4. Cardinality(OpenOf(p) \ {c}) = Cardinality(OpenOf(p)) - 1
          /\ Cardinality(OpenOf(p) \ {c}) \in Nat
      BY <3>2, Finite, FS_RemoveElement
    <3>5. conns[p] \in Nat /\ conns[p] = Cardinality(OpenOf(p)) /\ conns[p] <= maxConnsPerPeer
      BY <1>1, <2>1, MaxNat DEF TypeOK
    <3>6. conns[p] > 0
      BY <3>4, <3>5
    <3>7. conns' = [conns EXCEPT ![p] = IF @ > 0 THEN @ - 1 ELSE @]
      BY <1>5, <2>4 DEF StateClosed
    <3>8. conns'[p] = conns[p] - 1 /\ \A q \in Peer : q # p => conns'[q] = conns[q]
      BY <1>1, <2>1, <3>6, <3>7 DEF TypeOK
    <3>9. conns'[p] = Cardinality(OpenOf(p)') /\ conns'[p] <= maxConnsPerPeer
      BY <1>1, <3>3, <3>4, <3>5, <3>8, MaxNat
    <3>10. ASSUME NEW q \in Peer, q # p
           PROVE  conns'[q] = Cardinality(OpenOf(q)') /\ conns'[q] <= maxConnsPerPeer
      BY <1>1, <3>3, <3>8, <3>10
    <3>11. QED
      BY <2>2, <3>9, <3>10
  <2>5. QED
    BY <2>3, <2>4
<1>6. CASE scrubIdlePeers
  <2>1. conns' = conns
    <3>1. \A p \in Peer : conns'[p] = conns[p]
      BY <1>6 DEF scrubIdlePeers, Idle
    <3>2. QED
      BY <1>1, <1>6, <3>1 DEF scrubIdlePeers, TypeOK
  <2>2. QED
    BY <1>3, <1>6, <2>1 DEF scrubIdlePeers
<1>7. ASSUME NEW r \in Req, allow(r)
      PROVE  UNCHANGED <<conn, conns, overCap>>
  BY <1>7 DEF allow
<1>8. ASSUME NEW r \in Req, NEW c \in Conn, NEW k \in Budget, Receive(r, c, k)
      PROVE  UNCHANGED <<conn, conns, overCap>>
  BY <1>8 DEF Receive
<1>9. CASE scrubLoop \/ Tick \/ UNCHANGED vars
  BY <1>3, <1>9 DEF scrubLoop, Tick, vars
<1>10. QED
  BY <1>3, <1>4, <1>5, <1>6, <1>7, <1>8, <1>9, FromPeers DEF Next, Scrub

\* Times that were read are not in the future.
LEMMA TimesStep ==
    ASSUME IInv, [Next]_vars
    PROVE  ReqInv' /\ ScrubInv'
<1> USE LimiterAssumption DEF budgets
<1>1. TypeOK /\ ReqInv /\ ScrubInv /\ ConnInv
  BY DEF IInv
<1>2. ASSUME UNCHANGED <<req, scrubAt, clock>>
      PROVE  ReqInv' /\ ScrubInv'
  BY <1>1, <1>2 DEF ReqInv, ScrubInv
<1>3. ASSUME NEW c \in Conn, NEW p \in Peer, StateNew(c, p)
      PROVE  ReqInv' /\ ScrubInv'
  BY <1>2, <1>3 DEF StateNew
<1>4. ASSUME NEW c \in Conn, StateClosed(c)
      PROVE  ReqInv' /\ ScrubInv'
  BY <1>2, <1>4 DEF StateClosed
<1>5. ASSUME NEW r \in Req, NEW c \in Conn, NEW k \in Budget, Receive(r, c, k)
      PROVE  ReqInv' /\ ScrubInv'
  <2>1. conn[c].peer \in Peer
    BY <1>1, <1>5 DEF ConnInv, Receive, Closed
  <2>2. QED
    BY <1>1, <1>5, <2>1 DEF Receive, ReqInv, ScrubInv, TypeOK
<1>6. ASSUME NEW r \in Req, allow(r)
      PROVE  ReqInv' /\ ScrubInv'
  <2>1. req \in [Req -> ReqRec] /\ req[r].peer \in Peer
    BY <1>1, <1>6, AllowCases DEF TypeOK
  <2>2. /\ \A u \in Req : req'[u].at = req[u].at /\ req'[u].peer = req[u].peer
        /\ \A u \in Req : u # r => req'[u] = req[u]
    BY <1>1, <1>6, AllowFrame
  <2>3. clock' = clock /\ scrubAt' = scrubAt
    BY <1>6 DEF allow
  <2>4. QED
    BY <1>1, <2>1, <2>2, <2>3 DEF ReqInv, ScrubInv
<1>7. CASE scrubLoop
  BY <1>1, <1>7 DEF scrubLoop, ReqInv, ScrubInv, TypeOK
<1>8. CASE scrubIdlePeers
  BY <1>1, <1>8 DEF scrubIdlePeers, ReqInv, ScrubInv
<1>9. CASE Tick
  BY <1>1, <1>9 DEF Tick, ReqInv, ScrubInv, TypeOK, ReqRec
<1>10. CASE UNCHANGED vars
  BY <1>2, <1>10 DEF vars
<1>11. QED
  BY <1>3, <1>4, <1>5, <1>6, <1>7, <1>8, <1>9, <1>10, FromPeers DEF Next, Scrub

\* No step prunes a request of the present window: the times that lists are pruned
\* with are not in the future, so what they drop is out of the window by now.
LEMMA ListStep ==
    ASSUME IInv, [Next]_vars
    PROVE  ListInv'
<1> USE LimiterAssumption DEF budgets
<1>0. \A b \in Budget : Max(b)' = Max(b)
  BY LimitsKept
<1>1. TypeOK /\ ReqInv /\ ScrubInv /\ ListInv
  BY DEF IInv
<1>2. ASSUME UNCHANGED <<times, req>>, clock' \in Nat, clock' >= clock
      PROVE  ListInv'
  <2>1. \A p \in Peer, b \in Budget : Counted(p, b)' = Counted(p, b) /\ Counted(p, b) \subseteq Req
    BY <1>2 DEF Counted
  <2>2. ASSUME NEW p \in Peer, NEW b \in Budget, NEW r \in Counted(p, b),
               req[r].at + limitWindow > clock'
        PROVE  req[r].at + limitWindow > clock
    <3>1. req[r].at \in Nat /\ clock \in Nat
      BY <1>1, <2>1 DEF TypeOK, ReqRec
    <3>2. QED
      BY <1>2, <2>2, <3>1
  <2>3. QED
    BY <1>0, <1>1, <1>2, <2>1, <2>2 DEF ListInv
<1>3. ASSUME NEW c \in Conn, NEW p \in Peer, StateNew(c, p)
      PROVE  ListInv'
  BY <1>1, <1>2, <1>3 DEF StateNew, TypeOK
<1>4. ASSUME NEW c \in Conn, StateClosed(c)
      PROVE  ListInv'
  BY <1>1, <1>2, <1>4 DEF StateClosed, TypeOK
<1>5. ASSUME NEW r \in Req, NEW c \in Conn, NEW k \in Budget, Receive(r, c, k)
      PROVE  ListInv'
  <2>1. times' = times /\ clock' = clock /\ \A u \in Req : u # r => req'[u] = req[u]
    BY <1>1, <1>5 DEF Receive, TypeOK
  <2>2. req[r].counted = {} /\ req'[r].counted = {}
    BY <1>1, <1>5 DEF Receive, TypeOK, NotSent
  <2>3. \A p \in Peer, b \in Budget : Counted(p, b)' = Counted(p, b) /\ r \notin Counted(p, b)
                                      /\ Counted(p, b) \subseteq Req
    BY <2>1, <2>2 DEF Counted
  <2>4. QED
    BY <1>0, <1>1, <2>1, <2>3 DEF ListInv
<1>6. ASSUME NEW r \in Req, allow(r)
      PROVE  ListInv'
  <2>0. req[r].peer \in Peer /\ req[r].st \in Budget
    BY <1>1, <1>6, AllowCases
  <2> PICK p \in Peer, b \in Budget : p = req[r].peer /\ b = req[r].st
    BY <2>0
  <2> DEFINE S == prune(times[p][b], req[r].at)
  <2>1. p \in Peer /\ b \in Budget /\ req[r].at \in Nat /\ req[r].at <= clock /\ clock \in Nat
    BY <1>1, <1>6 DEF ReqInv, TypeOK, ReqRec
  <2>2. clock' = clock
    BY <1>6 DEF allow
  <2>3. S \subseteq times[p][b] /\ times[p][b] \subseteq Req /\ Cardinality(times[p][b]) <= Max(b)
    BY <1>1, <2>1 DEF prune, ListInv
  <2>4. Cardinality(S) \in Nat /\ Cardinality(S) <= Max(b)
    <3>1. Cardinality(S) <= Cardinality(times[p][b]) /\ Cardinality(S) \in Nat
      BY <2>3, PartSmaller
    <3>2. Cardinality(times[p][b]) \in Nat /\ Max(b) \in Nat
      BY <1>1, <2>1, <2>3, Finite, MaxNat
    <3> HIDE DEF S
    <3>3. QED
      BY <2>3, <3>1, <3>2
  <2>5. \A u \in Counted(p, b) : req[u].at + limitWindow > clock => u \in S
    <3> SUFFICES ASSUME NEW u \in Counted(p, b), req[u].at + limitWindow > clock
                 PROVE  u \in S
      OBVIOUS
    <3>1. u \in times[p][b]
      BY <1>0, <1>1, <2>1 DEF ListInv
    <3>2. req[u].at \in Nat
      BY <1>1 DEF Counted, TypeOK, ReqRec
    <3>3. req[u].at + limitWindow > req[r].at
      BY <2>1, <3>2
    <3>4. QED
      BY <3>1, <3>3 DEF prune
  <2>6. \A u \in Req : req'[u].at = req[u].at /\ req'[u].peer = req[u].peer
    BY <1>1, <1>6, AllowFrame
  <2>7. \A u \in Req : u # r => req'[u] = req[u]
    BY <1>1, <1>6, AllowFrame
  <2>8. CASE req' = [req EXCEPT ![r].st = "refused", ![r].conn = NoConn] /\ times' = [times EXCEPT ![p][b] = S]
    <3>1. \A u \in Req : req'[u].counted = req[u].counted
      BY <1>1, <2>8, ReqRefused DEF TypeOK
    <3>2. \A q \in Peer, d \in Budget : Counted(q, d)' = Counted(q, d) /\ Counted(q, d) \subseteq Req
      BY <2>6, <3>1 DEF Counted
    <3>3. times'[p][b] = S /\ \A q \in Peer, d \in Budget : q # p \/ d # b => times'[q][d] = times[q][d]
      BY <1>1, <2>1, <2>8 DEF TypeOK
    <3> HIDE DEF S
    <3>4. QED
      BY <1>0, <1>1, <2>1, <2>2, <2>3, <2>4, <2>5, <2>6, <3>2, <3>3 DEF ListInv
  <2>9. ASSUME NEW s \in Budget \cup {"handled"}, NEW n \in Conn \cup {NoConn},
               AllowedTo(r, s, b, n),
               times' = [times EXCEPT ![p][b] = S \cup {r}],
               Cardinality(S) < Max(b)
        PROVE  ListInv'
    <3>0. req \in [Req -> ReqRec]
      BY <1>1 DEF TypeOK
    <3>1. req'[r].counted = req[r].counted \cup {b}
      BY <2>9, <3>0, ReqAllowed
    <3>2. /\ Counted(p, b)' \subseteq Counted(p, b) \cup {r}
          /\ \A q \in Peer, d \in Budget : /\ q # p \/ d # b => Counted(q, d)' = Counted(q, d)
                                           /\ Counted(q, d) \subseteq Req
      BY <2>6, <2>7, <3>1 DEF Counted
    <3>3. /\ times'[p][b] = S \cup {r}
          /\ \A q \in Peer, d \in Budget : q # p \/ d # b => times'[q][d] = times[q][d]
      BY <1>1, <2>1, <2>9 DEF TypeOK
    <3>4. Cardinality(S \cup {r}) <= Max(b)
      <4>1. IsFiniteSet(S) /\ Max(b) \in Nat
        BY <1>1, <2>1, <2>3, Finite, MaxNat
      <4>2. Cardinality(S \cup {r}) = Cardinality(S) \/ Cardinality(S \cup {r}) = Cardinality(S) + 1
        BY <4>1, FS_AddElement
      <4> HIDE DEF S
      <4>3. QED
        BY <2>4, <2>9, <4>1, <4>2
    <3>5. S \cup {r} \subseteq Req
      BY <2>3
    <3> HIDE DEF S
    <3>6. \A u \in Counted(p, b)' : req'[u].at + limitWindow > clock' => u \in times'[p][b]
      <4>1. ASSUME NEW u \in Counted(p, b), req'[u].at + limitWindow > clock'
            PROVE  u \in S
        BY <2>2, <2>5, <2>6, <3>2, <4>1
      <4>2. QED
        BY <3>2, <3>3, <4>1
    <3>7. ASSUME NEW q \in Peer, NEW d \in Budget, q # p \/ d # b
          PROVE  /\ times'[q][d] \subseteq Req
                 /\ Cardinality(times'[q][d]) <= Max(d)
                 /\ \A u \in Counted(q, d)' :
                      req'[u].at + limitWindow > clock' => u \in times'[q][d]
      BY <1>0, <1>1, <2>2, <2>6, <3>2, <3>3, <3>7 DEF ListInv
    <3>8. \A q \in Peer, d \in Budget :
             /\ times'[q][d] \subseteq Req
             /\ Cardinality(times'[q][d]) <= Max(d)
             /\ \A u \in Counted(q, d)' :
                  req'[u].at + limitWindow > clock' => u \in times'[q][d]
      BY <3>3, <3>4, <3>5, <3>6, <3>7
    <3>9. QED
      BY <1>0, <3>8 DEF ListInv
  <2>10. QED
    BY <1>1, <1>6, <2>8, <2>9, AllowCases
<1>7. CASE scrubIdlePeers
  <2>1. scrubAt \in Nat /\ scrubAt <= clock /\ clock \in Nat /\ clock' = clock /\ req' = req
    BY <1>1, <1>7 DEF scrubIdlePeers, ScrubInv, TypeOK
  <2>2. ASSUME NEW p \in Peer, NEW b \in Budget
        PROVE  times'[p][b] = prune(times[p][b], scrubAt)
    BY <1>7 DEF scrubIdlePeers, Idle
  <2>3. ASSUME NEW p \in Peer, NEW b \in Budget
        PROVE  /\ times'[p][b] \subseteq Req
               /\ Cardinality(times'[p][b]) <= Max(b)
               /\ \A r \in Counted(p, b) : req[r].at + limitWindow > clock => r \in times'[p][b]
    <3>1. /\ times[p][b] \subseteq Req /\ Cardinality(times[p][b]) <= Max(b)
          /\ times'[p][b] \subseteq times[p][b]
      BY <1>1, <2>2 DEF ListInv, prune
    <3>2. Cardinality(times'[p][b]) <= Max(b)
      <4>1. Cardinality(times'[p][b]) <= Cardinality(times[p][b]) /\ Cardinality(times'[p][b]) \in Nat
        BY <3>1, PartSmaller
      <4>2. Cardinality(times[p][b]) \in Nat /\ Max(b) \in Nat
        BY <1>1, <3>1, Finite, MaxNat
      <4>3. QED
        BY <3>1, <4>1, <4>2
    <3>3. ASSUME NEW r \in Counted(p, b), req[r].at + limitWindow > clock
          PROVE  r \in times'[p][b]
      <4>1. r \in times[p][b] /\ req[r].at \in Nat
        BY <1>1, <3>3 DEF ListInv, Counted, TypeOK, ReqRec
      <4>2. req[r].at + limitWindow > scrubAt
        BY <2>1, <3>3, <4>1
      <4>3. QED
        BY <2>2, <4>1, <4>2 DEF prune
    <3>4. QED
      BY <3>1, <3>2, <3>3
  <2>4. \A p \in Peer, b \in Budget : Counted(p, b)' = Counted(p, b)
    BY <2>1 DEF Counted
  <2>5. QED
    BY <1>0, <2>1, <2>3, <2>4 DEF ListInv
<1>8. CASE scrubLoop \/ Tick \/ UNCHANGED vars
  BY <1>1, <1>2, <1>8 DEF scrubLoop, Tick, vars, TypeOK
<1>9. QED
  BY <1>3, <1>4, <1>5, <1>6, <1>7, <1>8, FromPeers DEF Next, Scrub

\* The invariant is inductive.
LEMMA StepIInv == IInv /\ [Next]_vars => IInv'
BY TypeStep, SlotsStep, TimesStep, ListStep DEF IInv

-----------------------------------------------------------------------------
\* The budgets, connections and requests of the throttle have their types.
THEOREM LimiterTypeCorrect == Spec => []TypeOK
<1>1. IInv => TypeOK
  BY DEF IInv
<1>2. QED
  BY <1>1, InitIInv, StepIInv, PTL DEF Spec

\* The connection count of trackConnState is always the number of the peer's open
\* connections that were not turned away, and within the cap.
THEOREM SlotsAlways == Spec => []SlotsAreConns
<1>1. IInv => SlotsAreConns
  BY DEF IInv
<1>2. QED
  BY <1>1, InitIInv, StepIInv, PTL DEF Spec

\* At no time has a peer got more than its budget out of the window that ends at
\* that time, whatever waits for the lock of the throttle.
THEOREM WithinBudgetAlways == Spec => []WithinBudget
<1>1. IInv => WithinBudget
  <2> SUFFICES ASSUME IInv, NEW p \in Peer, NEW b \in Budget
               PROVE  Cardinality({r \in Counted(p, b) : req[r].at + limitWindow > clock}) <= Max(b)
    BY DEF WithinBudget
  <2> DEFINE D == {r \in Counted(p, b) : req[r].at + limitWindow > clock}
  <2>1. D \subseteq times[p][b] /\ times[p][b] \subseteq Req /\ Cardinality(times[p][b]) <= Max(b)
    BY DEF IInv, ListInv
  <2>2. Cardinality(D) <= Cardinality(times[p][b]) /\ Cardinality(D) \in Nat
    BY <2>1, PartSmaller
  <2>3. Cardinality(times[p][b]) \in Nat /\ Max(b) \in Nat
    BY <2>1, Finite, MaxNat DEF IInv
  <2> HIDE DEF D
  <2>4. Cardinality(D) <= Max(b)
    BY <2>1, <2>2, <2>3
  <2>5. QED
    BY <2>4 DEF D
<1>2. QED
  BY <1>1, InitIInv, StepIInv, PTL DEF Spec

-----------------------------------------------------------------------------
(***************************************************************************)
(* Refusals.                                                               *)
(***************************************************************************)
\* Lists hold only requests that were counted toward their budget, and a request
\* waits for a budget toward which it has not been counted.
OnceInv ==
    /\ \A p \in Peer, b \in Budget : times[p][b] \subseteq Counted(p, b)
    /\ \A r \in Req : /\ req[r].st = "request" => req[r].counted = {}
                      /\ req[r].st \in Budget => req[r].st \notin req[r].counted

\* What becomes of a request in a step: nothing, or it is sent, or it takes the
\* lock for its next budget.
LEMMA ReqLife ==
    ASSUME IInv, [Next]_vars, NEW u \in Req
    PROVE  \/ req'[u] = req[u]
           \/ req[u] = NotSent /\ req'[u].st = "request" /\ req'[u].counted = {}
           \/ allow(u)
<1>1. TypeOK /\ ReqInv
  BY DEF IInv
<1>2. ASSUME NEW r \in Req, NEW c \in Conn, NEW k \in Budget, Receive(r, c, k)
      PROVE  \/ req'[u] = req[u]
             \/ req[u] = NotSent /\ req'[u].st = "request" /\ req'[u].counted = {}
  BY <1>1, <1>2 DEF Receive, TypeOK
<1>3. ASSUME NEW r \in Req, allow(r), r # u
      PROVE  req'[u] = req[u]
  BY <1>1, <1>3, AllowFrame
<1>4. ASSUME NEW c \in Conn, NEW p \in Peer, StateNew(c, p)
      PROVE  req' = req
  BY <1>4 DEF StateNew
<1>5. ASSUME NEW c \in Conn, StateClosed(c)
      PROVE  req' = req
  BY <1>5 DEF StateClosed
<1>6. CASE scrubLoop \/ scrubIdlePeers \/ Tick \/ UNCHANGED vars
  BY <1>6 DEF scrubLoop, scrubIdlePeers, Tick, vars
<1>7. QED
  BY <1>2, <1>3, <1>4, <1>5, <1>6, FromPeers DEF Next, Scrub

\* What allow does to its request.
LEMMA AllowEffect ==
    ASSUME TypeOK, ReqInv, NEW r \in Req, allow(r)
    PROVE  LET p == req[r].peer
               b == req[r].st
               S == prune(times[p][b], req[r].at)
           IN /\ p \in Peer /\ b \in Budget
              /\ req'[r].at = req[r].at /\ req'[r].peer = p
              /\ \/ /\ req'[r].st = "refused" /\ req'[r].counted = req[r].counted
                    /\ Cardinality(S) >= Max(b)
                    /\ times' = [times EXCEPT ![p][b] = S]
                 \/ /\ req'[r].st = Onward(r, b) /\ req'[r].counted = req[r].counted \cup {b}
                    /\ times' = [times EXCEPT ![p][b] = S \cup {r}]
<1>1. req \in [Req -> ReqRec]
  BY DEF TypeOK
<1>2. req[r].st \in Budget /\ req[r].peer \in Peer
  BY DEF allow, ReqInv
<1>3. req'[r].at = req[r].at /\ req'[r].peer = req[r].peer
  BY AllowFrame
<1>4. ASSUME req' = [req EXCEPT ![r].st = "refused", ![r].conn = NoConn]
      PROVE  req'[r].st = "refused" /\ req'[r].counted = req[r].counted
  BY <1>1, <1>4 DEF ReqRec
<1>5. ASSUME NEW s \in Budget \cup {"handled"}, NEW b \in Budget, NEW n \in Conn \cup {NoConn},
             AllowedTo(r, s, b, n)
      PROVE  req'[r].st = s /\ req'[r].counted = req[r].counted \cup {b}
  BY <1>1, <1>5, ReqAllowed
<1>6. /\ Onward(r, req[r].st) \in Budget \cup {"handled"}
      /\ (IF Onward(r, req[r].st) = "handled" THEN NoConn ELSE req[r].conn) \in Conn \cup {NoConn}
  BY <1>1, <1>2 DEF Onward, ReqRec
<1> DEFINE p == req[r].peer
           b == req[r].st
           S == prune(times[p][b], req[r].at)
           k == IF Onward(r, b) = "handled" THEN NoConn ELSE req[r].conn
<1>7. \/ /\ Cardinality(S) >= Max(b) /\ times' = [times EXCEPT ![p][b] = S]
         /\ req' = [req EXCEPT ![r].st = "refused", ![r].conn = NoConn]
      \/ times' = [times EXCEPT ![p][b] = S \cup {r}] /\ AllowedTo(r, Onward(r, b), b, k)
  BY DEF allow, AllowedTo
<1> HIDE DEF S, k
<1>8. AllowedTo(r, Onward(r, b), b, k) =>
          req'[r].st = Onward(r, b) /\ req'[r].counted = req[r].counted \cup {b}
  BY <1>2, <1>5, <1>6 DEF k
<1>9. QED
  BY <1>2, <1>3, <1>4, <1>7, <1>8 DEF S

\* What was counted stays counted, at the same time.
LEMMA CountedGrows ==
    ASSUME IInv, [Next]_vars, NEW p \in Peer, NEW b \in Budget
    PROVE  /\ Counted(p, b) \subseteq Counted(p, b)'
           /\ \A u \in Counted(p, b) : req'[u].at = req[u].at
<1>1. ASSUME NEW u \in Counted(p, b)
      PROVE  u \in Counted(p, b)' /\ req'[u].at = req[u].at
  <2>1. u \in Req /\ req[u].peer = p /\ b \in req[u].counted
    BY DEF Counted
  <2>2. req[u] # NotSent
    BY <2>1 DEF NotSent
  <2>3. req'[u].peer = p /\ b \in req'[u].counted /\ req'[u].at = req[u].at
    <3>1. CASE req'[u] = req[u]
      BY <2>1, <3>1
    <3>2. CASE allow(u)
      <4>1. /\ req'[u].at = req[u].at /\ req'[u].peer = req[u].peer
            /\ \/ req'[u].counted = req[u].counted
               \/ req'[u].counted = req[u].counted \cup {req[u].st}
        BY <2>1, <3>2, AllowEffect DEF IInv
      <4>2. QED
        BY <2>1, <4>1
    <3>3. QED
      BY <2>1, <2>2, <3>1, <3>2, ReqLife
  <2>4. QED
    BY <2>1, <2>3 DEF Counted
<1>2. QED
  BY <1>1

\* A request is counted once toward each of its budgets, and the lists hold
\* nothing else.
LEMMA OnceStep ==
    ASSUME IInv, OnceInv, [Next]_vars
    PROVE  OnceInv'
<1>1. TypeOK /\ ReqInv /\ times \in [Peer -> [Budget -> SUBSET Req]]
  BY DEF IInv, TypeOK
<1>2. ASSUME NEW u \in Req
      PROVE  /\ req'[u].st = "request" => req'[u].counted = {}
             /\ req'[u].st \in Budget => req'[u].st \notin req'[u].counted
  <2>1. CASE req'[u] = req[u]
    BY <2>1 DEF OnceInv
  <2>2. CASE req'[u].counted = {}
    BY <2>2
  <2>3. CASE allow(u)
    <3>1. /\ req[u].st \in Budget
          /\ \/ req'[u].st = "refused"
             \/ /\ req'[u].st = Onward(u, req[u].st)
                /\ req'[u].counted = req[u].counted \cup {req[u].st}
      BY <1>1, <2>3, AllowEffect
    <3>2. req[u].st = "request" => req[u].counted = {}
      BY DEF OnceInv
    <3>3. QED
      BY <3>1, <3>2 DEF Onward, Budget
  <2>4. QED
    BY <2>1, <2>2, <2>3, ReqLife
<1>3. ASSUME NEW p \in Peer, NEW b \in Budget
      PROVE  times'[p][b] \subseteq Counted(p, b)'
  <2>1. times[p][b] \subseteq Counted(p, b) /\ Counted(p, b) \subseteq Counted(p, b)'
    BY CountedGrows DEF OnceInv
  <2>2. CASE times'[p][b] \subseteq times[p][b]
    BY <2>1, <2>2
  <2>3. ASSUME NEW r \in Req, allow(r)
        PROVE  times'[p][b] \subseteq Counted(p, b)'
    <3> DEFINE q == req[r].peer
               d == req[r].st
               S == prune(times[q][d], req[r].at)
    <3>1. /\ q \in Peer /\ d \in Budget /\ req'[r].peer = q
          /\ \/ times' = [times EXCEPT ![q][d] = S]
             \/ /\ req'[r].counted = req[r].counted \cup {d}
                /\ times' = [times EXCEPT ![q][d] = S \cup {r}]
      BY <1>1, <2>3, AllowEffect
    <3>2. S \subseteq times[q][d] /\ S \in SUBSET Req /\ S \cup {r} \in SUBSET Req
      BY <1>1, <3>1, SMTT(30) DEF prune
    <3> HIDE DEF q, d, S
    <3>3. CASE q # p \/ d # b
      <4>1. times'[p][b] = times[p][b]
        BY <1>1, <3>1, <3>2, <3>3, Nested
      <4>2. QED
        BY <2>2, <4>1
    <3>4. CASE q = p /\ d = b /\ times' = [times EXCEPT ![q][d] = S]
      <4>1. times'[p][b] = S
        BY <1>1, <3>1, <3>2, <3>4, Nested
      <4>2. QED
        BY <2>2, <3>2, <3>4, <4>1
    <3>5. CASE /\ q = p /\ d = b /\ times' = [times EXCEPT ![q][d] = S \cup {r}]
               /\ req'[r].counted = req[r].counted \cup {d}
      <4>1. times'[p][b] = S \cup {r}
        BY <1>1, <3>1, <3>2, <3>5, Nested
      <4>2. r \in Counted(p, b)'
        BY <3>1, <3>5 DEF Counted
      <4>3. QED
        BY <2>1, <3>2, <3>5, <4>1, <4>2
    <3>6. QED
      BY <3>1, <3>3, <3>4, <3>5
  <2>4. CASE scrubIdlePeers
    <3>1. times'[p][b] \subseteq times[p][b]
      BY <2>4 DEF scrubIdlePeers, prune
    <3>2. QED
      BY <2>2, <3>1
  <2>5. CASE times' = times
    BY <2>2, <2>5
  <2>6. QED
    BY <2>3, <2>4, <2>5, FromPeers
       DEF Next, Scrub, StateNew, StateClosed, Receive, scrubLoop, Tick, vars, budgets
<1>4. QED
  BY <1>2, <1>3 DEF OnceInv

\* A peer is refused only for a budget that it has used up itself, by requests less
\* than a window older than the one refused: for any limits and any window no other
\* peer's requests, no other budget and no scrub of the throttle costs it its share.
THEOREM RefusalsJustifiedAlways == Spec => RefusalsJustified
<1> DEFINE A == \A r \in Req :
                  req[r].st \in Budget /\ req'[r].st = "refused" =>
                     Cardinality({u \in Counted(req[r].peer, req[r].st) :
                                    req[u].at + limitWindow > req[r].at}) >= Max(req[r].st)
<1>1. Init => OnceInv
  <2> SUFFICES ASSUME Init
               PROVE  OnceInv
    OBVIOUS
  <2>1. \A r \in Req : req[r].counted = {} /\ req[r].st = "unsent" /\ "unsent" \notin Budget
    BY DEF Init, NotSent, Budget
  <2>2. \A p \in Peer, b \in Budget : times[p][b] = {}
    BY DEF Init
  <2>3. QED
    BY <2>1, <2>2 DEF OnceInv
<1>2. IInv /\ OnceInv /\ [Next]_vars => OnceInv'
  BY OnceStep
<1>3. IInv /\ OnceInv /\ [Next]_vars => [A]_vars
  <2> SUFFICES ASSUME IInv, OnceInv, [Next]_vars, NEW r \in Req, req[r].st \in Budget,
                      req'[r].st = "refused"
               PROVE  Cardinality({u \in Counted(req[r].peer, req[r].st) :
                                     req[u].at + limitWindow > req[r].at}) >= Max(req[r].st)
    OBVIOUS
  <2> DEFINE p == req[r].peer
             b == req[r].st
             S == prune(times[p][b], req[r].at)
             U == {u \in Counted(p, b) : req[u].at + limitWindow > req[r].at}
  <2>1. TypeOK /\ ReqInv
    BY DEF IInv
  <2>2. allow(r)
    <3>1. req'[r] # req[r] /\ req[r] # NotSent
      BY DEF NotSent, Budget
    <3>2. QED
      BY <3>1, ReqLife
  <2>3. p \in Peer /\ b \in Budget /\ Cardinality(S) >= Max(b)
    <3>1. Onward(r, b) # "refused"
      BY <2>1 DEF Onward, TypeOK, ReqRec, Budget
    <3>2. QED
      BY <2>1, <2>2, <3>1, AllowEffect
  <2>4. S \subseteq U /\ U \subseteq Req
    BY <2>3 DEF OnceInv, prune, Counted
  <2>5. Cardinality(S) <= Cardinality(U) /\ Cardinality(S) \in Nat
    BY <2>4, PartSmaller
  <2>6. Cardinality(U) \in Nat /\ Max(b) \in Nat
    BY <2>1, <2>3, <2>4, Finite, MaxNat
  <2> HIDE DEF S, U, p, b
  <2>7. Cardinality(U) >= Max(b)
    BY <2>3, <2>5, <2>6
  <2>8. QED
    BY <2>7 DEF U, p, b
<1>4. QED
  BY <1>1, <1>2, <1>3, InitIInv, StepIInv, PTL DEF Spec, RefusalsJustified

-----------------------------------------------------------------------------
(***************************************************************************)
(* Log lines.                                                              *)
(***************************************************************************)
\* A log line that was forgotten is a window old.
LineInv ==
    \A p \in Peer, k \in limitKind :
        /\ line[p][k] # NoTime => line[p][k] <= clock
        /\ \/ logged[p][k] = line[p][k]
           \/ logged[p][k] = NoTime /\ line[p][k] + limitWindow <= clock

\* What a step does to the log line about k for p: nothing, a line is written when
\* the last one known is a window old, or the scrubber forgets one that is.
LEMMA LineLife ==
    ASSUME IInv, [Next]_vars, NEW p \in Peer, NEW k \in limitKind
    PROVE  \/ line'[p][k] = line[p][k] /\ logged'[p][k] = logged[p][k]
           \/ /\ line'[p][k] = clock /\ logged'[p][k] = clock /\ clock' = clock
              /\ ~Recent(p, k, clock)
           \/ /\ line'[p][k] = line[p][k] /\ logged'[p][k] = NoTime /\ clock' = clock
              /\ \E now \in Nat : now <= clock /\ ~Recent(p, k, now)
<1> DEFINE T == Nat \cup {NoTime}
<1>1. /\ TypeOK /\ clock \in T
      /\ logged \in [Peer -> [limitKind -> T]] /\ line \in [Peer -> [limitKind -> T]]
  BY DEF IInv, TypeOK
<1>2. ASSUME NEW q \in Peer, NEW d \in limitKind, trip(q, d), clock' = clock
      PROVE  \/ line'[p][k] = line[p][k] /\ logged'[p][k] = logged[p][k]
             \/ /\ line'[p][k] = clock /\ logged'[p][k] = clock /\ clock' = clock
                /\ ~Recent(p, k, clock)
  <2>1. CASE UNCHANGED <<logged, line>>
    BY <2>1
  <2>2. CASE /\ logged' = [logged EXCEPT ![q][d] = clock]
             /\ line' = [line EXCEPT ![q][d] = clock]
             /\ ~Recent(q, d, clock)
    <3> HIDE DEF T
    <3>1. /\ logged'[q][d] = clock /\ line'[q][d] = clock
          /\ q # p \/ d # k => logged'[p][k] = logged[p][k] /\ line'[p][k] = line[p][k]
      BY <1>1, <2>2, Nested
    <3>2. QED
      BY <1>2, <2>2, <3>1
  <2>3. QED
    BY <1>2, <2>1, <2>2 DEF trip
<1>3. ASSUME NEW c \in Conn, NEW q \in Peer, StateNew(c, q)
      PROVE  UNCHANGED <<logged, line>> \/ (trip(q, "conn") /\ clock' = clock)
  BY <1>3 DEF StateNew
<1>4. ASSUME NEW r \in Req, allow(r)
      PROVE  \/ UNCHANGED <<logged, line>>
             \/ /\ trip(req[r].peer, req[r].st) /\ clock' = clock
                /\ req[r].peer \in Peer /\ req[r].st \in Budget
  BY <1>4, AllowCases DEF IInv
<1>5. CASE scrubIdlePeers
  <2>1. line' = line /\ clock' = clock /\ scrubAt \in Nat /\ scrubAt <= clock
    BY <1>5 DEF scrubIdlePeers, IInv, ScrubInv, TypeOK
  <2>2. logged'[p][k] = IF Idle(p, scrubAt) THEN NoTime ELSE logged[p][k]
    BY <1>5 DEF scrubIdlePeers
  <2>3. Idle(p, scrubAt) => ~Recent(p, k, scrubAt)
    BY DEF Idle
  <2>4. QED
    BY <2>1, <2>2, <2>3
<1>6. CASE UNCHANGED <<logged, line>>
  BY <1>6
<1>7. "conn" \in limitKind /\ Budget \subseteq limitKind
  BY DEF limitKind
<1>8. QED
  BY <1>2, <1>3, <1>4, <1>5, <1>6, <1>7, FromPeers
     DEF Next, Scrub, StateClosed, Receive, scrubLoop, Tick, vars, budgets

\* Time does not go back.
LEMMA ClockStep ==
    ASSUME IInv, [Next]_vars
    PROVE  clock \in Nat /\ clock' \in Nat /\ clock <= clock'
<1>1. clock \in Nat
  BY DEF IInv, TypeOK
<1>2. clock' = clock \/ clock' = clock + 1
  BY DEF Next, Scrub, StateNew, StateClosed, Receive, allow, scrubLoop, scrubIdlePeers, Tick, vars
<1>3. QED
  BY <1>1, <1>2

\* A flooding peer writes at most one log line per kind and window, for any limits
\* and any window: the scrubber forgets a line only when its window is over.
THEOREM OneLinePerWindowAlways == Spec => OneLinePerWindow
<1> DEFINE A == \A p \in Peer, k \in limitKind :
                  line'[p][k] # line[p][k] /\ line[p][k] # NoTime
                      => line'[p][k] >= line[p][k] + limitWindow
<1>1. Init => LineInv
  BY DEF Init, LineInv
<1>2. ASSUME IInv, LineInv, NEW p \in Peer, NEW k \in limitKind
      PROVE  /\ line[p][k] = NoTime \/ line[p][k] \in Nat
             /\ line[p][k] # NoTime => line[p][k] <= clock
             /\ \/ logged[p][k] = line[p][k]
                \/ logged[p][k] = NoTime /\ line[p][k] + limitWindow <= clock
  BY <1>2 DEF IInv, TypeOK, LineInv
<1>3. ASSUME IInv, LineInv, NEW p \in Peer, NEW k \in limitKind, NEW now \in Nat,
             now <= clock, ~Recent(p, k, now), line[p][k] # NoTime
      PROVE  line[p][k] + limitWindow <= clock
  <2>1. line[p][k] \in Nat /\ clock \in Nat /\ limitWindow \in Nat
    BY <1>2, <1>3, LimiterAssumption DEF IInv, TypeOK
  <2>2. CASE logged[p][k] = line[p][k]
    <3>1. ~(line[p][k] + limitWindow > now)
      BY <1>3, <2>2 DEF Recent
    <3>2. QED
      BY <1>3, <2>1, <3>1
  <2>3. QED
    BY <1>2, <1>3, <2>2
<1>4. IInv /\ LineInv /\ [Next]_vars => LineInv'
  <2> SUFFICES ASSUME IInv, LineInv, [Next]_vars, NEW p \in Peer, NEW k \in limitKind
               PROVE  /\ line'[p][k] # NoTime => line'[p][k] <= clock'
                      /\ \/ logged'[p][k] = line'[p][k]
                         \/ logged'[p][k] = NoTime /\ line'[p][k] + limitWindow <= clock'
    BY DEF LineInv
  <2>1. clock \in Nat /\ clock' \in Nat /\ clock <= clock' /\ limitWindow \in Nat
    BY ClockStep, LimiterAssumption
  <2>2. CASE line'[p][k] = line[p][k] /\ logged'[p][k] = logged[p][k]
    BY <1>2, <2>1, <2>2
  <2>3. CASE line'[p][k] = clock /\ logged'[p][k] = clock /\ clock' = clock
    BY <2>1, <2>3
  <2>4. ASSUME line'[p][k] = line[p][k], logged'[p][k] = NoTime, clock' = clock,
               NEW now \in Nat, now <= clock, ~Recent(p, k, now)
        PROVE  /\ line'[p][k] # NoTime => line'[p][k] <= clock'
               /\ \/ logged'[p][k] = line'[p][k]
                  \/ logged'[p][k] = NoTime /\ line'[p][k] + limitWindow <= clock'
    BY <1>2, <1>3, <2>4
  <2>5. QED
    BY <2>2, <2>3, <2>4, LineLife
<1>5. IInv /\ LineInv /\ [Next]_vars => [A]_vars
  <2> SUFFICES ASSUME IInv, LineInv, [Next]_vars, NEW p \in Peer, NEW k \in limitKind,
                      line'[p][k] # line[p][k], line[p][k] # NoTime
               PROVE  line'[p][k] >= line[p][k] + limitWindow
    OBVIOUS
  <2>1. line'[p][k] = clock /\ ~Recent(p, k, clock)
    BY LineLife
  <2>2. clock \in Nat /\ clock <= clock
    BY DEF IInv, TypeOK
  <2>3. line[p][k] + limitWindow <= clock
    BY <1>3, <2>1, <2>2
  <2>4. line[p][k] \in Nat /\ limitWindow \in Nat
    BY <1>2, LimiterAssumption
  <2>5. QED
    BY <2>1, <2>2, <2>3, <2>4
<1>6. QED
  BY <1>1, <1>4, <1>5, InitIInv, StepIInv, PTL DEF Spec, OneLinePerWindow
=============================================================================
