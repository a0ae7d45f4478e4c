------------------------------ MODULE TokenStore ------------------------------
(***************************************************************************)
(* The IMDSv2 token store (imds/token.go).  Any number of request          *)
(* goroutines mint tokens under a quota per minting peer and a quota for   *)
(* the whole store, a ticker sweeps out what has expired, and every        *)
(* metadata request is checked against the store.                          *)
(*                                                                         *)
(* GenerateToken reads the clock before it waits for the lock, so a mint   *)
(* is two steps, and the locked sections of two mints can come in the      *)
(* other order than their clock readings.  Everything under the lock is    *)
(* one step.                                                               *)
(*                                                                         *)
(* A peer's list is the set of its members; mint[t].n, the position at     *)
(* which t was appended, is its order.                                     *)
(***************************************************************************)
EXTENDS FiniteSets, Naturals

CONSTANTS
    Peer,                    \* minting peers, "unknown" among them
    Token,                   \* token values the random source may draw
    MaxLiveTokensPerPeer,    \* 32 in the code
    GlobalTokenEmergencyCap, \* 65536 in the code
    TokenTTL,                \* mds.token_ttl in clock ticks
    MaxTime,                 \* bound on the clock
    NoPeer

ASSUME TokenAssumption ==
    /\ IsFiniteSet(Token)
    /\ NoPeer \notin Peer
    /\ MaxLiveTokensPerPeer \in Nat \ {0}
    /\ GlobalTokenEmergencyCap \in Nat \ {0}
    /\ TokenTTL \in Nat /\ MaxTime \in Nat

VARIABLES
    clock,          \* time.Now()
    tokens,         \* the keys of the map of live tokens
    byPeer,         \* byPeer[p]: the members of p's list
    liveCount,      \* the store's own count of its tokens
    emergencyBrake, \* the last mint that mattered was refused
    mint            \* what became of each token value

vars == <<clock, tokens, byPeer, liveCount, emergencyBrake, mint>>

Undrawn == [st |-> "undrawn", peer |-> NoPeer, at |-> 0, n |-> 0]

MintRec == [st : {"undrawn", "waiting", "minted", "refused"},
            peer : Peer \cup {NoPeer}, at : Nat, n : Nat]

\* The store and the mints have their types.
TypeOK ==
    /\ clock \in Nat
    /\ tokens \subseteq Token
    /\ byPeer \in [Peer -> SUBSET Token]
    /\ liveCount \in Nat
    /\ emergencyBrake \in BOOLEAN
    /\ mint \in [Token -> MintRec]

\* NewTokenStore.
Init ==
    /\ clock = 0
    /\ tokens = {}
    /\ byPeer = [p \in Peer |-> {}]
    /\ liveCount = 0
    /\ emergencyBrake = FALSE
    /\ mint = [t \in Token |-> Undrawn]

-----------------------------------------------------------------------------
ExpiresAt(t) == mint[t].at + TokenTTL

Minted == {t \in Token : mint[t].st = "minted"}

\* The members of list S that were appended after t.
After(S, t) == {u \in S : mint[u].n > mint[t].n}

\* prunePeerExpiredLocked: what is left of list S at time now.
prunePeerExpired(S, now) == {t \in S : now <= ExpiresAt(t)}

\* Faulty variant: the front of the list is kept.
evictNewestOfPeer(S, keep) ==
    {t \in S : Cardinality(S) - Cardinality(After(S, t)) <= keep}

\* evictOldestOfPeerLocked: the last keep members of list S.
evictOldestOfPeer(S, keep) == {t \in S : Cardinality(After(S, t)) < keep}

\* Faulty variant: no room is made for the token to come.
KeptOneMore(t) ==
    evictOldestOfPeer(prunePeerExpired(byPeer[mint[t].peer], mint[t].at),
                      MaxLiveTokensPerPeer)

\* What the mint of t leaves of its peer's list, at the time read before the lock.
Kept(t) ==
    evictOldestOfPeer(prunePeerExpired(byPeer[mint[t].peer], mint[t].at),
                      MaxLiveTokensPerPeer - 1)

\* Faulty variant: only evicted tokens are counted out, not expired ones.
CountOnlyEvicted(t) ==
    liveCount - Cardinality(prunePeerExpired(byPeer[mint[t].peer], mint[t].at) \ Kept(t))

\* liveCount after the tokens of t's peer that go were counted out.
Count(t) == liveCount - Cardinality(byPeer[mint[t].peer] \ Kept(t))

\* The emergency brake: even so the store is full.
Refuses(t) == Count(t) >= GlobalTokenEmergencyCap

-----------------------------------------------------------------------------
\* GenerateToken draws the value and reads the clock, then waits for the lock.
GenerateToken(t, p) ==
    /\ mint[t] = Undrawn
    /\ mint' = [mint EXCEPT ![t] = [st |-> "waiting", peer |-> p,
                                    at |-> clock, n |-> 0]]
    /\ UNCHANGED <<clock, tokens, byPeer, liveCount, emergencyBrake>>

\* Faulty variant: the store's quota is looked at before the peer's expired
\* tokens are counted out.
generateTokenEarly(t) ==
    LET p    == mint[t].peer
        full == liveCount >= GlobalTokenEmergencyCap
        keep == IF full THEN prunePeerExpired(byPeer[p], mint[t].at) ELSE Kept(t)
        own  == IF full THEN keep ELSE keep \cup {t}
    IN /\ mint[t].st = "waiting"
       /\ tokens' = (tokens \ byPeer[p]) \cup own
       /\ byPeer' = [byPeer EXCEPT ![p] = own]
       /\ liveCount' = Cardinality(tokens')
       /\ emergencyBrake' = (liveCount' >= GlobalTokenEmergencyCap /\ full)
       /\ mint' = [mint EXCEPT
            ![t].st = IF full THEN "refused" ELSE "minted",
            ![t].n  = IF full THEN 0 ELSE Cardinality(Minted) + 1]
       /\ UNCHANGED clock

\* generateTokenAt under the lock: prune the peer's list, make room in it, then
\* refuse or append.  What was pruned or evicted is gone even from a refused mint.
generateTokenAt(t) ==
    LET p     == mint[t].peer
        added == IF Refuses(t) THEN {} ELSE {t}
    IN /\ mint[t].st = "waiting"
       /\ tokens' = (tokens \ (byPeer[p] \ Kept(t))) \cup added
       /\ byPeer' = [byPeer EXCEPT ![p] = Kept(t) \cup added]
       /\ liveCount' = Count(t) + Cardinality(added)
       /\ emergencyBrake' = Refuses(t)
       /\ mint' = [mint EXCEPT
            ![t].st = IF Refuses(t) THEN "refused" ELSE "minted",
            ![t].n  = IF Refuses(t) THEN 0 ELSE Cardinality(Minted) + 1]
       /\ UNCHANGED clock

\* discardExpiredLocked: the tokens no peer's list keeps at time now.
discardExpired(now) ==
    UNION {byPeer[p] \ prunePeerExpired(byPeer[p], now) : p \in Peer}

\* Faulty variant: the ticker only sweeps a store that is full.
cleanupOnlyWhenFull ==
    /\ tokens' = IF emergencyBrake THEN tokens \ discardExpired(clock) ELSE tokens
    /\ byPeer' = [p \in Peer |-> byPeer[p] \cap tokens']
    /\ liveCount' = Cardinality(tokens')
    /\ emergencyBrake' = (emergencyBrake /\ liveCount' >= GlobalTokenEmergencyCap)
    /\ UNCHANGED <<clock, mint>>

\* cleanupExpired, one round of the minute ticker.
cleanupExpired ==
    /\ tokens' = tokens \ discardExpired(clock)
    /\ byPeer' = [p \in Peer |-> prunePeerExpired(byPeer[p], clock)]
    /\ liveCount' = liveCount - Cardinality(discardExpired(clock))
    /\ emergencyBrake' = (emergencyBrake /\ liveCount' >= GlobalTokenEmergencyCap)
    /\ UNCHANGED <<clock, mint>>

\* Time passes.
Tick ==
    /\ clock < MaxTime
    /\ clock' = clock + 1
    /\ UNCHANGED <<tokens, byPeer, liveCount, emergencyBrake, mint>>

\* ValidateToken: a map lookup and the clock, under the read lock.
ValidateToken(t) == t \in tokens /\ clock <= ExpiresAt(t)

Next ==
    \/ \E t \in Token : (\E p \in Peer : GenerateToken(t, p)) \/ generateTokenAt(t)
    \/ cleanupExpired
    \/ Tick

Spec == Init /\ [][Next]_vars

\* The ticker goroutine lives as long as the process.
FairSpec == Spec /\ WF_vars(cleanupExpired)

-----------------------------------------------------------------------------
(***************************************************************************)
(* Properties.                                                             *)
(***************************************************************************)
\* The two indexes and the counter agree (D-m): the lists of the peers split the
\* map among the peers that minted the tokens, and liveCount is its size.
Accounting ==
    /\ tokens = UNION {byPeer[p] : p \in Peer}
    /\ \A p \in Peer : \A t \in byPeer[p] : mint[t].st = "minted" /\ mint[t].peer = p
    /\ liveCount = Cardinality(tokens)

\* No peer holds more tokens than its quota and the store never more than the
\* emergency capacity, however many mints are waiting at once.
WithinQuota ==
    /\ \A p \in Peer : Cardinality(byPeer[p]) <= MaxLiveTokensPerPeer
    /\ Cardinality(tokens) <= GlobalTokenEmergencyCap

\* The other tokens of t's peer that are newer than t by either measure: appended
\* to the list after it, or created no earlier.  token.go and the spec mean the
\* creation time; the list is in the order of the lock.
Newer(t) ==
    {u \in Minted \ {t} : /\ mint[u].peer = mint[t].peer
                          /\ mint[u].n > mint[t].n \/ mint[u].at >= mint[t].at}

\* A token that was handed out validates until it expires or MaxLiveTokensPerPeer
\* tokens of its own peer are newer: no other peer, no refused mint, no sweep and
\* no mint that waited for the lock for long takes it away before (D-h, D-m).
\* Which of two tokens goes first when their mints overtook each other at the lock
\* is left open here.
TokenHonoured ==
    \A t \in Minted :
        clock <= ExpiresAt(t) /\ Cardinality(Newer(t)) < MaxLiveTokensPerPeer
            => ValidateToken(t)

\* The brake is only on while the store is at the emergency capacity
\* (token.go: "true while at the global cap").
BrakeMeansFull == emergencyBrake => Cardinality(tokens) >= GlobalTokenEmergencyCap

\* A mint is refused only when the store is full of tokens, and it costs nobody a
\* token although pruning and eviction run before the refusal.
RefusalCostsNothing ==
    [][\A t \in Token :
          mint[t].st = "waiting" /\ mint'[t].st = "refused"
              => tokens' = tokens /\ Cardinality(tokens) = GlobalTokenEmergencyCap]_vars

\* An expired token does not stay in the store for ever, also when its peer
\* never mints again.
ExpiredLeave ==
    \A t \in Token : (t \in tokens /\ clock > ExpiresAt(t)) ~> t \notin tokens
=============================================================================
