-------------------------- MODULE TokenStoreProofs --------------------------
(***************************************************************************)
(* Theorems about TokenStore, for any peers, tokens, quotas and lifetime.  *)
(***************************************************************************)
EXTENDS TokenStore, FiniteSetTheorems, WellFoundedInduction, TLAPS

\* Tokens were appended one after the other.
Numbered ==
    /\ \A t \in Minted : mint[t].n <= Cardinality(Minted)
    /\ \A t, u \in Minted : mint[t].n = mint[u].n => t = u

\* A waiting mint knows its peer.
WaitingBound == \A t \in Token : mint[t].st = "waiting" => mint[t].peer \in Peer

IInv == TypeOK /\ WaitingBound /\ Numbered /\ Accounting /\ WithinQuota

-----------------------------------------------------------------------------
\* Sets of tokens are finite, so their cardinalities are numbers.
LEMMA TokensFinite ==
    ASSUME NEW S, S \subseteq Token
    PROVE  IsFiniteSet(S) /\ Cardinality(S) \in Nat
BY TokenAssumption, FS_Subset, FS_CardinalityType

\* Removing a part of a set of tokens.
LEMMA RemovePart ==
    ASSUME NEW S, S \subseteq Token, NEW D, D \subseteq S
    PROVE  Cardinality(S \ D) = Cardinality(S) - Cardinality(D)
<1>1. S \cap D = D
  OBVIOUS
<1>2. QED
  BY <1>1, TokensFinite, FS_Difference

\* Adding a token to a set of tokens.
LEMMA AddOne ==
    ASSUME NEW S, S \subseteq Token, NEW t \in Token, t \notin S
    PROVE  Cardinality(S \cup {t}) = Cardinality(S) + 1
BY TokensFinite, FS_AddElement

\* A list that is not empty has a first member.
LEMMA FirstExists ==
    ASSUME TypeOK, NEW S, S \subseteq Token, S # {}
    PROVE  \E u \in S : \A w \in S : mint[u].n <= mint[w].n
<1> DEFINE N == {mint[w].n : w \in S}
<1>1. N \subseteq Nat /\ N # {}
  BY DEF TypeOK, MintRec
<1>2. \E x \in N : \A y \in N : ~(<<y, x>> \in OpToRel(<, Nat))
  <2> HIDE DEF N
  <2> QED
    BY <1>1, WFMin, NatLessThanWellFounded
<1>3. PICK x \in N : \A y \in N : ~(<<y, x>> \in OpToRel(<, Nat))
  BY <1>2
<1>4. \A y \in N : ~(y < x)
  BY <1>1, <1>3 DEF OpToRel
<1>5. PICK u \in S : mint[u].n = x
  OBVIOUS
<1>6. ASSUME NEW w \in S
      PROVE  mint[u].n <= mint[w].n
  <2>1. mint[w].n \in N
    OBVIOUS
  <2> HIDE DEF N
  <2>2. mint[w].n \in Nat /\ x \in Nat
    BY <1>1, <2>1
  <2>3. ~(mint[w].n < x)
    BY <1>4, <2>1
  <2>4. QED
    BY <1>5, <2>2, <2>3
<1>7. QED
  BY <1>6

\* evictOldestOfPeerLocked: of a list within the quota at most keep are left when
\* the quota is keep + 1.
LEMMA EvictBound ==
    ASSUME TypeOK, Numbered, NEW S, S \subseteq Minted, NEW k \in Nat,
           Cardinality(S) <= k + 1
    PROVE  Cardinality(evictOldestOfPeer(S, k)) <= k
<1> DEFINE K == evictOldestOfPeer(S, k)
<1>1. S \subseteq Token /\ K \subseteq S
  BY DEF Minted, evictOldestOfPeer
<1>2. Cardinality(K) \in Nat /\ Cardinality(S) \in Nat
  BY <1>1, TokensFinite
<1>3. CASE Cardinality(S) <= k
  <2>1. Cardinality(K) <= Cardinality(S)
    BY <1>1, TokensFinite, FS_Subset
  <2>2. QED
    BY <1>2, <1>3, <2>1
<1>4. CASE Cardinality(S) = k + 1
  <2>1. S # {}
    BY <1>4, FS_EmptySet
  <2>2. PICK u \in S : \A w \in S : mint[u].n <= mint[w].n
    BY <1>1, <2>1, FirstExists
  <2>3. ASSUME NEW w \in S, w # u
        PROVE  mint[w].n > mint[u].n
    <3>1. mint[w].n # mint[u].n
      BY <2>3 DEF Numbered
    <3>2. mint[w].n \in Nat /\ mint[u].n \in Nat
      BY <1>1 DEF TypeOK, MintRec
    <3>3. QED
      BY <2>2, <3>1, <3>2
  <2>4. mint[u].n \in Nat
    BY <1>1 DEF TypeOK, MintRec
  <2>5. After(S, u) = S \ {u}
    BY <2>3, <2>4 DEF After
  <2>6. Cardinality(After(S, u)) = k
    BY <1>1, <1>4, <2>5, TokensFinite, FS_RemoveElement
  <2>7. u \notin K
    BY <2>6 DEF evictOldestOfPeer
  <2>8. K \subseteq S \ {u}
    BY <1>1, <2>7
  <2>9. IsFiniteSet(S \ {u}) /\ Cardinality(S \ {u}) = k
    BY <1>1, <2>5, <2>6, TokensFinite
  <2>10. QED
    BY <2>8, <2>9, FS_Subset
<1>5. QED
  BY <1>2, <1>3, <1>4

-----------------------------------------------------------------------------
\* NewTokenStore builds an empty, consistent store.
LEMMA InitIInv == Init => IInv
<1> SUFFICES ASSUME Init
             PROVE  IInv
  OBVIOUS
<1> USE TokenAssumption
<1>1. TypeOK /\ WaitingBound /\ Minted = {}
  BY DEF Init, TypeOK, MintRec, Undrawn, WaitingBound, Minted
<1>2. UNION {byPeer[p] : p \in Peer} = {}
  BY DEF Init
<1>3. Cardinality({}) = 0
  BY FS_EmptySet
<1>4. Accounting /\ WithinQuota
  BY <1>2, <1>3 DEF Init, Accounting, WithinQuota
<1>5. QED
  BY <1>1, <1>4 DEF IInv, Numbered

\* Waiting for the lock changes nothing of the store.
LEMMA GenerateTokenStep ==
    ASSUME IInv, NEW t \in Token, NEW p \in Peer, GenerateToken(t, p)
    PROVE  IInv'
<1> USE DEF GenerateToken, IInv
<1>1. TypeOK'
  BY DEF TypeOK, MintRec
<1>2. /\ mint[t].st = "undrawn" /\ mint'[t].st = "waiting" /\ mint'[t].peer = p
      /\ \A u \in Token : u # t => mint'[u] = mint[u]
  BY DEF TypeOK, Undrawn
<1>3. Minted' = Minted /\ t \notin Minted
  BY <1>2 DEF Minted
<1>4. WaitingBound'
  BY <1>2 DEF WaitingBound
<1>5. Numbered'
  <2>1. \A u \in Minted : mint'[u] = mint[u]
    BY <1>2, <1>3 DEF Minted
  <2>2. QED
    BY <1>3, <2>1 DEF Numbered
<1>6. Accounting'
  <2>1. \A q \in Peer : \A u \in byPeer[q] : u \in Token /\ mint[u].st = "minted"
    BY DEF Accounting, TypeOK
  <2>2. QED
    BY <1>2, <2>1 DEF Accounting
<1>7. WithinQuota'
  BY DEF WithinQuota
<1>8. QED
  BY <1>1, <1>4, <1>5, <1>6, <1>7

\* The locked part of a mint keeps the store consistent and within its quotas.
LEMMA LockedMintStep ==
    ASSUME IInv, NEW t \in Token, generateTokenAt(t)
    PROVE  IInv'
<1> DEFINE p == mint[t].peer
           D == byPeer[p] \ Kept(t)
           added == IF Refuses(t) THEN {} ELSE {t}
           T == tokens \ D
<1> USE TokenAssumption
<1>1. mint[t].st = "waiting" /\ p \in Peer
  BY DEF generateTokenAt, IInv, WaitingBound
<1>2. /\ tokens' = T \cup added
      /\ byPeer' = [byPeer EXCEPT ![p] = Kept(t) \cup added]
      /\ liveCount' = Count(t) + Cardinality(added)
      /\ emergencyBrake' = Refuses(t)
      /\ clock' = clock
  BY DEF generateTokenAt
<1>3. /\ byPeer[p] \subseteq tokens /\ tokens \subseteq Token
      /\ byPeer \in [Peer -> SUBSET Token]
      /\ \A q \in Peer : \A u \in byPeer[q] : u \in Token /\ u \in Minted
                                             /\ mint[u].peer = q
  BY <1>1 DEF IInv, Accounting, TypeOK, Minted
<1>4. t \notin tokens /\ t \notin Minted
  BY <1>1 DEF IInv, Accounting, Minted
<1>5. Kept(t) \subseteq byPeer[p] /\ D \subseteq tokens
  BY <1>3 DEF Kept, evictOldestOfPeer, prunePeerExpired
<1>6. Cardinality(tokens) \in Nat /\ Cardinality(D) \in Nat /\ Cardinality(T) \in Nat
  BY <1>3, <1>5, TokensFinite
<1>7. Count(t) = Cardinality(T)
  BY <1>3, <1>5, RemovePart DEF Count, IInv, Accounting
<1>8. liveCount' = Cardinality(tokens')
  <2>1. CASE Refuses(t)
    BY <1>2, <1>6, <1>7, <2>1, FS_EmptySet
  <2>2. CASE ~Refuses(t)
    <3>1. Cardinality(added) = 1
      BY <2>2, FS_Singleton
    <3>2. Cardinality(T \cup {t}) = Cardinality(T) + 1
      <4>1. T \subseteq Token /\ t \notin T
        BY <1>3, <1>4
      <4> HIDE DEF T
      <4>2. QED
        BY <4>1, AddOne
    <3>3. QED
      BY <1>2, <1>7, <2>2, <3>1, <3>2
  <2>3. QED
    BY <2>1, <2>2
<1>9. liveCount' \in Nat /\ tokens' \subseteq Token
  BY <1>2, <1>3, <1>8, TokensFinite
<1>10. Cardinality(tokens') <= GlobalTokenEmergencyCap
  <2>1. CASE Refuses(t)
    <3>1. Cardinality(T) <= Cardinality(tokens)
      BY <1>3, <1>5, <1>6, RemovePart
    <3>2. tokens' = T
      BY <1>2, <2>1
    <3>3. Cardinality(tokens) <= GlobalTokenEmergencyCap
      BY DEF IInv, WithinQuota
    <3> HIDE DEF T
    <3>4. QED
      BY <1>6, <3>1, <3>2, <3>3
  <2>2. CASE ~Refuses(t)
    <3>1. Cardinality(T) < GlobalTokenEmergencyCap
      BY <1>6, <1>7, <2>2 DEF Refuses
    <3>2. liveCount' = Cardinality(T) + 1
      BY <1>2, <1>7, <2>2, FS_Singleton
    <3> HIDE DEF T
    <3>3. QED
      BY <1>6, <1>8, <3>1, <3>2
  <2>3. QED
    BY <2>1, <2>2
<1>11. \A q \in Peer : Cardinality(byPeer'[q]) <= MaxLiveTokensPerPeer
  <2>1. ASSUME NEW q \in Peer, q # p
        PROVE  Cardinality(byPeer'[q]) <= MaxLiveTokensPerPeer
    BY <1>2, <1>3, <2>1 DEF IInv, WithinQuota
  <2>2. Cardinality(byPeer'[p]) <= MaxLiveTokensPerPeer
    <3> DEFINE S == prunePeerExpired(byPeer[p], mint[t].at)
               k == MaxLiveTokensPerPeer - 1
    <3>1. k \in Nat /\ MaxLiveTokensPerPeer = k + 1
      OBVIOUS
    <3>2. S \subseteq byPeer[p] /\ S \subseteq Minted
      BY <1>1, <1>3 DEF prunePeerExpired
    <3>3. Cardinality(byPeer[p]) <= MaxLiveTokensPerPeer
      BY <1>1 DEF IInv, WithinQuota
    <3>4. byPeer[p] \subseteq Token
      BY <1>1, <1>3
    <3>5. Cardinality(S) <= k + 1
      <4>1. IsFiniteSet(byPeer[p]) /\ Cardinality(byPeer[p]) \in Nat
        BY <3>4, TokensFinite
      <4>2. S \subseteq Token
        BY <3>2, <3>4
      <4>3. Cardinality(S) <= Cardinality(byPeer[p]) /\ Cardinality(S) \in Nat
        BY <3>2, <4>1, <4>2, FS_Subset, TokensFinite
      <4> HIDE DEF S, k
      <4>4. QED
        BY <3>1, <3>3, <4>1, <4>3
    <3>6. Kept(t) = evictOldestOfPeer(S, k)
      BY DEF Kept
    <3>7. Cardinality(Kept(t)) <= k
      <4> HIDE DEF S, k
      <4>1. QED
        BY <3>1, <3>2, <3>5, <3>6, EvictBound DEF IInv
    <3>8. Kept(t) \subseteq Token /\ t \notin Kept(t)
      BY <1>3, <1>4, <1>5, <3>4
    <3>9. Cardinality(Kept(t)) \in Nat /\ Cardinality(Kept(t) \cup {t}) = Cardinality(Kept(t)) + 1
      BY <3>8, TokensFinite, AddOne
    <3>10. byPeer'[p] = Kept(t) \/ byPeer'[p] = Kept(t) \cup {t}
      BY <1>1, <1>2, <1>3
    <3> HIDE DEF S, k, p
    <3>11. /\ Cardinality(Kept(t)) <= MaxLiveTokensPerPeer
           /\ Cardinality(Kept(t) \cup {t}) <= MaxLiveTokensPerPeer
      BY <3>1, <3>7, <3>9
    <3>12. CASE byPeer'[p] = Kept(t)
      BY <3>11, <3>12
    <3>13. CASE byPeer'[p] = Kept(t) \cup {t}
      BY <3>11, <3>13
    <3>14. QED
      BY <3>10, <3>12, <3>13
  <2>3. QED
    BY <2>1, <2>2
<1>12. /\ \A u \in Token : u # t => mint'[u] = mint[u]
       /\ mint'[t].peer = p
       /\ mint'[t].st = IF Refuses(t) THEN "refused" ELSE "minted"
       /\ mint'[t].n = IF Refuses(t) THEN 0 ELSE Cardinality(Minted) + 1
  BY DEF generateTokenAt, IInv, TypeOK, MintRec
<1>13. Minted' = Minted \cup added
  BY <1>4, <1>12 DEF Minted
<1>14. Minted \subseteq Token /\ Cardinality(Minted) \in Nat
  <2>1. Minted \subseteq Token
    BY DEF Minted
  <2>2. QED
    BY <2>1, TokensFinite
<1>15. TypeOK'
  <2>1. mint' \in [Token -> MintRec]
    <3> DEFINE st == IF Refuses(t) THEN "refused" ELSE "minted"
               n == IF Refuses(t) THEN 0 ELSE Cardinality(Minted) + 1
    <3>1. st \in {"undrawn", "waiting", "minted", "refused"} /\ n \in Nat
      BY <1>14
    <3>2. mint' = [mint EXCEPT ![t].st = st, ![t].n = n]
      BY DEF generateTokenAt
    <3> HIDE DEF st, n
    <3>3. QED
      BY <3>1, <3>2, ZenonT(40) DEF IInv, TypeOK, MintRec
  <2>2. byPeer' \in [Peer -> SUBSET Token]
    BY <1>1, <1>2, <1>3, <1>5
  <2>3. emergencyBrake' \in BOOLEAN
    BY <1>2 DEF Refuses
  <2>4. QED
    BY <1>2, <1>9, <2>1, <2>2, <2>3 DEF IInv, TypeOK
<1>16. WaitingBound'
  BY <1>12 DEF IInv, WaitingBound
<1>17. Numbered'
  <2>1. CASE Refuses(t)
    <3>1. Minted' = Minted /\ \A u \in Minted : mint'[u] = mint[u]
      BY <1>4, <1>12, <1>13, <1>14, <2>1
    <3>2. QED
      BY <3>1 DEF IInv, Numbered
  <2>2. CASE ~Refuses(t)
    <3>1. Minted' = Minted \cup {t} /\ mint'[t].n = Cardinality(Minted) + 1
      BY <1>12, <1>13, <2>2
    <3>2. Cardinality(Minted') = Cardinality(Minted) + 1
      BY <1>4, <1>14, <3>1, AddOne
    <3>3. \A u \in Minted : /\ mint'[u] = mint[u]
                            /\ mint[u].n \in Nat /\ mint[u].n <= Cardinality(Minted)
      BY <1>4, <1>12, <1>14 DEF IInv, TypeOK, MintRec, Numbered
    <3>4. \A u \in Minted' : mint'[u].n <= Cardinality(Minted')
      BY <1>14, <3>1, <3>2, <3>3
    <3>5. \A u, w \in Minted' : mint'[u].n = mint'[w].n => u = w
      <4>1. \A u, w \in Minted : mint'[u].n = mint'[w].n => u = w
        BY <3>3 DEF IInv, Numbered
      <4>2. \A u \in Minted : mint'[u].n # mint'[t].n
        BY <1>14, <3>1, <3>3
      <4>3. QED
        BY <3>1, <4>1, <4>2
    <3>6. QED
      BY <3>4, <3>5 DEF Numbered
  <2>3. QED
    BY <2>1, <2>2
<1>18. Accounting'
  <2>1. tokens' = UNION {byPeer'[q] : q \in Peer}
    <3>1. \A u : u \in tokens' <=> \E q \in Peer : u \in byPeer'[q]
      <4>1. \A u : u \in tokens <=> \E q \in Peer : u \in byPeer[q]
        BY DEF IInv, Accounting
      <4>2. byPeer'[p] = Kept(t) \cup added /\ \A q \in Peer : q # p => byPeer'[q] = byPeer[q]
        BY <1>1, <1>2, <1>3
      <4>3. \A q \in Peer : \A u \in byPeer[q] : u \in byPeer[p] => q = p
        BY <1>1, <1>3
      <4> HIDE DEF p, added
      <4>4. QED
        BY <1>1, <1>2, <1>5, <4>1, <4>2, <4>3 DEF T, D
    <3>2. QED
      BY <3>1
  <2>2. \A q \in Peer : \A u \in byPeer'[q] : mint'[u].st = "minted" /\ mint'[u].peer = q
    <3>1. \A q \in Peer : \A u \in byPeer[q] : /\ mint'[u].st = "minted"
                                               /\ mint'[u].peer = q
      BY <1>3, <1>4, <1>12 DEF Minted
    <3>2. byPeer'[p] = Kept(t) \cup added /\ \A q \in Peer : q # p => byPeer'[q] = byPeer[q]
      BY <1>1, <1>2, <1>3
    <3>3. \A u \in added : mint'[u].st = "minted" /\ mint'[u].peer = p
      BY <1>12
    <3> HIDE DEF p, added
    <3>4. QED
      BY <1>1, <1>5, <3>1, <3>2, <3>3
  <2>3. QED
    BY <1>8, <2>1, <2>2 DEF Accounting
<1>19. QED
  BY <1>10, <1>11, <1>15, <1>16, <1>17, <1>18 DEF IInv, WithinQuota

\* A sweep of the ticker keeps the store consistent and within its quotas.
LEMMA CleanupStep ==
    ASSUME IInv, cleanupExpired
    PROVE  IInv'
<1> DEFINE D == discardExpired(clock)
<1> USE TokenAssumption
<1>1. /\ tokens' = tokens \ D
      /\ \A q \in Peer : byPeer'[q] = prunePeerExpired(byPeer[q], clock)
      /\ byPeer' = [q \in Peer |-> prunePeerExpired(byPeer[q], clock)]
      /\ liveCount' = liveCount - Cardinality(D)
      /\ emergencyBrake' = (emergencyBrake /\ liveCount' >= GlobalTokenEmergencyCap)
      /\ clock' = clock /\ mint' = mint
  BY DEF cleanupExpired
<1>2. \A q \in Peer : byPeer'[q] \subseteq byPeer[q]
  BY <1>1 DEF prunePeerExpired
<1>3. /\ tokens = UNION {byPeer[q] : q \in Peer} /\ tokens \subseteq Token
      /\ liveCount = Cardinality(tokens)
      /\ \A q \in Peer : byPeer[q] \subseteq Token
      /\ \A q \in Peer : \A u \in byPeer[q] : mint[u].st = "minted" /\ mint[u].peer = q
  BY DEF IInv, Accounting, TypeOK
<1>4. D \subseteq tokens
  BY <1>3 DEF discardExpired
<1>5. Cardinality(tokens') = Cardinality(tokens) - Cardinality(D)
  BY <1>1, <1>3, <1>4, RemovePart
<1>6. tokens' \subseteq Token /\ Cardinality(tokens') \in Nat /\ Cardinality(tokens) \in Nat
      /\ Cardinality(D) \in Nat
  <2>1. tokens' \subseteq Token /\ D \subseteq Token
    BY <1>1, <1>3, <1>4
  <2>2. QED
    BY <1>3, <2>1, TokensFinite
<1>7. liveCount' = Cardinality(tokens')
  BY <1>1, <1>3, <1>5
<1>8. TypeOK'
  <2>1. byPeer' \in [Peer -> SUBSET Token]
    BY <1>1, <1>3 DEF prunePeerExpired
  <2>2. emergencyBrake' \in BOOLEAN
    BY <1>1 DEF IInv, TypeOK
  <2>3. QED
    BY <1>1, <1>6, <1>7, <2>1, <2>2 DEF IInv, TypeOK
<1>9. WaitingBound' /\ Numbered'
  BY <1>1 DEF IInv, WaitingBound, Numbered, Minted
<1>10. tokens' = UNION {byPeer'[q] : q \in Peer}
  <2>1. \A u : u \in tokens <=> \E q \in Peer : u \in byPeer[q]
    BY <1>3
  <2>2. \A u : u \in D <=> \E q \in Peer : u \in byPeer[q] /\ u \notin byPeer'[q]
    BY <1>1 DEF discardExpired
  <2>3. \A q, r \in Peer : \A u \in byPeer[q] : u \in byPeer[r] => q = r
    BY <1>3
  <2> HIDE DEF D
  <2>4. \A u : u \in tokens' <=> \E q \in Peer : u \in byPeer'[q]
    BY <1>1, <1>2, <2>1, <2>2, <2>3
  <2>5. QED
    BY <2>4
<1>11. Accounting'
  BY <1>1, <1>2, <1>3, <1>7, <1>10 DEF Accounting
<1>12. WithinQuota'
  <2>1. Cardinality(tokens') <= GlobalTokenEmergencyCap
    <3>1. Cardinality(tokens) <= GlobalTokenEmergencyCap
      BY DEF IInv, WithinQuota
    <3> HIDE DEF D
    <3>2. QED
      BY <1>5, <1>6, <3>1
  <2>2. ASSUME NEW q \in Peer
        PROVE  Cardinality(byPeer'[q]) <= MaxLiveTokensPerPeer
    <3>1. IsFiniteSet(byPeer[q]) /\ Cardinality(byPeer[q]) \in Nat
      BY <1>3, TokensFinite
    <3>2. Cardinality(byPeer'[q]) <= Cardinality(byPeer[q])
      BY <1>2, <3>1, FS_Subset
    <3>3. byPeer'[q] \subseteq Token
      BY <1>2, <1>3
    <3>4. Cardinality(byPeer'[q]) \in Nat
      BY <3>3, TokensFinite
    <3>5. Cardinality(byPeer[q]) <= MaxLiveTokensPerPeer
      BY DEF IInv, WithinQuota
    <3>6. QED
      BY <3>1, <3>2, <3>4, <3>5
  <2>3. QED
    BY <2>1, <2>2 DEF WithinQuota
<1>13. QED
  BY <1>8, <1>9, <1>11, <1>12 DEF IInv

\* The invariant is inductive.
LEMMA StepIInv == IInv /\ [Next]_vars => IInv'
<1> SUFFICES ASSUME IInv, [Next]_vars
             PROVE  IInv'
  OBVIOUS
<1>1. ASSUME NEW t \in Token, NEW p \in Peer, GenerateToken(t, p)
      PROVE  IInv'
  BY <1>1, GenerateTokenStep
<1>2. ASSUME NEW t \in Token, generateTokenAt(t)
      PROVE  IInv'
  BY <1>2, LockedMintStep
<1>3. CASE cleanupExpired
  BY <1>3, CleanupStep
<1>4. CASE Tick
  <2>1. TypeOK'
    BY <1>4 DEF Tick, IInv, TypeOK
  <2>2. WaitingBound' /\ Numbered' /\ Accounting' /\ WithinQuota'
    BY <1>4 DEF Tick, IInv, WaitingBound, Numbered, Minted, Accounting, WithinQuota
  <2>3. QED
    BY <2>1, <2>2 DEF IInv
<1>5. CASE UNCHANGED vars
  BY <1>5 DEF vars, IInv, TypeOK, WaitingBound, Numbered, Minted, Accounting, WithinQuota
<1>6. QED
  BY <1>1, <1>2, <1>3, <1>4, <1>5 DEF Next

\* The store and the mints always have their types; liveCount never goes below
\* zero although three places count tokens out of it.
THEOREM TokenTypeCorrect == Spec => []TypeOK
<1>1. IInv => TypeOK
  BY DEF IInv
<1>2. QED
  BY <1>1, InitIInv, StepIInv, PTL DEF Spec

\* The map, the peers' lists and liveCount of the token store always agree,
\* whatever mints wait for the lock and whatever the sweep discards between them.
THEOREM AccountingAlways == Spec => []Accounting
<1>1. IInv => Accounting
  BY DEF IInv
<1>2. QED
  BY <1>1, InitIInv, StepIInv, PTL DEF Spec

\* Neither a peer's quota nor the store's emergency capacity is ever exceeded,
\* for any quotas and any number of mints at once.
THEOREM QuotaAlways == Spec => []WithinQuota
<1>1. IInv => WithinQuota
  BY DEF IInv
<1>2. QED
  BY <1>1, InitIInv, StepIInv, PTL DEF Spec

-----------------------------------------------------------------------------
\* What a mint that meets the emergency brake leaves of the map is the size that
\* it compared with the capacity.
LEMMA RefusedMint ==
    ASSUME IInv, NEW t \in Token, generateTokenAt(t), Refuses(t)
    PROVE  /\ \E D : D \subseteq tokens /\ tokens' = tokens \ D
           /\ liveCount' = Cardinality(tokens') /\ liveCount' = Count(t)
           /\ Cardinality(tokens') \in Nat
           /\ Cardinality(tokens') >= GlobalTokenEmergencyCap
<1>1. IInv'
  BY LockedMintStep
<1>2. liveCount' = Cardinality(tokens') /\ Cardinality(tokens') \in Nat
  BY <1>1 DEF IInv, Accounting, TypeOK
<1>3. mint[t].peer \in Peer
  BY DEF generateTokenAt, IInv, WaitingBound
<1>4. byPeer[mint[t].peer] \ Kept(t) \subseteq tokens
  BY <1>3 DEF IInv, Accounting
<1>5. tokens' = tokens \ (byPeer[mint[t].peer] \ Kept(t))
  BY DEF generateTokenAt
<1>6. Count(t) \in Int
  <2>1. byPeer[mint[t].peer] \ Kept(t) \subseteq Token
    BY <1>4 DEF IInv, TypeOK
  <2>2. QED
    BY <2>1, TokensFinite DEF Count, IInv, TypeOK
<1>7. liveCount' = Count(t)
  <2>1. liveCount' = Count(t) + Cardinality({})
    BY DEF generateTokenAt
  <2>2. QED
    BY <1>6, <2>1, FS_EmptySet
<1>8. QED
  BY <1>2, <1>4, <1>5, <1>7 DEF Refuses

\* emergencyBrake is only on while the store is at the emergency capacity: no
\* sweep and no mint of a peer with room of its own leaves it on for longer.
THEOREM BrakeAlways == Spec => []BrakeMeansFull
<1>1. Init => BrakeMeansFull
  BY DEF Init, BrakeMeansFull
<1>2. IInv /\ IInv' /\ BrakeMeansFull /\ [Next]_vars => BrakeMeansFull'
  <2> SUFFICES ASSUME IInv, IInv', BrakeMeansFull, [Next]_vars
               PROVE  BrakeMeansFull'
    OBVIOUS
  <2>1. ASSUME NEW t \in Token, NEW p \in Peer, GenerateToken(t, p)
        PROVE  BrakeMeansFull'
    BY <2>1 DEF GenerateToken, BrakeMeansFull
  <2>2. ASSUME NEW t \in Token, generateTokenAt(t)
        PROVE  BrakeMeansFull'
    <3>1. CASE Refuses(t)
      BY <2>2, <3>1, RefusedMint DEF BrakeMeansFull
    <3>2. CASE ~Refuses(t)
      BY <2>2, <3>2 DEF generateTokenAt, BrakeMeansFull
    <3>3. QED
      BY <3>1, <3>2
  <2>3. CASE cleanupExpired
    <3>1. emergencyBrake' => liveCount' >= GlobalTokenEmergencyCap
      BY <2>3 DEF cleanupExpired
    <3>2. liveCount' = Cardinality(tokens')
      BY DEF IInv, Accounting
    <3>3. QED
      BY <3>1, <3>2 DEF BrakeMeansFull
  <2>4. CASE Tick
    BY <2>4 DEF Tick, BrakeMeansFull
  <2>5. CASE UNCHANGED vars
    BY <2>5 DEF vars, BrakeMeansFull
  <2>6. QED
    BY <2>1, <2>2, <2>3, <2>4, <2>5 DEF Next
<1>3. QED
  BY <1>1, <1>2, InitIInv, StepIInv, PTL DEF Spec

\* The same mint discards nobody's token: the store was exactly full.
LEMMA RefusedMintKeeps ==
    ASSUME IInv, NEW t \in Token, generateTokenAt(t), Refuses(t)
    PROVE  tokens' = tokens /\ Cardinality(tokens) = GlobalTokenEmergencyCap
<1>1. PICK D : D \subseteq tokens /\ tokens' = tokens \ D
  BY RefusedMint
<1>2. tokens \subseteq Token /\ Cardinality(tokens) <= GlobalTokenEmergencyCap
  BY DEF IInv, TypeOK, WithinQuota
<1>3. /\ Cardinality(tokens') >= GlobalTokenEmergencyCap
      /\ Cardinality(tokens') = Cardinality(tokens) - Cardinality(D)
      /\ Cardinality(tokens) \in Nat /\ Cardinality(D) \in Nat
      /\ IsFiniteSet(D)
  <2>1. D \subseteq Token
    BY <1>1, <1>2
  <2>2. QED
    BY <1>1, <1>2, <2>1, RefusedMint, RemovePart, TokensFinite
<1>4. Cardinality(D) = 0 /\ Cardinality(tokens) = GlobalTokenEmergencyCap
  BY <1>2, <1>3, TokenAssumption
<1>5. D = {}
  BY <1>3, <1>4, FS_EmptySet
<1>6. QED
  BY <1>1, <1>4, <1>5

\* A mint is refused only by a full store, and then discards nobody's token,
\* although generateTokenAt prunes and evicts before it looks at the capacity.
THEOREM RefusalCostsNothingAlways == Spec => RefusalCostsNothing
<1> DEFINE A == \A t \in Token :
                  mint[t].st = "waiting" /\ mint'[t].st = "refused"
                      => tokens' = tokens /\ Cardinality(tokens) = GlobalTokenEmergencyCap
<1>1. IInv /\ [Next]_vars => [A]_vars
  <2> SUFFICES ASSUME IInv, Next, NEW u \in Token,
                      mint[u].st = "waiting", mint'[u].st = "refused"
               PROVE  tokens' = tokens /\ Cardinality(tokens) = GlobalTokenEmergencyCap
    OBVIOUS
  <2>1. generateTokenAt(u) /\ Refuses(u)
    <3>1. ASSUME NEW t \in Token, NEW p \in Peer, GenerateToken(t, p)
          PROVE  FALSE
      BY <3>1 DEF GenerateToken, IInv, TypeOK, Undrawn
    <3>2. ASSUME NEW t \in Token, generateTokenAt(t)
          PROVE  t = u /\ Refuses(t)
      BY <3>2 DEF generateTokenAt, IInv, TypeOK, MintRec
    <3>3. ~cleanupExpired /\ ~Tick
      BY DEF cleanupExpired, Tick
    <3>4. QED
      BY <3>1, <3>2, <3>3 DEF Next
  <2>2. QED
    BY <2>1, RefusedMintKeeps
<1>2. QED
  BY <1>1, InitIInv, StepIInv, PTL DEF Spec, RefusalCostsNothing

-----------------------------------------------------------------------------
(***************************************************************************)
(* A token that was handed out is honoured.  A mint prunes its peer's list *)
(* at the time it read before it had the lock; that time is never ahead of *)
(* the clock, so what it prunes has expired.                               *)
(***************************************************************************)
\* The tokens that t's peer minted after t.
Later(t) == {u \in After(Minted, t) : mint[u].peer = mint[t].peer}

\* No mint read a time that has not come yet.
ReadInPast == \A t \in Token : mint[t].at <= clock

\* Only tokens appended after t make it go.
AppendedHonoured ==
    \A t \in Minted :
        clock <= ExpiresAt(t) /\ Cardinality(Later(t)) < MaxLiveTokensPerPeer
            => ValidateToken(t)

HInv == ReadInPast /\ AppendedHonoured

\* A sequence of tokens that were not touched has the same members after t.
LEMMA LaterSame ==
    ASSUME Minted' = Minted, \A u \in Minted : mint'[u] = mint[u]
    PROVE  \A t \in Minted : /\ Later(t)' = Later(t)
                             /\ ExpiresAt(t)' = ExpiresAt(t)
BY DEF Later, After, ExpiresAt

\* The mint of t makes one later token of every token of its peer and none of
\* any other.
LEMMA LaterGrows ==
    ASSUME IInv, NEW t \in Token, mint[t].st = "waiting",
           Minted' = Minted \cup {t}, \A u \in Minted : mint'[u] = mint[u],
           mint'[t].peer = mint[t].peer, mint'[t].n = Cardinality(Minted) + 1,
           NEW u \in Minted
    PROVE  Later(u)' = IF mint[u].peer = mint[t].peer THEN Later(u) \cup {t} ELSE Later(u)
<1>1. t \notin Minted
  BY DEF Minted
<1>2. mint[u].n \in Nat /\ mint[u].n <= Cardinality(Minted) /\ Cardinality(Minted) \in Nat
  <2>1. Minted \subseteq Token
    BY DEF Minted
  <2>2. QED
    BY <2>1, TokensFinite DEF IInv, Numbered, TypeOK, MintRec
<1>3. mint'[t].n > mint'[u].n
  BY <1>2
<1>4. Later(u)' = {w \in Minted \cup {t} : mint'[w].n > mint'[u].n /\ mint'[w].peer = mint'[u].peer}
  BY DEF Later, After
<1>5. Later(u) = {w \in Minted : mint'[w].n > mint'[u].n /\ mint'[w].peer = mint'[u].peer}
  BY DEF Later, After
<1>6. QED
  BY <1>1, <1>3, <1>4, <1>5

\* What a mint of its peer leaves of a token that has not expired and whose peer
\* has room for one more after it.
LEMMA KeptHonoured ==
    ASSUME IInv, ReadInPast, NEW t \in Token, mint[t].st = "waiting",
           NEW u \in byPeer[mint[t].peer], clock <= ExpiresAt(u),
           Cardinality(Later(u)) < MaxLiveTokensPerPeer - 1
    PROVE  u \in Kept(t)
<1> DEFINE p == mint[t].peer
           S == prunePeerExpired(byPeer[p], mint[t].at)
<1>1. p \in Peer
  BY DEF IInv, WaitingBound
<1>2. \A w \in byPeer[p] : w \in Token /\ w \in Minted /\ mint[w].peer = p
  BY <1>1 DEF IInv, Accounting, TypeOK, Minted
<1>3. u \in S
  <2>1. mint[t].at \in Nat /\ clock \in Nat /\ ExpiresAt(u) \in Nat
    BY <1>2, TokenAssumption DEF IInv, TypeOK, MintRec, ExpiresAt
  <2>2. mint[t].at <= clock
    BY DEF ReadInPast
  <2>3. mint[t].at <= ExpiresAt(u)
    BY <2>1, <2>2
  <2>4. QED
    BY <2>3 DEF prunePeerExpired
<1>4. After(S, u) \subseteq Later(u)
  BY <1>2 DEF prunePeerExpired, Later, After
<1>5. Later(u) \subseteq Token
  BY DEF Later, After, Minted
<1>6. Cardinality(After(S, u)) < MaxLiveTokensPerPeer - 1
  <2>1. /\ IsFiniteSet(Later(u)) /\ Cardinality(Later(u)) \in Nat
        /\ Cardinality(After(S, u)) <= Cardinality(Later(u))
    BY <1>4, <1>5, TokensFinite, FS_Subset
  <2>2. After(S, u) \subseteq Token
    BY <1>4, <1>5
  <2>3. Cardinality(After(S, u)) \in Nat
    BY <2>2, TokensFinite
  <2> HIDE DEF S
  <2>4. QED
    BY <2>1, <2>3, TokenAssumption
<1>7. QED
  BY <1>3, <1>6 DEF Kept, evictOldestOfPeer

\* The locked part of a mint takes away no token that is still due.
LEMMA MintHonours ==
    ASSUME IInv, HInv, NEW t \in Token, generateTokenAt(t)
    PROVE  HInv'
<1>1. /\ mint[t].st = "waiting" /\ clock' = clock /\ mint[t].peer \in Peer
      /\ \A w \in Token : w # t => mint'[w] = mint[w]
      /\ mint'[t].at = mint[t].at /\ mint'[t].peer = mint[t].peer
      /\ mint'[t].st = IF Refuses(t) THEN "refused" ELSE "minted"
      /\ mint'[t].n = IF Refuses(t) THEN 0 ELSE Cardinality(Minted) + 1
  BY DEF generateTokenAt, IInv, TypeOK, MintRec, WaitingBound
<1>2. t \notin Minted /\ Minted \subseteq Token
  BY <1>1 DEF Minted
<1>3. \A w \in Minted : mint'[w] = mint[w]
  BY <1>1, <1>2
<1>4. ReadInPast'
  <2>1. \A w \in Token : mint'[w].at = mint[w].at
    BY <1>1
  <2>2. QED
    BY <1>1, <2>1 DEF HInv, ReadInPast
<1>5. AppendedHonoured'
  <2>1. CASE Refuses(t)
    <3>1. Minted' = Minted
      BY <1>1, <1>2, <2>1 DEF Minted
    <3>2. tokens' = tokens
      BY <2>1, RefusedMintKeeps
    <3>3. \A w \in Minted : Later(w)' = Later(w) /\ ExpiresAt(w)' = ExpiresAt(w)
      BY <1>3, <3>1, LaterSame
    <3>4. QED
      BY <1>1, <3>1, <3>2, <3>3 DEF HInv, AppendedHonoured, ValidateToken, Later
  <2>2. CASE ~Refuses(t)
    <3>1. Minted' = Minted \cup {t} /\ mint'[t].n = Cardinality(Minted) + 1
      BY <1>1, <1>2, <2>2 DEF Minted
    <3>2. tokens' = (tokens \ (byPeer[mint[t].peer] \ Kept(t))) \cup {t}
      BY <2>2 DEF generateTokenAt
    <3>3. SUFFICES ASSUME NEW u \in Minted', (clock <= ExpiresAt(u))',
                          (Cardinality(Later(u)) < MaxLiveTokensPerPeer)'
                   PROVE  u \in tokens'
      BY DEF AppendedHonoured, ValidateToken, Later
    <3>4. CASE u = t
      BY <3>2, <3>4
    <3>5. CASE u \in Minted
      <4>1. Later(u)' = IF mint[u].peer = mint[t].peer THEN Later(u) \cup {t} ELSE Later(u)
        BY <1>1, <1>3, <3>1, <3>5, LaterGrows
      <4>2. ExpiresAt(u)' = ExpiresAt(u)
        BY <1>3, <3>5 DEF ExpiresAt
      <4>3. Later(u) \subseteq Token /\ t \notin Later(u)
        BY <1>2 DEF Later, After
      <4>4. Cardinality(Later(u)) \in Nat /\ Cardinality(Later(u) \cup {t}) = Cardinality(Later(u)) + 1
        BY <4>3, TokensFinite, AddOne
      <4>5. clock <= ExpiresAt(u) /\ Cardinality(Later(u)') < MaxLiveTokensPerPeer
        BY <1>1, <3>3, <4>2
      <4>6. CASE mint[u].peer # mint[t].peer
        <5>1. u \in tokens
          BY <3>5, <4>1, <4>5, <4>6 DEF HInv, AppendedHonoured, ValidateToken, Later
        <5>2. u \notin byPeer[mint[t].peer]
          BY <1>1, <4>6 DEF IInv, Accounting
        <5>3. QED
          BY <3>2, <5>1, <5>2
      <4>7. CASE mint[u].peer = mint[t].peer
        <5>1. Cardinality(Later(u)) < MaxLiveTokensPerPeer - 1
          BY <4>1, <4>4, <4>5, <4>7, TokenAssumption
        <5>2. Cardinality(Later(u)) < MaxLiveTokensPerPeer
          BY <4>4, <5>1, TokenAssumption
        <5>3. u \in tokens
          BY <3>5, <4>5, <5>2 DEF HInv, AppendedHonoured, ValidateToken, Later
        <5>4. u \in byPeer[mint[t].peer]
          BY <4>7, <5>3 DEF IInv, Accounting
        <5>5. u \in Kept(t)
          BY <1>1, <4>5, <5>1, <5>4, KeptHonoured DEF HInv
        <5>6. QED
          BY <3>2, <5>3, <5>5
      <4>8. QED
        BY <4>6, <4>7
    <3>6. QED
      BY <3>1, <3>4, <3>5
  <2>3. QED
    BY <2>1, <2>2
<1>6. QED
  BY <1>4, <1>5 DEF HInv

\* A token that was handed out validates until it expires or as many tokens of its
\* own peer as the quota are newer, in the order of the lock or of creation: for any peers, quotas and lifetime, no
\* other peer's mints, no refused mint, no sweep and no mint that waited for the
\* lock with an old reading of the clock takes it away.
THEOREM TokenHonouredAlways == Spec => []TokenHonoured
<1>1. Init => HInv
  BY DEF Init, HInv, ReadInPast, AppendedHonoured, Minted, Undrawn
<1>2. IInv /\ HInv /\ [Next]_vars => HInv'
  <2> SUFFICES ASSUME IInv, HInv, [Next]_vars
               PROVE  HInv'
    OBVIOUS
  <2>1. ASSUME NEW t \in Token, NEW p \in Peer, GenerateToken(t, p)
        PROVE  HInv'
    <3>1. /\ mint[t].st = "undrawn" /\ mint'[t].st = "waiting" /\ mint'[t].at = clock
          /\ \A w \in Token : w # t => mint'[w] = mint[w]
          /\ clock' = clock /\ tokens' = tokens
      BY <2>1 DEF GenerateToken, IInv, TypeOK, Undrawn
    <3>2. Minted' = Minted /\ \A w \in Minted : mint'[w] = mint[w]
      BY <3>1 DEF Minted
    <3>3. ReadInPast'
      <4>1. clock \in Nat
        BY DEF IInv, TypeOK
      <4>2. QED
        BY <3>1, <4>1 DEF HInv, ReadInPast
    <3>4. \A w \in Minted : Later(w)' = Later(w) /\ ExpiresAt(w)' = ExpiresAt(w)
      BY <3>2, LaterSame
    <3>5. AppendedHonoured'
      BY <3>1, <3>2, <3>4 DEF HInv, AppendedHonoured, ValidateToken, Later
    <3>6. QED
      BY <3>3, <3>5 DEF HInv
  <2>2. ASSUME NEW t \in Token, generateTokenAt(t)
        PROVE  HInv'
    BY <2>2, MintHonours
  <2>3. CASE cleanupExpired
    <3>1. mint' = mint /\ clock' = clock /\ tokens' = tokens \ discardExpired(clock)
      BY <2>3 DEF cleanupExpired
    <3>2. \A u \in discardExpired(clock) : ~(clock <= ExpiresAt(u))
      BY DEF discardExpired, prunePeerExpired
    <3>3. AppendedHonoured'
      BY <3>1, <3>2 DEF HInv, AppendedHonoured, Later, ValidateToken, ExpiresAt, After, Minted
    <3>4. QED
      BY <3>1, <3>3 DEF HInv, ReadInPast
  <2>4. CASE Tick
    <3>1. mint' = mint /\ tokens' = tokens /\ clock' = clock + 1 /\ clock \in Nat
      BY <2>4 DEF Tick, IInv, TypeOK
    <3>2. \A t \in Token : mint[t].at \in Nat /\ ExpiresAt(t) \in Nat
      BY TokenAssumption DEF IInv, TypeOK, MintRec, ExpiresAt
    <3>3. ReadInPast'
      BY <3>1, <3>2 DEF HInv, ReadInPast
    <3>4. \A t \in Token : (clock' <= ExpiresAt(t)) => clock <= ExpiresAt(t)
      BY <3>1, <3>2
    <3>5. AppendedHonoured'
      BY <3>1, <3>4 DEF HInv, AppendedHonoured, Later, ValidateToken, ExpiresAt, After, Minted
    <3>6. QED
      BY <3>3, <3>5 DEF HInv
  <2>5. CASE UNCHANGED vars
    BY <2>5 DEF vars, HInv, ReadInPast, AppendedHonoured, Later, ValidateToken, ExpiresAt, After, Minted
  <2>6. QED
    BY <2>1, <2>2, <2>3, <2>4, <2>5 DEF Next
<1>3. IInv /\ HInv => TokenHonoured
  <2> SUFFICES ASSUME IInv, HInv, NEW t \in Minted, clock <= ExpiresAt(t),
                      Cardinality(Newer(t)) < MaxLiveTokensPerPeer
               PROVE  ValidateToken(t)
    BY DEF TokenHonoured
  <2>1. Later(t) \subseteq Newer(t) /\ Newer(t) \subseteq Token
    <3>1. mint[t].n \in Nat
      BY DEF IInv, TypeOK, MintRec, Minted
    <3>2. QED
      BY <3>1 DEF Later, After, Newer, Minted
  <2>2. Cardinality(Later(t)) <= Cardinality(Newer(t))
    BY <2>1, TokensFinite, FS_Subset
  <2>3. Cardinality(Later(t)) \in Nat /\ Cardinality(Newer(t)) \in Nat
    BY <2>1, TokensFinite
  <2>4. Cardinality(Later(t)) < MaxLiveTokensPerPeer
    BY <2>2, <2>3, TokenAssumption
  <2>5. QED
    BY <2>4 DEF HInv, AppendedHonoured
<1>4. QED
  BY <1>1, <1>2, <1>3, InitIInv, StepIInv, PTL DEF Spec
=============================================================================
