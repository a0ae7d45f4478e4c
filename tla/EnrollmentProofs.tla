-------------------------- MODULE EnrollmentProofs --------------------------
(***************************************************************************)
(* Theorems about Enrollment, for every set of VMs, EKs, connections and   *)
(* sessions, either backend and any changes outside the service.           *)
(***************************************************************************)
EXTENDS Enrollment, TLAPS

USE DEF Proxmox, requireClusterPin, Mode

\* A leg under way has a VM, an EK and a request.
LegBound ==
    \A c \in Conn : pc[c] # "idle" =>
        vmid(c) \in VM /\ fp(c) \in EK /\ req[c].op \in {"start", "finish"}

\* A finish names a session that was once handed out; any other leg is on its
\* way to a session of its own.
FinishBound ==
    \A c \in Conn :
        IF req[c].op = "finish"
        THEN req[c].sid \in Session /\ sess[req[c].sid] # Unused
        ELSE pc[c] \in {"idle", "put"} \cup AuthPC \cup ScanPC

\* A session that was handed out belongs to a VM and an EK.
SessBound ==
    \A s \in Session : sess[s] # Unused => sess[s].vm \in VM /\ sess[s].ek \in EK

\* The mutex is held exactly by the leg inside ensurePinBeforeIssue.
MutexInv ==
    \A c \in Conn :
        /\ pc[c] \in EnsurePC => pinCreateMu = c
        /\ pinCreateMu = c => pc[c] \in EnsurePC \cup ScanPC /\ req[c].op = "finish"

\* VMs whose having the pin k in the store says nothing about first use.
Exempt(k) == About({"gone", "hand"}, k)

\* No VM outside W holds the fingerprint of leg c, exempt ones aside.
ClearedBut(c, W) ==
    \A w \in VM \ W : w # vmid(c) /\ stored[w] = fp(c) => w \in Exempt(fp(c))

\* A guest config that is missing is on record as missing.
GoneInv == \A v \in VM \ guest : v \in Touched({"gone"})

\* While leg c scans the store, the files it has read do not hold its EK; when
\* the scan is over no file does, until the leg has created its own.
ScanClear(c) ==
    /\ pc[c] \in {"pins", "look1", "look2"} =>
          ClearedBut(c, IF scan[c].src = "store" THEN scan[c].todo ELSE {})
    /\ pc[c] \in {"create", "reread", "remove", "recreate"} => ClearedBut(c, {})

\* That is so for the leg that holds the mutex.
ScanInv == \A c \in Conn : pinCreateMu = c => ScanClear(c)

-----------------------------------------------------------------------------
(* Type correctness. *)

\* The records of an idle connection and of an unused session have their types.
LEMMA RecordTypes ==
    /\ NoReq \in ReqRec /\ NoScan \in ScanRec
    /\ Unbound \in ConnRec /\ Unused \in SessRec
BY DEF NoReq, NoScan, Unbound, Unused, ReqRec, ScanRec, ConnRec, SessRec

\* Reading one cluster pin changes only what the leg has still to read and its hits.
LEMMA ReadEffect ==
    ASSUME TypeOK, NEW c \in Conn, NEW w \in VM, ReadClusterPin(c, w)
    PROVE  /\ pc[c] = "pins" /\ scan[c].src = "cluster"
           /\ UNCHANGED <<stored, cluster, cache, guest, sess, pinCreateMu, pc, conn, req,
                          issued, outside, mode>>
           /\ w \in scan[c].todo
           /\ scan'[c] = [scan[c] EXCEPT !.todo = scan[c].todo \ {w},
                              !.hits = IF cluster[w] = fp(c) THEN scan[c].hits \cup {w}
                                                            ELSE scan[c].hits]
           /\ scan'[c].src = scan[c].src /\ scan'[c].had = scan[c].had
           /\ scan'[c].suspect = scan[c].suspect
           /\ scan'[c].todo = scan[c].todo \ {w}
           /\ scan[c].hits \subseteq scan'[c].hits
           /\ cluster[w] = fp(c) => w \in scan'[c].hits
           /\ \A d \in Conn \ {c} : scan'[d] = scan[d]
<1>1. /\ pc[c] = "pins" /\ scan[c].src = "cluster" /\ w \in scan[c].todo
      /\ UNCHANGED <<stored, cluster, cache, guest, sess, pinCreateMu, pc, conn, req,
                     issued, outside, mode>>
      /\ scan'[c] = [scan[c] EXCEPT !.todo = scan[c].todo \ {w},
                         !.hits = IF cluster[w] = fp(c) THEN scan[c].hits \cup {w}
                                                       ELSE scan[c].hits]
      /\ \A d \in Conn \ {c} : scan'[d] = scan[d]
  BY DEF ReadClusterPin, TypeOK, stores
<1>2. scan[c] \in ScanRec
  BY DEF TypeOK
<1>3. QED
  BY <1>1, <1>2 DEF ScanRec

\* What the two looks for a guest config do to the scan.
LEMMA LookEffect ==
    ASSUME TypeOK, NEW c \in Conn, LookForGuest(c)
    PROVE  /\ pc[c] \in {"look1", "look2"}
           /\ UNCHANGED <<stored, cluster, cache, guest, sess, conn, issued, outside, mode>>
           /\ \/ End(c)
              \/ /\ ~guestExists(scan[c].suspect)
                 /\ UNCHANGED <<pinCreateMu, req>>
                 /\ \/ pc[c] = "look1" /\ pc'[c] = "look2" /\ scan'[c] = scan[c]
                    \/ /\ pc[c] = "look2" /\ pc'[c] = "pins"
                       /\ scan'[c] = [scan[c] EXCEPT
                              !.todo = scan[c].todo \ {scan[c].suspect},
                              !.hits = scan[c].hits \ {scan[c].suspect},
                              !.suspect = NoVM]
                 /\ scan'[c].src = scan[c].src /\ scan'[c].had = scan[c].had
                 /\ scan'[c].todo \in {scan[c].todo, scan[c].todo \ {scan[c].suspect}}
                 /\ scan'[c].hits \in {scan[c].hits, scan[c].hits \ {scan[c].suspect}}
<1>1. /\ pc[c] \in {"look1", "look2"}
      /\ UNCHANGED <<stored, cluster, cache, guest, sess, conn, issued, outside, mode>>
      /\ \/ End(c)
         \/ /\ ~guestExists(scan[c].suspect)
            /\ UNCHANGED <<pinCreateMu, req>>
            /\ \/ pc[c] = "look1" /\ pc'[c] = "look2" /\ scan'[c] = scan[c]
               \/ /\ pc[c] = "look2" /\ pc'[c] = "pins"
                  /\ scan'[c] = [scan[c] EXCEPT
                         !.todo = scan[c].todo \ {scan[c].suspect},
                         !.hits = scan[c].hits \ {scan[c].suspect},
                         !.suspect = NoVM]
  BY DEF LookForGuest, Goto, End, TypeOK, stores, local
<1>2. scan[c] \in ScanRec
  BY DEF TypeOK
<1>3. QED
  BY <1>1, <1>2 DEF ScanRec

\* What is on record of a change outside the service.
LEMMA OnRecord ==
    ASSUME NEW k, NEW v, NEW p, NEW q, Touches(k, v, p, q), NEW ks, k \in ks
    PROVE  /\ v \in Touched(ks)' /\ v \in About(ks, p)' /\ v \in About(ks, q)'
           /\ outside \subseteq outside'
<1> DEFINE o == [kind |-> k, vm |-> v, old |-> p, new |-> q]
<1>1. o \in outside' /\ outside \subseteq outside'
  BY DEF Touches
<1>2. o.kind = k /\ o.vm = v /\ o.old = p /\ o.new = q
  OBVIOUS
<1> HIDE DEF o
<1>3. QED
  BY <1>1, <1>2 DEF Touched, About

\* Every step keeps the types of the stores, the legs and the histories.
LEMMA TypeStep ==
    ASSUME TypeOK, LegBound, FinishBound, SessBound, [Next]_vars
    PROVE  TypeOK'
<1> USE DEF stores, local, PC, AuthPC, ScanPC, TakenPC
<1>1. ASSUME NEW c \in Conn, NEW v \in VM, Connect(c, v)
      PROVE  TypeOK'
  <2>1. cache[v] \in EK \cup {NoPin}
    BY <1>1 DEF TypeOK, Connect
  <2>2. [vm |-> v, pin |-> cache[v]] \in ConnRec
    BY <2>1 DEF ConnRec
  <2>3. QED
    BY <1>1, <2>2 DEF Connect, TypeOK
<1>2. ASSUME NEW c \in Conn, NEW r \in ReqRec, Authenticate(c, r)
      PROVE  TypeOK'
  BY <1>2 DEF Authenticate, Goto, TypeOK
<1>3. ASSUME NEW c \in Conn, NEW k \in EK, HandleStart(c, k)
      PROVE  TypeOK'
  <2>1. [NoReq EXCEPT !.op = "start", !.ek = k] \in ReqRec
    BY DEF NoReq, ReqRec
  <2>2. QED
    BY <1>2, <1>3, <2>1 DEF HandleStart
<1>4. ASSUME NEW c \in Conn, NEW k \in EK, NEW s \in Session, HandleFinish(c, k, s)
      PROVE  TypeOK'
  <2>1. [op |-> "finish", ek |-> k, sid |-> s] \in ReqRec
    BY DEF ReqRec
  <2>2. QED
    BY <1>2, <1>4, <2>1 DEF HandleFinish
<1>5. ASSUME NEW c \in Conn,
             OwnCluster(c) \/ OwnStored(c) \/ Lock(c) \/ EnsureCluster(c)
               \/ Reread(c) \/ Remove(c) \/ StoreError(c)
      PROVE  TypeOK'
  BY <1>5, RecordTypes
     DEF OwnCluster, OwnStored, Lock, EnsureCluster, Reread, Remove, StoreError,
         Goto, End, Ensured, TypeOK
<1>6. ASSUME NEW c \in Conn, ListPins(c) \/ ListClusterPins(c)
      PROVE  TypeOK'
  <2>1. ASSUME NEW W \in SUBSET VM, NEW src \in {"store", "cluster"}
        PROVE  [scan[c] EXCEPT !.src = src, !.todo = W] \in ScanRec
    BY DEF ScanRec, TypeOK
  <2>2. /\ {w \in VM : w # vmid(c) /\ stored[w] # NoPin} \in SUBSET VM
        /\ {w \in VM : w # vmid(c) /\ cluster[w] # NoPin} \in SUBSET VM
    OBVIOUS
  <2>3. scan' \in [Conn -> ScanRec]
    BY <1>6, <2>1, <2>2 DEF ListPins, ListClusterPins, TypeOK
  <2>4. QED
    BY <1>6, <2>3 DEF ListPins, ListClusterPins, Goto, TypeOK
<1>7. ASSUME NEW c \in Conn, NEW w \in VM, CheckPin(c, w) \/ ReadClusterPin(c, w) \/ CheckClusterPin(c, w)
      PROVE  TypeOK'
  <2>1. /\ [scan[c] EXCEPT !.suspect = w] \in ScanRec
        /\ [scan[c] EXCEPT !.todo = @ \ {w}] \in ScanRec
        /\ \A H \in SUBSET VM : [scan[c] EXCEPT !.todo = @ \ {w}, !.hits = H] \in ScanRec
        /\ scan[c].hits \in SUBSET VM /\ scan[c].hits \cup {w} \in SUBSET VM
    BY DEF ScanRec, TypeOK
  <2>2. scan' \in [Conn -> ScanRec]
    BY <1>7, <2>1 DEF CheckPin, ReadClusterPin, CheckClusterPin, TypeOK
  <2>3. QED
    BY <1>7, <2>2 DEF CheckPin, ReadClusterPin, CheckClusterPin, Goto, TypeOK
<1>8. ASSUME NEW c \in Conn, LookForGuest(c)
      PROVE  TypeOK'
  <2>1. [scan[c] EXCEPT !.todo = scan[c].todo \ {scan[c].suspect},
                        !.hits = scan[c].hits \ {scan[c].suspect}, !.suspect = NoVM] \in ScanRec
    BY DEF ScanRec, TypeOK
  <2>2. CASE End(c)
    BY <1>8, <2>2, RecordTypes DEF LookForGuest, End, TypeOK
  <2>3. CASE UNCHANGED <<pinCreateMu, conn, req>> /\ scan' \in [Conn -> ScanRec]
    BY <1>8, <2>3 DEF LookForGuest, Goto, End, TypeOK
  <2>4. QED
    BY <1>8, <2>1, <2>2, <2>3, ZenonT(40) DEF LookForGuest, TypeOK
<1>9. ASSUME NEW c \in Conn, CheckInventory(c)
      PROVE  TypeOK'
  BY <1>9, RecordTypes DEF CheckInventory, FilesDone, Unpinned, Ensured, Goto, End, TypeOK
<1>10. purgeLocked \in [Session -> SessRec]
  BY DEF purgeLocked, SessRec, TypeOK
<1>11. ASSUME NEW c \in Conn, Put(c)
       PROVE  TypeOK'
  <2>1. [st |-> "live", vm |-> vmid(c), ek |-> fp(c)] \in SessRec
    BY DEF vmid, fp, ConnRec, ReqRec, SessRec, TypeOK
  <2>2. QED
    BY <1>10, <1>11, <2>1, RecordTypes DEF Put, End, TypeOK
<1>12. ASSUME NEW c \in Conn, Take(c)
       PROVE  TypeOK'
  <2>1. [purgeLocked EXCEPT ![req[c].sid].st = "gone"] \in [Session -> SessRec]
    BY <1>10 DEF SessRec
  <2>2. QED
    BY <1>10, <1>12, <2>1, RecordTypes DEF Take, Goto, End, TypeOK
<1>13. ASSUME NEW s \in Session, Expire(s)
       PROVE  TypeOK'
  <2>1. [sess[s] EXCEPT !.st = "expired"] \in SessRec
    BY DEF SessRec, TypeOK
  <2>2. QED
    BY <1>13, <2>1 DEF Expire, TypeOK
<1>14. ASSUME NEW c \in Conn, EnsureStored(c)
       PROVE  TypeOK'
  <2>1. [scan[c] EXCEPT !.had = (stored[vmid(c)] = fp(c))] \in ScanRec
    BY ZenonT(40) DEF ScanRec, TypeOK
  <2>2. QED
    BY <1>14, <2>1, RecordTypes DEF EnsureStored, Goto, End, TypeOK
<1>15. ASSUME NEW c \in Conn, Create(c) \/ Recreate(c)
       PROVE  TypeOK'
  <2>1. fp(c) \in EK \cup {NoPin}
    BY DEF fp, ReqRec, TypeOK
  <2>2. QED
    BY <1>15, <2>1, RecordTypes DEF Create, Recreate, Ensured, Goto, End, TypeOK
<1>16. ASSUME NEW c \in Conn, Issue(c)
       PROVE  TypeOK'
  <2>1. [sid |-> req[c].sid, vm |-> sess[req[c].sid].vm, ek |-> fp(c)] \in CertRec
    BY <1>16 DEF Issue, LegBound, FinishBound, SessBound, CertRec
  <2>2. QED
    BY <1>16, <2>1, RecordTypes DEF Issue, End, TypeOK
<1>17. CASE Restart
  <2>1. sess' \in [Session -> SessRec]
    BY <1>17 DEF Restart, SessRec, Unused, TypeOK
  <2>2. QED
    BY <1>17, <2>1, RecordTypes DEF Restart, TypeOK
<1>18. CASE Outside
  BY <1>18 DEF Outside, ResetPin, WritePin, SetClusterPin, Reload, DestroyGuest,
               CreateGuest, Touches, Kind, Pin, Change, TypeOK
<1>19. CASE UNCHANGED vars
  BY <1>19 DEF vars, TypeOK
<1>20. QED
  BY <1>1, <1>3, <1>4, <1>5, <1>6, <1>7, <1>8, <1>9, <1>11, <1>12, <1>13, <1>14,
     <1>15, <1>16, <1>17, <1>18, <1>19
     DEF Next, Accept, Serve, Scan

-----------------------------------------------------------------------------
(* What a step may change. *)

\* A step of leg c leaves the other legs, the bindings and everything outside
\* the service alone; it keeps the request or ends it.
LEMMA LegFrame ==
    ASSUME TypeOK, NEW c \in Conn, Serve(c) \/ Lock(c)
    PROVE  /\ pc[c] # "idle"
           /\ UNCHANGED <<conn, cluster, cache, guest, outside, mode>>
           /\ \A d \in Conn \ {c} :
                 pc'[d] = pc[d] /\ req'[d] = req[d] /\ scan'[d] = scan[d]
           /\ \/ UNCHANGED req
              \/ pc'[c] = "idle" /\ req'[c] = NoReq
<1> USE DEF stores, local, TypeOK, Goto, End, Ensured
<1>1. CASE OwnCluster(c) \/ OwnStored(c) \/ StoreError(c) \/ Lock(c)
  BY <1>1 DEF OwnCluster, OwnStored, StoreError, Lock
<1>2. CASE \/ ListPins(c) \/ ListClusterPins(c)
           \/ \E w \in VM : CheckPin(c, w) \/ ReadClusterPin(c, w) \/ CheckClusterPin(c, w)
  BY <1>2 DEF ListPins, ListClusterPins, CheckPin, ReadClusterPin, CheckClusterPin
<1>3. CASE LookForGuest(c)
  BY <1>3 DEF LookForGuest
<1>4. CASE CheckInventory(c)
  BY <1>4 DEF CheckInventory, FilesDone, Unpinned
<1>5. CASE Put(c) \/ Take(c) \/ Issue(c)
  BY <1>5 DEF Put, Take, Issue
<1>6. CASE EnsureCluster(c) \/ EnsureStored(c)
  BY <1>6 DEF EnsureCluster, EnsureStored
<1>7. CASE Create(c) \/ Reread(c) \/ Remove(c) \/ Recreate(c)
  BY <1>7 DEF Create, Reread, Remove, Recreate
<1>8. QED
  BY <1>1, <1>2, <1>3, <1>4, <1>5, <1>6, <1>7 DEF Serve, Scan

\* Time and everybody outside leave the legs alone, and the record of outside
\* changes only grows.
Quiet == (\E s \in Session : Expire(s)) \/ Outside \/ UNCHANGED vars

\* What a quiet step leaves alone.
LEMMA QuietFrame ==
    ASSUME Quiet
    PROVE  /\ UNCHANGED <<pinCreateMu, pc, conn, req, scan, issued>>
           /\ outside \subseteq outside'
BY DEF Quiet, Expire, Outside, ResetPin, WritePin, SetClusterPin, Reload,
       DestroyGuest, CreateGuest, Touches, local, vars, stores

\* The kinds of step an invariant of the legs has to be checked for.
LEMMA NextCases ==
    ASSUME [Next]_vars
    PROVE  \/ \E c \in Conn, v \in VM : Connect(c, v)
           \/ \E c \in Conn, k \in EK : HandleStart(c, k)
           \/ \E c \in Conn, k \in EK, s \in Session : HandleFinish(c, k, s)
           \/ \E c \in Conn : Serve(c) \/ Lock(c)
           \/ Restart
           \/ Quiet
BY DEF Next, Accept, Quiet

\* The session table changes only at Put, Take, expiry and restart.
LEMMA SessWriters ==
    ASSUME [Next]_vars
    PROVE  \/ UNCHANGED sess
           \/ \E c \in Conn : Put(c) \/ Take(c)
           \/ \E s \in Session : Expire(s)
           \/ Restart
<1>1. CASE \E c \in Conn : Accept(c) \/ Lock(c)
  BY <1>1 DEF Accept, Connect, HandleStart, HandleFinish, Authenticate, Lock
<1>2. CASE \E c \in Conn : Serve(c)
  BY <1>2, ZenonT(40) DEF Serve, OwnCluster, OwnStored, Scan, ListPins, CheckPin, ListClusterPins,
              ReadClusterPin, CheckClusterPin, LookForGuest, CheckInventory, FilesDone, EnsureCluster,
              EnsureStored, Create, Reread, Remove, Recreate, Issue, StoreError
<1>3. CASE UNCHANGED vars \/ Outside
  BY <1>3 DEF vars, Outside, ResetPin, WritePin, SetClusterPin, Reload,
              DestroyGuest, CreateGuest, Touches
<1>4. QED
  BY <1>1, <1>2, <1>3 DEF Next

-----------------------------------------------------------------------------
(* What a leg under way has, and who holds the mutex. *)

\* No step leaves a leg under way without its VM, its EK or its request.
LEMMA LegBoundStep ==
    ASSUME TypeOK, LegBound, [Next]_vars
    PROVE  LegBound'
<1>1. ASSUME NEW c \in Conn, NEW v \in VM, Connect(c, v)
      PROVE  LegBound'
  BY <1>1 DEF Connect, LegBound, vmid, fp, TypeOK
<1>2. ASSUME NEW c \in Conn, NEW k \in EK, HandleStart(c, k)
      PROVE  LegBound'
  <2>1. vmid(c) \in VM
    BY <1>2 DEF HandleStart, Authenticate, vmid, ConnRec, TypeOK
  <2>2. /\ req'[c].ek = k /\ req'[c].op = "start"
        /\ \A d \in Conn \ {c} : req'[d] = req[d] /\ pc'[d] = pc[d]
    BY <1>2 DEF HandleStart, Authenticate, Goto, NoReq, TypeOK
  <2>3. QED
    BY <1>2, <2>1, <2>2 DEF HandleStart, Authenticate, LegBound, vmid, fp
<1>3. ASSUME NEW c \in Conn, NEW k \in EK, NEW s \in Session, HandleFinish(c, k, s)
      PROVE  LegBound'
  <2>1. vmid(c) \in VM
    BY <1>3 DEF HandleFinish, Authenticate, vmid, ConnRec, TypeOK
  <2>2. /\ req'[c].ek = k /\ req'[c].op = "finish"
        /\ \A d \in Conn \ {c} : req'[d] = req[d] /\ pc'[d] = pc[d]
    BY <1>3 DEF HandleFinish, Authenticate, Goto, TypeOK
  <2>3. QED
    BY <1>3, <2>1, <2>2 DEF HandleFinish, Authenticate, LegBound, vmid, fp
<1>4. ASSUME NEW c \in Conn, Serve(c) \/ Lock(c)
      PROVE  LegBound'
  BY <1>4, LegFrame DEF LegBound, vmid, fp
<1>5. CASE Restart
  BY <1>5 DEF Restart, LegBound
<1>6. CASE Quiet
  BY <1>6, QuietFrame DEF LegBound, vmid, fp
<1>7. QED
  BY <1>1, <1>2, <1>3, <1>4, <1>5, <1>6, NextCases

\* No step makes a session that was handed out unused again, or changes whom it
\* is for.
LEMMA SessKept ==
    ASSUME TypeOK, LegBound, [Next]_vars, NEW s \in Session, sess[s] # Unused
    PROVE  sess'[s] # Unused /\ sess'[s].vm = sess[s].vm /\ sess'[s].ek = sess[s].ek
<1>1. /\ purgeLocked \in [Session -> SessRec]
      /\ purgeLocked[s] # Unused
      /\ purgeLocked[s].vm = sess[s].vm /\ purgeLocked[s].ek = sess[s].ek
  BY DEF purgeLocked, Unused, SessRec, TypeOK
<1>2. ASSUME NEW c \in Conn, Put(c)
      PROVE  sess'[s] = purgeLocked[s]
  BY <1>1, <1>2 DEF Put
<1>3. ASSUME NEW c \in Conn, Take(c)
      PROVE  sess'[s] = purgeLocked[s] \/ sess'[s] = [purgeLocked[s] EXCEPT !.st = "gone"]
  BY <1>1, <1>3 DEF Take
<1>4. ASSUME NEW t \in Session, Expire(t)
      PROVE  sess'[s] = sess[s] \/ sess'[s] = [sess[s] EXCEPT !.st = "expired"]
  BY <1>4 DEF Expire, TypeOK
<1>5. CASE Restart
  BY <1>5 DEF Restart, Unused, SessRec, TypeOK
<1>6. ASSUME NEW st \in {"gone", "expired"}, NEW r \in SessRec
      PROVE  LET q == [r EXCEPT !.st = st]
             IN  q # Unused /\ q.vm = r.vm /\ q.ek = r.ek
  BY DEF SessRec, Unused
<1>7. sess[s] \in SessRec /\ purgeLocked[s] \in SessRec
  BY <1>1 DEF TypeOK
<1>8. QED
  BY <1>1, <1>2, <1>3, <1>4, <1>5, <1>6, <1>7, SessWriters

\* A session that is handed out gets the VM and the EK of its start, and keeps them.
LEMMA SessBoundStep ==
    ASSUME TypeOK, LegBound, SessBound, [Next]_vars
    PROVE  SessBound'
<1> SUFFICES ASSUME NEW s \in Session, sess'[s] # Unused
             PROVE  sess'[s].vm \in VM /\ sess'[s].ek \in EK
  BY DEF SessBound
<1>1. CASE sess[s] # Unused
  BY <1>1, SessKept DEF SessBound
<1>2. CASE sess[s] = Unused
  <2>1. purgeLocked \in [Session -> SessRec] /\ purgeLocked[s] = Unused
    BY <1>2 DEF purgeLocked, Unused, SessRec, TypeOK
  <2>2. ASSUME NEW c \in Conn, Put(c)
        PROVE  sess'[s].vm = vmid(c) /\ sess'[s].ek = fp(c) /\ pc[c] = "put"
    BY <2>1, <2>2 DEF Put
  <2>3. ASSUME NEW c \in Conn, Take(c)
        PROVE  FALSE
    BY <1>2, <2>1, <2>3 DEF Take, Unused
  <2>4. ASSUME NEW t \in Session, Expire(t)
        PROVE  FALSE
    BY <1>2, <2>4 DEF Expire, Unused, TypeOK
  <2>5. CASE Restart
    BY <1>2, <2>5 DEF Restart
  <2>6. QED
    BY <1>2, <2>2, <2>3, <2>4, <2>5, SessWriters DEF LegBound
<1>3. QED
  BY <1>1, <1>2

\* A finish goes on naming a session that was handed out.
LEMMA FinishBoundStep ==
    ASSUME TypeOK, LegBound, FinishBound, MutexInv, [Next]_vars
    PROVE  FinishBound'
<1> USE DEF AuthPC, ScanPC, TakenPC, EnsurePC
<1>0. \A s \in Session : sess[s] # Unused => sess'[s] # Unused
  BY SessKept
<1>1. ASSUME NEW c \in Conn, NEW v \in VM, Connect(c, v)
      PROVE  FinishBound'
  BY <1>0, <1>1 DEF Connect, FinishBound
<1>2. ASSUME NEW c \in Conn, NEW k \in EK, HandleStart(c, k)
      PROVE  FinishBound'
  <2>1. /\ req'[c].op = "start" /\ pc'[c] \in {"list", "ownCluster", "ownStored"}
        /\ \A d \in Conn \ {c} : req'[d] = req[d] /\ pc'[d] = pc[d]
    BY <1>2 DEF HandleStart, Authenticate, Goto, NoReq, TypeOK
  <2>2. QED
    BY <1>0, <2>1 DEF FinishBound
<1>3. ASSUME NEW c \in Conn, NEW k \in EK, NEW s \in Session, HandleFinish(c, k, s)
      PROVE  FinishBound'
  <2>1. /\ req'[c].op = "finish" /\ req'[c].sid = s /\ sess[s] # Unused
        /\ \A d \in Conn \ {c} : req'[d] = req[d] /\ pc'[d] = pc[d]
    BY <1>3 DEF HandleFinish, Authenticate, Goto, TypeOK
  <2>2. QED
    BY <1>0, <2>1 DEF FinishBound
<1>4. ASSUME NEW c \in Conn, Serve(c) \/ Lock(c), req[c].op = "start"
      PROVE  pc'[c] \in {"idle", "put"} \cup AuthPC \cup ScanPC
  <2>1. pc[c] \in {"put"} \cup AuthPC \cup ScanPC /\ pinCreateMu # c
    BY <1>4, LegFrame DEF FinishBound, MutexInv
  <2>2. CASE pc[c] \in {"put"} \cup AuthPC
    BY <1>4, <2>1, <2>2
       DEF Serve, Lock, OwnCluster, OwnStored, Scan, ListPins, CheckPin, ListClusterPins,
           ReadClusterPin, CheckClusterPin, LookForGuest, CheckInventory, FilesDone, Put, Take, EnsureCluster,
           EnsureStored, Create, Reread, Remove, Recreate, Issue, StoreError,
           Goto, End, TypeOK
  <2>3. CASE pc[c] \in ScanPC
    BY <1>4, <2>1, <2>3
       DEF Serve, Lock, OwnCluster, OwnStored, Scan, ListPins, CheckPin, ListClusterPins,
           ReadClusterPin, CheckClusterPin, LookForGuest, CheckInventory, FilesDone, Unpinned, Put, Take,
           EnsureCluster, EnsureStored, Create, Reread, Remove, Recreate, Issue,
           StoreError, Goto, End, TypeOK
  <2>4. QED
    BY <2>1, <2>2, <2>3
<1>5. ASSUME NEW c \in Conn, Serve(c) \/ Lock(c)
      PROVE  FinishBound'
  BY <1>0, <1>4, <1>5, LegFrame DEF FinishBound, LegBound, NoReq
<1>6. CASE Restart
  BY <1>6 DEF Restart, FinishBound, NoReq
<1>7. CASE Quiet
  BY <1>0, <1>7, QuietFrame DEF FinishBound
<1>8. QED
  BY <1>1, <1>2, <1>3, <1>5, <1>6, <1>7, NextCases

\* What a step of leg c does to the mutex.
LEMMA MutexLeg ==
    ASSUME TypeOK, LegBound, FinishBound, MutexInv, NEW c \in Conn, Serve(c) \/ Lock(c)
    PROVE  /\ pc'[c] \in EnsurePC => pinCreateMu' = c
           /\ pinCreateMu' = c => pc'[c] \in EnsurePC \cup ScanPC /\ UNCHANGED req
           /\ pinCreateMu' = c => req[c].op = "finish"
           /\ \A d \in Conn \ {c} : pinCreateMu' = d <=> pinCreateMu = d
<1> USE DEF AuthPC, ScanPC, TakenPC, EnsurePC
<1>1. pinCreateMu = c => req[c].op = "finish" /\ pc[c] \in EnsurePC \cup ScanPC
  BY DEF MutexInv
<1>2. CASE OwnCluster(c) \/ OwnStored(c) \/ Put(c) \/ Take(c) \/ Issue(c)
  BY <1>1, <1>2, ConstantsAssumption
     DEF OwnCluster, OwnStored, Put, Take, Issue, Goto, End, TypeOK
<1>3. CASE Scan(c)
  <2>1. CASE \E w \in VM : ReadClusterPin(c, w)
    BY <1>1, <2>1, ReadEffect
  <2>2. CASE LookForGuest(c)
    <3>1. CASE End(c)
      BY <2>2, <3>1, ConstantsAssumption DEF End, TypeOK
    <3>2. CASE ~End(c)
      BY <1>1, <2>2, <3>2, LookEffect
    <3>3. QED
      BY <3>1, <3>2
  <2>3. CASE \/ ListPins(c) \/ ListClusterPins(c) \/ CheckInventory(c)
             \/ \E w \in VM : CheckPin(c, w) \/ CheckClusterPin(c, w)
    BY <1>1, <2>3, ConstantsAssumption
       DEF ListPins, CheckPin, ListClusterPins, CheckClusterPin, CheckInventory, FilesDone,
           Unpinned, Ensured, Goto, End, local, TypeOK
  <2>4. QED
    BY <1>3, <2>1, <2>2, <2>3 DEF Scan
<1>4. CASE Lock(c)
  BY <1>4, ConstantsAssumption DEF Lock, Goto, local, FinishBound, LegBound, TypeOK
<1>5. CASE \/ EnsureCluster(c) \/ EnsureStored(c) \/ Create(c) \/ Reread(c)
           \/ Remove(c) \/ Recreate(c)
  <2>1. pinCreateMu = c
    BY <1>5 DEF EnsureCluster, EnsureStored, Create, Reread, Remove, Recreate, MutexInv
  <2>2. QED
    BY <1>1, <1>5, <2>1, ConstantsAssumption
       DEF EnsureCluster, EnsureStored, Create, Reread, Remove, Recreate, Ensured,
           Goto, End, local, TypeOK
<1>6. CASE StoreError(c)
  BY <1>1, <1>6, ConstantsAssumption DEF StoreError, End, TypeOK
<1>7. QED
  BY <1>2, <1>3, <1>4, <1>5, <1>6 DEF Serve

\* pinCreateMu is taken at Lock and given back by every way out of
\* ensurePinBeforeIssue.
LEMMA MutexStep ==
    ASSUME TypeOK, LegBound, FinishBound, MutexInv, [Next]_vars
    PROVE  MutexInv'
<1> USE DEF AuthPC, ScanPC, TakenPC, EnsurePC
<1>1. ASSUME NEW c \in Conn, NEW v \in VM, Connect(c, v)
      PROVE  MutexInv'
  BY <1>1 DEF Connect, MutexInv
<1>2. ASSUME NEW c \in Conn, NEW r \in ReqRec, Authenticate(c, r)
      PROVE  MutexInv'
  BY <1>2 DEF Authenticate, Goto, MutexInv, TypeOK
<1>3. ASSUME NEW c \in Conn, NEW k \in EK, HandleStart(c, k)
      PROVE  MutexInv'
  BY <1>3 DEF HandleStart, Authenticate, Goto, MutexInv, TypeOK
<1>4. ASSUME NEW c \in Conn, NEW k \in EK, NEW s \in Session, HandleFinish(c, k, s)
      PROVE  MutexInv'
  BY <1>4 DEF HandleFinish, Authenticate, Goto, MutexInv, TypeOK
<1>5. ASSUME NEW c \in Conn, Serve(c) \/ Lock(c)
      PROVE  MutexInv'
  BY <1>5, LegFrame, MutexLeg DEF MutexInv
<1>6. CASE Restart
  BY <1>6, ConstantsAssumption DEF Restart, MutexInv
<1>7. CASE Quiet
  BY <1>7, QuietFrame DEF MutexInv
<1>8. QED
  BY <1>1, <1>3, <1>4, <1>5, <1>6, <1>7, NextCases

-----------------------------------------------------------------------------
(* The scan under the mutex. *)

\* A guest config does not go missing without a record of it.
LEMMA GoneStep ==
    ASSUME GoneInv, TypeOK, [Next]_vars
    PROVE  GoneInv'
<1>1. ASSUME NEW c \in Conn, Serve(c) \/ Lock(c)
      PROVE  GoneInv'
  BY <1>1, LegFrame DEF GoneInv, Touched
<1>2. CASE \E c \in Conn : Accept(c)
  BY <1>2 DEF Accept, Connect, HandleStart, HandleFinish, Authenticate, stores, GoneInv, Touched
<1>3. CASE Restart \/ (\E s \in Session : Expire(s)) \/ UNCHANGED vars
  BY <1>3 DEF Restart, Expire, vars, stores, GoneInv, Touched
<1>4. CASE Outside
  <2>1. ASSUME NEW v \in VM, DestroyGuest(v)
        PROVE  GoneInv'
    <3>1. v \in Touched({"gone"})' /\ outside \subseteq outside'
      BY <2>1, OnRecord DEF DestroyGuest
    <3>2. QED
      BY <2>1, <3>1 DEF DestroyGuest, GoneInv, Touched
  <2>2. CASE ~\E v \in VM : DestroyGuest(v)
    <3>1. VM \ guest' \subseteq VM \ guest /\ outside \subseteq outside'
      BY <1>4, <2>2 DEF Outside, ResetPin, WritePin, SetClusterPin, Reload, CreateGuest, Touches
    <3>2. QED
      BY <3>1 DEF GoneInv, Touched
  <2>3. QED
    BY <2>1, <2>2
<1>5. QED
  BY <1>1, <1>2, <1>3, <1>4 DEF Next

\* The store changes only where a leg creates or removes its own file and where
\* somebody outside does; the record of outside changes only grows.
LEMMA StoreWriters ==
    ASSUME [Next]_vars
    PROVE  \/ UNCHANGED stored /\ outside \subseteq outside'
           \/ \E c \in Conn : Create(c) \/ Remove(c) \/ Recreate(c)
           \/ \E v \in VM : (\E p \in {NoPin, Empty} : ResetPin(v, p))
                            \/ \E k \in EK : WritePin(v, k)
<1>1. CASE \E c \in Conn : Accept(c) \/ Lock(c)
  BY <1>1 DEF Accept, Connect, HandleStart, HandleFinish, Authenticate, Lock, stores
<1>2. CASE \E c \in Conn : Serve(c)
  <2>1. ASSUME NEW c \in Conn, Scan(c)
        PROVE  UNCHANGED <<stored, outside>>
    BY <2>1 DEF Scan, ListPins, CheckPin, ListClusterPins, ReadClusterPin, CheckClusterPin,
                LookForGuest, CheckInventory, stores
  <2>2. QED
    BY <1>2, <2>1 DEF Serve, OwnCluster, OwnStored, Put, Take, EnsureCluster,
                EnsureStored, Reread, Issue, StoreError, stores
<1>3. CASE \/ \E s \in Session : Expire(s)
           \/ Restart
           \/ UNCHANGED vars
  BY <1>3 DEF Expire, Restart, vars, stores
<1>4. CASE Outside
  BY <1>4 DEF Outside, SetClusterPin, Reload, DestroyGuest, CreateGuest, Touches
<1>5. QED
  BY <1>1, <1>2, <1>3, <1>4 DEF Next

\* VMs once exempt from uniqueness stay so.
LEMMA ExemptGrows ==
    ASSUME outside \subseteq outside', NEW ks, NEW k
    PROVE  Touched(ks) \subseteq Touched(ks)' /\ About(ks, k) \subseteq About(ks, k)'
BY DEF Touched, About

\* A store file changed by somebody outside is empty or gone, or its new content is
\* on record.
LEMMA QuietStore ==
    ASSUME TypeOK, Quiet, NEW w \in VM
    PROVE  \/ stored'[w] = stored[w]
           \/ stored'[w] \in {NoPin, Empty}
           \/ w \in About({"gone", "hand"}, stored[w])'
<1>1. ASSUME NEW v \in VM, NEW p \in {NoPin, Empty}, ResetPin(v, p), stored'[w] # stored[w]
      PROVE  stored'[w] \in {NoPin, Empty}
  BY <1>1 DEF ResetPin, TypeOK
<1>2. ASSUME NEW v \in VM, NEW k \in EK, WritePin(v, k), stored'[w] # stored[w]
      PROVE  w \in About({"gone", "hand"}, stored[w])'
  <2>1. w = v /\ stored'[w] = k
    BY <1>2 DEF WritePin, TypeOK
  <2>2. v \in About({"gone", "hand"}, k)'
    BY <1>2, OnRecord DEF WritePin
  <2>3. QED
    BY <2>1, <2>2
<1>3. CASE UNCHANGED stored
  BY <1>3
<1>4. QED
  BY <1>1, <1>2, <1>3 DEF Quiet, Expire, Outside, SetClusterPin, Reload, DestroyGuest,
     CreateGuest, vars, stores

\* What a leg has cleared stays cleared when pins go, when the operator writes
\* one, or when nothing happens to the store.
LEMMA ClearedKept ==
    ASSUME NEW d \in Conn, NEW W \in SUBSET VM, ClearedBut(d, W),
           UNCHANGED conn, req'[d] = req[d], outside \subseteq outside',
           \A w \in VM : stored'[w] = fp(d) => stored[w] = fp(d) \/ w \in Exempt(fp(d))'
    PROVE  ClearedBut(d, W)'
BY ExemptGrows DEF ClearedBut, Exempt, vmid, fp

\* A step of another leg, or of nobody, does not disturb the holder's scan.
LEMMA OthersScan ==
    ASSUME TypeOK, ScanInv, NEW d \in Conn, pinCreateMu = d,
           UNCHANGED conn, req'[d] = req[d], scan'[d] = scan[d], pc'[d] = pc[d],
           outside \subseteq outside',
           \A w \in VM : stored'[w] = fp(d) => stored[w] = fp(d) \/ w \in Exempt(fp(d))'
    PROVE  ScanClear(d)'
BY ClearedKept DEF ScanInv, ScanClear, TypeOK, ScanRec

\* The holder's own steps.
LEMMA OwnScan ==
    ASSUME TypeOK, LegBound, MutexInv, GoneInv, ScanInv, NEW c \in Conn,
           Serve(c) \/ Lock(c), pinCreateMu' = c
    PROVE  ScanClear(c)'
<1> USE DEF ScanPC, EnsurePC, TakenPC, AuthPC
<1>0. /\ UNCHANGED <<conn, outside>>
      /\ UNCHANGED req \/ pc'[c] = "idle"
  BY LegFrame
<1>1. CASE Lock(c) \/ OwnCluster(c) \/ OwnStored(c) \/ Put(c) \/ Take(c) \/ Issue(c)
           \/ StoreError(c) \/ EnsureCluster(c) \/ EnsureStored(c)
  <2>1. pc'[c] \notin {"pins", "look1", "look2", "create", "reread", "remove", "recreate"}
    BY <1>1, ConstantsAssumption
       DEF Lock, OwnCluster, OwnStored, Put, Take, Issue, StoreError, EnsureCluster,
           EnsureStored, Goto, End, Ensured, TypeOK
  <2>2. QED
    BY <2>1 DEF ScanClear
<1>2. CASE ListPins(c)
  <2>1. /\ scan'[c].todo = {w \in VM : w # vmid(c) /\ stored[w] # NoPin}
        /\ scan'[c].src = "store" /\ pc'[c] = "pins" /\ UNCHANGED <<stored, conn, req>>
    BY <1>2 DEF ListPins, Goto, ScanRec, TypeOK, stores
  <2>2. fp(c) # NoPin
    BY <1>2, ConstantsAssumption DEF ListPins, LegBound
  <2>3. QED
    BY <2>1, <2>2 DEF ScanClear, ClearedBut, vmid, fp
<1>3. ASSUME NEW w \in VM, CheckPin(c, w)
      PROVE  ScanClear(c)'
  <2>1. /\ scan'[c].src = "store" /\ scan[c].src = "store"
        /\ scan'[c].todo = IF stored[w] = fp(c) THEN scan[c].todo ELSE scan[c].todo \ {w}
    BY <1>3, ZenonT(40) DEF CheckPin, ScanRec, TypeOK
  <2>2. /\ pc[c] = "pins" /\ pc'[c] \in {"pins", "look1"}
        /\ UNCHANGED <<stored, pinCreateMu, conn, req, outside>>
    BY <1>3 DEF CheckPin, Goto, TypeOK, stores
  <2>3. QED
    BY <2>1, <2>2 DEF ScanInv, ScanClear, ClearedBut, Exempt, About, vmid, fp
<1>4. CASE ListClusterPins(c) \/ \E w \in VM : CheckClusterPin(c, w)
  <2>1. /\ scan'[c].src = "cluster"
        /\ scan[c].src = "cluster" \/ scan[c].todo = {}
        /\ pc[c] = "pins" /\ pc'[c] \in {"pins", "look1"}
        /\ UNCHANGED <<stored, pinCreateMu, conn, req, outside>>
    BY <1>4 DEF ListClusterPins, CheckClusterPin, Goto, ScanRec, TypeOK, stores
  <2>2. QED
    BY <2>1 DEF ScanInv, ScanClear, ClearedBut, Exempt, About, vmid, fp
<1>9. ASSUME NEW w \in VM, ReadClusterPin(c, w)
      PROVE  ScanClear(c)'
  <2>1. /\ pc[c] = "pins" /\ scan[c].src = "cluster" /\ scan'[c].src = "cluster"
        /\ pc'[c] = "pins" /\ UNCHANGED <<stored, pinCreateMu, conn, req, outside>>
    BY <1>9, ReadEffect
  <2>2. QED
    BY <2>1 DEF ScanInv, ScanClear, ClearedBut, Exempt, About, vmid, fp
<1>5. CASE LookForGuest(c)
  <2>1. /\ UNCHANGED <<stored, pinCreateMu, conn, req, outside>>
        /\ ~guestExists(scan[c].suspect) /\ pc[c] \in {"look1", "look2"}
        /\ pc'[c] \in {"look2", "pins"}
    BY <1>5, LookEffect, ConstantsAssumption DEF End, TypeOK
  <2>2. scan'[c].src = scan[c].src
        /\ scan'[c].todo \in {scan[c].todo, scan[c].todo \ {scan[c].suspect}}
    BY <1>5, <2>1, LookEffect DEF End, TypeOK
  <2>3. scan[c].suspect \in VM => scan[c].suspect \in Exempt(fp(c))
    BY <2>1 DEF guestExists, GoneInv, Exempt, About, Touched
  <2>4. QED
    BY <2>1, <2>2, <2>3 DEF ScanInv, ScanClear, ClearedBut, Exempt, About, vmid, fp
<1>6. CASE CheckInventory(c)
  <2>1. /\ UNCHANGED <<stored, pinCreateMu, conn, req, outside>>
        /\ pc[c] = "pins" /\ scan[c].src = "cluster" /\ pc'[c] = "create"
    BY <1>6, ConstantsAssumption
       DEF CheckInventory, FilesDone, Unpinned, Ensured, End, Goto, TypeOK, stores
  <2>2. QED
    BY <2>1 DEF ScanInv, ScanClear, ClearedBut, Exempt, About, vmid, fp
<1>7. CASE Create(c) \/ Reread(c) \/ Remove(c) \/ Recreate(c)
  <2>1. /\ pc[c] \in {"create", "reread", "remove", "recreate"}
        /\ pc'[c] \notin {"pins", "look1", "look2"}
        /\ UNCHANGED <<pinCreateMu, conn, req, outside>>
        /\ \A w \in VM \ {vmid(c)} : stored'[w] = stored[w]
    BY <1>7, ConstantsAssumption
       DEF Create, Reread, Remove, Recreate, Ensured, End, Goto, TypeOK, stores, local
  <2>2. QED
    BY <2>1 DEF ScanInv, ScanClear, ClearedBut, Exempt, About, vmid, fp
<1>8. QED
  BY <1>1, <1>2, <1>3, <1>4, <1>5, <1>6, <1>7, <1>9 DEF Serve, Scan

\* What the holder of pinCreateMu has scanned stays clear of its EK: a store file
\* is only created by the holder itself or written by hand.
LEMMA ScanStep ==
    ASSUME TypeOK, LegBound, MutexInv, GoneInv, ScanInv, [Next]_vars
    PROVE  ScanInv'
<1> SUFFICES ASSUME NEW d \in Conn, pinCreateMu' = d
             PROVE  ScanClear(d)'
  BY DEF ScanInv
<1>1. ASSUME NEW c \in Conn, Accept(c)
      PROVE  ScanClear(d)'
  <2>1. pinCreateMu = d /\ d # c
    BY <1>1 DEF Accept, Connect, HandleStart, HandleFinish, Authenticate, MutexInv,
                EnsurePC, TakenPC, ScanPC
  <2>2. /\ UNCHANGED <<stored, outside>> /\ vmid(d)' = vmid(d) /\ fp(d)' = fp(d)
        /\ scan'[d] = scan[d] /\ pc'[d] = pc[d]
    BY <1>1, <2>1 DEF Accept, Connect, HandleStart, HandleFinish, Authenticate, Goto,
                      stores, vmid, fp, TypeOK
  <2>3. QED
    BY <2>1, <2>2 DEF ScanInv, ScanClear, ClearedBut, Exempt, About
<1>2. ASSUME NEW c \in Conn, Serve(c) \/ Lock(c), c # d
      PROVE  ScanClear(d)'
  <2>1. pinCreateMu = d
    BY <1>2, ConstantsAssumption
       DEF Serve, Scan, OwnCluster, OwnStored, ListPins, CheckPin, ListClusterPins,
           ReadClusterPin, CheckClusterPin, LookForGuest, CheckInventory, FilesDone, Unpinned, Put, Take,
           EnsureCluster, EnsureStored, Create, Reread, Remove, Recreate, Issue,
           StoreError, Lock, Ensured, End, TypeOK
  <2>2. pc[c] \notin EnsurePC
    BY <1>2, <2>1 DEF MutexInv
  <2>3. ~(Create(c) \/ Remove(c) \/ Recreate(c))
    BY <2>2 DEF Create, Remove, Recreate, EnsurePC, TakenPC
  <2>4. UNCHANGED stored
    BY <1>2, <2>3
       DEF Serve, Scan, OwnCluster, OwnStored, ListPins, CheckPin, ListClusterPins,
           ReadClusterPin, CheckClusterPin, LookForGuest, CheckInventory, FilesDone, Put, Take, EnsureCluster,
           EnsureStored, Reread, Issue, StoreError, Lock, stores
  <2>5. QED
    BY <1>2, <2>1, <2>4, LegFrame, OthersScan
<1>3. ASSUME NEW c \in Conn, Serve(c) \/ Lock(c), c = d
      PROVE  ScanClear(d)'
  BY <1>3, OwnScan
<1>4. CASE Restart
  BY <1>4, ConstantsAssumption DEF Restart
<1>5. CASE Quiet
  <2>2. UNCHANGED <<pinCreateMu, pc, conn, req, scan>> /\ outside \subseteq outside'
    BY <1>5, QuietFrame
  <2>1. \A w \in VM : stored'[w] = fp(d) =>
           stored[w] = fp(d) \/ fp(d) \in {NoPin, Empty} \/ w \in Exempt(fp(d))'
    <3>1. fp(d)' = fp(d)
      BY <2>2 DEF fp
    <3>2. QED
      BY <1>5, <3>1, QuietStore DEF Exempt
  <2>3. fp(d) \notin {NoPin, Empty}
    BY <2>2, ConstantsAssumption DEF MutexInv, LegBound, EnsurePC, TakenPC, ScanPC
  <2>4. QED
    BY <2>1, <2>2, <2>3, OthersScan
<1>6. QED
  BY <1>1, <1>2, <1>3, <1>4, <1>5 DEF Next, Quiet

-----------------------------------------------------------------------------
(* Store files are unique. *)

\* Pins that stay or go cannot make two VMs equal.
LEMMA UniqueFrame ==
    ASSUME PinsUnique, outside \subseteq outside',
           \A v \in VM : stored'[v] \in EK => stored'[v] = stored[v]
    PROVE  PinsUnique'
<1> SUFFICES ASSUME NEW v \in VM, NEW w \in VM, v # w, stored'[v] \in EK,
                    stored'[v] = stored'[w]
             PROVE  {v, w} \cap About({"gone", "hand"}, stored[v])' # {}
  BY DEF PinsUnique
<1>1. {v, w} \cap About({"gone", "hand"}, stored[v]) # {} /\ stored'[v] = stored[v]
  BY DEF PinsUnique
<1>2. QED
  BY <1>1 DEF About

\* Creating a file keeps them unique because the scan has just cleared the EK.
LEMMA UniqueCreate ==
    ASSUME TypeOK, PinsUnique, UNCHANGED outside, NEW c \in Conn,
           vmid(c) \in VM, ClearedBut(c, {}),
           stored' = [stored EXCEPT ![vmid(c)] = fp(c)]
    PROVE  PinsUnique'
<1> SUFFICES ASSUME NEW v \in VM, NEW w \in VM, v # w, stored'[v] \in EK,
                    stored'[v] = stored'[w]
             PROVE  {v, w} \cap About({"gone", "hand"}, stored'[v]) # {}
  BY DEF PinsUnique, About
<1>1. CASE v = vmid(c)
  BY <1>1 DEF ClearedBut, Exempt, TypeOK
<1>2. CASE w = vmid(c)
  BY <1>2 DEF ClearedBut, Exempt, TypeOK
<1>3. CASE v # vmid(c) /\ w # vmid(c)
  BY <1>3 DEF PinsUnique, TypeOK
<1>4. QED
  BY <1>1, <1>2, <1>3

\* No step gives a second VM the EK of a store file: the creation comes after a
\* scan that is still true.
LEMMA UniqueStep ==
    ASSUME TypeOK, LegBound, MutexInv, ScanInv, PinsUnique, [Next]_vars
    PROVE  PinsUnique'
<1>1. CASE UNCHANGED stored /\ outside \subseteq outside'
  BY <1>1, UniqueFrame
<1>2. ASSUME NEW c \in Conn, Create(c) \/ Recreate(c)
      PROVE  PinsUnique'
  <2>1. vmid(c) \in VM /\ ClearedBut(c, {}) /\ UNCHANGED outside
    BY <1>2 DEF Create, Recreate, LegBound, MutexInv, ScanInv, ScanClear, EnsurePC,
                TakenPC
  <2>2. CASE UNCHANGED stored
    BY <2>1, <2>2, UniqueFrame
  <2>3. CASE stored' = [stored EXCEPT ![vmid(c)] = fp(c)]
    BY <2>1, <2>3, UniqueCreate
  <2>4. QED
    BY <1>2, <2>2, <2>3 DEF Create, Recreate
<1>3. ASSUME NEW c \in Conn, Remove(c)
      PROVE  PinsUnique'
  BY <1>3, UniqueFrame, ConstantsAssumption DEF Remove, TypeOK
<1>4. ASSUME NEW v \in VM, NEW p \in {NoPin, Empty}, ResetPin(v, p)
      PROVE  PinsUnique'
  BY <1>4, UniqueFrame, ConstantsAssumption DEF ResetPin, Touches, TypeOK
<1>5. ASSUME NEW v \in VM, NEW k \in EK, WritePin(v, k)
      PROVE  PinsUnique'
  <2> SUFFICES ASSUME NEW x \in VM, NEW y \in VM, x # y, stored'[x] \in EK,
                      stored'[x] = stored'[y]
               PROVE  {x, y} \cap About({"gone", "hand"}, stored[x])' # {}
    BY DEF PinsUnique
  <2>1. /\ outside \subseteq outside' /\ stored'[v] = k
        /\ [kind |-> "hand", vm |-> v, old |-> stored[v], new |-> k] \in outside'
    BY <1>5 DEF WritePin, Touches, TypeOK
  <2>2. CASE x # v /\ y # v
    <3>1. {x, y} \cap About({"gone", "hand"}, stored[x]) # {} /\ stored'[x] = stored[x]
      BY <1>5, <2>2 DEF WritePin, PinsUnique, TypeOK
    <3>2. QED
      BY <2>1, <3>1 DEF About
  <2>3. v \in About({"gone", "hand"}, k)'
    BY <2>1 DEF About
  <2>4. CASE x = v \/ y = v
    <3>1. v \in About({"gone", "hand"}, stored[x])'
      BY <2>1, <2>4 DEF About
    <3>2. QED
      BY <2>4, <3>1
  <2>5. QED
    BY <2>2, <2>4
<1>6. QED
  BY <1>1, <1>2, <1>3, <1>4, <1>5, StoreWriters

-----------------------------------------------------------------------------
(* The inductive invariant and the theorems. *)

IInv == /\ TypeOK
        /\ LegBound /\ FinishBound /\ SessBound
        /\ MutexInv /\ GoneInv /\ ScanInv
        /\ PinsUnique

\* A fresh install satisfies the invariant.
LEMMA InitIInv == Init => IInv
<1> SUFFICES ASSUME Init PROVE IInv
  OBVIOUS
<1>1. TypeOK
  BY RecordTypes, ConstantsAssumption DEF Init, TypeOK, PC
<1>2. LegBound /\ FinishBound /\ SessBound
  BY DEF Init, LegBound, FinishBound, SessBound, NoReq
<1>3. MutexInv /\ ScanInv
  BY ConstantsAssumption DEF Init, MutexInv, ScanInv, EnsurePC, TakenPC
<1>4. GoneInv /\ PinsUnique
  BY ConstantsAssumption DEF Init, GoneInv, PinsUnique
<1>5. QED
  BY <1>1, <1>2, <1>3, <1>4 DEF IInv

\* The invariant is inductive.
LEMMA NextIInv == IInv /\ [Next]_vars => IInv'
<1> SUFFICES ASSUME IInv, [Next]_vars PROVE IInv'
  OBVIOUS
<1> USE DEF IInv
<1>1. TypeOK'
  BY TypeStep
<1>2. LegBound' /\ FinishBound' /\ SessBound'
  BY LegBoundStep, FinishBoundStep, SessBoundStep
<1>3. MutexInv'
  BY MutexStep
<1>4. GoneInv' /\ ScanInv' /\ PinsUnique'
  BY GoneStep, ScanStep, UniqueStep
<1>5. QED
  BY <1>1, <1>2, <1>3, <1>4

\* The invariant always holds.
LEMMA Invariance == Spec => []IInv
BY InitIInv, NextIInv, PTL DEF Spec

\* Every reachable state of the service has its types: in particular no
\* certificate names a VM or a session that does not exist, however legs,
\* restarts and outside changes interleave.
THEOREM TypeCorrect == Spec => []TypeOK
<1>1. IInv => TypeOK
  BY DEF IInv
<1>2. QED
  BY <1>1, Invariance, PTL

\* pin.go, pinCreateMu: two VMs presenting one EK never both get a store file,
\* for any number of VMs, EKs and concurrent legs, with failing stores, restarts
\* and pins, guests and inventory changing at any moment.
THEOREM PinsUniqueAlways == Spec => []PinsUnique
<1>1. IInv => PinsUnique
  BY DEF IInv
<1>2. QED
  BY <1>1, Invariance, PTL

-----------------------------------------------------------------------------
(* No first use with require_cluster_pin. *)

\* The steps that lead to a store file.
FirstUsePC == {"ensStored", "create", "reread", "remove", "recreate"}

\* With require_cluster_pin ensurePinBeforeIssue ends at the cluster pin.
NoFirstUse ==
    requireClusterPin =>
        /\ Proxmox
        /\ \A c \in Conn : /\ pc[c] \notin FirstUsePC
                           /\ pinCreateMu = c => pc[c] = "ensCluster"
        /\ RequireHonoured

\* No step of a leg that requires the cluster pin leads to a store file.
LEMMA NoFirstUseLeg ==
    ASSUME TypeOK, LegBound, FinishBound, MutexInv, NoFirstUse, requireClusterPin,
           NEW c \in Conn, Serve(c) \/ Lock(c)
    PROVE  /\ UNCHANGED <<stored, outside, mode>>
           /\ pc'[c] \notin FirstUsePC
           /\ pinCreateMu' = c => pc'[c] = "ensCluster"
<1> USE DEF AuthPC, ScanPC, TakenPC, EnsurePC, FirstUsePC, stores, local
<1>1. CASE OwnCluster(c) \/ OwnStored(c) \/ Put(c) \/ Take(c) \/ Issue(c)
  BY <1>1, ConstantsAssumption
     DEF OwnCluster, OwnStored, Put, Take, Issue, Goto, End, MutexInv, TypeOK
<1>2. CASE Scan(c)
  <2>1. pinCreateMu # c
    BY <1>2 DEF Scan, ListPins, CheckPin, ListClusterPins, ReadClusterPin, CheckClusterPin, LookForGuest,
                CheckInventory, FilesDone, NoFirstUse
  <2>2. QED
    BY <1>2, <2>1, ConstantsAssumption, ZenonT(40)
       DEF Scan, ListPins, CheckPin, ListClusterPins, ReadClusterPin, CheckClusterPin, LookForGuest,
           CheckInventory, FilesDone, Unpinned, Goto, End, TypeOK
<1>3. CASE Lock(c) \/ EnsureCluster(c) \/ StoreError(c)
  BY <1>3, ConstantsAssumption
     DEF Lock, EnsureCluster, StoreError, Ensured, Goto, End, NoFirstUse, TypeOK
<1>4. CASE \/ EnsureStored(c) \/ Create(c) \/ Reread(c) \/ Remove(c) \/ Recreate(c)
  BY <1>4 DEF EnsureStored, Create, Reread, Remove, Recreate, NoFirstUse
<1>5. QED
  BY <1>1, <1>2, <1>3, <1>4 DEF Serve

\* VMs whose store file was written by hand stay on record.
LEMMA HonouredKept ==
    ASSUME RequireHonoured, UNCHANGED mode, outside \subseteq outside',
           \A v \in VM : stored'[v] \in {stored[v], NoPin} \/ v \in Touched({"hand"})'
    PROVE  RequireHonoured'
BY DEF RequireHonoured, Touched

\* No step makes a store file while the cluster pin is required.
LEMMA NoFirstUseStep ==
    ASSUME IInv, NoFirstUse, [Next]_vars
    PROVE  NoFirstUse'
<1> SUFFICES ASSUME requireClusterPin' PROVE NoFirstUse'
  BY DEF NoFirstUse
<1> USE DEF IInv
<1>1. ASSUME NEW c \in Conn, Serve(c) \/ Lock(c)
      PROVE  UNCHANGED mode
  BY <1>1 DEF Serve, Scan, OwnCluster, OwnStored, ListPins, CheckPin, ListClusterPins,
     ReadClusterPin, CheckClusterPin, LookForGuest, CheckInventory, FilesDone, Put, Take, EnsureCluster,
     EnsureStored, Create, Reread, Remove, Recreate, Issue, StoreError, Lock
<1>2. ASSUME NEW c \in Conn, Serve(c) \/ Lock(c)
      PROVE  NoFirstUse'
  <2>1. requireClusterPin
    BY <1>1, <1>2
  <2>2. RequireHonoured'
    BY <1>2, <2>1, NoFirstUseLeg, HonouredKept DEF NoFirstUse
  <2>3. \A d \in Conn : /\ pc'[d] \notin FirstUsePC
                        /\ pinCreateMu' = d => pc'[d] = "ensCluster"
    BY <1>2, <2>1, NoFirstUseLeg, LegFrame, MutexLeg DEF NoFirstUse
  <2>4. QED
    BY <2>1, <2>2, <2>3 DEF NoFirstUse
<1>3. ASSUME NEW c \in Conn, Accept(c)
      PROVE  NoFirstUse'
  <2>1. /\ UNCHANGED <<stored, outside, mode, pinCreateMu>>
        /\ pc'[c] = pc[c] \/ pc'[c] \in {"list", "ownCluster", "ownStored"}
        /\ \A d \in Conn \ {c} : pc'[d] = pc[d]
        /\ pc[c] = "idle"
    BY <1>3 DEF Accept, Connect, HandleStart, HandleFinish, Authenticate, Goto, TypeOK,
                stores
  <2>2. pinCreateMu # c
    BY <2>1 DEF MutexInv, EnsurePC, TakenPC, ScanPC
  <2>3. RequireHonoured'
    BY <2>1, HonouredKept DEF NoFirstUse
  <2>4. QED
    BY <2>1, <2>2, <2>3 DEF NoFirstUse, FirstUsePC
<1>4. CASE Restart
  <2>1. UNCHANGED <<stored, outside, mode>>
    BY <1>4 DEF Restart, stores
  <2>2. RequireHonoured'
    BY <2>1, HonouredKept DEF NoFirstUse
  <2>3. QED
    BY <1>4, <2>1, <2>2, ConstantsAssumption DEF Restart, NoFirstUse, FirstUsePC
<1>5. CASE Quiet
  <2>1. /\ UNCHANGED mode
        /\ \A v \in VM : stored'[v] \in {stored[v], NoPin} \/ v \in Touched({"hand"})'
           \/ stored[v] # NoPin
    <3>1. UNCHANGED mode
      BY <1>5 DEF Quiet, Expire, Outside, ResetPin, WritePin, SetClusterPin, Reload,
                  DestroyGuest, CreateGuest, Touches, vars
    <3>2. ASSUME NEW v \in VM, stored[v] = NoPin, stored'[v] # stored[v]
          PROVE  v \in Touched({"hand"})'
      <4>1. ASSUME NEW u \in VM, NEW p \in {NoPin, Empty}, ResetPin(u, p)
            PROVE  FALSE
        BY <3>2, <4>1 DEF ResetPin, TypeOK
      <4>2. ASSUME NEW u \in VM, NEW k \in EK, WritePin(u, k)
            PROVE  v \in Touched({"hand"})'
        <5>1. u = v
          BY <3>2, <4>2 DEF WritePin, TypeOK
        <5>2. QED
          BY <4>2, <5>1, OnRecord DEF WritePin
      <4>3. QED
        BY <1>5, <3>2, <4>1, <4>2 DEF Quiet, Expire, Outside, SetClusterPin, Reload,
           DestroyGuest, CreateGuest, vars, stores
    <3>3. QED
      BY <3>1, <3>2
  <2>2. UNCHANGED <<pinCreateMu, pc>> /\ outside \subseteq outside'
    BY <1>5, QuietFrame
  <2>3. RequireHonoured'
    BY <2>1, <2>2 DEF NoFirstUse, RequireHonoured, Touched
  <2>4. QED
    BY <2>1, <2>2, <2>3 DEF NoFirstUse
<1>6. QED
  BY <1>2, <1>3, <1>4, <1>5 DEF Next, Quiet

\* pin.go with mds.require_cluster_pin: no VM is ever pinned by first use, not
\* even when root takes the cluster pin away while a leg is past its own check.
THEOREM RequireAlways == Spec => []RequireHonoured
<1>1. Init => NoFirstUse
  BY ConstantsAssumption
     DEF Init, NoFirstUse, FirstUsePC, RequireHonoured
<1>2. IInv /\ NoFirstUse /\ [Next]_vars => NoFirstUse'
  BY NoFirstUseStep
<1>3. IInv /\ NoFirstUse => RequireHonoured
  BY DEF NoFirstUse, RequireHonoured
<1>4. QED
  BY <1>1, <1>2, <1>3, Invariance, PTL DEF Spec

-----------------------------------------------------------------------------
(***************************************************************************)
(* Who takes a pin away.                                                   *)
(***************************************************************************)
\* A leg about to remove its file found no pin in it; if there is one by now it was
\* written by hand.
RemoveInv ==
    \A c \in Conn : pc[c] = "remove" =>
        \/ stored[vmid(c)] \in {NoPin, Empty}
        \/ vmid(c) \in About({"hand"}, stored[vmid(c)])

\* Nobody but the holder of the mutex and the operator gives a VM a pin.
LEMMA RemoveStep ==
    ASSUME IInv, RemoveInv, [Next]_vars
    PROVE  RemoveInv'
<1> USE DEF IInv
<1> SUFFICES ASSUME NEW c \in Conn, pc'[c] = "remove"
             PROVE  stored'[vmid(c)'] \in {NoPin, Empty}
                    \/ vmid(c)' \in About({"hand"}, stored[vmid(c)])'
  BY DEF RemoveInv
<1>1. CASE Reread(c)
  BY <1>1 DEF Reread, stores, local, vmid, Goto, Ensured, End, TypeOK
<1>2. CASE pc[c] # "remove" /\ ~Reread(c)
  <2>1. ASSUME NEW d \in Conn, Serve(d) \/ Lock(d)
        PROVE  FALSE
    <3>1. d = c
      BY <1>2, <2>1, LegFrame
    <3>2. QED
      BY <1>2, <2>1, <3>1
         DEF Serve, Scan, OwnCluster, OwnStored, ListPins, CheckPin, ListClusterPins,
             ReadClusterPin, CheckClusterPin, LookForGuest, CheckInventory, FilesDone, Unpinned, Put, Take,
             EnsureCluster, EnsureStored, Create, Remove, Recreate, Issue,
             StoreError, Lock, Ensured, Goto, End, TypeOK
  <2>2. ASSUME NEW d \in Conn, Accept(d)
        PROVE  FALSE
    BY <1>2, <2>2 DEF Accept, Connect, HandleStart, HandleFinish, Authenticate, Goto, TypeOK
  <2>3. QED
    BY <1>2, <2>1, <2>2, QuietFrame DEF Next, Quiet, Restart
<1>3. CASE pc[c] = "remove" /\ ~Reread(c)
  <2>0. pinCreateMu = c /\ vmid(c) \in VM
    BY <1>3 DEF MutexInv, EnsurePC, TakenPC, LegBound
  <2>1. vmid(c)' = vmid(c)
    <3>1. ASSUME NEW d \in Conn, Accept(d)
          PROVE  vmid(c)' = vmid(c)
      BY <1>3, <3>1 DEF Accept, Connect, HandleStart, HandleFinish, Authenticate, vmid,
                        TypeOK
    <3>2. CASE ~\E d \in Conn : Accept(d)
      <4>1. ~Restart
        BY DEF Restart
      <4>2. UNCHANGED conn
        BY <3>2, <4>1, LegFrame, QuietFrame DEF Next, Quiet
      <4>3. QED
        BY <4>2 DEF vmid
    <3>3. QED
      BY <3>1, <3>2
  <2>2. CASE UNCHANGED stored /\ outside \subseteq outside'
    BY <1>3, <2>1, <2>2 DEF RemoveInv, About
  <2>3. ASSUME NEW d \in Conn, Create(d) \/ Remove(d) \/ Recreate(d)
        PROVE  stored'[vmid(c)'] \in {NoPin, Empty}
    <3>1. d = c
      BY <2>0, <2>3 DEF Create, Remove, Recreate, MutexInv, EnsurePC, TakenPC
    <3>2. Remove(c)
      BY <1>3, <2>3, <3>1 DEF Create, Recreate
    <3>3. QED
      BY <2>0, <2>1, <3>2 DEF Remove, TypeOK
  <2>4. ASSUME NEW v \in VM, NEW p \in {NoPin, Empty}, ResetPin(v, p)
        PROVE  stored'[vmid(c)'] \in {NoPin, Empty}
               \/ vmid(c)' \in About({"hand"}, stored[vmid(c)])'
    <3>1. CASE v = vmid(c)
      BY <2>0, <2>1, <2>4, <3>1 DEF ResetPin, TypeOK
    <3>2. CASE v # vmid(c)
      <4>1. stored'[vmid(c)'] = stored[vmid(c)] /\ outside \subseteq outside'
        BY <2>0, <2>1, <2>4, <3>2 DEF ResetPin, Touches, TypeOK
      <4>2. QED
        BY <1>3, <2>1, <4>1 DEF RemoveInv, About
    <3>3. QED
      BY <3>1, <3>2
  <2>5. ASSUME NEW v \in VM, NEW k \in EK, WritePin(v, k)
        PROVE  stored'[vmid(c)'] \in {NoPin, Empty}
               \/ vmid(c)' \in About({"hand"}, stored[vmid(c)])'
    <3>1. CASE v = vmid(c)
      <4>1. stored'[vmid(c)'] = k
        BY <2>0, <2>1, <2>5, <3>1 DEF WritePin, TypeOK
      <4>2. v \in About({"hand"}, k)'
        BY <2>5, OnRecord DEF WritePin
      <4>3. QED
        BY <2>1, <3>1, <4>1, <4>2 DEF About
    <3>2. CASE v # vmid(c)
      <4>1. stored'[vmid(c)'] = stored[vmid(c)] /\ outside \subseteq outside'
        BY <2>0, <2>1, <2>5, <3>2 DEF WritePin, Touches, TypeOK
      <4>2. QED
        BY <1>3, <2>1, <4>1 DEF RemoveInv, About
    <3>3. QED
      BY <3>1, <3>2
  <2>6. QED
    BY <2>2, <2>3, <2>4, <2>5, StoreWriters
<1>4. QED
  BY <1>1, <1>2, <1>3

\* A pin goes or changes only by the operator's hand, or when the operator put it
\* where a leg had found an empty file that it now removes.
LEMMA NotReplaced ==
    ASSUME IInv, RemoveInv, [Next]_vars, NEW v \in VM, NEW k \in EK,
           stored[v] = k, stored'[v] # k
    PROVE  v \in About({"reset", "hand"}, k)'
<1> USE DEF IInv
<1>1. ASSUME NEW c \in Conn, Create(c) \/ Recreate(c)
      PROVE  FALSE
  BY <1>1, ConstantsAssumption DEF Create, Recreate, TypeOK
<1>2. ASSUME NEW c \in Conn, Remove(c)
      PROVE  v \in About({"reset", "hand"}, k)'
  <2>1. vmid(c) = v /\ UNCHANGED outside
    BY <1>2 DEF Remove, TypeOK
  <2>2. v \in About({"hand"}, k)
    BY <1>2, <2>1, ConstantsAssumption DEF Remove, RemoveInv
  <2>3. QED
    BY <2>1, <2>2 DEF About
<1>3. ASSUME NEW w \in VM, NEW p \in {NoPin, Empty}, ResetPin(w, p)
      PROVE  v \in About({"reset", "hand"}, k)'
  <2>1. w = v /\ [kind |-> "reset", vm |-> v, old |-> k, new |-> p] \in outside'
    BY <1>3 DEF ResetPin, Touches, TypeOK
  <2>2. QED
    BY <2>1 DEF About
<1>4. ASSUME NEW w \in VM, NEW p \in EK, WritePin(w, p)
      PROVE  v \in About({"reset", "hand"}, k)'
  <2>1. w = v /\ [kind |-> "hand", vm |-> v, old |-> k, new |-> p] \in outside'
    BY <1>4 DEF WritePin, Touches, TypeOK
  <2>2. QED
    BY <2>1 DEF About
<1>5. QED
  BY <1>1, <1>2, <1>3, <1>4, StoreWriters

-----------------------------------------------------------------------------
(***************************************************************************)
(* Enrollment implements EnrollService, for every set of VMs, EKs,         *)
(* connections and sessions and whatever happens outside the service.      *)
(***************************************************************************)
\* A leg that has redeemed its session is the only one with it, presents its EK,
\* and no certificate for it is out yet.
HoldInv ==
    \A c \in Conn : c \in Holders =>
        /\ sess[req[c].sid].st = "gone" /\ sess[req[c].sid].ek = fp(c)
        /\ \A d \in Conn : d \in Holders /\ req[d].sid = req[c].sid => c = d
        /\ \A i \in issued : i.sid # req[c].sid

\* The session of a certificate has left the table and was for its VM and EK.
CertInv ==
    \A i \in issued :
        sess[i.sid].st = "gone" /\ sess[i.sid].vm = i.vm /\ sess[i.sid].ek = i.ek

\* A session that was handed out has left the state it was drawn from.
DrawnInv == \A s \in Session : sess[s].st = "unused" => sess[s] = Unused

RInv == IInv /\ HoldInv /\ CertInv /\ DrawnInv

-----------------------------------------------------------------------------
(* What a step does to sessions and to the legs that hold them. *)

\* Only a finish holds a session.
LEMMA HolderFinishes ==
    ASSUME LegBound, FinishBound, MutexInv, NEW c \in Conn, c \in Holders
    PROVE  pc[c] # "idle" /\ req[c].op = "finish" /\ req[c].sid \in Session
BY DEF LegBound, FinishBound, MutexInv, Holders, TakenPC, EnsurePC, ScanPC, AuthPC

\* The steps of a leg, seen from its session: it goes on as it is, answers, opens
\* a session, redeems one, or issues the certificate.
LEMMA LegKinds ==
    ASSUME TypeOK, LegBound, FinishBound, MutexInv, NEW c \in Conn, Serve(c) \/ Lock(c)
    PROVE  /\ \A d \in Conn \ {c} :
                 (d \in Holders' <=> d \in Holders) /\ req'[d] = req[d] /\ fp(d)' = fp(d)
           /\ \/ UNCHANGED <<sess, issued, req>> /\ (c \in Holders' <=> c \in Holders)
              \/ UNCHANGED <<sess, issued>> /\ c \notin Holders'
              \/ Put(c) \/ Take(c) \/ Issue(c)
<1> USE DEF ScanPC, EnsurePC, TakenPC, AuthPC, Holders
<1>1. \A d \in Conn \ {c} :
         (d \in Holders' <=> d \in Holders) /\ req'[d] = req[d] /\ fp(d)' = fp(d)
  BY LegFrame, MutexLeg DEF fp
<1>2. pc'[c] = "idle" => c \notin Holders'
  BY MutexLeg
<1>3. CASE OwnCluster(c) \/ OwnStored(c) \/ StoreError(c) \/ Lock(c)
  BY <1>1, <1>2, <1>3, ConstantsAssumption
     DEF OwnCluster, OwnStored, StoreError, Lock, Goto, End, TypeOK, MutexInv, local
<1>4. CASE Scan(c)
  <2>1. CASE \E w \in VM : ReadClusterPin(c, w)
    BY <1>1, <2>1, ReadEffect
  <2>2. CASE LookForGuest(c)
    BY <1>1, <1>2, <2>2, LookEffect, ZenonT(40) DEF End, TypeOK
  <2>3. CASE \/ ListPins(c) \/ ListClusterPins(c) \/ CheckInventory(c)
             \/ \E w \in VM : CheckPin(c, w) \/ CheckClusterPin(c, w)
    BY <1>1, <1>2, <2>3, ConstantsAssumption
       DEF ListPins, CheckPin, ListClusterPins, CheckClusterPin, CheckInventory, FilesDone,
           Unpinned, Ensured, Goto, End, TypeOK, local
  <2>4. QED
    BY <1>4, <2>1, <2>2, <2>3 DEF Scan
<1>5. CASE \/ EnsureCluster(c) \/ EnsureStored(c) \/ Create(c) \/ Reread(c)
           \/ Remove(c) \/ Recreate(c)
  <2>1. pinCreateMu = c
    BY <1>5 DEF EnsureCluster, EnsureStored, Create, Reread, Remove, Recreate, MutexInv
  <2>2. QED
    BY <1>1, <1>2, <1>5, <2>1, ConstantsAssumption
       DEF EnsureCluster, EnsureStored, Create, Reread, Remove, Recreate, Ensured,
           Goto, End, TypeOK, local
<1>6. QED
  BY <1>1, <1>3, <1>4, <1>5 DEF Serve

\* A purge only takes sessions out that are already as good as gone.
LEMMA Purged ==
    ASSUME TypeOK
    PROVE  /\ purgeLocked \in [Session -> SessRec]
           /\ \A s \in Session :
                 /\ purgeLocked[s].vm = sess[s].vm /\ purgeLocked[s].ek = sess[s].ek
                 /\ purgeLocked[s].st \in {"unused", "live", "gone"}
                 /\ \/ purgeLocked[s].st = sess[s].st
                    \/ sess[s].st = "expired" /\ purgeLocked[s].st = "gone"
<1>1. ASSUME NEW s \in Session
      PROVE  /\ purgeLocked[s] \in SessRec
             /\ purgeLocked[s].vm = sess[s].vm /\ purgeLocked[s].ek = sess[s].ek
             /\ purgeLocked[s].st \in {"unused", "live", "gone"}
             /\ \/ purgeLocked[s].st = sess[s].st
                \/ sess[s].st = "expired" /\ purgeLocked[s].st = "gone"
  BY DEF purgeLocked, SessRec, TypeOK
<1>2. QED
  BY <1>1 DEF purgeLocked

\* A session that has left the table stays out of it and stays what it was.
LEMMA GoneStays ==
    ASSUME TypeOK, LegBound, [Next]_vars, NEW s \in Session, sess[s].st = "gone"
    PROVE  sess'[s] = sess[s]
<1>1. purgeLocked[s] = sess[s]
  BY DEF purgeLocked, TypeOK
<1>2. [sess[s] EXCEPT !.st = "gone"] = sess[s] /\ sess[s] # Unused
  BY DEF SessRec, Unused, TypeOK
<1>3. ASSUME NEW c \in Conn, Put(c)
      PROVE  sess'[s] = sess[s]
  BY <1>1, <1>2, <1>3, Purged DEF Put
<1>4. ASSUME NEW c \in Conn, Take(c)
      PROVE  sess'[s] = sess[s]
  BY <1>1, <1>2, <1>4, Purged DEF Take
<1>5. ASSUME NEW t \in Session, Expire(t)
      PROVE  sess'[s] = sess[s]
  BY <1>5 DEF Expire, TypeOK
<1>6. CASE Restart
  BY <1>2, <1>6 DEF Restart
<1>7. QED
  BY <1>3, <1>4, <1>5, <1>6, SessWriters

\* Nobody who is not being served holds a session, and accepting a request gives
\* nobody one.
LEMMA AcceptFrame ==
    ASSUME TypeOK, MutexInv, NEW c \in Conn, Accept(c)
    PROVE  /\ UNCHANGED <<sess, issued>>
           /\ c \notin Holders /\ c \notin Holders'
           /\ \A d \in Conn \ {c} :
                 (d \in Holders' <=> d \in Holders) /\ req'[d] = req[d] /\ fp(d)' = fp(d)
<1> USE DEF ScanPC, EnsurePC, TakenPC, AuthPC, Holders, fp
<1>1. pc[c] = "idle" /\ pinCreateMu # c
  BY DEF Accept, Connect, HandleStart, HandleFinish, Authenticate, MutexInv
<1>2. CASE \E v \in VM : Connect(c, v)
  BY <1>1, <1>2 DEF Connect
<1>3. ASSUME NEW r, Authenticate(c, r)
      PROVE  /\ UNCHANGED <<sess, issued, pinCreateMu>>
             /\ pc'[c] \notin TakenPC
             /\ \A d \in Conn \ {c} : pc'[d] = pc[d] /\ req'[d] = req[d]
  BY <1>3 DEF Authenticate, Goto, TypeOK
<1>4. QED
  BY <1>1, <1>2, <1>3 DEF Accept, HandleStart, HandleFinish

\* The certificates change only where the CA signs one.
LEMMA IssuedWriters ==
    ASSUME [Next]_vars
    PROVE  UNCHANGED issued \/ \E c \in Conn : Issue(c)
<1>1. CASE \E c \in Conn : Accept(c) \/ Lock(c)
  BY <1>1 DEF Accept, Connect, HandleStart, HandleFinish, Authenticate, Lock
<1>2. CASE \E c \in Conn : Serve(c)
  BY <1>2, ZenonT(40) DEF Serve, OwnCluster, OwnStored, Scan, ListPins, CheckPin, ListClusterPins,
              ReadClusterPin, CheckClusterPin, LookForGuest, CheckInventory, FilesDone, Put, Take, EnsureCluster,
              EnsureStored, Create, Reread, Remove, Recreate, StoreError
<1>3. CASE Restart \/ (\E s \in Session : Expire(s)) \/ UNCHANGED vars \/ Outside
  BY <1>3 DEF Restart, Expire, vars, Outside, ResetPin, WritePin, SetClusterPin, Reload,
              DestroyGuest, CreateGuest, Touches
<1>4. QED
  BY <1>1, <1>2, <1>3 DEF Next

-----------------------------------------------------------------------------
(* The strengthened invariant. *)

\* The session of a certificate stays gone, and a new certificate is for the
\* session its leg holds.
LEMMA CertStep ==
    ASSUME TypeOK, LegBound, FinishBound, MutexInv, HoldInv, CertInv, [Next]_vars
    PROVE  CertInv'
<1> SUFFICES ASSUME NEW i \in issued'
             PROVE  sess'[i.sid].st = "gone" /\ sess'[i.sid].vm = i.vm
                    /\ sess'[i.sid].ek = i.ek
  BY DEF CertInv
<1>1. CASE i \in issued
  <2>1. i.sid \in Session
    BY <1>1 DEF TypeOK, CertRec
  <2>2. QED
    BY <1>1, <2>1, GoneStays DEF CertInv
<1>2. CASE i \notin issued
  <2>1. PICK c \in Conn : Issue(c)
    BY <1>2, IssuedWriters
  <2>2. c \in Holders /\ UNCHANGED sess
    BY <2>1 DEF Issue, Holders, TakenPC
  <2>3. i = [sid |-> req[c].sid, vm |-> sess[req[c].sid].vm, ek |-> fp(c)]
    BY <1>2, <2>1 DEF Issue
  <2>4. QED
    BY <2>2, <2>3 DEF HoldInv
<1>3. QED
  BY <1>1, <1>2

\* Legs that held different sessions go on doing so; one that redeems a session
\* finds it in the table, where neither a holder nor a certificate has left it.
LEMMA HoldStep ==
    ASSUME TypeOK, LegBound, FinishBound, MutexInv, HoldInv, CertInv, [Next]_vars
    PROVE  HoldInv'
<1>0. \A d \in Conn : d \in Holders =>
         req[d].sid \in Session /\ sess'[req[d].sid] = sess[req[d].sid]
  BY HolderFinishes, GoneStays DEF HoldInv
\* A step that redeems nothing and signs nothing.
<1>1. ASSUME UNCHANGED issued,
             \A d \in Conn : d \in Holders' =>
                d \in Holders /\ req'[d] = req[d] /\ fp(d)' = fp(d)
      PROVE  HoldInv'
  BY <1>0, <1>1 DEF HoldInv
<1>2. ASSUME NEW c \in Conn, Accept(c)
      PROVE  HoldInv'
  BY <1>1, <1>2, AcceptFrame
<1>3. CASE Quiet
  BY <1>1, <1>3, QuietFrame DEF Holders, fp
<1>4. CASE Restart
  BY <1>1, <1>4, ConstantsAssumption DEF Restart, Holders, TakenPC
<1>5. ASSUME NEW c \in Conn, Issue(c)
      PROVE  HoldInv'
  <2>1. /\ c \in Holders /\ c \notin Holders'
        /\ issued' = issued \cup {[sid |-> req[c].sid, vm |-> sess[req[c].sid].vm,
                                   ek |-> fp(c)]}
    BY <1>5, ConstantsAssumption DEF Issue, End, Holders, TakenPC, TypeOK
  <2>2. \A d \in Conn \ {c} :
           (d \in Holders' <=> d \in Holders) /\ req'[d] = req[d] /\ fp(d)' = fp(d)
    BY <1>5, LegKinds DEF Serve
  <2>3. QED
    BY <1>0, <2>1, <2>2 DEF HoldInv
<1>6. ASSUME NEW c \in Conn, Take(c), c \in Holders'
      PROVE  HoldInv'
  <2>1. /\ Matches(c) /\ UNCHANGED <<issued, req>> /\ pc[c] = "take"
        /\ sess' = [purgeLocked EXCEPT ![req[c].sid].st = "gone"]
    BY <1>6, ConstantsAssumption DEF Take, Matches, End, Holders, TakenPC, TypeOK, local
  <2>2. req[c].sid \in Session
    BY <2>1 DEF FinishBound, AuthPC, ScanPC
  <2>3. sess'[req[c].sid].st = "gone" /\ sess'[req[c].sid].ek = fp(c)
    BY <2>1, <2>2, Purged DEF SessRec, Matches
  <2>4. \A d \in Conn : d \in Holders => req[d].sid # req[c].sid
    BY <2>1 DEF HoldInv, Matches
  <2>5. \A i \in issued : i.sid # req[c].sid
    BY <2>1 DEF CertInv, Matches
  <2>6. \A d \in Conn \ {c} :
           (d \in Holders' <=> d \in Holders) /\ req'[d] = req[d] /\ fp(d)' = fp(d)
    BY <1>6, LegKinds DEF Serve
  <2>7. QED
    BY <1>0, <2>1, <2>3, <2>4, <2>5, <2>6 DEF HoldInv, fp
<1>7. ASSUME NEW c \in Conn, Put(c) \/ Take(c), c \notin Holders'
      PROVE  HoldInv'
  BY <1>1, <1>7, LegKinds DEF Put, Take, Serve
<1>8. ASSUME NEW c \in Conn, Put(c)
      PROVE  c \notin Holders'
  BY <1>8, ConstantsAssumption DEF Put, End, Holders, TakenPC, TypeOK
<1>9. ASSUME NEW c \in Conn, Serve(c) \/ Lock(c)
      PROVE  HoldInv'
  BY <1>1, <1>5, <1>6, <1>7, <1>8, <1>9, LegKinds DEF fp
<1>10. QED
  BY <1>2, <1>3, <1>4, <1>9 DEF Next, Quiet

\* No session goes back to being unused.
LEMMA DrawnStep ==
    ASSUME TypeOK, DrawnInv, [Next]_vars
    PROVE  DrawnInv'
<1> SUFFICES ASSUME NEW s \in Session, sess'[s].st = "unused"
             PROVE  sess'[s] = Unused
  BY DEF DrawnInv
<1>1. sess[s] \in SessRec
  BY DEF TypeOK
<1>2. purgeLocked[s].st = "unused" => purgeLocked[s] = Unused
  BY <1>1 DEF purgeLocked, SessRec, DrawnInv
<1>3. ASSUME NEW c \in Conn, Put(c)
      PROVE  sess'[s] = purgeLocked[s] \/ sess'[s].st = "live"
  BY <1>3, Purged DEF Put
<1>4. ASSUME NEW c \in Conn, Take(c)
      PROVE  sess'[s] = purgeLocked[s] \/ sess'[s].st = "gone"
  BY <1>4, Purged DEF Take, SessRec
<1>5. ASSUME NEW t \in Session, Expire(t)
      PROVE  sess'[s] = sess[s] \/ sess'[s].st = "expired"
  BY <1>1, <1>5 DEF Expire, TypeOK, SessRec
<1>6. CASE Restart
  BY <1>1, <1>6 DEF Restart, SessRec
<1>7. QED
  BY <1>2, <1>3, <1>4, <1>5, <1>6, SessWriters DEF DrawnInv

\* The strengthened invariant always holds.
LEMMA RInvariance == Spec => []RInv
<1>1. Init => RInv
  <2> SUFFICES ASSUME Init PROVE RInv
    OBVIOUS
  <2>1. HoldInv /\ CertInv /\ DrawnInv
    BY ConstantsAssumption DEF Init, HoldInv, CertInv, DrawnInv, Holders, TakenPC
  <2>2. QED
    BY <2>1, InitIInv DEF RInv
<1>2. RInv /\ [Next]_vars => RInv'
  <2> SUFFICES ASSUME RInv, [Next]_vars PROVE RInv'
    OBVIOUS
  <2>1. IInv'
    BY NextIInv DEF RInv
  <2>2. HoldInv' /\ CertInv' /\ DrawnInv'
    BY HoldStep, CertStep, DrawnStep DEF RInv, IInv
  <2>3. QED
    BY <2>1, <2>2 DEF RInv
<1>3. QED
  BY <1>1, <1>2, PTL DEF Spec

\* session.go, Take: a session serves one finish.  However many legs present its
\* ID at once, at most one gets past Take, and never after a certificate for it.
THEOREM OneFinish == Spec => []OneFinishPerSession
<1>1. RInv => OneFinishPerSession
  BY DEF RInv, HoldInv, Holders, OneFinishPerSession
<1>2. QED
  BY <1>1, RInvariance, PTL

-----------------------------------------------------------------------------
(* Every certificate is backed by the pin of record. *)

\* VMs whose pins somebody outside the service changed.
PinTouched == Touched({"reset", "hand", "pinned", "repinned"})

\* What leg c relies on, while nobody outside changes the pins of its VM: the
\* record its connection was bound to is still the one in the cache and decides
\* which EK it may present; under the mutex, past the cluster pin, there is no
\* pin but the store file; and where the CA is next, the pin is on record.
Backed(c) ==
    /\ vmid(c) \in VM \ PinTouched => conn[c].pin = cache[vmid(c)]
    /\ conn[c].pin \in EK =>
          /\ pc[c] # "idle" => fp(c) = conn[c].pin
          /\ pc[c] # "lock" /\ pinCreateMu # c
    /\ pinCreateMu = c /\ pc[c] # "ensCluster" /\ vmid(c) \notin PinTouched =>
          /\ cluster[vmid(c)] = NoPin /\ ~requireClusterPin
          /\ pc[c] \in ScanPC /\ scan[c].had => stored[vmid(c)] = fp(c)
    /\ pc[c] = "issue" /\ vmid(c) \notin PinTouched => OfRecord(vmid(c)) = fp(c)
    /\ c \in Holders => sess[req[c].sid].vm = vmid(c)

\* Cluster pins belong to the Proxmox backend.
ClusterInv ==
    /\ ~Proxmox => \A v \in VM : cluster[v] = NoPin
    /\ requireClusterPin => Proxmox

BackedInv == ClusterInv /\ \A c \in Conn : Backed(c)

BInv == RInv /\ RemoveInv /\ BackedInv /\ CertsBacked

\* The configuration of the service does not change, and without Proxmox neither
\* do the cluster pins.
LEMMA ClusterStep ==
    ASSUME TypeOK, ClusterInv, [Next]_vars
    PROVE  ClusterInv' /\ UNCHANGED mode /\ outside \subseteq outside'
<1>1. CASE \E c \in Conn : Serve(c) \/ Lock(c)
  <2>1. UNCHANGED <<cluster, outside, mode>>
    BY <1>1, LegFrame
  <2>2. QED
    BY <2>1 DEF ClusterInv
<1>2. CASE \E c \in Conn : Accept(c)
  <2>1. UNCHANGED <<cluster, outside, mode>>
    BY <1>2 DEF Accept, Connect, HandleStart, HandleFinish, Authenticate, stores
  <2>2. QED
    BY <2>1 DEF ClusterInv
<1>3. CASE Restart \/ (\E s \in Session : Expire(s)) \/ UNCHANGED vars
  BY <1>3 DEF Restart, Expire, vars, stores, ClusterInv
<1>4. CASE Outside
  BY <1>4 DEF Outside, ResetPin, WritePin, SetClusterPin, Reload, DestroyGuest,
              CreateGuest, Touches, ClusterInv
<1>5. QED
  BY <1>1, <1>2, <1>3, <1>4 DEF Next

\* The inventory and cluster pins of a VM change only on record.
LEMMA PinsKept ==
    ASSUME TypeOK, [Next]_vars, NEW v \in VM,
           cache'[v] # cache[v] \/ cluster'[v] # cluster[v]
    PROVE  \E x \in outside' :
              /\ x.vm = v /\ x.kind \in {"pinned", "repinned"}
              /\ \/ x.old = cache[v] /\ x.new = cache'[v] /\ cluster'[v] = cluster[v]
                 \/ x.old = cluster[v] /\ x.new = cluster'[v] /\ cache'[v] = cache[v]
<1>1. CASE \E c \in Conn : Serve(c) \/ Lock(c)
  BY <1>1, LegFrame
<1>2. CASE \E c \in Conn : Accept(c)
  BY <1>2 DEF Accept, Connect, HandleStart, HandleFinish, Authenticate, stores
<1>3. CASE Restart \/ (\E s \in Session : Expire(s)) \/ UNCHANGED vars
  BY <1>3 DEF Restart, Expire, vars, stores
<1>4. ASSUME NEW w \in VM, NEW p, Reload(w, p)
      PROVE  \E k \in {"pinned", "repinned"} :
                /\ [kind |-> k, vm |-> v, old |-> cache[v], new |-> cache'[v]] \in outside'
                /\ cluster'[v] = cluster[v]
  BY <1>4 DEF Reload, Touches, TypeOK
<1>5. ASSUME NEW w \in VM, NEW p, SetClusterPin(w, p)
      PROVE  \E k \in {"pinned", "repinned"} :
                /\ [kind |-> k, vm |-> v, old |-> cluster[v], new |-> cluster'[v]] \in outside'
                /\ cache'[v] = cache[v]
  BY <1>5 DEF SetClusterPin, Touches, TypeOK
<1>6. CASE \E w \in VM : \E p : Reload(w, p)
  <2>1. PICK k \in {"pinned", "repinned"} :
           /\ [kind |-> k, vm |-> v, old |-> cache[v], new |-> cache'[v]] \in outside'
           /\ cluster'[v] = cluster[v]
    BY <1>4, <1>6
  <2>2. QED
    BY <2>1
<1>7. CASE \E w \in VM : \E p : SetClusterPin(w, p)
  <2>1. PICK k \in {"pinned", "repinned"} :
           /\ [kind |-> k, vm |-> v, old |-> cluster[v], new |-> cluster'[v]] \in outside'
           /\ cache'[v] = cache[v]
    BY <1>5, <1>7
  <2>2. QED
    BY <2>1
<1>8. CASE Outside
  BY <1>6, <1>7, <1>8 DEF Outside, ResetPin, WritePin, DestroyGuest, CreateGuest
<1>9. QED
  BY <1>1, <1>2, <1>3, <1>8 DEF Next

\* While nobody outside touches the pins of a VM, those it has stay.
LEMMA RecordKept ==
    ASSUME IInv, RemoveInv, ClusterInv, [Next]_vars, NEW v \in VM,
           v \notin PinTouched'
    PROVE  /\ v \notin PinTouched
           /\ cache'[v] = cache[v] /\ cluster'[v] = cluster[v]
           /\ stored[v] \in EK => stored'[v] = stored[v]
           /\ OfRecord(v) \in EK => OfRecord(v)' = OfRecord(v)
<1>1. outside \subseteq outside' /\ UNCHANGED mode
  BY ClusterStep DEF IInv
<1>2. v \notin PinTouched
  BY <1>1 DEF PinTouched, Touched
<1>3. /\ v \notin Touched({"pinned", "repinned"})'
      /\ \A k \in EK : v \notin About({"reset", "hand"}, k)'
  BY DEF PinTouched, Touched, About
<1>4. cache'[v] = cache[v] /\ cluster'[v] = cluster[v]
  BY <1>3, PinsKept DEF IInv, Touched
<1>5. stored[v] \in EK => stored'[v] = stored[v]
  BY <1>3, NotReplaced
<1>6. QED
  BY <1>1, <1>2, <1>4, <1>5 DEF OfRecord

\* The session a leg holds goes on naming the VM it named.
LEMMA HeldVM ==
    ASSUME IInv, [Next]_vars, NEW d \in Conn, d \in Holders
    PROVE  sess'[req[d].sid].vm = sess[req[d].sid].vm
<1>1. req[d].op = "finish" /\ req[d].sid \in Session
  BY HolderFinishes DEF IInv
<1>2. sess[req[d].sid] # Unused
  BY <1>1 DEF IInv, FinishBound
<1>3. QED
  BY <1>1, <1>2, SessKept DEF IInv

\* What a leg relies on stays true while it does not move.
LEMMA BackedKept ==
    ASSUME IInv, RemoveInv, ClusterInv, [Next]_vars, NEW d \in Conn, Backed(d),
           conn'[d] = conn[d], req'[d] = req[d], scan'[d] = scan[d], pc'[d] = pc[d],
           pinCreateMu' = d <=> pinCreateMu = d
    PROVE  Backed(d)'
<1>1. vmid(d)' = vmid(d) /\ fp(d)' = fp(d)
  BY DEF vmid, fp
<1>2. UNCHANGED mode
  BY ClusterStep DEF IInv
<1>3. pc[d] # "idle" => vmid(d) \in VM /\ fp(d) \in EK
  BY DEF IInv, LegBound
<1>4. pinCreateMu = d => pc[d] # "idle"
  BY DEF IInv, MutexInv, EnsurePC, TakenPC, ScanPC
<1>5. d \in Holders' <=> d \in Holders
  BY DEF Holders
<1>6. d \in Holders' => sess'[req'[d].sid].vm = vmid(d)'
  BY <1>1, <1>5, HeldVM DEF Backed
<1>7. vmid(d)' \in VM \ PinTouched' => conn'[d].pin = cache'[vmid(d)']
  BY <1>1, RecordKept DEF Backed
<1>8. CASE vmid(d) \in PinTouched'
  BY <1>1, <1>6, <1>7, <1>8 DEF Backed
<1>9. CASE vmid(d) \notin PinTouched'
  BY <1>1, <1>2, <1>3, <1>4, <1>6, <1>7, <1>9, RecordKept DEF Backed
<1>10. QED
  BY <1>8, <1>9

\* A connection that is bound, or a request that is accepted, starts from the
\* current record of its VM.
LEMMA BackedAccept ==
    ASSUME IInv, RemoveInv, BackedInv, [Next]_vars, NEW c \in Conn, Accept(c)
    PROVE  \A d \in Conn : Backed(d)'
<1> USE DEF BackedInv
<1>1. /\ pc[c] = "idle" /\ pinCreateMu # c
      /\ UNCHANGED <<pinCreateMu, scan, cache, outside>>
      /\ \A d \in Conn \ {c} : conn'[d] = conn[d] /\ req'[d] = req[d] /\ pc'[d] = pc[d]
  BY DEF Accept, Connect, HandleStart, HandleFinish, Authenticate, Goto, stores, IInv,
         TypeOK, MutexInv, EnsurePC, TakenPC, ScanPC
<1>2. ASSUME NEW d \in Conn \ {c} PROVE Backed(d)'
  BY <1>1, <1>2, BackedKept
<1>3. c \notin Holders'
  BY AcceptFrame DEF IInv
<1>4. ASSUME NEW v \in VM, Connect(c, v) PROVE Backed(c)'
  <2>1. conn'[c].vm = v /\ conn'[c].pin = cache[v] /\ pc'[c] = "idle"
    BY <1>1, <1>4 DEF Connect, IInv, TypeOK
  <2>2. QED
    BY <1>1, <1>3, <2>1 DEF Backed, vmid, fp
<1>5. ASSUME NEW k \in EK, NEW r, r.ek = k, Authenticate(c, r), req'[c] = r
      PROVE  Backed(c)'
  <2>1. /\ conn[c].pin \in EK => conn[c].pin = k
        /\ UNCHANGED conn /\ pc'[c] \in {"list", "ownCluster", "ownStored"}
    BY <1>5 DEF Authenticate, Goto, IInv, TypeOK
  <2>2. fp(c)' = k /\ vmid(c)' = vmid(c)
    BY <1>5, <2>1 DEF fp, vmid
  <2>3. vmid(c)' \in VM \ PinTouched' => conn'[c].pin = cache'[vmid(c)']
    BY <1>1, <2>1, <2>2 DEF Backed, PinTouched, Touched
  <2>4. QED
    BY <1>1, <1>3, <2>1, <2>2, <2>3 DEF Backed
<1>6. ASSUME NEW k \in EK, HandleStart(c, k) PROVE Backed(c)'
  <2>1. [NoReq EXCEPT !.op = "start", !.ek = k].ek = k
    BY DEF NoReq
  <2>2. req'[c] = [NoReq EXCEPT !.op = "start", !.ek = k]
    BY <1>6 DEF HandleStart, Authenticate, IInv, TypeOK
  <2>3. QED
    BY <1>5, <1>6, <2>1, <2>2 DEF HandleStart
<1>7. ASSUME NEW k \in EK, NEW s \in Session, HandleFinish(c, k, s) PROVE Backed(c)'
  <2>1. req'[c] = [op |-> "finish", ek |-> k, sid |-> s]
    BY <1>7 DEF HandleFinish, Authenticate, IInv, TypeOK
  <2>2. QED
    BY <1>5, <1>7, <2>1 DEF HandleFinish
<1>8. QED
  BY <1>2, <1>4, <1>6, <1>7 DEF Accept

\* A leg that answers relies only on the record of its connection.
LEMMA BackedIdle ==
    ASSUME IInv, NEW c \in Conn, Backed(c), Serve(c) \/ Lock(c), pc'[c] = "idle"
    PROVE  Backed(c)'
<1>1. UNCHANGED <<conn, cache, outside>> /\ pinCreateMu' # c /\ c \notin Holders'
  BY LegFrame, MutexLeg DEF IInv, Holders, TakenPC, EnsurePC, ScanPC
<1>2. QED
  BY <1>1 DEF Backed, vmid, PinTouched, Touched

\* The steps before the mutex: the record of the connection is all that counts,
\* until it takes the leg straight to the CA.
LEMMA BackedBefore ==
    ASSUME IInv, ClusterInv, NEW c \in Conn, Backed(c), pinCreateMu # c,
           Serve(c) \/ Lock(c), ~Issue(c), pc'[c] # "idle"
    PROVE  Backed(c)'
<1> USE DEF TakenPC, EnsurePC, ScanPC, AuthPC
<1>1. /\ UNCHANGED <<conn, cluster, cache, outside, req>>
      /\ pc[c] # "idle" /\ vmid(c) \in VM /\ fp(c) \in EK
  BY LegFrame DEF IInv, LegBound
<1>2. vmid(c)' = vmid(c) /\ fp(c)' = fp(c) /\ PinTouched' = PinTouched
  BY <1>1 DEF vmid, fp, PinTouched, Touched
<1>3. pc[c] \notin EnsurePC
  BY DEF IInv, MutexInv
<1>4. CASE OwnCluster(c) \/ OwnStored(c) \/ Scan(c)
  <2>1. pc'[c] \in {"ownStored", "list", "pins", "look1", "look2", "put", "take"}
        /\ pinCreateMu' # c
    BY <1>4, ConstantsAssumption
       DEF OwnCluster, OwnStored, Scan, ListPins, CheckPin, ListClusterPins, ReadClusterPin, CheckClusterPin,
           LookForGuest, CheckInventory, FilesDone, Unpinned, Goto, End, IInv, TypeOK, local
  <2>2. c \notin Holders'
    BY <2>1 DEF Holders
  <2>3. QED
    BY <1>1, <1>2, <2>1, <2>2 DEF Backed
<1>5. CASE Take(c)
  <2>1. /\ Matches(c) /\ UNCHANGED <<stored, mode, pinCreateMu>>
        /\ pc'[c] = IF conn[c].pin \in EK THEN "issue" ELSE "lock"
    BY <1>5 DEF Take, Goto, End, IInv, TypeOK, stores
  <2>2. sess'[req[c].sid].vm = vmid(c)
    <3>1. req[c].op = "finish" /\ req[c].sid \in Session /\ sess[req[c].sid] # Unused
      BY <1>5 DEF Take, IInv, FinishBound
    <3>2. Next
      BY <1>5 DEF Next, Serve
    <3>3. QED
      BY <2>1, <3>1, <3>2, SessKept DEF IInv, Matches
  <2>3. conn[c].pin \in EK /\ vmid(c) \notin PinTouched => OfRecord(vmid(c)) = fp(c)
    BY <1>1 DEF Backed, OfRecord
  <2>4. OfRecord(vmid(c))' = OfRecord(vmid(c))
    BY <1>1, <2>1 DEF OfRecord, vmid
  <2>5. QED
    BY <1>1, <1>2, <2>1, <2>2, <2>3, <2>4 DEF Backed
<1>6. CASE Lock(c)
  <2>1. /\ UNCHANGED <<sess, mode>> /\ pc[c] = "lock"
        /\ pc'[c] = IF Proxmox THEN "ensCluster" ELSE "ensStored"
    BY <1>6 DEF Lock, Goto, IInv, TypeOK
  <2>2. sess[req[c].sid].vm = vmid(c) /\ conn[c].pin \notin EK
    BY <2>1 DEF Backed, Holders
  <2>3. pc'[c] # "ensCluster" => cluster'[vmid(c)] = NoPin /\ ~requireClusterPin'
    BY <1>1, <2>1 DEF ClusterInv
  <2>4. QED
    BY <1>1, <1>2, <2>1, <2>2, <2>3 DEF Backed
<1>7. CASE Put(c) \/ StoreError(c)
  BY <1>7 DEF Put, StoreError, End, IInv, TypeOK
<1>8. QED
  BY <1>3, <1>4, <1>5, <1>6, <1>7
     DEF Serve, EnsureCluster, EnsureStored, Create, Reread, Remove, Recreate

\* ensurePinBeforeIssue: the leg leaves the mutex for the CA only from a point
\* where its EK is the pin of record.
LEMMA BackedUnder ==
    ASSUME IInv, ClusterInv, NEW c \in Conn, Backed(c), pinCreateMu = c, Serve(c),
           pc'[c] # "idle"
    PROVE  Backed(c)'
<1> USE DEF TakenPC, EnsurePC, ScanPC, AuthPC
<1>1. /\ UNCHANGED <<conn, cluster, cache, outside, req>>
      /\ pc[c] # "idle" /\ vmid(c) \in VM /\ fp(c) \in EK /\ fp(c) # NoPin
  BY LegFrame, ConstantsAssumption DEF IInv, LegBound
<1>2. vmid(c)' = vmid(c) /\ fp(c)' = fp(c) /\ PinTouched' = PinTouched
  BY <1>1 DEF vmid, fp, PinTouched, Touched
<1>3. pc[c] \in EnsurePC \cup ScanPC /\ c \in Holders
  BY DEF IInv, MutexInv, Holders
<1>4. conn[c].pin \notin EK /\ sess[req[c].sid].vm = vmid(c)
  BY <1>3 DEF Backed
<1>5. UNCHANGED <<sess, mode>>
  BY <1>3 DEF Serve, Scan, OwnCluster, OwnStored, ListPins, CheckPin, ListClusterPins,
     ReadClusterPin, CheckClusterPin, LookForGuest, CheckInventory, FilesDone, Put, Take, EnsureCluster,
     EnsureStored, Create, Reread, Remove, Recreate, Issue, StoreError
\* What is left to show: where the leg is now.
<1>6. ASSUME vmid(c) \notin PinTouched =>
               /\ pinCreateMu' = c /\ pc'[c] # "ensCluster" =>
                     /\ cluster[vmid(c)] = NoPin /\ ~requireClusterPin
                     /\ pc'[c] \in ScanPC /\ scan'[c].had => stored'[vmid(c)] = fp(c)
               /\ pc'[c] = "issue" =>
                     \/ cluster[vmid(c)] = fp(c)
                     \/ /\ cluster[vmid(c)] = NoPin /\ ~requireClusterPin
                        /\ stored'[vmid(c)] = fp(c),
             pc'[c] # "lock"
      PROVE  Backed(c)'
  <2>1. vmid(c) \notin PinTouched => cache[vmid(c)] \notin EK
    BY <1>1, <1>4 DEF Backed
  <2>2. pc'[c] = "issue" /\ vmid(c) \notin PinTouched => OfRecord(vmid(c))' = fp(c)
    BY <1>1, <1>2, <1>5, <1>6, <2>1, ConstantsAssumption DEF OfRecord
  <2>3. QED
    BY <1>1, <1>2, <1>4, <1>5, <1>6, <2>2 DEF Backed
<1>7. CASE EnsureCluster(c)
  <2>1. /\ pc'[c] \in {"issue", "ensStored"}
        /\ pc'[c] = "issue" => cluster[vmid(c)] = fp(c) /\ pinCreateMu' = NoConn
        /\ pc'[c] = "ensStored" => cluster[vmid(c)] = NoPin /\ ~requireClusterPin
    BY <1>7 DEF EnsureCluster, Ensured, Goto, End, IInv, TypeOK
  <2>2. QED
    BY <1>6, <2>1, ConstantsAssumption
<1>8. CASE pc[c] # "ensCluster"
  <2>1. vmid(c) \notin PinTouched => cluster[vmid(c)] = NoPin /\ ~requireClusterPin
    BY <1>8 DEF Backed
  <2>2. CASE EnsureStored(c)
    <3>1. /\ pc'[c] = "list" /\ UNCHANGED stored
          /\ scan'[c] = [scan[c] EXCEPT !.had = (stored[vmid(c)] = fp(c))]
      BY <2>2 DEF EnsureStored, Goto, End, IInv, TypeOK, stores
    <3>2. scan[c] \in ScanRec
      BY DEF IInv, TypeOK
    <3>3. CASE stored[vmid(c)] = fp(c)
      BY <1>6, <2>1, <3>1, <3>3
    <3>4. CASE stored[vmid(c)] # fp(c)
      <4>1. scan'[c] = [scan[c] EXCEPT !.had = FALSE]
        BY <3>1, <3>4
      <4>2. ~scan'[c].had
        BY <3>2, <4>1 DEF ScanRec
      <4>3. QED
        BY <1>6, <2>1, <3>1, <4>2
    <3>5. QED
      BY <3>3, <3>4
  <2>3. CASE ListPins(c) \/ ListClusterPins(c) \/ LookForGuest(c)
             \/ \E w \in VM : CheckPin(c, w) \/ ReadClusterPin(c, w) \/ CheckClusterPin(c, w)
    <3>1. /\ pc[c] \in ScanPC /\ pc'[c] \in ScanPC /\ UNCHANGED stored
          /\ scan'[c].had = scan[c].had
      <4>1. CASE LookForGuest(c)
        BY <4>1, LookEffect DEF End, IInv, TypeOK
      <4>2. CASE \E w \in VM : ReadClusterPin(c, w)
        BY <4>2, ReadEffect, ZenonT(40) DEF IInv
      <4>3. QED
        BY <2>3, <4>1, <4>2 DEF ListPins, ListClusterPins, CheckPin, CheckClusterPin, Goto,
                    IInv, TypeOK, ScanRec, stores
    <3>2. QED
      BY <1>6, <1>8, <2>1, <3>1 DEF Backed
  <2>4. CASE CheckInventory(c)
    <3>1. /\ pc[c] \in ScanPC /\ UNCHANGED stored
          /\ \/ pc'[c] = "issue" /\ scan[c].had
             \/ pc'[c] = "create"
      BY <2>4 DEF CheckInventory, FilesDone, Unpinned, Ensured, Goto, End, IInv, TypeOK, stores
    <3>2. QED
      BY <1>6, <1>8, <2>1, <3>1 DEF Backed, MutexInv, IInv
  <2>5. CASE Create(c) \/ Reread(c) \/ Remove(c) \/ Recreate(c)
    <3>1. /\ pc'[c] \in {"issue", "reread", "remove", "recreate"}
          /\ pc'[c] = "issue" => stored'[vmid(c)] = fp(c) /\ pinCreateMu' = NoConn
      BY <1>1, <2>5 DEF Create, Reread, Remove, Recreate, Ensured, Goto, End, IInv,
                        TypeOK, stores
    <3>2. QED
      BY <1>6, <2>1, <3>1
  <2>6. CASE StoreError(c)
    BY <2>6 DEF StoreError, End, IInv, TypeOK
  <2>7. QED
    BY <1>3, <1>8, <2>2, <2>3, <2>4, <2>5, <2>6
       DEF Serve, Scan, OwnCluster, OwnStored, Put, Take, EnsureCluster, Issue
<1>9. CASE pc[c] = "ensCluster" /\ ~EnsureCluster(c)
  BY <1>9 DEF Serve, Scan, OwnCluster, OwnStored, ListPins, ListClusterPins, LookForGuest,
     CheckPin, ReadClusterPin, CheckClusterPin, CheckInventory, FilesDone, Put, Take, EnsureStored, Create, Reread,
     Remove, Recreate, Issue, StoreError, End, IInv, TypeOK
<1>10. QED
  BY <1>7, <1>8, <1>9

\* No step takes away what a leg under way relies on.
LEMMA BackedStep ==
    ASSUME IInv, RemoveInv, BackedInv, [Next]_vars
    PROVE  BackedInv'
<1>0. ClusterInv'
  BY ClusterStep DEF IInv, BackedInv
<1>1. ASSUME NEW c \in Conn, Accept(c)
      PROVE  \A d \in Conn : Backed(d)'
  BY <1>1, BackedAccept
<1>2. ASSUME NEW c \in Conn, Serve(c) \/ Lock(c), NEW d \in Conn
      PROVE  Backed(d)'
  <2>1. CASE d # c
    <3>1. /\ conn'[d] = conn[d] /\ req'[d] = req[d] /\ scan'[d] = scan[d] /\ pc'[d] = pc[d]
          /\ pinCreateMu' = d <=> pinCreateMu = d
      BY <1>2, <2>1, LegFrame, MutexLeg DEF IInv
    <3>2. QED
      BY <3>1, BackedKept DEF BackedInv
  <2>2. CASE d = c /\ pc'[c] = "idle"
    BY <1>2, <2>2, BackedIdle DEF BackedInv
  <2>3. CASE d = c /\ pc'[c] # "idle"
    <3>1. ~Issue(c)
      BY <2>3 DEF Issue, End, IInv, TypeOK
    <3>2. pinCreateMu = c => Serve(c)
      BY <1>2, ConstantsAssumption DEF Lock
    <3>3. QED
      BY <1>2, <2>3, <3>1, <3>2, BackedBefore, BackedUnder DEF BackedInv
  <2>4. QED
    BY <2>1, <2>2, <2>3
<1>3. CASE Restart
  <2>1. /\ pinCreateMu' = NoConn
        /\ \A d \in Conn : conn'[d] = Unbound /\ pc'[d] = "idle"
    BY <1>3 DEF Restart
  <2>2. Unbound.vm = NoVM /\ Unbound.pin = NoPin
    BY DEF Unbound
  <2>3. QED
    BY <1>0, <2>1, <2>2, ConstantsAssumption DEF BackedInv, Backed, vmid, Holders, TakenPC
<1>4. CASE Quiet
  BY <1>0, <1>4, QuietFrame, BackedKept DEF BackedInv
<1>5. QED
  BY <1>0, <1>1, <1>2, <1>3, <1>4 DEF Next, Quiet, BackedInv

\* A certificate is backed when it is signed and stays so.
LEMMA CertsStep ==
    ASSUME BInv, [Next]_vars
    PROVE  CertsBacked'
<1> SUFFICES ASSUME NEW i \in issued', i.vm \notin PinTouched'
             PROVE  OfRecord(i.vm)' = i.ek
  BY DEF CertsBacked, PinTouched
<1>1. i \in CertRec /\ IInv /\ RemoveInv /\ ClusterInv
  <2>1. TypeOK'
    BY NextIInv DEF BInv, RInv, IInv
  <2>2. QED
    BY <2>1 DEF BInv, RInv, BackedInv, TypeOK
<1>2. SUFFICES OfRecord(i.vm) = i.ek
  BY <1>1, RecordKept DEF CertRec
<1>3. i.vm \notin PinTouched
  BY <1>1, RecordKept DEF CertRec
<1>4. CASE i \in issued
  BY <1>3, <1>4 DEF BInv, CertsBacked, PinTouched
<1>5. CASE i \notin issued
  <2>1. PICK c \in Conn : Issue(c)
    BY <1>5, IssuedWriters
  <2>2. i = [sid |-> req[c].sid, vm |-> sess[req[c].sid].vm, ek |-> fp(c)]
    BY <1>5, <2>1 DEF Issue
  <2>3. pc[c] = "issue" /\ c \in Holders /\ Backed(c)
    BY <2>1 DEF Issue, Holders, TakenPC, BInv, BackedInv
  <2>4. i.vm = vmid(c) /\ i.ek = fp(c)
    BY <2>2, <2>3 DEF Backed
  <2>5. QED
    BY <1>3, <2>3, <2>4 DEF Backed
<1>6. QED
  BY <1>4, <1>5

\* The invariant of the pins of record always holds.
LEMMA BInvariance == Spec => []BInv
<1>1. Init => RemoveInv /\ BackedInv /\ CertsBacked
  <2> SUFFICES ASSUME Init PROVE RemoveInv /\ BackedInv /\ CertsBacked
    OBVIOUS
  <2>1. RemoveInv /\ CertsBacked
    BY DEF Init, RemoveInv, CertsBacked
  <2>2. ClusterInv
    BY ConstantsAssumption DEF Init, ClusterInv
  <2>3. \A c \in Conn : Backed(c)
    BY ConstantsAssumption DEF Init, Backed, vmid, Unbound, Holders, TakenPC
  <2>4. QED
    BY <2>1, <2>2, <2>3 DEF BackedInv
<1>2. RInv /\ RemoveInv /\ BackedInv /\ CertsBacked /\ [Next]_vars
        => RemoveInv' /\ BackedInv' /\ CertsBacked'
  BY RemoveStep, BackedStep, CertsStep DEF BInv, RInv
<1>3. QED
  BY <1>1, <1>2, RInvariance, PTL DEF Spec, BInv

\* enroll.go, ensurePinBeforeIssue before CA.IssueDevID: whatever crashed, failed
\* or raced in between, the pin of record of a VM is the EK of every certificate it
\* was ever given, until somebody outside the service changes its pins.
THEOREM CertsBackedAlways == Spec => []CertsBacked
<1>1. BInv => CertsBacked
  BY DEF BInv
<1>2. QED
  BY <1>1, BInvariance, PTL

-----------------------------------------------------------------------------
(* One EK belongs to one VM. *)

\* VMs that nothing outside the service happened to that concerns the EK k.
Still(k) == VM \ About(Kind, k)

\* No such VM but v has the EK k in the inventory or the cluster directory.
Alone(v, k) == \A w \in Still(k) : w # v => cache[w] # k /\ cluster[w] # k

\* If v is one, it has k on file.
Has(v, k) == v \in Still(k) => k \in {cache[v], cluster[v], stored[v]}

\* What the scan of leg c knows: the cluster pins it has still to read or to look
\* up, and once it is over that no other VM has the EK.
Owns(c) ==
    /\ pc[c] \in {"pins", "look1", "look2"} /\ scan[c].src = "cluster" =>
          \A w \in Still(fp(c)) : w # vmid(c) /\ cluster[w] = fp(c)
              => w \in scan[c].todo \cup scan[c].hits
    /\ pc[c] = "take" \/ c \in Holders => Alone(vmid(c), fp(c))

\* What leg c has found about its own VM, as far as nobody outside changed it: the
\* pin in the record of its connection is in the cache, the store file the leg saw
\* under the mutex is there, and where the CA is next the EK is on file.
Finds(c) ==
    /\ conn[c].pin \in EK /\ vmid(c) \in Still(conn[c].pin) => cache[vmid(c)] = conn[c].pin
    /\ pinCreateMu = c /\ pc[c] \in ScanPC /\ scan[c].had /\ vmid(c) \in Still(fp(c)) =>
          stored[vmid(c)] = fp(c)
    /\ pc[c] = "issue" => Has(vmid(c), fp(c))

OwnerInv ==
    /\ \A c \in Conn : Owns(c) /\ Finds(c)
    /\ \A i \in issued : Alone(i.vm, i.ek) /\ Has(i.vm, i.ek)

\* What the files of a VM say about an EK is what they said, if nothing happened to
\* it that concerns this EK.
LEMMA StillKept ==
    ASSUME IInv, RemoveInv, ClusterInv, [Next]_vars, NEW k \in EK, NEW w \in Still(k)'
    PROVE  /\ w \in Still(k)
           /\ cache'[w] = k <=> cache[w] = k
           /\ cluster'[w] = k <=> cluster[w] = k
           /\ stored[w] = k => stored'[w] = k
<1>1. outside \subseteq outside'
  BY ClusterStep DEF IInv
<1>2. w \in VM /\ w \in Still(k)
  BY <1>1, ExemptGrows DEF Still
<1>3. /\ w \notin About({"reset", "hand"}, k)'
      /\ \A x \in outside' : x.vm = w /\ x.kind \in {"pinned", "repinned"} => k \notin {x.old, x.new}
  BY DEF Still, About, Kind
<1>4. (cache'[w] = k <=> cache[w] = k) /\ (cluster'[w] = k <=> cluster[w] = k)
  BY <1>2, <1>3, PinsKept DEF IInv
<1>5. stored[w] = k => stored'[w] = k
  BY <1>2, <1>3, NotReplaced
<1>6. QED
  BY <1>2, <1>4, <1>5

\* So an EK stays alone and on file.
LEMMA AloneKept ==
    ASSUME IInv, RemoveInv, ClusterInv, [Next]_vars, NEW k \in EK, NEW v \in VM
    PROVE  /\ Alone(v, k) => Alone(v, k)'
           /\ Has(v, k) => Has(v, k)'
BY StillKept DEF Alone, Has

\* What the scan knows stays true while the leg does not move.
LEMMA OwnsKept ==
    ASSUME IInv, RemoveInv, ClusterInv, [Next]_vars, NEW d \in Conn, Owns(d),
           vmid(d)' = vmid(d), req'[d] = req[d], scan'[d] = scan[d], pc'[d] = pc[d],
           pinCreateMu' = d <=> pinCreateMu = d
    PROVE  Owns(d)'
<1>1. fp(d)' = fp(d) /\ (d \in Holders' <=> d \in Holders)
  BY DEF fp, Holders
<1>2. pc[d] # "idle" => fp(d) \in EK /\ vmid(d) \in VM
  BY DEF IInv, LegBound
<1>3. pc[d] = "take" \/ d \in Holders => pc[d] # "idle"
  BY HolderFinishes DEF IInv
<1>4. (pc[d] = "take" \/ d \in Holders => Alone(vmid(d), fp(d)))'
  BY <1>1, <1>2, <1>3, AloneKept DEF Owns
<1>5. CASE pc[d] \in {"pins", "look1", "look2"} /\ scan[d].src = "cluster"
  BY <1>1, <1>2, <1>4, <1>5, StillKept DEF Owns
<1>6. QED
  BY <1>4, <1>5 DEF Owns

\* What the leg has found stays true while it does not move.
LEMMA FindsKept ==
    ASSUME IInv, RemoveInv, ClusterInv, [Next]_vars, NEW d \in Conn, Finds(d),
           conn'[d] = conn[d], req'[d] = req[d], scan'[d] = scan[d], pc'[d] = pc[d],
           pinCreateMu' = d <=> pinCreateMu = d
    PROVE  Finds(d)'
<1>1. fp(d)' = fp(d) /\ vmid(d)' = vmid(d)
  BY DEF fp, vmid
<1>2. pc[d] # "idle" => fp(d) \in EK /\ vmid(d) \in VM
  BY DEF IInv, LegBound
<1>3. (pc[d] = "issue" => Has(vmid(d), fp(d)))'
  BY <1>1, <1>2, AloneKept DEF Finds
<1>4. conn[d].pin \in EK /\ vmid(d) \in Still(conn[d].pin)' => cache'[vmid(d)] = conn[d].pin
  BY StillKept DEF Finds
<1>5. /\ pinCreateMu = d /\ pc[d] \in ScanPC /\ scan[d].had /\ vmid(d) \in Still(fp(d))'
        => stored'[vmid(d)] = fp(d)
  <2> SUFFICES ASSUME pinCreateMu = d, pc[d] \in ScanPC, scan[d].had,
                      vmid(d) \in Still(fp(d))'
               PROVE  stored'[vmid(d)] = fp(d)
    OBVIOUS
  <2>1. fp(d) \in EK
    BY <1>2 DEF ScanPC
  <2>2. vmid(d) \in Still(fp(d)) /\ (stored[vmid(d)] = fp(d) => stored'[vmid(d)] = fp(d))
    BY <1>1, <2>1, StillKept
  <2>3. QED
    BY <2>2 DEF Finds
<1>6. QED
  BY <1>1, <1>3, <1>4, <1>5 DEF Finds

\* The leg's own steps: the scan drops a VM with its EK only when the guest is
\* gone, and the inventory has the last word.
LEMMA OwnsStep ==
    ASSUME IInv, RemoveInv, ClusterInv, [Next]_vars, NEW c \in Conn, Owns(c), Serve(c) \/ Lock(c)
    PROVE  Owns(c)'
<1> USE DEF TakenPC, EnsurePC, ScanPC, AuthPC
<1>1. /\ UNCHANGED <<conn, cluster, cache, outside>> /\ pc[c] # "idle"
      /\ UNCHANGED req \/ pc'[c] = "idle"
  BY LegFrame DEF IInv
<1>2. pc'[c] = "idle" => c \notin Holders'
  BY MutexLeg DEF IInv, Holders
<1>3. CASE pc'[c] = "idle"
  BY <1>2, <1>3 DEF Owns
<1>4. CASE pc'[c] # "idle"
  <2>1. /\ vmid(c)' = vmid(c) /\ fp(c)' = fp(c) /\ UNCHANGED req
        /\ \A k : Still(k)' = Still(k)
        /\ \A v, x : Alone(v, x)' <=> Alone(v, x)
    BY <1>1, <1>4 DEF vmid, fp, Still, About, Alone
  <2>2. CASE OwnCluster(c) \/ OwnStored(c) \/ ListPins(c)
    <3>1. /\ pc'[c] \in {"list", "ownStored"} \/ (pc'[c] = "pins" /\ scan'[c].src = "store")
          /\ pc[c] \in {"ownCluster", "ownStored", "list"}
          /\ UNCHANGED pinCreateMu
      BY <1>4, <2>2 DEF OwnCluster, OwnStored, ListPins, Goto, End, IInv, TypeOK, ScanRec
    <3>2. QED
      BY <2>1, <3>1 DEF Owns, Holders
  <2>3. CASE ListClusterPins(c)
    <3>1. /\ scan'[c].todo = {w \in VM : w # vmid(c) /\ cluster[w] # NoPin}
          /\ UNCHANGED <<pc, pinCreateMu>>
      BY <2>3 DEF ListClusterPins, IInv, TypeOK, ScanRec
    <3>2. pc[c] = "pins" /\ fp(c) # NoPin
      BY <2>3, ConstantsAssumption DEF ListClusterPins, IInv, LegBound
    <3>3. QED
      BY <1>1, <2>1, <3>1, <3>2 DEF Owns, Holders, Still
  <2>4. ASSUME NEW w \in VM, CheckPin(c, w) \/ ReadClusterPin(c, w) \/ CheckClusterPin(c, w)
        PROVE  Owns(c)'
    <3>1. /\ pc[c] = "pins" /\ pc'[c] \in {"pins", "look1"} /\ UNCHANGED pinCreateMu
          /\ scan'[c].src = scan[c].src
      <4>1. CASE ReadClusterPin(c, w)
        BY <4>1, ReadEffect DEF IInv
      <4>2. QED
        BY <2>4, <4>1 DEF CheckPin, CheckClusterPin, Goto, IInv, TypeOK, ScanRec
    <3>2. scan[c].src = "cluster" =>
             /\ scan'[c].todo \in {scan[c].todo, scan[c].todo \ {w}}
             /\ scan[c].hits \subseteq scan'[c].hits
             /\ scan'[c].todo # scan[c].todo /\ cluster[w] = fp(c) => w \in scan'[c].hits
      <4>1. CASE ReadClusterPin(c, w)
        BY <4>1, ReadEffect DEF IInv
      <4>2. QED
        BY <2>4, <4>1 DEF CheckPin, CheckClusterPin, Goto, IInv, TypeOK, ScanRec
    <3>3. c \in Holders' <=> c \in Holders
      BY <3>1 DEF Holders
    <3>4. QED
      BY <1>1, <2>1, <3>1, <3>2, <3>3 DEF Owns
  <2>5. CASE LookForGuest(c)
    <3>1. /\ pc[c] \in {"look1", "look2"} /\ pc'[c] \in {"look2", "pins"}
          /\ UNCHANGED pinCreateMu /\ ~guestExists(scan[c].suspect)
          /\ scan'[c].src = scan[c].src
          /\ scan'[c].todo \in {scan[c].todo, scan[c].todo \ {scan[c].suspect}}
          /\ scan'[c].hits \in {scan[c].hits, scan[c].hits \ {scan[c].suspect}}
      BY <1>4, <2>5, LookEffect DEF End, IInv, TypeOK
    <3>2. scan[c].suspect \notin Still(fp(c))
      BY <3>1 DEF guestExists, IInv, GoneInv, Still, Touched, About, Kind
    <3>3. c \in Holders' <=> c \in Holders
      BY <3>1 DEF Holders
    <3>4. QED
      BY <1>1, <2>1, <3>1, <3>2, <3>3 DEF Owns
  <2>6. CASE CheckInventory(c)
    <3>1. /\ pc[c] = "pins" /\ scan[c].src = "cluster"
          /\ scan[c].todo = {} /\ scan[c].hits = {}
          /\ \A w \in VM : w # vmid(c) => cache[w] # fp(c)
          /\ pc'[c] \in {"issue", "create", "put", "take"}
      BY <1>4, <2>6 DEF CheckInventory, FilesDone, Unpinned, Ensured, Goto, End, IInv, TypeOK
    <3>2. Alone(vmid(c), fp(c))
      BY <3>1 DEF Owns, Alone, Still
    <3>3. QED
      BY <2>1, <3>1, <3>2 DEF Owns
  <2>7. CASE Take(c) \/ Lock(c)
    <3>1. pc[c] \in {"take", "lock"} /\ pc'[c] \in TakenPC
      BY <1>4, <2>7 DEF Take, Lock, Goto, End, IInv, TypeOK
    <3>2. QED
      BY <2>1, <3>1 DEF Owns, Holders
  <2>8. CASE \/ EnsureCluster(c) \/ EnsureStored(c) \/ Create(c) \/ Reread(c)
             \/ Remove(c) \/ Recreate(c)
    <3>1. pc[c] \in TakenPC /\ pc'[c] \notin {"pins", "look1", "look2"}
      BY <1>4, <2>8 DEF EnsureCluster, EnsureStored, Create, Reread, Remove, Recreate,
                        Ensured, Goto, End, IInv, TypeOK
    <3>2. QED
      BY <2>1, <3>1 DEF Owns, Holders
  <2>9. CASE Put(c) \/ Issue(c) \/ StoreError(c)
    BY <1>4, <2>9 DEF Put, Issue, StoreError, End, IInv, TypeOK
  <2>10. QED
    BY <2>2, <2>3, <2>4, <2>5, <2>6, <2>7, <2>8, <2>9 DEF Serve, Scan
<1>5. QED
  BY <1>3, <1>4

\* The leg's own steps: it comes to the CA with the pin of its connection's record,
\* with its cluster pin, or with the store file it found or made.
LEMMA FindsStep ==
    ASSUME IInv, NEW c \in Conn, Backed(c), Finds(c), Serve(c) \/ Lock(c)
    PROVE  Finds(c)'
<1> USE DEF TakenPC, EnsurePC, ScanPC, AuthPC
<1>1. /\ UNCHANGED <<conn, cluster, cache, outside>>
      /\ pc[c] # "idle" /\ vmid(c) \in VM /\ fp(c) \in EK
      /\ UNCHANGED req \/ pc'[c] = "idle"
  BY LegFrame DEF IInv, LegBound
<1>2. vmid(c)' = vmid(c) /\ \A k : Still(k)' = Still(k)
  BY <1>1 DEF vmid, Still, About
<1>3. (conn[c].pin \in EK /\ vmid(c) \in Still(conn[c].pin) => cache[vmid(c)] = conn[c].pin)'
  BY <1>1, <1>2 DEF Finds
<1>4. CASE pc'[c] = "idle"
  BY <1>3, <1>4 DEF Finds
<1>5. CASE pc'[c] # "idle"
  <2>1. fp(c)' = fp(c)
    BY <1>1, <1>5 DEF fp
  <2>2. SUFFICES ASSUME vmid(c) \in Still(fp(c))
                 PROVE  /\ pinCreateMu' = c /\ pc'[c] \in ScanPC /\ scan'[c].had
                              => stored'[vmid(c)] = fp(c)
                        /\ pc'[c] = "issue"
                              => fp(c) \in {cache[vmid(c)], cluster[vmid(c)], stored'[vmid(c)]}
    BY <1>1, <1>2, <1>3, <2>1 DEF Finds, Has
  <2>3. CASE Take(c)
    <3>1. pc'[c] = IF conn[c].pin \in EK THEN "issue" ELSE "lock"
      BY <1>5, <2>3 DEF Take, Goto, End, IInv, TypeOK
    <3>2. conn[c].pin \in EK => fp(c) = cache[vmid(c)]
      BY <1>1, <2>2 DEF Backed, Finds
    <3>3. QED
      BY <3>1, <3>2
  <2>4. CASE EnsureCluster(c)
    <3>1. /\ pc'[c] \in {"issue", "ensStored"}
          /\ pc'[c] = "issue" => cluster[vmid(c)] = fp(c)
      BY <1>5, <2>4 DEF EnsureCluster, Ensured, Goto, End, IInv, TypeOK
    <3>2. QED
      BY <3>1
  <2>5. CASE EnsureStored(c)
    <3>1. /\ pc'[c] = "list" /\ UNCHANGED stored
          /\ scan'[c] = [scan[c] EXCEPT !.had = (stored[vmid(c)] = fp(c))]
      BY <1>5, <2>5 DEF EnsureStored, Goto, End, IInv, TypeOK, stores
    <3>2. scan[c] \in ScanRec
      BY DEF IInv, TypeOK
    <3>3. CASE stored[vmid(c)] = fp(c)
      BY <3>1, <3>3
    <3>4. CASE stored[vmid(c)] # fp(c)
      <4>1. scan'[c] = [scan[c] EXCEPT !.had = FALSE]
        BY <3>1, <3>4
      <4>2. ~scan'[c].had
        BY <3>2, <4>1 DEF ScanRec
      <4>3. QED
        BY <3>1, <4>2
    <3>5. QED
      BY <3>3, <3>4
  <2>6. CASE ListPins(c) \/ ListClusterPins(c) \/ LookForGuest(c)
             \/ \E w \in VM : CheckPin(c, w) \/ ReadClusterPin(c, w) \/ CheckClusterPin(c, w)
    <3>1. /\ pc[c] \in ScanPC /\ pc'[c] \in ScanPC /\ UNCHANGED <<stored, pinCreateMu>>
          /\ scan'[c].had = scan[c].had
      <4>1. CASE LookForGuest(c)
        BY <1>5, <4>1, LookEffect DEF End, IInv, TypeOK
      <4>2. CASE \E w \in VM : ReadClusterPin(c, w)
        BY <4>2, ReadEffect, ZenonT(40) DEF IInv
      <4>3. QED
        BY <2>6, <4>1, <4>2 DEF ListPins, ListClusterPins, CheckPin, CheckClusterPin, Goto,
                    IInv, TypeOK, ScanRec, stores
    <3>2. QED
      BY <2>2, <3>1 DEF Finds
  <2>7. CASE CheckInventory(c)
    <3>1. /\ pc[c] \in ScanPC /\ UNCHANGED stored
          /\ \/ pc'[c] = "issue" /\ scan[c].had /\ pinCreateMu = c
             \/ pc'[c] \in {"create", "put", "take"}
      BY <1>5, <2>7 DEF CheckInventory, FilesDone, Unpinned, Ensured, Goto, End, IInv,
         TypeOK, stores
    <3>2. QED
      BY <2>2, <3>1 DEF Finds
  <2>8. CASE Create(c) \/ Reread(c) \/ Remove(c) \/ Recreate(c)
    <3>1. /\ pc'[c] \in {"issue", "reread", "remove", "recreate"}
          /\ pc'[c] = "issue" => stored'[vmid(c)] = fp(c)
      BY <1>1, <1>5, <2>8 DEF Create, Reread, Remove, Recreate, Ensured, Goto, End, IInv,
         TypeOK, stores
    <3>2. QED
      BY <3>1
  <2>9. CASE OwnCluster(c) \/ OwnStored(c) \/ Lock(c)
    <3>1. pc'[c] \in {"ensCluster", "ensStored"} \/ (pinCreateMu' # c /\ pc'[c] # "issue")
      BY <1>5, <2>9 DEF OwnCluster, OwnStored, Lock, Goto, End, IInv, TypeOK, MutexInv, local
    <3>2. QED
      BY <3>1
  <2>10. CASE Put(c) \/ Issue(c) \/ StoreError(c)
    BY <1>5, <2>10 DEF Put, Issue, StoreError, End, IInv, TypeOK
  <2>11. QED
    BY <2>3, <2>4, <2>5, <2>6, <2>7, <2>8, <2>9, <2>10 DEF Serve, Scan
<1>6. QED
  BY <1>4, <1>5

\* A connection that is bound, or a request that is accepted, starts from what the
\* cache says.
LEMMA FindsAccept ==
    ASSUME IInv, NEW c \in Conn, Finds(c), Accept(c)
    PROVE  Finds(c)'
<1>1. pinCreateMu' # c /\ UNCHANGED <<cache, outside>>
  BY DEF Accept, Connect, HandleStart, HandleFinish, Authenticate, stores, IInv, MutexInv,
         EnsurePC, TakenPC, ScanPC
<1>2. pc'[c] \in {"idle", "list", "ownCluster", "ownStored"}
  BY DEF Accept, Connect, HandleStart, HandleFinish, Authenticate, Goto, IInv, TypeOK
<1>3. conn'[c] = conn[c] \/ \E v \in VM : conn'[c] = [vm |-> v, pin |-> cache[v]]
  BY DEF Accept, Connect, HandleStart, HandleFinish, Authenticate, IInv, TypeOK
<1>4. \A k : Still(k)' = Still(k)
  BY <1>1 DEF Still, About
<1>5. conn'[c].pin \in EK /\ conn'[c].vm \in Still(conn'[c].pin)
         => cache[conn'[c].vm] = conn'[c].pin
  <2>1. CASE conn'[c] = conn[c]
    BY <2>1 DEF Finds, vmid
  <2>2. ASSUME NEW v \in VM, conn'[c] = [vm |-> v, pin |-> cache[v]]
        PROVE  cache[conn'[c].vm] = conn'[c].pin
    BY <2>2
  <2>3. QED
    BY <1>3, <2>1, <2>2
<1>6. QED
  BY <1>1, <1>2, <1>4, <1>5 DEF Finds, vmid

\* No step gives another VM the EK of a leg past its scan or of a certificate, or
\* takes it from its own, unless somebody outside did.
LEMMA OwnerStep ==
    ASSUME BInv, OwnerInv, [Next]_vars
    PROVE  OwnerInv'
<1>0. IInv /\ RemoveInv /\ ClusterInv /\ BackedInv
  BY DEF BInv, RInv, BackedInv
<1>1. ASSUME NEW i \in issued' PROVE Alone(i.vm, i.ek)' /\ Has(i.vm, i.ek)'
  <2>0. i.vm \in VM /\ i.ek \in EK
    BY <1>0, <1>1, NextIInv DEF IInv, TypeOK, CertRec
  <2>1. CASE i \in issued
    BY <1>0, <2>0, <2>1, AloneKept DEF OwnerInv
  <2>2. CASE i \notin issued
    <3>1. PICK c \in Conn : Issue(c)
      BY <1>1, <2>2, IssuedWriters
    <3>2. i = [sid |-> req[c].sid, vm |-> sess[req[c].sid].vm, ek |-> fp(c)]
      BY <1>1, <2>2, <3>1 DEF Issue
    <3>3. pc[c] = "issue" /\ c \in Holders /\ Backed(c) /\ Owns(c) /\ Finds(c)
      BY <1>0, <3>1 DEF Issue, Holders, TakenPC, BackedInv, OwnerInv
    <3>4. Alone(i.vm, i.ek) /\ Has(i.vm, i.ek)
      BY <3>2, <3>3 DEF Backed, Owns, Finds
    <3>5. QED
      BY <1>0, <2>0, <3>4, AloneKept
  <2>3. QED
    BY <2>1, <2>2
<1>2. ASSUME NEW c \in Conn, Accept(c), NEW d \in Conn PROVE Owns(d)' /\ Finds(d)'
  <2>1. CASE d = c
    <3>1. pc'[c] \in {"idle", "list", "ownCluster", "ownStored"}
      BY <1>0, <1>2 DEF Accept, Connect, HandleStart, HandleFinish, Authenticate, Goto,
                        IInv, TypeOK
    <3>2. Owns(c)'
      BY <1>0, <1>2, <3>1, AcceptFrame DEF Owns, IInv
    <3>3. QED
      BY <1>0, <1>2, <2>1, <3>2, FindsAccept DEF OwnerInv
  <2>2. CASE d # c
    <3>1. /\ conn'[d] = conn[d] /\ req'[d] = req[d] /\ scan'[d] = scan[d] /\ pc'[d] = pc[d]
          /\ UNCHANGED pinCreateMu /\ vmid(d)' = vmid(d)
      BY <1>0, <1>2, <2>2 DEF Accept, Connect, HandleStart, HandleFinish, Authenticate,
                              Goto, IInv, TypeOK, vmid
    <3>2. QED
      BY <1>0, <3>1, OwnsKept, FindsKept DEF OwnerInv
  <2>3. QED
    BY <2>1, <2>2
<1>3. ASSUME NEW c \in Conn, Serve(c) \/ Lock(c), NEW d \in Conn
      PROVE  Owns(d)' /\ Finds(d)'
  <2>1. CASE d = c
    BY <1>0, <1>3, <2>1, OwnsStep, FindsStep DEF OwnerInv, BackedInv
  <2>2. CASE d # c
    <3>1. /\ conn'[d] = conn[d] /\ req'[d] = req[d] /\ scan'[d] = scan[d] /\ pc'[d] = pc[d]
          /\ pinCreateMu' = d <=> pinCreateMu = d
          /\ vmid(d)' = vmid(d)
      BY <1>0, <1>3, <2>2, LegFrame, MutexLeg DEF IInv, vmid
    <3>2. QED
      BY <1>0, <3>1, OwnsKept, FindsKept DEF OwnerInv
  <2>3. QED
    BY <2>1, <2>2
<1>4. CASE Restart
  <2>1. \A d \in Conn : pc'[d] = "idle" /\ d \notin Holders' /\ conn'[d] = Unbound
    BY <1>4, ConstantsAssumption DEF Restart, Holders, TakenPC
  <2>2. Unbound.pin \notin EK
    BY ConstantsAssumption DEF Unbound
  <2>3. QED
    BY <1>1, <2>1, <2>2 DEF OwnerInv, Owns, Finds, ScanPC
<1>5. CASE Quiet
  <2>1. UNCHANGED <<pinCreateMu, pc, conn, req, scan>>
    BY <1>5, QuietFrame
  <2>2. \A d \in Conn : Owns(d)' /\ Finds(d)'
    BY <1>0, <2>1, OwnsKept, FindsKept DEF OwnerInv, vmid
  <2>3. QED
    BY <1>1, <2>2 DEF OwnerInv
<1>6. QED
  BY <1>1, <1>2, <1>3, <1>4, <1>5 DEF Next, Quiet, OwnerInv

\* Two VMs with certificates on one EK would both have it in their store files.
LEMMA OwnersDiffer == BInv /\ OwnerInv => SoleOwner
<1> SUFFICES ASSUME BInv, OwnerInv, NEW i \in issued, NEW j \in issued,
                    i.ek = j.ek, i.vm # j.vm, {i.vm, j.vm} \cap About(Kind, i.ek) = {}
             PROVE  FALSE
  BY DEF SoleOwner
<1>1. i \in CertRec /\ j \in CertRec
  BY DEF BInv, RInv, IInv, TypeOK
<1>2. i.vm \in Still(i.ek) /\ j.vm \in Still(i.ek) /\ i.ek \in EK
  BY <1>1 DEF Still, CertRec
<1>3. Has(i.vm, i.ek) /\ Has(j.vm, i.ek)
  BY DEF OwnerInv
<1>4. /\ cache[i.vm] # i.ek /\ cluster[i.vm] # i.ek
      /\ cache[j.vm] # i.ek /\ cluster[j.vm] # i.ek
  BY <1>2 DEF OwnerInv, Alone
<1>5. stored[i.vm] = i.ek /\ stored[j.vm] = i.ek
  BY <1>2, <1>3, <1>4 DEF Has
<1>6. {i.vm, j.vm} \cap About({"gone", "hand"}, i.ek) # {}
  BY <1>2, <1>5 DEF BInv, RInv, IInv, PinsUnique, Still
<1>7. QED
  BY <1>6 DEF About, Kind

\* auth.go, pin.go: one EK belongs to one VM, wherever the pins are kept.  Two VMs
\* never both get certificates on one EK, for any number of legs, with failing stores,
\* restarts, and reloads that connections have not seen, unless something outside the
\* service gave this EK to one of the two, took it away or made its guest disappear.
THEOREM SoleOwnerAlways == Spec => []SoleOwner
<1>1. Init => OwnerInv
  <2>1. Unbound.pin \notin EK
    BY ConstantsAssumption DEF Unbound
  <2>2. QED
    BY <2>1, ConstantsAssumption DEF Init, OwnerInv, Owns, Finds, Holders, TakenPC
<1>2. BInv /\ OwnerInv /\ [Next]_vars => OwnerInv'
  BY OwnerStep
<1>3. QED
  BY <1>1, <1>2, OwnersDiffer, BInvariance, PTL DEF Spec

-----------------------------------------------------------------------------
(* Every leg moves forward. *)

\* How far leg c has come.  The scan at authentication and the scan under the mutex
\* are different stages; in each, the store is read before the cluster directory.
Stage(c) ==
    CASE pc[c] = "ownCluster"       -> 0
      [] pc[c] = "ownStored"        -> 1
      [] pc[c] \in ScanPC           ->
            (IF pinCreateMu = c THEN 9 ELSE 2)
              + (IF pc[c] = "list" THEN 0 ELSE IF scan[c].src = "store" THEN 1 ELSE 2)
      [] pc[c] \in {"put", "take"}  -> 5
      [] pc[c] = "lock"             -> 6
      [] pc[c] = "ensCluster"       -> 7
      [] pc[c] = "ensStored"        -> 8
      [] pc[c] = "create"           -> 12
      [] pc[c] = "reread"           -> 13
      [] pc[c] = "remove"           -> 14
      [] pc[c] = "recreate"         -> 15
      [] OTHER                      -> 16

\* Leg c has come further: to a later stage, or within its scan to fewer files still
\* to read, or with the same files to fewer matches still to look up, or with the
\* same of both to the next look at the guest of one of them.
Further(c) ==
    \/ Stage(c)' > Stage(c)
    \/ /\ Stage(c)' = Stage(c)
       /\ \/ scan'[c].todo \subseteq scan[c].todo /\ scan'[c].todo # scan[c].todo
          \/ /\ scan'[c].todo = scan[c].todo
             /\ scan'[c].hits \subseteq scan[c].hits /\ scan'[c].hits # scan[c].hits
          \/ /\ scan'[c].todo = scan[c].todo /\ scan'[c].hits = scan[c].hits
             /\ <<pc[c], pc'[c]>> \in {<<"pins", "look1">>, <<"look1", "look2">>}

\* The names the scan of leg c looks up: of the files it still has to read, or of
\* the cluster pins that match.
Names(c) == IF scan[c].src = "store" THEN scan[c].todo ELSE scan[c].hits

\* The suspect of a scan is one of the names still to look at.
SuspectInv ==
    \A c \in Conn : pc[c] \in {"look1", "look2"} => scan[c].suspect \in Names(c)

\* A leg under way stays where it is, answers, or comes further: no retry after a
\* file that exists or is empty, no second look and no run of the scan goes round.
GoesForward ==
    [][\A c \in Conn : pc[c] # "idle" /\ pc'[c] # "idle" =>
          (pc'[c] = pc[c] /\ scan'[c] = scan[c]) \/ Further(c)]_vars

\* A suspect is looked up while its name is on the list.
LEMMA SuspectStep ==
    ASSUME TypeOK, SuspectInv, [Next]_vars
    PROVE  SuspectInv'
<1>1. ASSUME NEW c \in Conn, Accept(c)
      PROVE  SuspectInv'
  <2>1. /\ UNCHANGED scan
        /\ pc'[c] \in {"idle", "list", "ownCluster", "ownStored"}
        /\ \A d \in Conn \ {c} : pc'[d] = pc[d]
    BY <1>1 DEF Accept, Connect, HandleStart, HandleFinish, Authenticate, Goto, TypeOK
  <2>2. QED
    BY <2>1 DEF SuspectInv, Names
<1>2. ASSUME NEW c \in Conn, Serve(c) \/ Lock(c)
      PROVE  SuspectInv'
  <2>1. pc'[c] \in {"look1", "look2"} => scan'[c].suspect \in Names(c)'
    <3>1. CASE \E w \in VM : CheckPin(c, w) \/ ReadClusterPin(c, w) \/ CheckClusterPin(c, w)
      <4>1. CASE \E w \in VM : ReadClusterPin(c, w)
        BY <4>1, ReadEffect
      <4>2. QED
        BY <3>1, <4>1 DEF CheckPin, CheckClusterPin, Goto, TypeOK, ScanRec, Names
    <3>2. CASE LookForGuest(c)
      BY <3>2, LookEffect, ZenonT(40) DEF End, TypeOK, SuspectInv, Names
    <3>3. CASE OwnCluster(c) \/ OwnStored(c) \/ ListPins(c) \/ ListClusterPins(c)
               \/ Put(c) \/ Take(c) \/ Lock(c) \/ Issue(c) \/ StoreError(c)
      BY <3>3 DEF OwnCluster, OwnStored, ListPins, ListClusterPins, Put, Take, Lock, Issue,
                  StoreError, Goto, End, TypeOK
    <3>4. CASE CheckInventory(c)
      BY <3>4 DEF CheckInventory, FilesDone, Unpinned, Ensured, Goto, End, TypeOK
    <3>5. CASE \/ EnsureCluster(c) \/ EnsureStored(c) \/ Create(c) \/ Reread(c)
               \/ Remove(c) \/ Recreate(c)
      BY <3>5 DEF EnsureCluster, EnsureStored, Create, Reread, Remove, Recreate, Ensured,
                  Goto, End, TypeOK
    <3>6. QED
      BY <1>2, <3>1, <3>2, <3>3, <3>4, <3>5 DEF Serve, Scan
  <2>2. QED
    BY <1>2, <2>1, LegFrame DEF SuspectInv, Names
<1>3. CASE Restart
  BY <1>3 DEF Restart, SuspectInv
<1>4. CASE Quiet
  BY <1>4, QuietFrame DEF SuspectInv, Names
<1>5. QED
  BY <1>1, <1>2, <1>3, <1>4 DEF Next, Quiet

\* A step of the leg itself answers or brings it further.
LEMMA FurtherStep ==
    ASSUME IInv, SuspectInv, NEW c \in Conn, Serve(c) \/ Lock(c), pc'[c] # "idle"
    PROVE  Further(c)
<1> USE DEF ScanPC, Further
<1>1. pinCreateMu = c => pc[c] \in EnsurePC \cup ScanPC
  BY DEF IInv, MutexInv
<1>2. pc[c] \in EnsurePC => pinCreateMu = c
  BY DEF IInv, MutexInv
<1>3. CASE OwnCluster(c) \/ OwnStored(c)
  <2>1. /\ pc[c] \in {"ownCluster", "ownStored"} /\ pinCreateMu' # c
        /\ \/ pc'[c] = "list"
           \/ pc[c] = "ownCluster" /\ pc'[c] = "ownStored"
    BY <1>1, <1>3 DEF OwnCluster, OwnStored, Goto, End, IInv, TypeOK, EnsurePC, TakenPC, local
  <2>2. QED
    BY <2>1 DEF Stage
<1>4. CASE ListPins(c)
  <2>1. /\ pc[c] = "list" /\ pc'[c] = "pins" /\ scan'[c].src = "store"
        /\ UNCHANGED pinCreateMu
    BY <1>4 DEF ListPins, Goto, IInv, TypeOK, ScanRec
  <2>2. QED
    BY <2>1 DEF Stage
<1>5. CASE ListClusterPins(c)
  <2>1. /\ pc[c] = "pins" /\ pc'[c] = "pins" /\ scan[c].src = "store"
        /\ scan'[c].src = "cluster" /\ UNCHANGED pinCreateMu
    BY <1>5 DEF ListClusterPins, IInv, TypeOK, ScanRec
  <2>2. QED
    BY <2>1 DEF Stage
<1>6. ASSUME NEW w \in VM, CheckPin(c, w) \/ ReadClusterPin(c, w) \/ CheckClusterPin(c, w)
      PROVE  Further(c)
  <2>1. /\ pc[c] = "pins"
        /\ scan'[c].src = scan[c].src /\ UNCHANGED pinCreateMu
        /\ \/ /\ pc'[c] = "look1"
              /\ scan'[c].todo = scan[c].todo /\ scan'[c].hits = scan[c].hits
           \/ pc'[c] = "pins" /\ w \in scan[c].todo /\ scan'[c].todo = scan[c].todo \ {w}
    BY <1>6 DEF CheckPin, ReadClusterPin, CheckClusterPin, Goto, IInv, TypeOK, ScanRec
  <2>2. Stage(c)' = Stage(c)
    BY <2>1 DEF Stage
  <2>3. QED
    BY <2>1, <2>2
<1>7. CASE LookForGuest(c)
  <2>1. /\ scan'[c].src = scan[c].src /\ UNCHANGED pinCreateMu
        /\ \/ /\ pc[c] = "look1" /\ pc'[c] = "look2"
              /\ scan'[c].todo = scan[c].todo /\ scan'[c].hits = scan[c].hits
           \/ /\ pc[c] = "look2" /\ pc'[c] = "pins"
              /\ scan'[c].todo = scan[c].todo \ {scan[c].suspect}
              /\ scan'[c].hits = scan[c].hits \ {scan[c].suspect}
    BY <1>7 DEF LookForGuest, Goto, End, IInv, TypeOK, ScanRec, local
  <2>2. Stage(c)' = Stage(c)
    BY <2>1 DEF Stage
  <2>3. QED
    BY <2>1, <2>2 DEF SuspectInv, Names
<1>8. CASE CheckInventory(c)
  <2>1. /\ pc[c] = "pins" /\ scan[c].src = "cluster"
        /\ \/ pinCreateMu = c /\ pc'[c] \in {"issue", "create"}
           \/ pinCreateMu # c /\ pc'[c] \in {"put", "take"}
    BY <1>8 DEF CheckInventory, FilesDone, Unpinned, Ensured, Goto, End, IInv, TypeOK
  <2>2. QED
    BY <2>1 DEF Stage
<1>9. CASE Take(c) \/ Lock(c)
  <2>1. \/ pc[c] = "take" /\ pc'[c] \in {"issue", "lock"}
        \/ pc[c] = "lock" /\ pc'[c] \in {"ensCluster", "ensStored"}
    BY <1>9 DEF Take, Lock, Goto, End, IInv, TypeOK
  <2>2. QED
    BY <2>1 DEF Stage
<1>10. CASE EnsureCluster(c)
  <2>1. pc[c] = "ensCluster" /\ pc'[c] \in {"issue", "ensStored"}
    BY <1>10 DEF EnsureCluster, Ensured, Goto, End, IInv, TypeOK
  <2>2. QED
    BY <2>1 DEF Stage
<1>11. CASE EnsureStored(c)
  <2>1. pc[c] = "ensStored" /\ pc'[c] = "list" /\ pinCreateMu' = c
    BY <1>2, <1>11 DEF EnsureStored, Goto, End, IInv, TypeOK, EnsurePC, TakenPC
  <2>2. QED
    BY <2>1 DEF Stage
<1>12. CASE Create(c) \/ Reread(c) \/ Remove(c) \/ Recreate(c)
  <2>1. \/ pc[c] = "create" /\ pc'[c] \in {"issue", "reread"}
        \/ pc[c] = "reread" /\ pc'[c] \in {"issue", "remove"}
        \/ pc[c] = "remove" /\ pc'[c] = "recreate"
        \/ pc[c] = "recreate" /\ pc'[c] = "issue"
    BY <1>12 DEF Create, Reread, Remove, Recreate, Ensured, Goto, End, IInv, TypeOK
  <2>2. QED
    BY <2>1 DEF Stage
<1>13. CASE Put(c) \/ Issue(c) \/ StoreError(c)
  BY <1>13 DEF Put, Issue, StoreError, End, IInv, TypeOK
<1>14. QED
  BY <1>3, <1>4, <1>5, <1>6, <1>7, <1>8, <1>9, <1>10, <1>11, <1>12, <1>13 DEF Serve, Scan

\* enroll.go, pin.go: a request ends after finitely many steps of its own, however
\* often other legs, the operator and the hypervisor change the files it reads; with
\* a fair scheduler and a fair mutex this is why every request is answered.
THEOREM LegsGoForward == Spec => GoesForward
<1>1. Init => SuspectInv
  BY DEF Init, SuspectInv
<1>2. IInv /\ SuspectInv /\ [Next]_vars => SuspectInv'
  BY SuspectStep DEF IInv
<1>3. IInv /\ SuspectInv /\ [Next]_vars =>
        [\A c \in Conn : pc[c] # "idle" /\ pc'[c] # "idle" =>
            (pc'[c] = pc[c] /\ scan'[c] = scan[c]) \/ Further(c)]_vars
  <2> SUFFICES ASSUME IInv, SuspectInv, [Next]_vars, NEW c \in Conn,
                      pc[c] # "idle", pc'[c] # "idle"
               PROVE  (pc'[c] = pc[c] /\ scan'[c] = scan[c]) \/ Further(c)
    OBVIOUS
  <2>1. ASSUME NEW d \in Conn, Serve(d) \/ Lock(d)
        PROVE  (pc'[c] = pc[c] /\ scan'[c] = scan[c]) \/ Further(c)
    BY <2>1, LegFrame, FurtherStep DEF IInv
  <2>2. ASSUME NEW d \in Conn, Accept(d)
        PROVE  pc'[c] = pc[c] /\ scan'[c] = scan[c]
    BY <2>2 DEF Accept, Connect, HandleStart, HandleFinish, Authenticate, Goto, IInv, TypeOK
  <2>3. CASE Quiet
    BY <2>3, QuietFrame
  <2>4. ~Restart
    BY DEF Restart
  <2>5. QED
    BY <2>1, <2>2, <2>3, <2>4 DEF Next, Quiet
<1>4. QED
  BY <1>1, <1>2, <1>3, Invariance, PTL DEF Spec, GoesForward

-----------------------------------------------------------------------------
(* The refinement. *)

\* A fresh install is a service without sessions and certificates.
LEMMA RefinesInit == Init => Service!Init
<1> SUFFICES ASSUME Init PROVE Service!Init
  OBVIOUS
<1>1. \A s \in Session : s \notin Redeemed
  BY ConstantsAssumption DEF Init, Redeemed, Holders, TakenPC
<1>2. \A s \in Session : sess[s] = Unused /\ Progress(sess[s].st) = "fresh"
  BY DEF Init, Unused, Progress
<1>3. AbsSession = [s \in Session |-> Service!Fresh]
  BY <1>1, <1>2 DEF AbsSession, Unused, Service!Fresh
<1>4. QED
  BY <1>3 DEF Init, Service!Init

\* Only legs hold sessions.
LEMMA HoldersAreLegs == Holders \subseteq Conn /\ Holders' \subseteq Conn
BY DEF Holders

\* What a session is, seen from outside.
LEMMA AbsAt ==
    ASSUME NEW s \in Session
    PROVE  /\ s \in Redeemed =>
                AbsSession[s] = [st |-> "redeemed", vm |-> sess[s].vm, ek |-> sess[s].ek]
           /\ s \notin Redeemed =>
                AbsSession[s] = [st |-> Progress(sess[s].st),
                                 vm |-> sess[s].vm, ek |-> sess[s].ek]
           /\ s \in Redeemed' =>
                AbsSession'[s] = [st |-> "redeemed", vm |-> sess'[s].vm, ek |-> sess'[s].ek]
           /\ s \notin Redeemed' =>
                AbsSession'[s] = [st |-> Progress(sess'[s].st),
                                  vm |-> sess'[s].vm, ek |-> sess'[s].ek]
BY DEF AbsSession

\* The four states of the table.
LEMMA ProgressAt ==
    /\ Progress("unused") = "fresh" /\ Progress("live") = "open"
    /\ Progress("expired") = "closed" /\ Progress("gone") = "closed"
BY DEF Progress

\* A session nobody touches looks the same.
LEMMA AbsSame ==
    ASSUME NEW s \in Session, s \in Redeemed' <=> s \in Redeemed,
           sess'[s].vm = sess[s].vm, sess'[s].ek = sess[s].ek,
           Progress(sess'[s].st) = Progress(sess[s].st)
    PROVE  AbsSession'[s] = AbsSession[s]
BY AbsAt

\* Steps after which every session looks as before are not seen at all.
LEMMA Unseen ==
    ASSUME UNCHANGED issued,
           \A s \in Session : AbsSession'[s] = AbsSession[s]
    PROVE  UNCHANGED Service!vars
<1>1. AbsSession' = AbsSession
  BY DEF AbsSession
<1>2. QED
  BY <1>1 DEF Service!vars

\* Steps after which one session is closed and the others look as before.
LEMMA DropsOne ==
    ASSUME UNCHANGED issued, NEW s \in Session,
           AbsSession[s].st \in {"open", "redeemed"},
           AbsSession'[s] = [AbsSession[s] EXCEPT !.st = "closed"],
           \A t \in Session \ {s} : AbsSession'[t] = AbsSession[t]
    PROVE  Service!Next
<1>1. AbsSession' = [t \in Session |->
         IF t \in {s} THEN [AbsSession[t] EXCEPT !.st = "closed"] ELSE AbsSession[t]]
  BY DEF AbsSession
<1>2. Service!Drop({s})
  BY <1>1 DEF Service!Drop
<1>3. QED
  BY <1>2 DEF Service!Next

\* When leg c moves, a session is being redeemed by the legs that did so before,
\* and by c if it holds one now.
LEMMA RedeemingSplit ==
    ASSUME NEW c \in Conn,
           \A d \in Conn \ {c} : (d \in Holders' <=> d \in Holders) /\ req'[d] = req[d],
           NEW s \in Session
    PROVE  /\ ~(c \in Holders /\ req[c].sid = s) /\ ~(c \in Holders' /\ req'[c].sid = s)
                => (s \in Redeemed' <=> s \in Redeemed)
           /\ c \in Holders' /\ req'[c].sid = s => s \in Redeemed'
           /\ c \in Holders /\ req[c].sid = s => s \in Redeemed
BY HoldersAreLegs DEF Redeemed

\* The only leg that redeems a session gives it up.
LEMMA GivenUp ==
    ASSUME HoldInv, NEW c \in Conn, c \in Holders, c \notin Holders',
           \A d \in Conn \ {c} : (d \in Holders' <=> d \in Holders) /\ req'[d] = req[d]
    PROVE  req[c].sid \notin Redeemed'
BY HoldersAreLegs DEF Redeemed, HoldInv

\* A leg opens a session.
LEMMA RefinesPut ==
    ASSUME RInv, NEW c \in Conn, Put(c)
    PROVE  Service!Next
<1> USE DEF RInv, IInv
<1>1. PICK s \in Session :
         /\ sess[s] = Unused
         /\ sess' = [purgeLocked EXCEPT
                       ![s] = [st |-> "live", vm |-> vmid(c), ek |-> fp(c)]]
  BY DEF Put
<1>2. /\ c \notin Holders /\ c \notin Holders' /\ UNCHANGED issued
      /\ vmid(c) \in VM /\ fp(c) \in EK
  BY ConstantsAssumption
     DEF Put, End, Holders, MutexInv, TakenPC, EnsurePC, ScanPC, LegBound, TypeOK
<1>3. \A t \in Session : t \in Redeemed' <=> t \in Redeemed
  BY <1>2, LegKinds, RedeemingSplit DEF Serve
<1>4. s \notin Redeemed
  BY <1>1, HoldersAreLegs DEF Redeemed, HoldInv, Unused
<1>5. sess'[s] = [st |-> "live", vm |-> vmid(c), ek |-> fp(c)]
  BY <1>1, Purged
<1>6. AbsSession'[s] = [st |-> "open", vm |-> vmid(c), ek |-> fp(c)]
  <2>1. AbsSession'[s] = [st |-> Progress(sess'[s].st), vm |-> sess'[s].vm,
                          ek |-> sess'[s].ek]
    BY <1>3, <1>4, AbsAt
  <2>2. sess'[s].st = "live" /\ sess'[s].vm = vmid(c) /\ sess'[s].ek = fp(c)
    BY <1>5
  <2>3. QED
    BY <2>1, <2>2, ProgressAt
<1>7. AbsSession[s] = Service!Fresh
  <2>1. sess[s].st = "unused" /\ sess[s].vm = NoVM /\ sess[s].ek = NoPin
    BY <1>1 DEF Unused
  <2>2. QED
    BY <1>4, <2>1, AbsAt, ProgressAt DEF Service!Fresh
<1>8. \A t \in Session \ {s} : AbsSession'[t] = AbsSession[t]
  <2>1. \A t \in Session \ {s} :
           sess'[t].vm = sess[t].vm /\ sess'[t].ek = sess[t].ek
           /\ Progress(sess'[t].st) = Progress(sess[t].st)
    BY <1>1, Purged DEF Progress
  <2>2. QED
    BY <1>3, <2>1, AbsSame
<1>9. AbsSession' = [AbsSession EXCEPT ![s] = [st |-> "open", vm |-> vmid(c), ek |-> fp(c)]]
  BY <1>6, <1>8 DEF AbsSession
<1>10. Service!Open(s, vmid(c), fp(c))
  BY <1>2, <1>7, <1>9 DEF Service!Open
<1>11. QED
  BY <1>2, <1>10 DEF Service!Next

\* A leg takes a session out of the table: it redeems it, or the session is lost,
\* or there was none.
LEMMA RefinesTake ==
    ASSUME RInv, NEW c \in Conn, Take(c)
    PROVE  Service!Next \/ UNCHANGED Service!vars
<1> USE DEF RInv, IInv
<1> DEFINE s == req[c].sid
<1>1. /\ pc[c] = "take" /\ c \notin Holders /\ UNCHANGED issued
      /\ s \in Session
  BY DEF Take, Holders, MutexInv, FinishBound, TakenPC, EnsurePC, ScanPC, AuthPC
<1>2. \A d \in Conn \ {c} : (d \in Holders' <=> d \in Holders) /\ req'[d] = req[d]
  BY LegKinds DEF Serve
<1>3. \A t \in Session :
         (t # s \/ c \notin Holders') /\ (c \in Holders' => req'[c].sid = s)
             => (t \in Redeemed' <=> t \in Redeemed)
  BY <1>1, <1>2, RedeemingSplit
<1>4. c \in Holders' => Matches(c) /\ req'[c].sid = s
  BY <1>1, ConstantsAssumption DEF Take, End, Holders, TakenPC, TypeOK, local
<1>5. CASE sess[s].st # "live"
  <2>1. c \notin Holders' /\ sess' = purgeLocked
    BY <1>4, <1>5 DEF Take, Matches
  <2>2. \A t \in Session :
           sess'[t].vm = sess[t].vm /\ sess'[t].ek = sess[t].ek
           /\ Progress(sess'[t].st) = Progress(sess[t].st)
    BY <2>1, Purged DEF Progress
  <2>3. QED
    BY <1>1, <1>3, <2>1, <2>2, AbsSame, Unseen
<1>6. CASE sess[s].st = "live"
  <2>1. sess' = [purgeLocked EXCEPT ![s].st = "gone"]
    BY <1>6 DEF Take
  <2>2. sess'[s].vm = sess[s].vm /\ sess'[s].ek = sess[s].ek /\ sess'[s].st = "gone"
    BY <1>1, <2>1, Purged DEF SessRec
  <2>3. s \notin Redeemed
    BY <1>6, HoldersAreLegs DEF Redeemed, HoldInv
  <2>4. AbsSession[s] = [st |-> "open", vm |-> sess[s].vm, ek |-> sess[s].ek]
    BY <1>1, <1>6, <2>3, AbsAt, ProgressAt, ZenonT(40)
  <2>5. \A t \in Session \ {s} : AbsSession'[t] = AbsSession[t]
    <3>1. \A t \in Session \ {s} :
             sess'[t].vm = sess[t].vm /\ sess'[t].ek = sess[t].ek
             /\ Progress(sess'[t].st) = Progress(sess[t].st)
      BY <2>1, Purged DEF Progress
    <3>2. QED
      BY <1>3, <1>4, <3>1, AbsSame
  <2>6. CASE c \in Holders'
    <3>1. s \in Redeemed'
      BY <1>4, <2>6 DEF Redeemed
    <3>2. AbsSession'[s] = [st |-> "redeemed", vm |-> sess[s].vm, ek |-> sess[s].ek]
      BY <1>1, <2>2, <3>1, AbsAt
    <3>3. AbsSession'[s] = [AbsSession[s] EXCEPT !.st = "redeemed"]
      BY <2>4, <3>2
    <3>4. AbsSession' = [AbsSession EXCEPT ![s].st = "redeemed"]
      <4>1. /\ AbsSession = [t \in Session |-> AbsSession[t]]
            /\ AbsSession' = [t \in Session |-> AbsSession'[t]]
        BY DEF AbsSession
      <4>2. QED
        BY <1>1, <2>5, <3>3, <4>1
    <3>5. Service!Redeem(s)
      BY <1>1, <2>4, <3>4 DEF Service!Redeem
    <3>6. QED
      BY <1>1, <3>5 DEF Service!Next
  <2>7. CASE c \notin Holders'
    <3>1. s \notin Redeemed'
      BY <1>1, <1>3, <2>3, <2>7
    <3>2. AbsSession'[s] = [st |-> Progress(sess'[s].st), vm |-> sess'[s].vm,
                            ek |-> sess'[s].ek]
      BY <1>1, <3>1, AbsAt
    <3>3. Progress(sess'[s].st) = "closed"
      BY <2>2, ProgressAt
    <3>4. AbsSession'[s] = [st |-> "closed", vm |-> sess[s].vm, ek |-> sess[s].ek]
      BY <2>2, <3>2, <3>3
    <3>5. AbsSession'[s] = [AbsSession[s] EXCEPT !.st = "closed"]
      BY <2>4, <3>4
    <3>6. QED
      BY <1>1, <2>4, <2>5, <3>5, DropsOne
  <2>8. QED
    BY <2>6, <2>7
<1>7. QED
  BY <1>5, <1>6

\* The CA signs for the session the leg holds.
LEMMA RefinesIssue ==
    ASSUME RInv, NEW c \in Conn, Issue(c)
    PROVE  Service!Next
<1> USE DEF RInv, IInv
<1> DEFINE s == req[c].sid
<1>1. /\ c \in Holders /\ c \notin Holders' /\ UNCHANGED sess
      /\ issued' = issued \cup {[sid |-> s, vm |-> sess[s].vm, ek |-> fp(c)]}
  BY ConstantsAssumption DEF Issue, End, Holders, TakenPC, TypeOK
<1>2. s \in Session /\ sess[s].ek = fp(c) /\ sess[s].st = "gone"
  BY <1>1, HolderFinishes DEF HoldInv
<1>3. \A d \in Conn \ {c} : (d \in Holders' <=> d \in Holders) /\ req'[d] = req[d]
  BY LegKinds DEF Serve
<1>4. s \in Redeemed /\ s \notin Redeemed'
  BY <1>1, <1>3, GivenUp DEF Redeemed
<1>5. /\ AbsSession[s] = [st |-> "redeemed", vm |-> sess[s].vm, ek |-> sess[s].ek]
      /\ AbsSession'[s] = [st |-> "closed", vm |-> sess[s].vm, ek |-> sess[s].ek]
  BY <1>1, <1>2, <1>4, AbsAt, ProgressAt
<1>6. \A t \in Session \ {s} : AbsSession'[t] = AbsSession[t]
  BY <1>1, <1>3, RedeemingSplit, AbsSame
<1>7. AbsSession' = [AbsSession EXCEPT ![s].st = "closed"]
  <2>1. /\ AbsSession = [t \in Session |-> AbsSession[t]]
        /\ AbsSession' = [t \in Session |-> AbsSession'[t]]
    BY DEF AbsSession
  <2>2. AbsSession'[s] = [AbsSession[s] EXCEPT !.st = "closed"]
    BY <1>5
  <2>3. QED
    BY <1>2, <1>6, <2>1, <2>2
<1>8. Service!Grant(s)
  BY <1>1, <1>2, <1>5, <1>7 DEF Service!Grant
<1>9. QED
  BY <1>2, <1>8 DEF Service!Next

\* The other steps of a leg: it goes on, or it answers and its session is lost.
LEMMA RefinesLeg ==
    ASSUME RInv, NEW c \in Conn, Serve(c) \/ Lock(c)
    PROVE  Service!Next \/ UNCHANGED Service!vars
<1> USE DEF RInv, IInv
<1>1. \A d \in Conn \ {c} : (d \in Holders' <=> d \in Holders) /\ req'[d] = req[d]
  BY LegKinds
<1>2. CASE UNCHANGED <<sess, issued, req>> /\ (c \in Holders' <=> c \in Holders)
  <2>1. Redeemed' = Redeemed
    BY <1>1, <1>2, HoldersAreLegs DEF Redeemed
  <2>2. QED
    BY <1>2, <2>1, AbsSame, Unseen
<1>3. CASE UNCHANGED <<sess, issued>> /\ c \notin Holders' /\ c \notin Holders
  <2>1. \A t \in Session : t \in Redeemed' <=> t \in Redeemed
    BY <1>1, <1>3, RedeemingSplit
  <2>2. QED
    BY <1>3, <2>1, AbsSame, Unseen
<1>4. CASE UNCHANGED <<sess, issued>> /\ c \notin Holders' /\ c \in Holders
  <2> DEFINE s == req[c].sid
  <2>1. s \in Session /\ sess[s].st = "gone"
    BY <1>4, HolderFinishes DEF HoldInv
  <2>2. s \in Redeemed /\ s \notin Redeemed'
    BY <1>1, <1>4, GivenUp DEF Redeemed
  <2>3. /\ AbsSession[s] = [st |-> "redeemed", vm |-> sess[s].vm, ek |-> sess[s].ek]
        /\ AbsSession'[s] = [st |-> "closed", vm |-> sess[s].vm, ek |-> sess[s].ek]
    BY <1>4, <2>1, <2>2, AbsAt, ProgressAt
  <2>4. \A t \in Session \ {s} : AbsSession'[t] = AbsSession[t]
    BY <1>1, <1>4, RedeemingSplit, AbsSame
  <2>5. QED
    BY <1>4, <2>1, <2>3, <2>4, DropsOne
<1>5. QED
  BY <1>2, <1>3, <1>4, LegKinds, RefinesPut, RefinesTake, RefinesIssue

\* A session that grows old is lost.
LEMMA RefinesExpire ==
    ASSUME RInv, NEW s \in Session, Expire(s)
    PROVE  Service!Next
<1> USE DEF RInv, IInv
<1>1. /\ sess[s].st = "live" /\ UNCHANGED <<pc, pinCreateMu, req, issued>>
      /\ sess' = [sess EXCEPT ![s].st = "expired"]
  BY DEF Expire, local
<1>2. Redeemed' = Redeemed
  BY <1>1 DEF Redeemed, Holders
<1>3. s \notin Redeemed
  BY <1>1, HoldersAreLegs DEF Redeemed, HoldInv
<1>4. sess'[s].st = "expired" /\ sess'[s].vm = sess[s].vm /\ sess'[s].ek = sess[s].ek
  BY <1>1 DEF TypeOK, SessRec
<1>5. /\ AbsSession[s] = [st |-> "open", vm |-> sess[s].vm, ek |-> sess[s].ek]
      /\ AbsSession'[s] = [st |-> "closed", vm |-> sess[s].vm, ek |-> sess[s].ek]
  <2>1. AbsSession[s] = [st |-> Progress(sess[s].st), vm |-> sess[s].vm, ek |-> sess[s].ek]
    BY <1>3, AbsAt
  <2>2. AbsSession'[s] = [st |-> Progress(sess'[s].st), vm |-> sess'[s].vm,
                          ek |-> sess'[s].ek]
    BY <1>2, <1>3, AbsAt
  <2>3. QED
    BY <1>1, <1>4, <2>1, <2>2, ProgressAt
<1>6. \A t \in Session \ {s} : AbsSession'[t] = AbsSession[t]
  <2>1. \A t \in Session \ {s} : sess'[t] = sess[t]
    BY <1>1 DEF TypeOK
  <2>2. QED
    BY <1>2, <2>1, AbsSame
<1>7. QED
  BY <1>1, <1>5, <1>6, DropsOne

\* A restart loses every session there is.
LEMMA RefinesRestart ==
    ASSUME RInv, Restart
    PROVE  Service!Next
<1> USE DEF RInv, IInv
<1> DEFINE S == {s \in Session : AbsSession[s].st \in {"open", "redeemed"}}
<1>1. Redeemed' = {}
  BY ConstantsAssumption DEF Restart, Redeemed, Holders, TakenPC
<1>2. ASSUME NEW s \in Session
      PROVE  AbsSession'[s] =
               IF s \in S THEN [AbsSession[s] EXCEPT !.st = "closed"] ELSE AbsSession[s]
  <2>1. sess[s] \in SessRec
    BY DEF TypeOK
  <2>2. CASE sess[s] = Unused
    <3>1. s \notin Redeemed /\ sess'[s] = sess[s] /\ sess[s].st = "unused"
      BY <2>2, HoldersAreLegs DEF Restart, Redeemed, HoldInv, Unused
    <3>2. AbsSession'[s] = AbsSession[s] /\ AbsSession[s].st = "fresh"
      <4>1. s \notin Redeemed' /\ UNCHANGED sess[s]
        BY <1>1, <3>1
      <4>2. AbsSession'[s] = AbsSession[s]
        BY <3>1, <4>1, AbsSame
      <4>3. AbsSession[s].st = Progress(sess[s].st)
        BY <3>1 DEF AbsSession
      <4>4. QED
        BY <3>1, <4>2, <4>3, ProgressAt
    <3>3. QED
      BY <3>2
  <2>3. CASE sess[s] # Unused
    <3>1. sess'[s].st = "gone" /\ sess'[s].vm = sess[s].vm /\ sess'[s].ek = sess[s].ek
      BY <2>1, <2>3 DEF Restart, SessRec
    <3>2. AbsSession'[s] = [st |-> "closed", vm |-> sess[s].vm, ek |-> sess[s].ek]
      BY <1>1, <3>1, AbsAt, ProgressAt
    <3>3. sess[s].st \in {"live", "expired", "gone"}
      BY <2>1, <2>3 DEF SessRec, DrawnInv
    <3>4. \E st \in {"open", "redeemed", "closed"} :
             AbsSession[s] = [st |-> st, vm |-> sess[s].vm, ek |-> sess[s].ek]
      BY <3>3, AbsAt, ProgressAt
    <3>5. QED
      BY <3>2, <3>4
  <2>4. QED
    BY <2>2, <2>3
<1>3. AbsSession' = [s \in Session |->
         IF s \in S THEN [AbsSession[s] EXCEPT !.st = "closed"] ELSE AbsSession[s]]
  <2>1. AbsSession' = [s \in Session |-> AbsSession'[s]]
    BY DEF AbsSession
  <2>2. QED
    BY <1>2, <2>1
<1>4. Service!Drop(S)
  BY <1>3 DEF Restart, Service!Drop
<1>5. QED
  BY <1>4 DEF Service!Next

\* Every step of the service is a step of EnrollService, or is not seen.
LEMMA RefinesNext == RInv /\ [Next]_vars => [Service!Next]_(Service!vars)
<1> SUFFICES ASSUME RInv, [Next]_vars
             PROVE  Service!Next \/ UNCHANGED Service!vars
  OBVIOUS
<1>1. ASSUME NEW c \in Conn, Accept(c)
      PROVE  UNCHANGED Service!vars
  <2>1. Redeemed' = Redeemed /\ UNCHANGED <<sess, issued>>
    BY <1>1, AcceptFrame, HoldersAreLegs DEF Redeemed, RInv, IInv
  <2>2. QED
    BY <2>1, AbsSame, Unseen
<1>2. CASE Outside \/ UNCHANGED vars
  <2>1. UNCHANGED <<sess, issued, pc, pinCreateMu, req>>
    BY <1>2 DEF vars, Outside, ResetPin, WritePin, SetClusterPin, Reload,
                DestroyGuest, CreateGuest, Touches, local
  <2>2. Redeemed' = Redeemed
    BY <2>1 DEF Redeemed, Holders
  <2>3. QED
    BY <2>1, <2>2, AbsSame, Unseen
<1>3. QED
  BY <1>1, <1>2, RefinesLeg, RefinesExpire, RefinesRestart DEF Next

\* The service implements EnrollService: every certificate is the answer to one
\* redemption of one session and names the VM and the EK that opened it, for any
\* number of legs, whatever is retried, fails, expires, is restarted or is
\* changed outside.
THEOREM Implements == Spec => ImplementsService
<1>1. RInv /\ [Next]_vars => [Service!Next]_(Service!vars)
  BY RefinesNext
<1>2. QED
  BY <1>1, RefinesInit, RInvariance, PTL DEF Spec, ImplementsService, Service!Spec
=============================================================================
