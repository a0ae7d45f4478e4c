----------------------------- MODULE HealthProofs -----------------------------
(***************************************************************************)
(* Proofs about the health answer, for any number of concurrent requests,  *)
(* any TTL and any changes of the CA files and loads of the inventory.     *)
(***************************************************************************)
EXTENDS Health, TLAPS

\* The histories have their types; the finding of a file is from the present at the
\* latest, and its present state was found just now.
HistoryType ==
    /\ up \in [File -> Int] /\ down \in [File -> Int]
    /\ \A f \in File : /\ IF readable[f] THEN up[f] = now ELSE down[f] = now
                       /\ up[f] <= now /\ down[f] <= now
    /\ lastLoad \in {"none", "good", "failed"}
    /\ began \in [Request -> Int]
    /\ fine \in [Request -> BOOLEAN] /\ faulty \in [Request -> BOOLEAN]

TypeInv == TypeOK /\ HistoryType

\* What the loads left is what the last of them did.
LoadInv ==
    /\ lastErrorClass = "inventory_load_failed" <=> lastLoad = "failed"
    /\ lastLoad = "good" => inventoryLoaded

\* A request under way came after the first load, and its histories include the present.
RequestInv ==
    \A r \in Request : pc[r] # "idle" =>
        /\ began[r] <= now /\ lastLoad # "none"
        /\ lastLoad = "good" => fine[r]
        /\ lastLoad # "good" => faulty[r]

\* What a request has copied was so at some moment of the request.
CopyInv ==
    \A r \in Request : pc[r] \notin {"idle", "copy"} =>
        /\ local[r].err # "devid_ca_unreadable"
        /\ local[r].err = "" => local[r].loaded /\ fine[r]
        /\ local[r].err # "" => faulty[r]

\* Each file was readable (unreadable, some file was so) at t or later.
AllSince(t)  == \A f \in File : up[f] >= t
SomeSince(t) == \E f \in File : down[f] >= t

\* A finding ok about the CA, taken from time t on.
Finding(ok, t) ==
    /\ ok => devid /\ AllSince(t)
    /\ ~ok /\ devid => SomeSince(t)

\* The time of a check is from before the check and from within the request.
ClockAt(r) ==
    pc[r] \in {"cache", "cert", "key", "store"} =>
        /\ began[r] <= local[r].at /\ local[r].at <= now
        /\ pc[r] \in {"cert", "key"} => devid

\* What a request has found so far is no older than its time; the finding it answers
\* with is younger than a TTL before the request.
FindingAt(r) ==
    /\ pc[r] = "key" => up["cert"] >= local[r].at
    /\ pc[r] = "store" => Finding(local[r].ok, local[r].at)
    /\ pc[r] = "answer" /\ attestation => Finding(local[r].ok, began[r] - TTL + 1)

\* So is the cached finding.
CachedInv == caCheckedAt # 0 => Finding(caReadable, caCheckedAt)

FindingInv == CachedInv /\ \A r \in Request : ClockAt(r) /\ FindingAt(r)

IInv == TypeInv /\ LoadInv /\ RequestInv /\ CopyInv /\ FindingInv

-----------------------------------------------------------------------------
LEMMA TypeInvInit == Init => TypeInv
<1> SUFFICES ASSUME Init PROVE TypeInv
  OBVIOUS
<1>1. now \in 1..MaxTime + 1 /\ caCheckedAt \in 0..MaxTime + 1 /\ 0 \in 0..MaxTime + 1
  <2>1. now = 1 /\ caCheckedAt = 0
    BY DEF Init
  <2> QED
    BY <2>1, HealthAssumption
<1>2. Nothing \in [loaded : BOOLEAN, err : ErrorClass, at : 0..MaxTime + 1, ok : BOOLEAN]
  BY <1>1 DEF Nothing, ErrorClass
<1>3. TypeOK
  BY <1>1, <1>2 DEF Init, TypeOK, PC
<1>4. up \in [File -> Int] /\ down \in [File -> Int]
  <2>1. 1 \in Int /\ -TTL \in Int
    BY HealthAssumption
  <2>2. /\ up = [f \in File |-> IF readable[f] THEN 1 ELSE -TTL]
        /\ down = [f \in File |-> IF readable[f] THEN -TTL ELSE 1]
    BY DEF Init
  <2> QED
    BY <2>1, <2>2
<1>5. \A f \in File : /\ IF readable[f] THEN up[f] = now ELSE down[f] = now
                      /\ up[f] <= now /\ down[f] <= now
  <2>1. now = 1 /\ -TTL <= 1 /\ 1 <= 1
    <3>1. now = 1
      BY DEF Init
    <3> QED
      BY <3>1, HealthAssumption
  <2>2. \A f \in File : /\ up[f] = IF readable[f] THEN 1 ELSE -TTL
                        /\ down[f] = IF readable[f] THEN -TTL ELSE 1
    BY DEF Init
  <2> QED
    BY <2>1, <2>2
<1>6. began \in [Request -> Int]
  <2>1. began = [r \in Request |-> 0]
    BY DEF Init
  <2> QED
    BY <2>1
<1>7. /\ lastLoad \in {"none", "good", "failed"}
      /\ fine \in [Request -> BOOLEAN] /\ faulty \in [Request -> BOOLEAN]
  BY DEF Init
<1> QED
  BY <1>3, <1>4, <1>5, <1>6, <1>7 DEF TypeInv, HistoryType

\* The types of what a request holds.
Local == [loaded : BOOLEAN, err : ErrorClass, at : 0..MaxTime + 1, ok : BOOLEAN]

LEMMA GoType ==
    ASSUME TypeInv, NEW r \in Request, NEW from, NEW to \in PC, NEW loc \in Local,
           Go(r, from, to, loc)
    PROVE  pc' \in [Request -> PC] /\ local' \in [Request -> Local]
BY DEF TypeInv, TypeOK, Local, Go

\* A step of one request leaves the others where they are.
LEMMA GoEffect ==
    ASSUME TypeInv, NEW r \in Request, NEW from, NEW to, NEW loc, Go(r, from, to, loc)
    PROVE  /\ pc[r] = from /\ pc'[r] = to /\ local'[r] = loc
           /\ \A q \in Request : q # r => pc'[q] = pc[q] /\ local'[q] = local[q]
BY DEF TypeInv, TypeOK, Go

LEMMA TypeInvNext == TypeInv /\ [Next]_vars => TypeInv'
<1> SUFFICES ASSUME TypeInv, [Next]_vars PROVE TypeInv'
  OBVIOUS
<1> USE HealthAssumption
<1>0. Nothing \in Local
  BY DEF Nothing, Local, ErrorClass
<1>00. \A r \in Request : local[r] \in Local
  BY DEF TypeInv, TypeOK, Local
<1>01. /\ now \in 0..MaxTime + 1 /\ 0 \in 0..MaxTime + 1
       /\ caReadable \in BOOLEAN
  <2>1. now \in 1..MaxTime + 1 /\ caReadable \in BOOLEAN
    BY DEF TypeInv, TypeOK
  <2> QED
    BY <2>1
<1>1. CASE Tick
  <2>1. now' \in 1..MaxTime + 1 /\ now' = now + 1 /\ now \in Int
    <3>1. now \in 1..MaxTime + 1 /\ now <= MaxTime /\ now' = now + 1
      BY <1>1 DEF Tick, TypeInv, TypeOK
    <3> QED
      BY <3>1
  <2>2. TypeOK'
    BY <1>1, <2>1 DEF Tick, TypeInv, TypeOK, config, inventory, cached
  <2>3. up' \in [File -> Int] /\ down' \in [File -> Int]
    BY <1>1, <2>1 DEF Tick, TypeInv, HistoryType
  <2>4. \A f \in File : /\ IF readable'[f] THEN up'[f] = now' ELSE down'[f] = now'
                        /\ up'[f] <= now' /\ down'[f] <= now'
    <3>1. \A f \in File : up[f] \in Int /\ down[f] \in Int /\ up[f] <= now /\ down[f] <= now
      BY DEF TypeInv, HistoryType
    <3>2. \A f \in File : /\ up'[f] = IF readable[f] THEN now' ELSE up[f]
                          /\ down'[f] = IF readable[f] THEN down[f] ELSE now'
      BY <1>1 DEF Tick
    <3>3. readable' = readable
      BY <1>1 DEF Tick
    <3> QED
      BY <2>1, <3>1, <3>2, <3>3
  <2> QED
    BY <1>1, <2>2, <2>3, <2>4 DEF Tick, TypeInv, HistoryType
<1>2. ASSUME NEW f \in File, Change(f) PROVE TypeInv'
  BY <1>2 DEF Change, TypeInv, TypeOK, HistoryType, config, inventory, cached
<1>3. CASE recordInventoryLoadSuccess
  BY <1>3 DEF recordInventoryLoadSuccess, Load, TypeInv, TypeOK, HistoryType, config, cached
<1>4. CASE recordInventoryLoadFailure
  BY <1>4 DEF recordInventoryLoadFailure, Load, TypeInv, TypeOK, HistoryType, config, cached
<1>5. ASSUME NEW r \in Request, Begin(r) PROVE TypeInv'
  <2>1. pc' \in [Request -> PC] /\ local' \in [Request -> Local]
    BY <1>5, <1>0, GoType DEF Begin, PC
  <2> QED
    <3>1. TypeOK'
      BY <1>5, <2>1 DEF Begin, TypeInv, TypeOK, Local, config, inventory, cached
    <3>2. began' \in [Request -> Int]
      BY <1>5, <1>01 DEF Begin, TypeInv, HistoryType
    <3>3. fine' \in [Request -> BOOLEAN] /\ faulty' \in [Request -> BOOLEAN]
      BY <1>5 DEF Begin, TypeInv, HistoryType
    <3> QED
      BY <1>5, <3>1, <3>2, <3>3 DEF Begin, TypeInv, HistoryType
<1>6. ASSUME NEW r \in Request, Copy(r) \/ ReadClock(r) \/ LookUp(r) \/ OpenCert(r) \/ OpenKey(r)
      PROVE TypeInv'
  <2>1. pc' \in [Request -> PC] /\ local' \in [Request -> Local]
    <3>1. CASE Copy(r)
      <4>1. [Nothing EXCEPT !.loaded = inventoryLoaded, !.err = lastErrorClass] \in Local
        <5>1. inventoryLoaded \in BOOLEAN /\ lastErrorClass \in ErrorClass
          BY DEF TypeInv, TypeOK, ErrorClass
        <5> QED
          BY <5>1, <1>0 DEF Local
      <4> QED
        BY <3>1, <4>1, GoType DEF Copy, PC
    <3>2. CASE ReadClock(r)
      <4>1. [local[r] EXCEPT !.at = now] \in Local
        BY <1>00, <1>01 DEF Local
      <4> QED
        BY <3>2, <4>1, GoType DEF ReadClock, PC
    <3>3. CASE LookUp(r)
      <4>1. /\ [local[r] EXCEPT !.ok = caReadable, !.at = 0] \in Local
            /\ [local[r] EXCEPT !.ok = FALSE] \in Local
        BY <1>00, <1>01 DEF Local
      <4> QED
        BY <3>3, <4>1, <1>00, GoType DEF LookUp, PC
    <3>4. CASE OpenCert(r)
      <4>1. [local[r] EXCEPT !.ok = FALSE] \in Local
        BY <1>00 DEF Local
      <4> QED
        BY <3>4, <4>1, GoType DEF OpenCert, PC
    <3>5. CASE OpenKey(r)
      <4>1. [local[r] EXCEPT !.ok = readable["key"]] \in Local
        BY <1>00 DEF Local, TypeInv, TypeOK, File
      <4> QED
        BY <3>5, <4>1, GoType DEF OpenKey, PC
    <3> QED
      BY <1>6, <3>1, <3>2, <3>3, <3>4, <3>5
  <2>2. UNCHANGED <<world, cached>>
    BY <1>6 DEF Copy, ReadClock, LookUp, OpenCert, OpenKey
  <2> QED
    BY <2>1, <2>2 DEF TypeInv, TypeOK, HistoryType, Local, world, config, inventory, cached,
       history, counters
<1>7. ASSUME NEW r \in Request, Store(r) PROVE TypeInv'
  <2>1. [local[r] EXCEPT !.at = 0] \in Local
    BY <1>00 DEF Local
  <2>2. pc' \in [Request -> PC] /\ local' \in [Request -> Local]
    BY <1>7, <2>1, GoType DEF Store, PC
  <2> QED
    BY <1>7, <1>00, <2>2 DEF Store, TypeInv, TypeOK, HistoryType, Local, world, config,
       inventory, history, counters
<1>8. ASSUME NEW r \in Request, Answer(r) PROVE TypeInv'
  <2>1. pc' \in [Request -> PC] /\ local' \in [Request -> Local]
    BY <1>8, <1>0, GoType DEF Answer, PC
  <2> QED
    <3>1. TypeOK'
      BY <1>8, <2>1 DEF Answer, TypeInv, TypeOK, Local, config, inventory, cached
    <3>2. began' \in [Request -> Int]
      BY <1>8, <1>01 DEF Answer, TypeInv, HistoryType
    <3>3. fine' \in [Request -> BOOLEAN] /\ faulty' \in [Request -> BOOLEAN]
      BY <1>8 DEF Answer, TypeInv, HistoryType
    <3> QED
      BY <1>8, <3>1, <3>2, <3>3 DEF Answer, TypeInv, HistoryType
<1>9. CASE UNCHANGED vars
  BY <1>9 DEF vars, TypeInv, TypeOK, HistoryType, config, inventory, cached, history, counters
<1> QED
  BY <1>1, <1>2, <1>3, <1>4, <1>5, <1>6, <1>7, <1>8, <1>9 DEF Next

\* The server's fields, the cached answer and what requests hold have their types; the
\* error class of an unreadable CA never gets into the outcome of the loads.
THEOREM HealthTypeCorrect == Spec => []TypeOK
<1>1. Spec => []TypeInv
  BY TypeInvInit, TypeInvNext, PTL DEF Spec
<1> QED
  BY <1>1, PTL DEF TypeInv

-----------------------------------------------------------------------------
(***************************************************************************)
(* The loads and what requests copy of them.                               *)
(***************************************************************************)
LEMMA LoadStep ==
    ASSUME TypeInv, LoadInv, RequestInv, CopyInv, [Next]_vars
    PROVE  LoadInv' /\ RequestInv' /\ CopyInv'
<1> USE HealthAssumption
<1>0. now \in Int /\ now' \in Int /\ TypeInv'
  <2>1. TypeInv'
    BY TypeInvNext
  <2>2. now \in 1..MaxTime + 1 /\ now' \in 1..MaxTime + 1
    BY <2>1 DEF TypeInv, TypeOK
  <2> QED
    BY <2>1, <2>2
<1>1. CASE Tick
  <2>1. now <= now' /\ UNCHANGED <<inventory, pc, local, lastLoad, began, fine, faulty>>
    BY <1>0, <1>1 DEF Tick
  <2>2. LoadInv' /\ CopyInv'
    BY <2>1 DEF LoadInv, CopyInv, inventory
  <2>3. \A r \in Request : began[r] \in Int
    BY DEF TypeInv, HistoryType
  <2> QED
    BY <1>0, <2>1, <2>2, <2>3 DEF RequestInv
<1>2. ASSUME NEW f \in File, Change(f) PROVE LoadInv' /\ RequestInv' /\ CopyInv'
  BY <1>2 DEF Change, LoadInv, RequestInv, CopyInv, inventory
<1>3. CASE recordInventoryLoadSuccess
  BY <1>3 DEF recordInventoryLoadSuccess, Load, LoadInv, RequestInv, CopyInv
<1>4. CASE recordInventoryLoadFailure
  BY <1>4 DEF recordInventoryLoadFailure, Load, LoadInv, RequestInv, CopyInv
<1>5. ASSUME NEW r \in Request, Begin(r) PROVE LoadInv' /\ RequestInv' /\ CopyInv'
  <2>1. LoadInv'
    BY <1>5 DEF Begin, LoadInv, inventory
  <2>2. pc'[r] = "copy" /\ began'[r] = now /\ fine'[r] = (lastLoad = "good")
        /\ faulty'[r] = (lastLoad # "good") /\ lastLoad # "none" /\ UNCHANGED <<now, lastLoad>>
    BY <1>5 DEF Begin, Go, TypeInv, TypeOK, HistoryType
  <2>3. \A q \in Request : q # r => /\ pc'[q] = pc[q] /\ began'[q] = began[q]
                                   /\ fine'[q] = fine[q] /\ faulty'[q] = faulty[q]
                                   /\ local'[q] = local[q]
    BY <1>5 DEF Begin, Go, TypeInv, TypeOK, HistoryType
  <2>4. RequestInv'
    <3>1. now <= now
      BY <1>0
    <3> QED
      BY <2>2, <2>3, <3>1 DEF RequestInv
  <2>5. CopyInv'
    BY <2>2, <2>3, ZenonT(40) DEF CopyInv
  <2> QED
    BY <2>1, <2>4, <2>5
<1>6. ASSUME NEW r \in Request, Copy(r) PROVE LoadInv' /\ RequestInv' /\ CopyInv'
  <2>1. pc[r] = "copy" /\ UNCHANGED <<now, inventory, lastLoad, began, fine, faulty>>
    BY <1>6 DEF Copy, Go, world, history
  <2>2. \A q \in Request : q # r => pc'[q] = pc[q] /\ local'[q] = local[q]
    BY <1>6 DEF Copy, Go, TypeInv, TypeOK
  <2>3. local'[r].err = lastErrorClass /\ local'[r].loaded = inventoryLoaded
    BY <1>6 DEF Copy, Go, Nothing, TypeInv, TypeOK
  <2>4. lastErrorClass \in {"", "inventory_load_failed"} /\ lastLoad \in {"none", "good", "failed"}
    BY DEF TypeInv, TypeOK, HistoryType
  <2>5. LoadInv' /\ RequestInv'
    BY <2>1, <2>2 DEF LoadInv, RequestInv, inventory
  <2>6. /\ lastErrorClass = "" => inventoryLoaded /\ fine[r]
        /\ lastErrorClass # "" => faulty[r]
    BY <2>1, <2>4 DEF LoadInv, RequestInv
  <2>7. CopyInv'
    BY <2>1, <2>2, <2>3, <2>4, <2>6 DEF CopyInv
  <2> QED
    BY <2>5, <2>7
<1>7. ASSUME NEW r \in Request,
             ReadClock(r) \/ LookUp(r) \/ OpenCert(r) \/ OpenKey(r) \/ Store(r)
      PROVE LoadInv' /\ RequestInv' /\ CopyInv'
  <2>1. pc[r] \notin {"idle", "copy"} /\ UNCHANGED <<now, inventory, lastLoad, began, fine, faulty>>
    BY <1>7 DEF ReadClock, LookUp, OpenCert, OpenKey, Store, Go, world, history
  <2>2. \A q \in Request : q # r => pc'[q] = pc[q] /\ local'[q] = local[q]
    BY <1>7 DEF ReadClock, LookUp, OpenCert, OpenKey, Store, Go, TypeInv, TypeOK
  <2>3. local'[r].err = local[r].err /\ local'[r].loaded = local[r].loaded
    <3>1. local[r] \in Local
      BY DEF TypeInv, TypeOK, Local
    <3>2. CASE ReadClock(r)
      BY <3>1, <3>2, GoEffect DEF ReadClock, Local
    <3>3. CASE LookUp(r)
      <4>1. CASE Go(r, "cache", "answer", [local[r] EXCEPT !.ok = caReadable, !.at = 0])
        <5>1. local'[r] = [local[r] EXCEPT !.ok = caReadable, !.at = 0]
          BY <4>1, GoEffect
        <5> QED
          BY <3>1, <5>1 DEF Local
      <4>2. CASE Go(r, "cache", "cert", local[r])
        BY <4>2, GoEffect
      <4>3. CASE Go(r, "cache", "store", [local[r] EXCEPT !.ok = FALSE])
        BY <3>1, <4>3, GoEffect DEF Local
      <4> QED
        BY <3>3, <4>1, <4>2, <4>3 DEF LookUp
    <3>4. CASE OpenCert(r)
      BY <3>1, <3>4, GoEffect DEF OpenCert, Local
    <3>5. CASE OpenKey(r)
      BY <3>1, <3>5, GoEffect DEF OpenKey, Local
    <3>6. CASE Store(r)
      BY <3>1, <3>6, GoEffect DEF Store, Local
    <3> QED
      BY <1>7, <3>2, <3>3, <3>4, <3>5, <3>6
  <2> QED
    BY <2>1, <2>2, <2>3 DEF LoadInv, RequestInv, CopyInv, inventory
<1>8. ASSUME NEW r \in Request, Answer(r) PROVE LoadInv' /\ RequestInv' /\ CopyInv'
  <2>1. pc'[r] = "idle" /\ UNCHANGED <<now, inventory, lastLoad>>
    BY <1>8 DEF Answer, Go, TypeInv, TypeOK
  <2>2. \A q \in Request : q # r => /\ pc'[q] = pc[q] /\ began'[q] = began[q]
                                   /\ fine'[q] = fine[q] /\ faulty'[q] = faulty[q]
                                   /\ local'[q] = local[q]
    BY <1>8 DEF Answer, Go, TypeInv, TypeOK, HistoryType
  <2> QED
    BY <2>1, <2>2, ZenonT(40) DEF LoadInv, RequestInv, CopyInv, inventory
<1>9. CASE UNCHANGED vars
  BY <1>9 DEF vars, inventory, history, LoadInv, RequestInv, CopyInv
<1> QED
  BY <1>1, <1>2, <1>3, <1>4, <1>5, <1>6, <1>7, <1>8, <1>9 DEF Next

-----------------------------------------------------------------------------
(***************************************************************************)
(* What requests find about the CA files.                                  *)
(***************************************************************************)
\* The times the histories note only grow.
LEMMA HistoryGrows ==
    ASSUME TypeInv, [Next]_vars
    PROVE  /\ now \in Nat /\ now' \in Nat /\ now <= now'
           /\ \A f \in File : /\ up[f] \in Int /\ up'[f] \in Int /\ up[f] <= up'[f]
                              /\ down[f] \in Int /\ down'[f] \in Int /\ down[f] <= down'[f]
           /\ UNCHANGED config
<1> USE HealthAssumption
<1>1. now \in Nat /\ now' \in Nat /\ TypeInv'
  <2>1. TypeInv'
    BY TypeInvNext
  <2>2. now \in 1..MaxTime + 1 /\ now' \in 1..MaxTime + 1
    BY <2>1 DEF TypeInv, TypeOK
  <2> QED
    BY <2>1, <2>2
<1>2. \A f \in File : up[f] \in Int /\ up'[f] \in Int /\ down[f] \in Int /\ down'[f] \in Int
  BY <1>1 DEF TypeInv, HistoryType
<1>3. CASE Tick
  <2>1. now' = now + 1 /\ UNCHANGED config
    BY <1>3 DEF Tick
  <2>2. \A f \in File : up[f] <= now /\ down[f] <= now
    BY DEF TypeInv, HistoryType
  <2>3. \A f \in File : up'[f] \in {now + 1, up[f]} /\ down'[f] \in {now + 1, down[f]}
    BY <1>3 DEF Tick
  <2> QED
    BY <1>1, <1>2, <2>1, <2>2, <2>3
<1>4. ASSUME NEW f \in File, Change(f)
      PROVE  /\ UNCHANGED <<config, now>>
             /\ \A g \in File : up[g] <= up'[g] /\ down[g] <= down'[g]
  BY <1>1, <1>2, <1>4 DEF Change, TypeInv, HistoryType
<1>5. CASE UNCHANGED <<config, now, up, down>>
  BY <1>1, <1>2, <1>5
<1>6. Tick \/ (\E f \in File : Change(f)) \/ UNCHANGED <<config, now, up, down>>
  BY DEF Next, recordInventoryLoadSuccess, recordInventoryLoadFailure, Load, Begin, Copy,
     ReadClock, LookUp, OpenCert, OpenKey, Store, Answer, world, history, vars
<1> QED
  BY <1>1, <1>2, <1>3, <1>4, <1>5, <1>6

\* A finding stays one, and is one from any earlier time on.
LEMMA FindingKept ==
    ASSUME TypeInv, [Next]_vars, NEW ok, NEW t \in Int, Finding(ok, t)
    PROVE  /\ ok => devid' /\ \A f \in File : up'[f] >= t
           /\ ~ok /\ devid' => \E f \in File : down'[f] >= t
<1>1. AllSince(t) => \A f \in File : up'[f] >= t
  BY HistoryGrows DEF AllSince
<1>2. SomeSince(t) => \E f \in File : down'[f] >= t
  BY HistoryGrows DEF SomeSince
<1>3. devid' = devid
  BY HistoryGrows DEF config
<1> QED
  BY <1>1, <1>2, <1>3 DEF Finding

LEMMA FindingWeaker ==
    ASSUME TypeInv, NEW ok, NEW t \in Int, NEW u \in Int, u <= t, Finding(ok, t)
    PROVE  Finding(ok, u)
<1>1. \A f \in File : up[f] \in Int /\ down[f] \in Int
  BY DEF TypeInv, HistoryType
<1>2. AllSince(t) => AllSince(u)
  BY <1>1 DEF AllSince
<1>3. SomeSince(t) => SomeSince(u)
  BY <1>1 DEF SomeSince
<1> QED
  BY <1>2, <1>3 DEF Finding

\* The times a request holds.
LEMMA Times ==
    ASSUME TypeInv, NEW r \in Request
    PROVE  /\ began[r] \in Int /\ local[r].at \in Int /\ began[r] - TTL + 1 \in Int
           /\ caCheckedAt \in Int
<1>1. began[r] \in Int /\ local[r].at \in 0..MaxTime + 1 /\ caCheckedAt \in 0..MaxTime + 1
  BY DEF TypeInv, TypeOK, HistoryType
<1> QED
  BY <1>1, HealthAssumption

\* What other requests have found stays found.
LEMMA OthersKeep ==
    ASSUME TypeInv, [Next]_vars, NEW q \in Request, ClockAt(q), FindingAt(q),
           pc'[q] = pc[q], local'[q] = local[q], began'[q] = began[q]
    PROVE  ClockAt(q)' /\ FindingAt(q)'
<1>1. UNCHANGED <<attestation, devid>>
  BY HistoryGrows DEF config
<1>2. ClockAt(q)'
  BY <1>1, HistoryGrows, Times DEF ClockAt
<1>3. pc[q] = "key" => up'["cert"] >= local[q].at
  BY HistoryGrows, Times DEF FindingAt, File
<1>4. pc[q] = "store" => Finding(local[q].ok, local[q].at)'
  <2> SUFFICES ASSUME pc[q] = "store" PROVE Finding(local[q].ok, local[q].at)'
    OBVIOUS
  <2>1. local[q].at \in Int /\ Finding(local[q].ok, local[q].at)
    BY Times DEF FindingAt
  <2>2. /\ local[q].ok => devid' /\ \A f \in File : up'[f] >= local[q].at
        /\ ~local[q].ok /\ devid' => \E f \in File : down'[f] >= local[q].at
    BY <2>1, FindingKept
  <2> QED
    BY <2>2 DEF Finding, AllSince, SomeSince
<1>5. pc[q] = "answer" /\ attestation => Finding(local[q].ok, began[q] - TTL + 1)'
  <2> SUFFICES ASSUME pc[q] = "answer", attestation
               PROVE  Finding(local[q].ok, began[q] - TTL + 1)'
    OBVIOUS
  <2>1. began[q] - TTL + 1 \in Int /\ Finding(local[q].ok, began[q] - TTL + 1)
    BY Times DEF FindingAt
  <2>2. /\ local[q].ok => devid' /\ \A f \in File : up'[f] >= began[q] - TTL + 1
        /\ ~local[q].ok /\ devid' => \E f \in File : down'[f] >= began[q] - TTL + 1
    BY <2>1, FindingKept
  <2> QED
    BY <2>2 DEF Finding, AllSince, SomeSince
<1> QED
  BY <1>1, <1>2, <1>3, <1>4, <1>5 DEF FindingAt

\* A cached finding stays one.
LEMMA CachedKept ==
    ASSUME TypeInv, [Next]_vars, CachedInv, UNCHANGED cached
    PROVE  CachedInv'
<1> SUFFICES ASSUME caCheckedAt # 0 PROVE CachedInv'
  BY DEF CachedInv, cached
<1>1. caCheckedAt \in Int
  <2>1. caCheckedAt \in 0..MaxTime + 1
    BY DEF TypeInv, TypeOK
  <2> QED
    BY <2>1, HealthAssumption
<1>2. /\ caReadable => devid' /\ \A f \in File : up'[f] >= caCheckedAt
      /\ ~caReadable /\ devid' => \E f \in File : down'[f] >= caCheckedAt
  BY <1>1, FindingKept DEF CachedInv
<1> QED
  BY <1>2 DEF CachedInv, Finding, AllSince, SomeSince, cached

\* What a request finds at this moment is not older than any time before.
LEMMA FoundNow ==
    ASSUME TypeInv, NEW t \in Int, t <= now, NEW f \in File
    PROVE  /\ readable[f] => up[f] >= t
           /\ ~readable[f] => down[f] >= t
<1>1. IF readable[f] THEN up[f] = now ELSE down[f] = now
  BY DEF TypeInv, HistoryType
<1>2. now \in Int
  <2>1. now \in 1..MaxTime + 1
    BY DEF TypeInv, TypeOK
  <2> QED
    BY <2>1, HealthAssumption
<1> QED
  BY <1>1, <1>2

LEMMA FindingStep ==
    ASSUME TypeInv, RequestInv, FindingInv, [Next]_vars
    PROVE  FindingInv'
<1> USE HealthAssumption
<1>0. \A q \in Request : /\ pc'[q] = pc[q] /\ local'[q] = local[q] /\ began'[q] = began[q]
                         => ClockAt(q)' /\ FindingAt(q)'
  BY OthersKeep DEF FindingInv
<1>1. UNCHANGED cached => CachedInv'
  BY CachedKept DEF FindingInv
<1>2. CASE UNCHANGED <<pc, local, began, cached>>
  BY <1>0, <1>1, <1>2 DEF FindingInv
<1>3. ASSUME NEW r \in Request, Begin(r) \/ Answer(r) PROVE FindingInv'
  <2>1. /\ UNCHANGED cached /\ pc'[r] \in {"copy", "idle"}
        /\ \A q \in Request : q # r => pc'[q] = pc[q] /\ local'[q] = local[q]
    BY <1>3, GoEffect DEF Begin, Answer
  <2>2. \A q \in Request : q # r => began'[q] = began[q]
    BY <1>3 DEF Begin, Answer, TypeInv, HistoryType
  <2>3. ClockAt(r)' /\ FindingAt(r)'
    BY <2>1 DEF ClockAt, FindingAt
  <2> QED
    BY <1>0, <1>1, <2>1, <2>2, <2>3 DEF FindingInv
\* The steps in between: the world stands still.
<1>4. ASSUME NEW r \in Request, NEW from, NEW to, NEW loc, Go(r, from, to, loc),
             UNCHANGED world, CachedInv', ClockAt(r)', FindingAt(r)'
      PROVE  FindingInv'
  <2>1. \A q \in Request : q # r => pc'[q] = pc[q] /\ local'[q] = local[q]
    BY <1>4, GoEffect
  <2>2. began' = began
    BY <1>4 DEF world, history
  <2> QED
    BY <1>0, <1>4, <2>1, <2>2 DEF FindingInv
<1>5. ASSUME NEW r \in Request, Copy(r) PROVE FindingInv'
  <2>1. PICK to, loc : /\ to \in {"clock", "answer"} /\ Go(r, "copy", to, loc)
                       /\ to = "answer" => ~attestation
    BY <1>5 DEF Copy
  <2>2. UNCHANGED <<world, cached>> /\ attestation' = attestation
    BY <1>5 DEF Copy, world, config
  <2>3. pc'[r] = to
    BY <2>1, GoEffect
  <2>4. ClockAt(r)' /\ FindingAt(r)'
    BY <2>1, <2>2, <2>3 DEF ClockAt, FindingAt
  <2> QED
    BY <1>1, <1>4, <2>1, <2>2, <2>4
<1>6. ASSUME NEW r \in Request, ReadClock(r) PROVE FindingInv'
  <2>1. /\ Go(r, "clock", "cache", [local[r] EXCEPT !.at = now]) /\ UNCHANGED <<world, cached>>
        /\ UNCHANGED <<now, began>>
    BY <1>6 DEF ReadClock, world, history
  <2>2. pc[r] = "clock" /\ pc'[r] = "cache" /\ local'[r] = [local[r] EXCEPT !.at = now]
    BY <2>1, GoEffect
  <2>3. local'[r].at = now
    BY <2>2, ZenonT(40) DEF TypeInv, TypeOK
  <2>4. began[r] <= now /\ now <= now
    BY <2>2, HistoryGrows DEF RequestInv
  <2>5. ClockAt(r)' /\ FindingAt(r)'
    BY <2>1, <2>2, <2>3, <2>4 DEF ClockAt, FindingAt
  <2> QED
    BY <1>1, <1>4, <2>1, <2>5
<1>7. ASSUME NEW r \in Request, LookUp(r) PROVE FindingInv'
  <2>1. UNCHANGED <<world, cached>> /\ UNCHANGED <<now, began, attestation, devid, up, down>>
    BY <1>7 DEF LookUp, world, history, config
  <2>2. pc[r] = "cache"
    BY <1>7 DEF LookUp, Go
  <2>3. /\ began[r] <= local[r].at /\ local[r].at <= now
        /\ began[r] \in Int /\ local[r].at \in Int /\ caCheckedAt \in Int
    BY <2>2, Times DEF FindingInv, ClockAt
  <2>4. CASE Hit(r) /\ Go(r, "cache", "answer", [local[r] EXCEPT !.ok = caReadable, !.at = 0])
    <3>1. pc'[r] = "answer" /\ local'[r] = [local[r] EXCEPT !.ok = caReadable, !.at = 0]
      BY <2>4, GoEffect
    <3>2. local'[r].ok = caReadable
      BY <3>1 DEF TypeInv, TypeOK
    <3>3. began[r] - TTL + 1 \in Int /\ began[r] - TTL + 1 <= caCheckedAt /\ caCheckedAt # 0
      BY <2>3, <2>4 DEF Hit
    <3>4. Finding(caReadable, began[r] - TTL + 1)
      BY <2>3, <3>3, FindingWeaker DEF FindingInv, CachedInv
    <3>5. ClockAt(r)' /\ FindingAt(r)'
      BY <2>1, <3>1, <3>2, <3>4 DEF ClockAt, FindingAt, Finding, AllSince, SomeSince
    <3> QED
      BY <1>1, <1>4, <2>1, <2>4, <3>5
  <2>5. CASE devid /\ Go(r, "cache", "cert", local[r])
    <3>1. pc'[r] = "cert" /\ local'[r] = local[r]
      BY <2>5, GoEffect
    <3>2. ClockAt(r)' /\ FindingAt(r)'
      BY <2>1, <2>3, <2>5, <3>1 DEF ClockAt, FindingAt
    <3> QED
      BY <1>1, <1>4, <2>1, <2>5, <3>2
  <2>6. CASE ~devid /\ Go(r, "cache", "store", [local[r] EXCEPT !.ok = FALSE])
    <3>1. pc'[r] = "store" /\ local'[r] = [local[r] EXCEPT !.ok = FALSE]
      BY <2>6, GoEffect
    <3>2. local'[r].ok = FALSE /\ local'[r].at = local[r].at
      BY <3>1, ZenonT(40) DEF TypeInv, TypeOK
    <3>3. ClockAt(r)' /\ FindingAt(r)'
      BY <2>1, <2>3, <2>6, <3>1, <3>2 DEF ClockAt, FindingAt, Finding
    <3> QED
      BY <1>1, <1>4, <2>1, <2>6, <3>3
  <2> QED
    BY <1>7, <2>4, <2>5, <2>6 DEF LookUp
<1>8. ASSUME NEW r \in Request, OpenCert(r) PROVE FindingInv'
  <2>1. UNCHANGED <<world, cached>> /\ UNCHANGED <<now, began, attestation, devid, up, down>>
    BY <1>8 DEF OpenCert, world, history, config
  <2>2. PICK to : /\ Go(r, "cert", to, [local[r] EXCEPT !.ok = FALSE])
                  /\ to = IF readable["cert"] THEN "key" ELSE "store"
    BY <1>8 DEF OpenCert
  <2>3. pc[r] = "cert" /\ pc'[r] = to /\ local'[r] = [local[r] EXCEPT !.ok = FALSE]
    BY <2>2, GoEffect
  <2>4. local'[r].ok = FALSE /\ local'[r].at = local[r].at
    BY <2>3, ZenonT(40) DEF TypeInv, TypeOK
  <2>5. began[r] <= local[r].at /\ local[r].at <= now /\ devid /\ local[r].at \in Int
    BY <2>3, Times DEF FindingInv, ClockAt
  <2>6. /\ readable["cert"] => up["cert"] >= local[r].at
        /\ ~readable["cert"] => down["cert"] >= local[r].at
    BY <2>5, FoundNow DEF File
  <2>7. ClockAt(r)'
    BY <2>1, <2>2, <2>3, <2>4, <2>5 DEF ClockAt
  <2>8. FindingAt(r)'
    BY <2>1, <2>2, <2>3, <2>4, <2>6 DEF FindingAt, Finding, SomeSince, File
  <2> QED
    BY <1>1, <1>4, <2>1, <2>2, <2>7, <2>8
<1>9. ASSUME NEW r \in Request, OpenKey(r) PROVE FindingInv'
  <2>1. UNCHANGED <<world, cached>> /\ UNCHANGED <<now, began, attestation, devid, up, down>>
    BY <1>9 DEF OpenKey, world, history, config
  <2>2. Go(r, "key", "store", [local[r] EXCEPT !.ok = readable["key"]])
    BY <1>9 DEF OpenKey
  <2>3. /\ pc[r] = "key" /\ pc'[r] = "store"
        /\ local'[r] = [local[r] EXCEPT !.ok = readable["key"]]
    BY <2>2, GoEffect
  <2>4. local'[r].ok = readable["key"] /\ local'[r].at = local[r].at
    BY <2>3, ZenonT(40) DEF TypeInv, TypeOK
  <2>5. began[r] <= local[r].at /\ local[r].at <= now /\ devid /\ local[r].at \in Int
    BY <2>3, Times DEF FindingInv, ClockAt
  <2>6. /\ up["cert"] >= local[r].at
        /\ readable["key"] => up["key"] >= local[r].at
        /\ ~readable["key"] => down["key"] >= local[r].at
    BY <2>3, <2>5, FoundNow DEF File, FindingInv, FindingAt
  <2>7. ClockAt(r)'
    BY <2>1, <2>3, <2>4, <2>5 DEF ClockAt
  <2>8. FindingAt(r)'
    BY <2>1, <2>3, <2>4, <2>5, <2>6 DEF FindingAt, Finding, AllSince, SomeSince, File
  <2> QED
    BY <1>1, <1>4, <2>1, <2>2, <2>7, <2>8
<1>10. ASSUME NEW r \in Request, Store(r) PROVE FindingInv'
  <2>1. UNCHANGED world /\ UNCHANGED <<now, began, attestation, devid, up, down>>
    BY <1>10 DEF Store, world, history, config
  <2>2. /\ Go(r, "store", "answer", [local[r] EXCEPT !.at = 0])
        /\ caReadable' = local[r].ok /\ caCheckedAt' = local[r].at
    BY <1>10 DEF Store
  <2>3. pc[r] = "store" /\ pc'[r] = "answer" /\ local'[r] = [local[r] EXCEPT !.at = 0]
    BY <2>2, GoEffect
  <2>4. local'[r].ok = local[r].ok
    BY <2>3 DEF TypeInv, TypeOK
  <2>5. began[r] <= local[r].at /\ local[r].at \in Int /\ began[r] \in Int
    BY <2>3, Times DEF FindingInv, ClockAt
  <2>6. Finding(local[r].ok, local[r].at)
    BY <2>3 DEF FindingInv, FindingAt
  <2>7. Finding(local[r].ok, began[r] - TTL + 1)
    <3>1. began[r] - TTL + 1 \in Int /\ began[r] - TTL + 1 <= local[r].at
      BY <2>5
    <3> QED
      BY <2>5, <2>6, <3>1, FindingWeaker
  <2>8. CachedInv'
    BY <2>1, <2>2, <2>6 DEF CachedInv, Finding, AllSince, SomeSince
  <2>9. ClockAt(r)' /\ FindingAt(r)'
    BY <2>1, <2>3, <2>4, <2>7 DEF ClockAt, FindingAt, Finding, AllSince, SomeSince
  <2> QED
    BY <1>4, <2>1, <2>2, <2>8, <2>9
<1>11. \/ UNCHANGED <<pc, local, began, cached>>
       \/ \E r \in Request : \/ Begin(r) \/ Answer(r) \/ Copy(r) \/ ReadClock(r) \/ LookUp(r)
                             \/ OpenCert(r) \/ OpenKey(r) \/ Store(r)
  BY DEF Next, Tick, Change, recordInventoryLoadSuccess, recordInventoryLoadFailure, Load, vars,
     history
<1> QED
  BY <1>2, <1>3, <1>5, <1>6, <1>7, <1>8, <1>9, <1>10, <1>11

-----------------------------------------------------------------------------
LEMMA InitIInv == Init => IInv
<1> SUFFICES ASSUME Init PROVE IInv
  OBVIOUS
<1>1. \A r \in Request : pc[r] = "idle"
  BY DEF Init
<1>2. LoadInv /\ caCheckedAt = 0
  BY DEF Init, LoadInv
<1> QED
  BY <1>1, <1>2, TypeInvInit
     DEF IInv, RequestInv, CopyInv, FindingInv, CachedInv, ClockAt, FindingAt

LEMMA Invariance == Spec => []IInv
<1>1. IInv /\ [Next]_vars => IInv'
  BY TypeInvNext, LoadStep, FindingStep DEF IInv
<1> QED
  BY <1>1, InitIInv, PTL DEF Spec

\* GET /health says "ok" only if the inventory was well loaded at some moment of the
\* request and, with attestation, each CA file was readable within a TTL before it or
\* since, however many requests check and cache at once.
THEOREM OkIsTrueAlways == Spec => []OkIsTrue
<1>1. IInv => OkIsTrue
  <2> SUFFICES ASSUME IInv, NEW r \in Request, pc[r] = "answer", Status(r) = "ok"
               PROVE  fine[r] /\ (attestation => devid /\ \A f \in File : Lately(r, up[f]))
    BY DEF OkIsTrue
  <2>1. LastError(r) = ""
    BY DEF Status
  <2>2. local[r].err = "" /\ (attestation => local[r].ok)
    BY <2>1 DEF LastError
  <2>3. fine[r]
    BY <2>2 DEF IInv, CopyInv
  <2>4. attestation => devid /\ AllSince(began[r] - TTL + 1)
    BY <2>2 DEF IInv, FindingInv, FindingAt, Finding
  <2>5. \A f \in File : up[f] >= began[r] - TTL + 1 => Lately(r, up[f])
    <3>1. began[r] \in Int /\ \A f \in File : up[f] \in Int
      BY DEF IInv, TypeInv, HistoryType
    <3> QED
      BY <3>1, HealthAssumption DEF Lately
  <2> QED
    BY <2>3, <2>4, <2>5 DEF AllSince
<1> QED
  BY <1>1, Invariance, PTL

\* GET /health says "degraded" only with a reason of the request's own time: the fault it
\* names was there within a TTL before the request or during it.
THEOREM DegradedIsTrueAlways == Spec => []DegradedIsTrue
<1>1. IInv => DegradedIsTrue
  <2> SUFFICES ASSUME IInv, NEW r \in Request, pc[r] = "answer", Status(r) = "degraded"
               PROVE  \/ /\ LastError(r) = "devid_ca_unreadable"
                         /\ attestation /\ (devid => \E f \in File : Lately(r, down[f]))
                      \/ LastError(r) # "devid_ca_unreadable" /\ faulty[r]
    BY DEF DegradedIsTrue
  <2>1. /\ local[r].err # "devid_ca_unreadable"
        /\ local[r].err = "" => local[r].loaded
        /\ local[r].err # "" => faulty[r]
    BY DEF IInv, CopyInv
  <2>2. ~(local[r].loaded /\ LastError(r) = "")
    BY DEF Status
  <2>3. CASE LastError(r) = "devid_ca_unreadable"
    <3>1. attestation /\ ~local[r].ok
      BY <2>1, <2>3 DEF LastError
    <3>2. devid => SomeSince(began[r] - TTL + 1)
      BY <3>1 DEF IInv, FindingInv, FindingAt, Finding
    <3>3. \A f \in File : down[f] >= began[r] - TTL + 1 => Lately(r, down[f])
      <4>1. began[r] \in Int /\ \A f \in File : down[f] \in Int
        BY DEF IInv, TypeInv, HistoryType
      <4> QED
        BY <4>1, HealthAssumption DEF Lately
    <3> QED
      BY <2>3, <3>1, <3>2, <3>3 DEF SomeSince
  <2>4. CASE LastError(r) # "devid_ca_unreadable"
    <3>1. LastError(r) = local[r].err
      BY <2>4 DEF LastError
    <3> QED
      BY <2>1, <2>2, <2>4, <3>1
  <2> QED
    BY <2>3, <2>4
<1> QED
  BY <1>1, Invariance, PTL
=============================================================================
