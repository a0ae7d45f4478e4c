-------------------------------- MODULE Health --------------------------------
(***************************************************************************)
(* GET /health (internal/server/server.go: handleHealth, readiness,        *)
(* devIDCAReadableCached, checkDevIDCAReadable and the two functions that  *)
(* record the outcome of an inventory load).                               *)
(*                                                                         *)
(* Requests run concurrently.  Each copies the outcome of the last load    *)
(* under readyMu, reads the clock, looks for a cached answer about the CA  *)
(* files under readyMu again, opens the files without the lock and takes   *)
(* the lock a third time to cache what it found, so a slow request may     *)
(* overwrite what a quicker one found later.                               *)
(***************************************************************************)
EXTENDS Integers, TLC

CONSTANTS
    Request,      \* concurrent requests, each answered again and again
    TTL,          \* caReadableCacheTTL
    MaxTime,      \* how long the clock runs
    MaxChanges,   \* how often a CA file changes between readable and not
    MaxLoads      \* how many inventory loads there are

ASSUME HealthAssumption ==
    TTL \in Nat \ {0} /\ MaxTime \in Nat /\ MaxChanges \in Nat /\ MaxLoads \in Nat

VARIABLES
    attestation,              \* EnableTPMAttestation
    devid,                    \* enrollment was loaded at the start
    readable,                 \* per CA file, whether it can be opened
    now,                      \* the clock; 0 is Go's zero time
    inventoryLoaded,          \* a load has succeeded (vmCount and lastReload are its)
    lastErrorClass,
    caReadable, caCheckedAt,  \* the cached answer
    pc,                       \* where each request is
    local,                    \* what each request has copied or found
    up, down,                 \* history: when each file was last readable, last not
    lastLoad,                 \* history: the outcome of the last load
    began, fine, faulty,      \* history: see Begin
    changes, loads

config    == <<attestation, devid>>
inventory == <<inventoryLoaded, lastErrorClass>>
cached    == <<caReadable, caCheckedAt>>
history   == <<up, down, lastLoad, began, fine, faulty>>
counters  == <<changes, loads>>
vars == <<config, readable, now, inventory, cached, pc, local, history, counters>>

File       == {"cert", "key"}
ErrorClass == {"", "inventory_load_failed", "devid_ca_unreadable"}
Nothing    == [loaded |-> FALSE, err |-> "", at |-> 0, ok |-> FALSE]
PC         == {"idle", "copy", "clock", "cache", "cert", "key", "store", "answer"}

\* The fields of the server, the requests and the counters have their types.
TypeOK ==
    /\ attestation \in BOOLEAN /\ devid \in BOOLEAN
    /\ readable \in [File -> BOOLEAN]
    /\ now \in 1..MaxTime + 1
    /\ inventoryLoaded \in BOOLEAN
    /\ lastErrorClass \in {"", "inventory_load_failed"}
    /\ caReadable \in BOOLEAN /\ caCheckedAt \in 0..MaxTime + 1
    /\ pc \in [Request -> PC]
    /\ local \in [Request -> [loaded : BOOLEAN, err : ErrorClass,
                              at : 0..MaxTime + 1, ok : BOOLEAN]]

\* New.  The first load is still to come; enrollment may have failed to load,
\* and is not loaded at all without attestation.
Init ==
    /\ attestation \in BOOLEAN /\ devid \in BOOLEAN /\ (devid => attestation)
    /\ readable \in [File -> BOOLEAN]
    /\ now = 1
    /\ inventoryLoaded = FALSE /\ lastErrorClass = ""
    /\ caReadable = FALSE /\ caCheckedAt = 0
    /\ pc = [r \in Request |-> "idle"]
    /\ local = [r \in Request |-> Nothing]
    /\ up = [f \in File |-> IF readable[f] THEN 1 ELSE -TTL]
    /\ down = [f \in File |-> IF readable[f] THEN -TTL ELSE 1]
    /\ lastLoad = "none"
    /\ began = [r \in Request |-> 0]
    /\ fine = [r \in Request |-> FALSE] /\ faulty = [r \in Request |-> FALSE]
    /\ changes = 0 /\ loads = 0

-----------------------------------------------------------------------------
(***************************************************************************)
(* The world: the clock, the files, the inventory loads.                   *)
(***************************************************************************)
Tick ==
    /\ now <= MaxTime
    /\ now' = now + 1
    /\ up' = [f \in File |-> IF readable[f] THEN now + 1 ELSE up[f]]
    /\ down' = [f \in File |-> IF readable[f] THEN down[f] ELSE now + 1]
    /\ UNCHANGED <<config, readable, inventory, cached, pc, local, lastLoad, began,
                   fine, faulty, counters>>

Change(f) ==
    /\ changes < MaxChanges /\ changes' = changes + 1
    /\ readable' = [readable EXCEPT ![f] = ~@]
    /\ up' = [up EXCEPT ![f] = now] /\ down' = [down EXCEPT ![f] = now]
    /\ UNCHANGED <<config, now, inventory, cached, pc, local, lastLoad, began, fine,
                   faulty, loads>>

Load(outcome) ==
    /\ loads < MaxLoads /\ loads' = loads + 1
    /\ lastLoad' = outcome
    /\ fine' = [r \in Request |-> fine[r] \/ (pc[r] # "idle" /\ outcome = "good")]
    /\ faulty' = [r \in Request |-> faulty[r] \/ (pc[r] # "idle" /\ outcome = "failed")]
    /\ UNCHANGED <<config, readable, now, cached, pc, local, up, down, began, changes>>

recordInventoryLoadSuccess ==
    /\ Load("good")
    /\ inventoryLoaded' = TRUE /\ lastErrorClass' = ""

\* Faulty variant: a failed load is not recorded while the old inventory serves.
FailureUnrecorded ==
    /\ Load("failed")
    /\ lastErrorClass' = IF inventoryLoaded THEN lastErrorClass ELSE "inventory_load_failed"
    /\ UNCHANGED inventoryLoaded

recordInventoryLoadFailure ==
    /\ Load("failed")
    /\ lastErrorClass' = "inventory_load_failed"
    /\ UNCHANGED inventoryLoaded

-----------------------------------------------------------------------------
(***************************************************************************)
(* A request.                                                              *)
(***************************************************************************)
\* A step of request r from one place to another, with what it now holds.
Go(r, from, to, loc) ==
    /\ pc[r] = from
    /\ pc' = [pc EXCEPT ![r] = to]
    /\ local' = [local EXCEPT ![r] = loc]

world == <<config, readable, now, inventory, history, counters>>

\* The request arrives; New has loaded the inventory once, well or not, before it
\* serves.  The histories say when, and whether the inventory was fine
\* or at fault at some moment since.
Begin(r) ==
    /\ lastLoad # "none"
    /\ Go(r, "idle", "copy", Nothing)
    /\ began' = [began EXCEPT ![r] = now]
    /\ fine' = [fine EXCEPT ![r] = (lastLoad = "good")]
    /\ faulty' = [faulty EXCEPT ![r] = (lastLoad # "good")]
    /\ UNCHANGED <<config, readable, now, inventory, cached, up, down, lastLoad, counters>>

\* readiness: the outcome of the loads, under the lock.
Copy(r) ==
    /\ Go(r, "copy", IF attestation THEN "clock" ELSE "answer",
          [Nothing EXCEPT !.loaded = inventoryLoaded, !.err = lastErrorClass])
    /\ UNCHANGED <<world, cached>>

\* devIDCAReadableCached reads the clock before it takes the lock.
ReadClock(r) ==
    /\ Go(r, "clock", "cache", [local[r] EXCEPT !.at = now])
    /\ UNCHANGED <<world, cached>>

\* The cached answer is young enough; it may be from after the request read its clock.
Hit(r) == caCheckedAt # 0 /\ local[r].at - caCheckedAt < TTL

\* Without enrollment there is nothing to open.
LookUp(r) ==
    /\ \/ Hit(r) /\ Go(r, "cache", "answer", [local[r] EXCEPT !.ok = caReadable, !.at = 0])
       \/ ~Hit(r) /\ devid /\ Go(r, "cache", "cert", local[r])
       \/ ~Hit(r) /\ ~devid /\ Go(r, "cache", "store", [local[r] EXCEPT !.ok = FALSE])
    /\ UNCHANGED <<world, cached>>

\* checkDevIDCAReadable opens the certificate and then the key, without the lock.
OpenCert(r) ==
    /\ Go(r, "cert", IF readable["cert"] THEN "key" ELSE "store",
          [local[r] EXCEPT !.ok = FALSE])
    /\ UNCHANGED <<world, cached>>

OpenKey(r) ==
    /\ Go(r, "key", "store", [local[r] EXCEPT !.ok = readable["key"]])
    /\ UNCHANGED <<world, cached>>

\* Faulty variant: the time is taken when the check is over.
StoreAtEnd(r) ==
    /\ Go(r, "store", "answer", [local[r] EXCEPT !.at = 0])
    /\ caReadable' = local[r].ok /\ caCheckedAt' = now
    /\ UNCHANGED world

\* What was found is cached with the time read before, whatever is cached meanwhile.
Store(r) ==
    /\ Go(r, "store", "answer", [local[r] EXCEPT !.at = 0])
    /\ caReadable' = local[r].ok /\ caCheckedAt' = local[r].at
    /\ UNCHANGED world

\* An unreadable CA is the last error if the loads left none.
LastError(r) ==
    IF attestation /\ ~local[r].ok /\ local[r].err = "" THEN "devid_ca_unreadable"
                                                        ELSE local[r].err

Status(r) == IF local[r].loaded /\ LastError(r) = "" THEN "ok" ELSE "degraded"

\* The answer goes out: the status, and the detail only an unbound caller gets to see.
\* The histories end with the request.
Answer(r) ==
    /\ Go(r, "answer", "idle", Nothing)
    /\ began' = [began EXCEPT ![r] = 0]
    /\ fine' = [fine EXCEPT ![r] = FALSE] /\ faulty' = [faulty EXCEPT ![r] = FALSE]
    /\ UNCHANGED <<config, readable, now, inventory, cached, up, down, lastLoad, counters>>

Next ==
    \/ Tick
    \/ \E f \in File : Change(f)
    \/ recordInventoryLoadSuccess \/ recordInventoryLoadFailure
    \/ \E r \in Request :
         \/ Begin(r) \/ Copy(r) \/ ReadClock(r) \/ LookUp(r)
         \/ OpenCert(r) \/ OpenKey(r) \/ Store(r) \/ Answer(r)

Spec == Init /\ [][Next]_vars

\* Requests are interchangeable.
Symmetry == Permutations(Request)

\* A time less than a TTL before request r came, or since.
Lately(r, t) == t > began[r] - TTL

\* server.go, readiness: "ok" is the truth.  The inventory was loaded and its last load
\* good at some moment of the request; with attestation, enrollment is up and each CA
\* file was readable at some moment since a TTL before the request, although the checks
\* of several requests overtake each other.
OkIsTrue ==
    \A r \in Request : pc[r] = "answer" /\ Status(r) = "ok" =>
        /\ fine[r]
        /\ attestation => devid /\ \A f \in File : Lately(r, up[f])

\* server.go, readiness: "degraded" is the truth, and last_error says why.  A fault of
\* the inventory is one of this request's time, and a CA reported unreadable was so
\* since a TTL before the request: an old finding stored late outlives nothing.
DegradedIsTrue ==
    \A r \in Request : pc[r] = "answer" /\ Status(r) = "degraded" =>
        \/ /\ LastError(r) = "devid_ca_unreadable"
           /\ attestation /\ (devid => \E f \in File : Lately(r, down[f]))
        \/ LastError(r) # "devid_ca_unreadable" /\ faulty[r]
=============================================================================
