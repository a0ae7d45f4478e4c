----------------------------- MODULE Enrollment -----------------------------
(***************************************************************************)
(* The DevID enrollment service of one node: the two HTTP legs             *)
(* enroll/start and enroll/finish (internal/devid/http.go, auth.go,        *)
(* enroll.go), the session table (session.go) and the three places an EK   *)
(* fingerprint can be pinned to a VM: the inventory, the cluster pin       *)
(* directory (clusterpin.go) and the trust-on-first-use store (pin.go).    *)
(*                                                                         *)
(* A connection serves its requests one after the other and every request  *)
(* runs in a goroutine of its own, so a leg is a process here and every    *)
(* read or write of shared state is one step.  A refusal that depends only *)
(* on the request itself (malformed JSON, an EK certificate that does not  *)
(* chain to EKRoots or does not certify the request's endorsement key)     *)
(* touches no shared state: such a request is a stuttering step.           *)
(***************************************************************************)
EXTENDS FiniteSets, Naturals

CONSTANTS
    VM,                 \* VM IDs, numbers as isVMIDName wants pin files named
    EK,                 \* fingerprints of trusted EK certificates
    Conn,               \* connections, each serving one request at a time
    Session,            \* session IDs the service may draw (bounds the starts)
    ModeChoices,        \* the configurations the service may have
    OutsideKinds,       \* in each, the kinds of change outside that may happen
    MaxOutside,         \* how many different changes may happen
    NoPin,              \* no fingerprint: no file, no entry, or a malformed one
    Empty,              \* a pin file that is there and holds only white space
    Unlisted,           \* the VM is not in the inventory
    NoVM, NoConn, NoSession

\* The changes made by root, the operator or the hypervisor, never by the
\* service: a store file deleted or emptied, a store file written, a guest
\* config missing, a pin given in the inventory or cluster directory to a VM
\* that had none there, and any other change of such a pin.
Kind == {"reset", "hand", "gone", "pinned", "repinned"}

\* What a pin file or an inventory entry can hold.
Pin == EK \cup {NoPin, Empty, Unlisted}

\* A change outside the service: what the pin was and what it became.
Change == [kind : Kind, vm : VM, old : Pin, new : Pin]

\* The YAML inventory; the Proxmox inventory; and the latter with
\* mds.require_cluster_pin, which config.Load refuses without it.
Mode == {"yaml", "proxmox", "required"}

ASSUME ConstantsAssumption ==
    /\ {NoPin, Empty, Unlisted} \cap EK = {}
    /\ NoPin # Empty /\ NoPin # Unlisted
    /\ NoVM \notin VM /\ NoConn \notin Conn /\ NoSession \notin Session
    /\ ModeChoices \subseteq Mode
    /\ OutsideKinds \in [Mode -> SUBSET Kind]
    /\ MaxOutside \in Nat

VARIABLES
    stored,     \* PinDir: stored[v], the content of the file v
    cluster,    \* ClusterPinDir: cluster[v], the valid pin in the file v
    cache,      \* vmConfigCache: cache[v], the ek_sha256 of the current entry
    guest,      \* VMs with a guest config on some node
    sess,       \* the session table, with what a removed session was for
    pinCreateMu,\* the holder of pinCreateMu
    pc,         \* where the request of a connection is
    conn,       \* the inventory record a connection was bound to, once
    req,        \* the request being served
    scan,       \* local state of pinnedToAnotherVM
    issued,     \* history: the certificates that were issued
    outside,    \* history: the changes made outside the service
    mode        \* the configuration

stores == <<stored, cluster, cache, guest>>
local  == <<conn, req, scan>>
vars   == <<stores, sess, pinCreateMu, pc, local, issued, outside, mode>>

Proxmox == mode # "yaml"
requireClusterPin == mode = "required"

ScanPC   == {"list", "pins", "look1", "look2"}
AuthPC   == {"ownCluster", "ownStored"}
TakenPC  == {"lock", "ensCluster", "ensStored", "create", "reread", "remove",
             "recreate", "issue"}
EnsurePC == TakenPC \ {"lock", "issue"}
PC       == {"idle", "put", "take"} \cup ScanPC \cup AuthPC \cup TakenPC

NoReq  == [op |-> "none", ek |-> NoPin, sid |-> NoSession]
NoScan == [src |-> "store", todo |-> {}, hits |-> {}, suspect |-> NoVM, had |-> FALSE]
Unbound == [vm |-> NoVM, pin |-> NoPin]
Unused == [st |-> "unused", vm |-> NoVM, ek |-> NoPin]

SessRec == [st : {"unused", "live", "expired", "gone"}, vm : VM \cup {NoVM},
            ek : EK \cup {NoPin}]
ConnRec == [vm : VM \cup {NoVM}, pin : EK \cup {NoPin}]
ReqRec  == [op : {"none", "start", "finish"}, ek : EK \cup {NoPin},
            sid : Session \cup {NoSession}]
ScanRec == [src : {"store", "cluster"}, todo : SUBSET VM, hits : SUBSET VM,
            suspect : VM \cup {NoVM}, had : BOOLEAN]
CertRec == [sid : Session, vm : VM, ek : EK]

\* The stores, the legs and the histories have their types.
TypeOK ==
    /\ stored \in [VM -> EK \cup {NoPin, Empty}]
    /\ cluster \in [VM -> EK \cup {NoPin}]
    /\ cache \in [VM -> EK \cup {NoPin, Unlisted}]
    /\ guest \subseteq VM
    /\ sess \in [Session -> SessRec]
    /\ pinCreateMu \in Conn \cup {NoConn}
    /\ pc \in [Conn -> PC]
    /\ conn \in [Conn -> ConnRec]
    /\ req \in [Conn -> ReqRec]
    /\ scan \in [Conn -> ScanRec]
    /\ issued \subseteq CertRec
    /\ outside \subseteq Change
    /\ mode \in Mode

\* A fresh install: no store file.  The inventory and the cluster directory are
\* whatever root left there; only the YAML inventory carries ek_sha256, and only
\* the Proxmox backend reads cluster pins.
Init ==
    /\ mode \in ModeChoices
    /\ stored = [v \in VM |-> NoPin]
    /\ cluster \in [VM -> IF Proxmox THEN EK \cup {NoPin} ELSE {NoPin}]
    /\ cache \in [VM -> IF Proxmox THEN {NoPin} ELSE EK \cup {NoPin}]
    /\ guest = VM
    /\ sess = [s \in Session |-> Unused]
    /\ pinCreateMu = NoConn
    /\ pc = [c \in Conn |-> "idle"]
    /\ conn = [c \in Conn |-> Unbound]
    /\ req = [c \in Conn |-> NoReq]
    /\ scan = [c \in Conn |-> NoScan]
    /\ issued = {}
    /\ outside = {}

-----------------------------------------------------------------------------
(***************************************************************************)
(* Helpers of a leg.                                                       *)
(***************************************************************************)
vmid(c) == conn[c].vm
fp(c)   == req[c].ek

\* Move leg c to step p; nothing else of it changes.
Goto(c, p) == pc' = [pc EXCEPT ![c] = p]

\* The leg answers and its goroutine ends; a deferred Unlock runs.  Only the
\* binding of the connection outlives the request.
End(c) ==
    /\ pc' = [pc EXCEPT ![c] = "idle"]
    /\ req' = [req EXCEPT ![c] = NoReq]
    /\ scan' = [scan EXCEPT ![c] = NoScan]
    /\ pinCreateMu' = IF pinCreateMu = c THEN NoConn ELSE pinCreateMu
    /\ UNCHANGED conn

\* ensurePinBeforeIssue returned nil: unlock and go on to the CA.
Ensured(c) ==
    /\ Goto(c, "issue")
    /\ pinCreateMu' = NoConn
    /\ scan' = [scan EXCEPT ![c] = NoScan]
    /\ UNCHANGED <<conn, req>>

\* guestExists: without a GuestConfigRoot (YAML backend) every VM exists.
guestExists(v) == ~Proxmox \/ v \in guest

\* purgeLocked: sessions older than the TTL leave the table.
purgeLocked == [s \in Session |->
    IF sess[s].st = "expired" THEN [sess[s] EXCEPT !.st = "gone"] ELSE sess[s]]

-----------------------------------------------------------------------------
(***************************************************************************)
(* Connections and requests.                                               *)
(***************************************************************************)
\* A new connection is bound, once, to the inventory entry of its caller; the
\* record stays with it however often the cache is reloaded meanwhile.
Connect(c, v) ==
    /\ pc[c] = "idle"
    /\ cache[v] # Unlisted
    /\ conn' = [conn EXCEPT ![c] = [vm |-> v, pin |-> cache[v]]]
    /\ UNCHANGED <<stores, sess, pinCreateMu, pc, req, scan, issued, outside, mode>>

\* The start of AuthenticateEnrollCaller: with an inventory pin in the record
\* the header's EK must be that one, else the caller's own pin is looked up
\* (there is no ClusterPinDir with the YAML backend).
Authenticate(c, r) ==
    /\ pc[c] = "idle"
    /\ vmid(c) # NoVM
    /\ conn[c].pin \in EK => conn[c].pin = r.ek
    /\ Goto(c, IF conn[c].pin \in EK THEN "list"
               ELSE IF Proxmox THEN "ownCluster" ELSE "ownStored")
    /\ req' = [req EXCEPT ![c] = r]
    /\ UNCHANGED <<stores, sess, pinCreateMu, conn, scan, issued, outside, mode>>

\* POST /latest/devid/enroll/start with EK k in the header.  (Session bounds how
\* many sessions there can be; the service itself has no such bound.)
HandleStart(c, k) ==
    /\ \E s \in Session : sess[s] = Unused
    /\ Authenticate(c, [NoReq EXCEPT !.op = "start", !.ek = k])

\* POST /latest/devid/enroll/finish with EK k in the header and the ID of a
\* session that was once handed out.
HandleFinish(c, k, s) ==
    /\ sess[s] # Unused
    /\ Authenticate(c, [op |-> "finish", ek |-> k, sid |-> s])

\* enforceOwnPin, the cluster pin: the pin of record when there is one.
OwnCluster(c) ==
    /\ pc[c] = "ownCluster"
    /\ \/ /\ cluster[vmid(c)] = fp(c)
          /\ Goto(c, "list")
          /\ UNCHANGED <<pinCreateMu, local>>
       \/ /\ cluster[vmid(c)] = NoPin /\ ~requireClusterPin
          /\ Goto(c, "ownStored")
          /\ UNCHANGED <<pinCreateMu, local>>
       \/ /\ cluster[vmid(c)] # fp(c)
          /\ cluster[vmid(c)] # NoPin \/ requireClusterPin
          /\ End(c)
    /\ UNCHANGED <<stores, sess, issued, outside, mode>>

\* enforceOwnPin, the store file; an empty file is no pin.
OwnStored(c) ==
    /\ pc[c] = "ownStored"
    /\ \/ /\ stored[vmid(c)] \in {fp(c), NoPin, Empty}
          /\ Goto(c, "list")
          /\ UNCHANGED <<pinCreateMu, local>>
       \/ /\ stored[vmid(c)] \notin {fp(c), NoPin, Empty}
          /\ End(c)
    /\ UNCHANGED <<stores, sess, issued, outside, mode>>

-----------------------------------------------------------------------------
(***************************************************************************)
(* pinnedToAnotherVM.  It runs on every leg before the session is touched, *)
(* and once more under pinCreateMu before a store file is created.         *)
(***************************************************************************)
\* os.ReadDir(PinDir): the names of VMs there are the files still to read.
ListPins(c) ==
    /\ pc[c] = "list"
    /\ Goto(c, "pins")
    /\ scan' = [scan EXCEPT
         ![c].src = "store",
         ![c].todo = {w \in VM : w # vmid(c) /\ stored[w] # NoPin}]
    /\ UNCHANGED <<stores, sess, pinCreateMu, conn, req, issued, outside, mode>>

\* Read one store file (the code takes them by name); a match is only a refusal
\* when the VM still has a guest config.
CheckPin(c, w) ==
    /\ pc[c] = "pins" /\ scan[c].src = "store" /\ w \in scan[c].todo
    /\ \/ /\ stored[w] = fp(c)
          /\ Goto(c, "look1")
          /\ scan' = [scan EXCEPT ![c].suspect = w]
       \/ /\ stored[w] # fp(c)
          /\ scan' = [scan EXCEPT ![c].todo = @ \ {w}]
          /\ UNCHANGED pc
    /\ UNCHANGED <<stores, sess, pinCreateMu, conn, req, issued, outside, mode>>

\* clusterPinsMatching lists the cluster directory.  (A malformed file is no pin,
\* so that it is listed or not makes no difference.)
ListClusterPins(c) ==
    /\ pc[c] = "pins" /\ scan[c].src = "store" /\ scan[c].todo = {}
    /\ scan' = [scan EXCEPT
         ![c].src = "cluster",
         ![c].todo = {w \in VM : w # vmid(c) /\ cluster[w] # NoPin}]
    /\ UNCHANGED <<stores, sess, pinCreateMu, pc, conn, req, issued, outside, mode>>

\* It reads every file listed, one gone since counts as none, and collects the VMs
\* whose cluster pin is this fingerprint.
ReadClusterPin(c, w) ==
    /\ pc[c] = "pins" /\ scan[c].src = "cluster" /\ w \in scan[c].todo
    /\ scan' = [scan EXCEPT
         ![c].todo = @ \ {w},
         ![c].hits = IF cluster[w] = fp(c) THEN @ \cup {w} ELSE @]
    /\ UNCHANGED <<stores, sess, pinCreateMu, pc, conn, req, issued, outside, mode>>

\* Then each of those is looked up.
CheckClusterPin(c, w) ==
    /\ pc[c] = "pins" /\ scan[c].src = "cluster" /\ scan[c].todo = {} /\ w \in scan[c].hits
    /\ Goto(c, "look1")
    /\ scan' = [scan EXCEPT ![c].suspect = w]
    /\ UNCHANGED <<stores, sess, pinCreateMu, conn, req, issued, outside, mode>>

\* guestExists looks twice, guestConfigRecheck apart.  A pin is stale only when
\* both looks miss.  (A guest root that cannot be listed counts as existing:
\* StoreError has the same effect as the refusal.)
LookForGuest(c) ==
    /\ pc[c] \in {"look1", "look2"}
    /\ \/ /\ guestExists(scan[c].suspect)
          /\ End(c)
       \/ /\ ~guestExists(scan[c].suspect)
          /\ pc[c] = "look1"
          /\ Goto(c, "look2")
          /\ UNCHANGED <<pinCreateMu, local>>
       \/ /\ ~guestExists(scan[c].suspect)
          /\ pc[c] = "look2"
          /\ Goto(c, "pins")
          /\ scan' = [scan EXCEPT ![c].todo = @ \ {scan[c].suspect},
                                  ![c].hits = @ \ {scan[c].suspect},
                                  ![c].suspect = NoVM]
          /\ UNCHANGED <<pinCreateMu, conn, req>>
    /\ UNCHANGED <<stores, sess, issued, outside, mode>>

\* The scan found no other VM.  On the authentication run the leg goes on to
\* its session, a start only when the signing request holds the header's EK
\* (the request is what it is: both outcomes are possible);
\* on the run under the mutex the leg is done if its own pin exists already.
Unpinned(c) ==
    \/ /\ pinCreateMu = c /\ scan[c].had
       /\ Ensured(c)
    \/ /\ pinCreateMu = c /\ ~scan[c].had
       /\ Goto(c, "create")
       /\ scan' = [scan EXCEPT ![c] = NoScan]
       /\ UNCHANGED <<pinCreateMu, conn, req>>
    \/ /\ pinCreateMu # c
       /\ Goto(c, IF req[c].op = "start" THEN "put" ELSE "take")
       /\ scan' = [scan EXCEPT ![c] = NoScan]
       /\ UNCHANGED <<pinCreateMu, conn, req>>
    \/ /\ pinCreateMu # c
       /\ req[c].op = "start"
       /\ End(c)

\* The files have been read and the matches looked up.
FilesDone(c) ==
    pc[c] = "pins" /\ scan[c].src = "cluster" /\ scan[c].todo = {} /\ scan[c].hits = {}

\* InventoryPins(): the pins of the current cache, read under its lock.  Here a
\* pin counts whether or not its VM still exists.
CheckInventory(c) ==
    /\ FilesDone(c)
    /\ \/ /\ \E w \in VM : w # vmid(c) /\ cache[w] = fp(c)
          /\ End(c)
       \/ /\ ~\E w \in VM : w # vmid(c) /\ cache[w] = fp(c)
          /\ Unpinned(c)
    /\ UNCHANGED <<stores, sess, issued, outside, mode>>

-----------------------------------------------------------------------------
(***************************************************************************)
(* The session table.                                                      *)
(***************************************************************************)
\* Enroller.Start: the signing request passes its checks, and the challenge
\* for its EK is stored under a fresh session ID.
Put(c) ==
    /\ pc[c] = "put"
    /\ \E s \in Session :
         /\ sess[s] = Unused
         /\ sess' = [purgeLocked EXCEPT
                       ![s] = [st |-> "live", vm |-> vmid(c), ek |-> fp(c)]]
    /\ End(c)
    /\ UNCHANGED <<stores, issued, outside, mode>>

\* What Finish compares after Take, besides the answer to the challenge.
Matches(c) ==
    /\ sess[req[c].sid].st = "live"
    /\ sess[req[c].sid].vm = vmid(c)
    /\ sess[req[c].sid].ek = fp(c)

\* Faulty variant: the session stays in the table.
TakeKeepsSession(c) ==
    /\ pc[c] = "take"
    /\ sess' = purgeLocked
    /\ \/ /\ Matches(c)
          /\ Goto(c, IF conn[c].pin \in EK THEN "issue" ELSE "lock")
          /\ UNCHANGED <<pinCreateMu, local>>
       \/ End(c)
    /\ UNCHANGED <<stores, issued, outside, mode>>

\* Faulty variant: the current inventory, not the record of the connection, says
\* whether there is a pin to create.
TakeRereadsInventory(c) ==
    /\ pc[c] = "take"
    /\ sess' = IF sess[req[c].sid].st = "live"
               THEN [purgeLocked EXCEPT ![req[c].sid].st = "gone"]
               ELSE purgeLocked
    /\ \/ /\ Matches(c)
          /\ Goto(c, IF cache[vmid(c)] \in EK THEN "issue" ELSE "lock")
          /\ UNCHANGED <<pinCreateMu, local>>
       \/ End(c)
    /\ UNCHANGED <<stores, issued, outside, mode>>

\* Enroller.Finish up to the pin: Take removes the session before anything is
\* compared, so a wrong answer costs the session.  A record with an inventory
\* pin goes straight to the CA.
Take(c) ==
    /\ pc[c] = "take"
    /\ sess' = IF sess[req[c].sid].st = "live"
               THEN [purgeLocked EXCEPT ![req[c].sid].st = "gone"]
               ELSE purgeLocked
    /\ \/ /\ Matches(c)
          /\ Goto(c, IF conn[c].pin \in EK THEN "issue" ELSE "lock")
          /\ UNCHANGED <<pinCreateMu, local>>
       \/ End(c)   \* no such session, another VM or EK, or a wrong answer
    /\ UNCHANGED <<stores, issued, outside, mode>>

\* The TTL of a session passes; it stays in the table until the next purge.
Expire(s) ==
    /\ sess[s].st = "live"
    /\ sess' = [sess EXCEPT ![s].st = "expired"]
    /\ UNCHANGED <<stores, pinCreateMu, pc, local, issued, outside, mode>>

-----------------------------------------------------------------------------
(***************************************************************************)
(* ensurePinBeforeIssue and the CA.                                        *)
(***************************************************************************)
\* Faulty variant: no mutual exclusion.
LockAnyway(c) ==
    /\ pc[c] = "lock"
    /\ pinCreateMu' = c
    /\ Goto(c, IF Proxmox THEN "ensCluster" ELSE "ensStored")
    /\ UNCHANGED <<stores, sess, local, issued, outside, mode>>

\* pinCreateMu.Lock().
Lock(c) ==
    /\ pc[c] = "lock"
    /\ pinCreateMu = NoConn
    /\ pinCreateMu' = c
    /\ Goto(c, IF Proxmox THEN "ensCluster" ELSE "ensStored")
    /\ UNCHANGED <<stores, sess, local, issued, outside, mode>>

\* Faulty variant: under the mutex a missing cluster pin always means first use.
EnsureClusterOptional(c) ==
    /\ pc[c] = "ensCluster"
    /\ \/ /\ cluster[vmid(c)] = fp(c)
          /\ Ensured(c)
       \/ /\ cluster[vmid(c)] = NoPin
          /\ Goto(c, "ensStored")
          /\ UNCHANGED <<pinCreateMu, local>>
       \/ /\ cluster[vmid(c)] \notin {fp(c), NoPin}
          /\ End(c)
    /\ UNCHANGED <<stores, sess, issued, outside, mode>>

\* The cluster pin again: it may have been written since the leg authenticated.
EnsureCluster(c) ==
    /\ pc[c] = "ensCluster"
    /\ \/ /\ cluster[vmid(c)] = fp(c)
          /\ Ensured(c)
       \/ /\ cluster[vmid(c)] = NoPin /\ ~requireClusterPin
          /\ Goto(c, "ensStored")
          /\ UNCHANGED <<pinCreateMu, local>>
       \/ /\ cluster[vmid(c)] # fp(c)
          /\ cluster[vmid(c)] # NoPin \/ requireClusterPin
          /\ End(c)
    /\ UNCHANGED <<stores, sess, issued, outside, mode>>

\* Under the mutex the caller's own pin is read again; it must not be another EK.
EnsureStored(c) ==
    /\ pc[c] = "ensStored"
    /\ \/ /\ stored[vmid(c)] \in {fp(c), NoPin, Empty}
          /\ Goto(c, "list")
          /\ scan' = [scan EXCEPT ![c].had = (stored[vmid(c)] = fp(c))]
          /\ UNCHANGED <<pinCreateMu, conn, req>>
       \/ /\ stored[vmid(c)] \notin {fp(c), NoPin, Empty}
          /\ End(c)
    /\ UNCHANGED <<stores, sess, issued, outside, mode>>

\* createStoredPinExclusive: os.Link publishes the finished file, or fails
\* because the name exists, be the file there empty or not.
Create(c) ==
    /\ pc[c] = "create"
    /\ \/ /\ stored[vmid(c)] = NoPin
          /\ stored' = [stored EXCEPT ![vmid(c)] = fp(c)]
          /\ Ensured(c)
       \/ /\ stored[vmid(c)] # NoPin
          /\ Goto(c, "reread")
          /\ UNCHANGED <<stored, pinCreateMu, local>>
    /\ UNCHANGED <<cluster, cache, guest, sess, issued, outside, mode>>

\* Faulty variant: an empty file is not removed before the next try.
RereadRetries(c) ==
    /\ pc[c] = "reread"
    /\ \/ /\ stored[vmid(c)] \in {NoPin, Empty}
          /\ Goto(c, "create")
          /\ UNCHANGED <<pinCreateMu, local>>
       \/ /\ stored[vmid(c)] = fp(c)
          /\ Ensured(c)
       \/ /\ stored[vmid(c)] \notin {fp(c), NoPin, Empty}
          /\ End(c)
    /\ UNCHANGED <<stores, sess, issued, outside, mode>>

\* errAlreadyPinned: an empty file is to be replaced, another pin refuses.
Reread(c) ==
    /\ pc[c] = "reread"
    /\ \/ /\ stored[vmid(c)] \in {NoPin, Empty}
          /\ Goto(c, "remove")
          /\ UNCHANGED <<pinCreateMu, local>>
       \/ /\ stored[vmid(c)] = fp(c)
          /\ Ensured(c)
       \/ /\ stored[vmid(c)] \notin {fp(c), NoPin, Empty}
          /\ End(c)
    /\ UNCHANGED <<stores, sess, issued, outside, mode>>

\* os.Remove(pinPath): whatever file has the name by now.
Remove(c) ==
    /\ pc[c] = "remove"
    /\ stored' = [stored EXCEPT ![vmid(c)] = NoPin]
    /\ Goto(c, "recreate")
    /\ UNCHANGED <<cluster, cache, guest, sess, pinCreateMu, local, issued, outside, mode>>

\* The second createStoredPinExclusive: here an existing file is an error.
Recreate(c) ==
    /\ pc[c] = "recreate"
    /\ \/ /\ stored[vmid(c)] = NoPin
          /\ stored' = [stored EXCEPT ![vmid(c)] = fp(c)]
          /\ Ensured(c)
       \/ /\ stored[vmid(c)] # NoPin
          /\ End(c)
          /\ UNCHANGED stored
    /\ UNCHANGED <<cluster, cache, guest, sess, issued, outside, mode>>

\* CA.IssueDevID with the session's VM as the CN, logged and returned.
Issue(c) ==
    /\ pc[c] = "issue"
    /\ issued' = issued \cup {[sid |-> req[c].sid,
                               vm |-> sess[req[c].sid].vm,
                               ek |-> fp(c)]}
    /\ End(c)
    /\ UNCHANGED <<stores, sess, outside, mode>>

\* Faulty variant: a pin file that cannot be created does not stop the issue.
StoreErrorFailsOpen(c) ==
    /\ pc[c] \notin {"idle", "take", "lock"}
    /\ IF pc[c] = "create" THEN Ensured(c) ELSE End(c)
    /\ UNCHANGED <<stores, sess, issued, outside, mode>>

\* A store, the cluster directory, the guest configs, the CA or the random
\* source fails at the step the leg is at: ErrPinStore, or a plain error.  The
\* session of a finish stays spent, and a pin created stays created.
StoreError(c) ==
    /\ pc[c] \notin {"idle", "take", "lock"}
    /\ End(c)
    /\ UNCHANGED <<stores, sess, issued, outside, mode>>

-----------------------------------------------------------------------------
(***************************************************************************)
(* The service stops and starts again: legs, sessions and the mutex are    *)
(* gone, the files and the inventory are not.                              *)
(***************************************************************************)
Restart ==
    /\ pc' = [c \in Conn |-> "idle"]
    /\ conn' = [c \in Conn |-> Unbound]
    /\ req' = [c \in Conn |-> NoReq]
    /\ scan' = [c \in Conn |-> NoScan]
    /\ pinCreateMu' = NoConn
    /\ sess' = [s \in Session |->
          IF sess[s] = Unused THEN Unused ELSE [sess[s] EXCEPT !.st = "gone"]]
    /\ UNCHANGED <<stores, issued, outside, mode>>

(***************************************************************************)
(* What happens outside the service, whatever its legs are doing.          *)
(***************************************************************************)
\* A change of VM v goes on record.
Touches(k, v, p, q) ==
    /\ k \in OutsideKinds[mode]
    /\ outside' = outside \cup {[kind |-> k, vm |-> v, old |-> p, new |-> q]}
    /\ Cardinality(outside') <= MaxOutside
    /\ UNCHANGED <<sess, pinCreateMu, pc, local, issued, mode>>

\* The documented reset deletes the file; an editor may leave it empty.
ResetPin(v, p) ==
    /\ Touches("reset", v, stored[v], p)
    /\ stored[v] # NoPin /\ p \in {NoPin, Empty} /\ p # stored[v]
    /\ stored' = [stored EXCEPT ![v] = p]
    /\ UNCHANGED <<cluster, cache, guest>>

\* A pin file copied into the store by hand.
WritePin(v, k) ==
    /\ Touches("hand", v, stored[v], k)
    /\ stored' = [stored EXCEPT ![v] = k]
    /\ UNCHANGED <<cluster, cache, guest>>

\* Root writes, replaces or removes a cluster pin.
SetClusterPin(v, p) ==
    /\ Proxmox /\ p # cluster[v]
    /\ Touches(IF cluster[v] = NoPin THEN "pinned" ELSE "repinned", v,
               cluster[v], p)
    /\ cluster' = [cluster EXCEPT ![v] = p]
    /\ UNCHANGED <<stored, cache, guest>>

\* RefreshVMConfigCache puts a changed entry into the cache.
Reload(v, p) ==
    /\ p # cache[v]
    /\ Proxmox => p \notin EK
    /\ Touches(IF cache[v] = NoPin /\ p \in EK THEN "pinned" ELSE "repinned", v,
               cache[v], p)
    /\ cache' = [cache EXCEPT ![v] = p]
    /\ UNCHANGED <<stored, cluster, guest>>

\* The guest config is removed from, or comes back to, the cluster.
DestroyGuest(v) ==
    /\ Proxmox /\ v \in guest
    /\ Touches("gone", v, NoPin, NoPin)
    /\ guest' = guest \ {v}
    /\ UNCHANGED <<stored, cluster, cache>>

CreateGuest(v) ==
    /\ v \notin guest
    /\ guest' = guest \cup {v}
    /\ UNCHANGED <<stored, cluster, cache, sess, pinCreateMu, pc, local, issued, outside, mode>>

-----------------------------------------------------------------------------
Scan(c) ==
    \/ ListPins(c)
    \/ \E w \in VM : CheckPin(c, w) \/ ReadClusterPin(c, w) \/ CheckClusterPin(c, w)
    \/ ListClusterPins(c)
    \/ LookForGuest(c)
    \/ CheckInventory(c)

\* The steps of a request once it has been accepted.
Serve(c) ==
    \/ OwnCluster(c) \/ OwnStored(c)
    \/ Scan(c)
    \/ Put(c) \/ Take(c)
    \/ EnsureCluster(c) \/ EnsureStored(c)
    \/ Create(c) \/ Reread(c) \/ Remove(c) \/ Recreate(c)
    \/ Issue(c)
    \/ StoreError(c)

Accept(c) ==
    \/ \E v \in VM : Connect(c, v)
    \/ \E k \in EK : HandleStart(c, k)
    \/ \E k \in EK, s \in Session : HandleFinish(c, k, s)

Outside ==
    \/ \E v \in VM, p \in {NoPin, Empty} : ResetPin(v, p)
    \/ \E v \in VM, k \in EK : WritePin(v, k)
    \/ \E v \in VM, p \in EK \cup {NoPin} : SetClusterPin(v, p)
    \/ \E v \in VM, p \in EK \cup {NoPin, Unlisted} : Reload(v, p)
    \/ \E v \in VM : DestroyGuest(v) \/ CreateGuest(v)

Next ==
    \/ \E c \in Conn : Accept(c) \/ Serve(c) \/ Lock(c)
    \/ \E s \in Session : Expire(s)
    \/ Restart
    \/ Outside

Spec == Init /\ [][Next]_vars

\* A runnable goroutine is scheduled, and sync.Mutex hands itself over to a
\* waiter that has been starved for a millisecond.
Fairness == \A c \in Conn : WF_vars(Serve(c)) /\ SF_vars(Lock(c))

FairSpec == Spec /\ Fairness

-----------------------------------------------------------------------------
(***************************************************************************)
(* Properties.                                                             *)
(***************************************************************************)
\* VMs that saw a change of one of the kinds ks outside the service.
Touched(ks) == {o.vm : o \in {x \in outside : x.kind \in ks}}

\* VMs that were given or lost the pin p in such a change, or whose guest was gone.
About(ks, p) ==
    {o.vm : o \in {x \in outside :
        x.kind \in ks /\ (x.kind = "gone" \/ p \in {x.old, x.new})}}

\* Two VMs presenting one EK never both get a store file (pin.go, pinCreateMu):
\* equal pins need one VM whose guest config was once missing, so that its pin
\* was stale, or into whose pin file the operator wrote this pin, or over it.
PinsUnique ==
    \A v, w \in VM :
        v # w /\ stored[v] \in EK /\ stored[v] = stored[w]
            => {v, w} \cap About({"gone", "hand"}, stored[v]) # {}

\* With require_cluster_pin there is no first use: no leg makes a store file, not
\* even when root removes the cluster pin while the leg is under way.
RequireHonoured ==
    requireClusterPin => \A v \in VM \ Touched({"hand"}) : stored[v] = NoPin

\* The pin of record of a VM: inventory, else cluster, else store.
OfRecord(v) ==
    IF cache[v] \in EK THEN cache[v]
    ELSE IF cluster[v] \in EK \/ requireClusterPin THEN cluster[v]
    ELSE stored[v]

\* A certificate is signed only after the pin of its VM is on record, whatever
\* crashed or failed in between: while nobody outside changes the pins of the
\* VM, its pin of record is the EK of every certificate it was ever given.
CertsBacked ==
    \A i \in issued :
        i.vm \notin Touched({"reset", "hand", "pinned", "repinned"})
            => OfRecord(i.vm) = i.ek

\* One EK belongs to one VM: certificates for two VMs on one EK need a change
\* outside the service that gave this EK to one of the two, took it away or made
\* its guest disappear.  A change of their other pins does not excuse it: a leg
\* whose connection still has the old record must not slip past the scan.
SoleOwner ==
    \A i, j \in issued :
        i.ek = j.ek /\ i.vm # j.vm => {i.vm, j.vm} \cap About(Kind, i.ek) # {}

\* enroll.go on a caller with an inventory pin: "there is nothing to make atomic;
\* the cross-VM scan already ran ... on this leg", so giving a VM a pin, which
\* takes no other VM's pin away, can never let a second VM enroll with an EK.
NothingToMakeAtomic ==
    \A i, j \in issued :
        i.ek = j.ek /\ i.vm # j.vm
            => {i.vm, j.vm} \cap Touched(Kind \ {"pinned"}) # {}

\* A session serves one finish: the legs past Take hold different sessions, and
\* those are no longer in the table.
OneFinishPerSession ==
    \A c \in Conn : pc[c] \in TakenPC =>
        /\ sess[req[c].sid].st = "gone"
        /\ \A d \in Conn : pc[d] \in TakenPC /\ req[d].sid = req[c].sid => c = d
        /\ \A i \in issued : i.sid # req[c].sid

\* Every request gets its answer: no leg stays in a scan, on the mutex or
\* behind a pin file forever.
RequestsAnswered == \A c \in Conn : pc[c] # "idle" ~> pc[c] = "idle"

-----------------------------------------------------------------------------
(***************************************************************************)
(* The service implements EnrollService.                                   *)
(***************************************************************************)
\* The legs that have redeemed their session: they are past Take, or in the scan
\* that ensurePinBeforeIssue makes under the mutex.
Holders == {c \in Conn : pc[c] \in TakenPC \/ pinCreateMu = c}

Redeemed == {req[c].sid : c \in Holders}

\* An expired session is as good as removed, the purge is only housekeeping.
Progress(st) ==
    CASE st = "unused" -> "fresh" [] st = "live" -> "open" [] OTHER -> "closed"

AbsSession == [s \in Session |->
    [st |-> IF s \in Redeemed THEN "redeemed" ELSE Progress(sess[s].st),
     vm |-> sess[s].vm, ek |-> sess[s].ek]]

Service == INSTANCE EnrollService WITH session <- AbsSession, granted <- issued

\* enroll.go, session.go: whatever legs, restarts, expiry and failing stores do,
\* every certificate is the answer to one redemption of one session, and names
\* the VM and the EK that session was opened for.
ImplementsService == Service!Spec
=============================================================================
