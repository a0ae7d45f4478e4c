----------------------------- MODULE GuestClient -----------------------------
(***************************************************************************)
(* devid-enroll in the guest (internal/devid/client.go, renew.go,          *)
(* instanceid.go, keys.go, csr.go, sign.go, activate.go): one run of       *)
(* ClientEnrollOrRenew after the other, started by a timer, against the    *)
(* guest's TPM, the enrollment service and the SPIRE agent beside it.      *)
(*                                                                         *)
(* A run may fail at any step, and may be killed or lose power at any      *)
(* step.  Between runs the VM may be cloned or moved to another TPM, and   *)
(* its files may be lost or damaged.  The service is EnrollService, with   *)
(* the pins by which it turns a guest away (auth.go, pin.go): for the VMs  *)
(* and TPMs here it has its own store and no other.  The agent is external *)
(* and modelled from how client.go and renew.go use it.                    *)
(***************************************************************************)
EXTENDS FiniteSets, Naturals

CONSTANTS
    VM,             \* VM IDs
    TPM,            \* TPMs, and the EKs they hold
    FirstVM,        \* what the guest is at first; one VM or TPM is as good as
    FirstTPM,       \* another
    Session,        \* session IDs of the service, drawn in order
    MaxTroubles,    \* how many failures and crashes may happen
    MaxEdits,       \* how often the guest or its files may change between runs
    NoVM, NoTPM, NoFile,
    Bad,            \* a damaged file; a private blob the TPM takes for a foreign one
    Cut,            \* a private blob the TPM rejects by another code, as TPM_RC_SIZE
    NoKey, NoCert

VARIABLES
    vmid, tpm,        \* who this guest is, and its TPM
    cert, priv, pub,  \* devid.crt.pem, devid.priv.blob, devid.pub.blob
    due,              \* RenewDue of the certificate in the file
    pc,               \* where the run is
    child,            \* the key being made or loaded under the storage root key
    reason,           \* there is a reason to renew
    devID,            \* the DevID key of the run, if it has one
    sid,              \* the session of the run, 0 before enroll/start
    loaded,           \* the objects of the run in the TPM
    keys,             \* how many DevID keys were ever kept in a file
    session, granted, \* the enrollment service
    pins,             \* the EK each VM is pinned to
    agent,            \* the session whose certificate the running agent attested with
    cache,            \* the agent's SVID cache, with the clear it was written after
    cleared,          \* history: the session of the last run that cleared the cache
    queued,           \* a restart of the agent is queued with systemd
    troubles, edits

guest   == <<vmid, tpm>>
files   == <<cert, priv, pub, due>>
run     == <<child, reason, devID, sid, keys>>
service == <<session, granted, pins>>
spire   == <<agent, cache, cleared, queued>>
vars    == <<guest, files, pc, run, loaded, service, spire, troubles, edits>>

Service == INSTANCE EnrollService WITH EK <- TPM, NoPin <- NoTPM

Key     == [tpm : TPM, n : Nat \ {0}]
Cert    == [sid : Session, cn : VM, key : Key]

ASSUME GuestAssumption ==
    /\ FirstVM \in VM /\ NoVM \notin VM
    /\ FirstTPM \in TPM /\ NoTPM \notin TPM
    /\ Session \subseteq Nat \ {0}
    /\ MaxTroubles \in Nat /\ MaxEdits \in Nat
    /\ NoFile \notin Cert \cup Key /\ Bad \notin Cert \cup Key
    /\ Cut \notin Key \cup {NoFile, Bad} /\ NoFile # Bad /\ NoKey \notin Key

Object  == {"SRK", "EK", "AK", "DevID", "SEQ"}

\* Where a parent is derived, a child is loaded under it and the parent is
\* flushed: LoadDevID, CreateAK and CreateDevID.
Child   == {"blobs", "AK", "new"}
UnderPC == {"derive", "load", "flush"}

RequestPC == {"ek", "ekFlush", "certify", "hash", "sign", "start", "ek2", "activate",
              "finish", "answer", "clear", "priv", "pub", "cert", "restart"}
PC == {"idle", "check", "vmid", "read", "decide"} \cup UnderPC \cup RequestPC

\* The files, the run, the TPM, the agent and the counters have their types.
TypeOK ==
    /\ vmid \in VM /\ tpm \in TPM
    /\ cert \in Cert \cup {NoFile, Bad}
    /\ priv \in Key \cup {NoFile, Bad, Cut}
    /\ pub \in Key \cup {NoFile, Bad}
    /\ due \in BOOLEAN /\ reason \in BOOLEAN
    /\ pc \in PC /\ child \in Child \cup {"none"}
    /\ devID \in Key \cup {NoKey}
    /\ sid \in Session \cup {0}
    /\ loaded \subseteq Object
    /\ keys \in Nat
    /\ pins \in [VM -> TPM \cup {NoTPM}]
    /\ agent \in Session \cup {0}
    /\ cache \in [id : Session, after : Session \cup {0}] \cup {NoCert}
    /\ cleared \in Session \cup {0}
    /\ queued \in BOOLEAN
    /\ troubles \in 0..MaxTroubles /\ edits \in 0..MaxEdits

\* A fresh guest: no materials, no agent.
Init ==
    /\ vmid = FirstVM /\ tpm = FirstTPM
    /\ cert = NoFile /\ priv = NoFile /\ pub = NoFile /\ due = FALSE
    /\ pc = "idle" /\ child = "none" /\ reason = FALSE /\ devID = NoKey /\ sid = 0
    /\ loaded = {} /\ keys = 0
    /\ Service!Init /\ pins = [v \in VM |-> NoTPM]
    /\ agent = 0 /\ cache = NoCert /\ cleared = 0 /\ queued = FALSE
    /\ troubles = 0 /\ edits = 0

-----------------------------------------------------------------------------
(***************************************************************************)
(* Why a run renews.                                                       *)
(***************************************************************************)
\* TPM2_Load takes blobs that belong together and to this TPM.
Usable == pub \in Key /\ priv = pub /\ pub.tpm = tpm

\* A run begins.  systemd runs the oneshot one at a time.
Begin ==
    /\ pc = "idle"
    /\ pc' = "check"
    /\ child' = "none" /\ reason' = FALSE /\ devID' = NoKey /\ sid' = 0
    /\ UNCHANGED <<guest, files, keys, loaded, service, spire, troubles, edits>>

\* LoadCertPEMFile and RenewDue.  Only a certificate that parses has a CN to
\* compare.
CheckCert ==
    /\ pc = "check"
    /\ reason' = (cert \notin Cert \/ due)
    /\ pc' = IF cert \in Cert THEN "vmid" ELSE "read"
    /\ UNCHANGED <<guest, files, child, devID, sid, keys, loaded, service, spire, troubles,
                   edits>>

\* Faulty variant: the CN is not compared.
CheckVMIDNever ==
    /\ pc = "vmid"
    /\ pc' = "read"
    /\ UNCHANGED <<guest, files, run, loaded, service, spire, troubles, edits>>

\* ReadVMID answers within its three tries.
CheckVMID ==
    /\ pc = "vmid"
    /\ reason' = (reason \/ cert.cn # vmid)
    /\ pc' = "read"
    /\ UNCHANGED <<guest, files, child, devID, sid, keys, loaded, service, spire, troubles,
                   edits>>

\* Both blobs are read.  A missing one is a reason and leaves the run without a
\* key, and so does a public blob that does not decode; a certificate over
\* another key is a reason, and the key is still loaded.
ReadBlobs ==
    /\ pc = "read"
    /\ pc' = IF NoFile \in {pub, priv} \/ pub = Bad THEN "decide" ELSE "derive"
    /\ child' = IF pc' = "derive" THEN "blobs" ELSE "none"
    /\ reason' = (reason \/ NoFile \in {pub, priv} \/ pub = Bad \/ cert.key # pub)
    /\ UNCHANGED <<guest, files, devID, sid, keys, loaded, service, spire, troubles,
                   edits>>

-----------------------------------------------------------------------------
(***************************************************************************)
(* Keys under the storage root key.                                        *)
(***************************************************************************)
\* CreateSRK: the parent of the child.
DeriveSRK ==
    /\ pc = "derive"
    /\ loaded' = loaded \cup {"SRK"}
    /\ pc' = "load"
    /\ UNCHANGED <<guest, files, run, service, spire, troubles, edits>>

\* TPM2_Load of the blobs in the files.  isForeignLoadError: blobs of another TPM,
\* or that do not belong together, are no reason to fail; the run goes on
\* without a key.
LoadBlobs ==
    /\ pc = "load" /\ child = "blobs" /\ priv # Cut
    /\ \/ /\ Usable
          /\ devID' = pub
          /\ loaded' = loaded \cup {"DevID"}
          /\ UNCHANGED reason
       \/ /\ ~Usable
          /\ reason' = TRUE
          /\ UNCHANGED <<devID, loaded>>
    /\ pc' = "flush"
    /\ UNCHANGED <<guest, files, child, sid, keys, service, spire, troubles, edits>>

\* ErrDevIDLoad: any other answer of the TPM ends the run, and the parent is flushed.
LoadFails ==
    /\ pc = "load" /\ child = "blobs" /\ priv = Cut
    /\ pc' = "idle"
    /\ loaded' = loaded \ {"SRK"}
    /\ UNCHANGED <<guest, files, run, service, spire, troubles, edits>>

\* createLoadedKey for the attestation key.
CreateAK ==
    /\ pc = "load" /\ child = "AK"
    /\ loaded' = loaded \cup {"AK"}
    /\ pc' = "flush"
    /\ UNCHANGED <<guest, files, run, service, spire, troubles, edits>>

\* createLoadedKey for a DevID key; one that no file has ever held.
CreateDevID ==
    /\ pc = "load" /\ child = "new"
    /\ devID' = [tpm |-> tpm, n |-> keys + 1]
    /\ loaded' = loaded \cup {"DevID"}
    /\ pc' = "flush"
    /\ UNCHANGED <<guest, files, child, reason, sid, keys, service, spire, troubles, edits>>

\* The deferred flush of the parent, and what comes after the child.
FlushSRK ==
    /\ pc = "flush"
    /\ loaded' = loaded \ {"SRK"}
    /\ \/ /\ child = "blobs"
          /\ pc' = "decide" /\ child' = "none"
       \/ /\ child = "AK" /\ devID = NoKey
          /\ pc' = "derive" /\ child' = "new"
       \/ /\ child = "new" \/ (child = "AK" /\ devID # NoKey)
          /\ pc' = "certify" /\ child' = "none"
    /\ UNCHANGED <<guest, files, reason, devID, sid, keys, service, spire, troubles, edits>>

\* Without a reason the loaded key is flushed and the run is over.
Decide ==
    /\ pc = "decide"
    /\ pc' = IF reason THEN "ek" ELSE "idle"
    /\ loaded' = IF reason THEN loaded ELSE loaded \ {"DevID"}
    /\ UNCHANGED <<guest, files, run, service, spire, troubles, edits>>

-----------------------------------------------------------------------------
(***************************************************************************)
(* The signing request.                                                    *)
(***************************************************************************)
\* A TPM command of the run that leaves only objects behind or takes some away.
Command(from, to, objects) ==
    /\ pc = from
    /\ pc' = to
    /\ loaded' = objects
    /\ UNCHANGED <<guest, files, run, service, spire, troubles, edits>>

\* NVRead of the EK certificate and CreateEK.
DeriveEK == Command("ek", "ekFlush", loaded \cup {"EK"})

\* Faulty variant: the EK is kept for Activate.
NoRoom == loaded

\* Only the public area is needed: the EK makes room for the AK.
Room == loaded \ {"EK"}

FlushEK ==
    /\ pc = "ekFlush"
    /\ loaded' = Room
    /\ pc' = "derive" /\ child' = "AK"
    /\ UNCHANGED <<guest, files, reason, devID, sid, keys, service, spire, troubles, edits>>

\* certifyWithRetry.
Certify == Command("certify", "hash", loaded)

\* tpmHash: a request longer than the digest buffer takes a hash sequence, an
\* object of its own, until the digest is there.
HashAndSign ==
    \/ Command("hash", "sign", loaded \cup {"SEQ"})
    \/ Command("hash", "start", loaded)
    \/ Command("sign", "start", loaded \ {"SEQ"})

\* Activate derives the EK again, beside the AK and the DevID key, and flushes it.
Activate ==
    \/ Command("ek2", "activate", loaded \cup {"EK"})
    \/ Command("activate", "finish", loaded \ {"EK"})

-----------------------------------------------------------------------------
(***************************************************************************)
(* The two legs.                                                           *)
(***************************************************************************)
\* The pins let VM v in with EK t: v has no other one, and nobody else has t.
Admits(v, t) == pins[v] \in {t, NoTPM} /\ \A w \in VM \ {v} : pins[w] # t

\* The service knows the guest by its address and its EK.
Start ==
    /\ pc = "start"
    /\ Admits(vmid, tpm)
    /\ \E s \in Session :
         /\ \A r \in Session : session[r] = Service!Fresh => s <= r
         /\ Service!Open(s, vmid, tpm)
         /\ sid' = s
    /\ pc' = "ek2"
    /\ UNCHANGED <<guest, files, child, reason, devID, keys, loaded, pins, spire, troubles,
                   edits>>

\* The answer to the challenge reaches the service and is right.
Finish ==
    /\ pc = "finish"
    /\ Admits(vmid, tpm)
    /\ Service!Redeem(sid)
    /\ pc' = "answer"
    /\ UNCHANGED <<guest, files, run, loaded, pins, spire, troubles, edits>>

\* The service pins and signs, whether or not anybody still waits.
Issue ==
    /\ \E s \in Session :
         /\ Service!Grant(s)
         /\ Admits(session[s].vm, session[s].ek)
         /\ pins' = [pins EXCEPT ![session[s].vm] = session[s].ek]
    /\ UNCHANGED <<guest, files, pc, run, loaded, spire, troubles, edits>>

\* It does neither when the pins have come to stand in the way since the answer came.
Deny ==
    /\ \E s \in Session :
         /\ session[s].st = "redeemed"
         /\ ~Admits(session[s].vm, session[s].ek)
         /\ Service!Drop({s})
    /\ UNCHANGED <<guest, files, pc, run, loaded, pins, spire, troubles, edits>>

\* A session nobody works with is dropped.
Expire ==
    /\ \E s \in Session :
         /\ s # sid \/ pc \notin {"ek2", "activate", "finish", "answer"}
         /\ session[s].st \in {"open", "redeemed"}
         /\ Service!Drop({s})
    /\ UNCHANGED <<guest, files, pc, run, loaded, pins, spire, troubles, edits>>

Answered == \E g \in granted : g.sid = sid

\* Faulty variant: an answer without a certificate is taken for one.
ReceiveAnything ==
    /\ pc = "answer"
    /\ pc' = "clear"
    /\ UNCHANGED <<guest, files, run, loaded, service, spire, troubles, edits>>

\* The certificate arrives.
Receive ==
    /\ pc = "answer"
    /\ Answered
    /\ pc' = "clear"
    /\ UNCHANGED <<guest, files, run, loaded, service, spire, troubles, edits>>

-----------------------------------------------------------------------------
(***************************************************************************)
(* The files.  A certificate has a serial number of its own, so the PEM    *)
(* always changes; each file is replaced by a rename.                      *)
(***************************************************************************)
\* Faulty variant: the cache is left to the restart.
KeepCache ==
    /\ pc = "clear"
    /\ pc' = "priv"
    /\ cleared' = sid
    /\ UNCHANGED <<guest, files, run, loaded, service, agent, cache, queued, troubles, edits>>

\* ClearSPIREAgentSVIDCache.
ClearCache ==
    /\ pc = "clear"
    /\ cache' = NoCert
    /\ cleared' = sid
    /\ pc' = "priv"
    /\ UNCHANGED <<guest, files, run, loaded, service, agent, queued, troubles, edits>>

\* The private blob of the run's key is there, for the first time or again.
Keep ==
    /\ priv' = devID
    /\ keys' = IF devID.n > keys THEN devID.n ELSE keys

\* Faulty variant: the certificate is written before the public blob.
WritePrivAndCert ==
    /\ pc = "priv"
    /\ Keep
    /\ cert' = [sid |-> sid, cn |-> session[sid].vm, key |-> devID]
    /\ pc' = "pub"
    /\ UNCHANGED <<guest, pub, due, child, reason, devID, sid, loaded, service, spire, troubles, edits>>

WritePriv ==
    /\ pc = "priv"
    /\ Keep
    /\ pc' = "pub"
    /\ UNCHANGED <<guest, cert, pub, due, child, reason, devID, sid, loaded, service, spire, troubles, edits>>

WritePub ==
    /\ pc = "pub"
    /\ pub' = devID
    /\ pc' = "cert"
    /\ UNCHANGED <<guest, cert, priv, due, run, loaded, service, spire, troubles, edits>>

\* The CN is the session's VM, the key the one in the signing request.
WriteCert ==
    /\ pc = "cert"
    /\ cert' = [sid |-> sid, cn |-> session[sid].vm, key |-> devID]
    /\ due' = FALSE
    /\ pc' = "restart"
    /\ UNCHANGED <<guest, priv, pub, run, loaded, service, spire, troubles, edits>>

\* TryRestartSPIREAgent queues the restart of a running agent and does not wait;
\* then the deferred Flush.
TryRestart ==
    /\ pc = "restart"
    /\ queued' = (queued \/ agent # 0)
    /\ loaded' = loaded \ {"AK", "DevID"}
    /\ pc' = "idle"
    /\ UNCHANGED <<guest, files, run, service, agent, cache, cleared, troubles, edits>>

-----------------------------------------------------------------------------
(***************************************************************************)
(* Failures.                                                               *)
(***************************************************************************)
Trouble == troubles < MaxTroubles /\ troubles' = troubles + 1

\* What the deferred calls flush when the run returns from its step: the parent,
\* the hash sequence, the EK of Activate, and with the request the AK and the
\* DevID key.
Deferred ==
    (IF pc \in {"load", "flush"} THEN {"SRK"} ELSE {})
        \cup (IF pc = "sign" THEN {"SEQ"} ELSE {})
        \cup (IF pc = "activate" THEN {"EK"} ELSE {})
        \cup (IF pc \in RequestPC \/ child \in {"AK", "new"} THEN {"AK", "DevID"} ELSE {})

\* Faulty variant: a TPM warning on the load counts as foreign blobs.
FailIsForeign ==
    /\ pc \notin {"idle", "check", "decide", "flush", "ekFlush", "restart"}
    /\ Trouble
    /\ \/ /\ pc = "load" /\ child = "blobs"
          /\ pc' = "flush" /\ reason' = TRUE
          /\ UNCHANGED loaded
       \/ /\ ~(pc = "load" /\ child = "blobs")
          /\ pc' = "idle" /\ loaded' = loaded \ Deferred
          /\ UNCHANGED reason
    /\ UNCHANGED <<guest, files, child, devID, sid, keys, service, spire, edits>>

\* The step of the run fails and the run returns the error: an unreadable
\* instance-id or blob, a TPM warning, no answer from the service (which may go on
\* with the session and even sign), a file that cannot be removed or written
\* (of the two cache files the first may be gone by then).
Fail ==
    /\ pc \notin {"idle", "check", "decide", "flush", "ekFlush", "restart"}
    /\ Trouble
    /\ pc' = "idle"
    /\ loaded' = loaded \ Deferred
    /\ cache' \in IF pc = "clear" THEN {cache, NoCert} ELSE {cache}
    /\ UNCHANGED <<guest, files, run, service, agent, cleared, queued, edits>>

\* The service drops the session of the run: too old, restarted, or its store failed.
Lose ==
    /\ Trouble
    /\ pc \in {"ek2", "activate", "finish", "answer"}
    /\ session[sid].st \in {"open", "redeemed"}
    /\ Service!Drop({sid})
    /\ UNCHANGED <<guest, files, pc, run, loaded, pins, spire, edits>>

\* 401: a leg of a guest that the pins do not let in.  The next run gets the same
\* answer, until the pin is taken away.
TurnedAway ==
    /\ pc \in {"start", "finish"}
    /\ ~Admits(vmid, tpm)
    /\ pc' = "idle"
    /\ loaded' = loaded \ Deferred
    /\ UNCHANGED <<guest, files, run, service, spire, troubles, edits>>

\* Without its session the run has no certificate to wait for.
Refused ==
    /\ pc \in {"finish", "answer"}
    /\ session[sid].st = "closed" /\ ~Answered
    /\ pc' = "idle"
    /\ loaded' = loaded \ Deferred
    /\ UNCHANGED <<guest, files, run, service, spire, troubles, edits>>

\* The client is killed or the guest loses power.  The TPM's resource manager
\* (/dev/tpmrm0) flushes what the process had loaded.
Crash ==
    /\ pc # "idle"
    /\ Trouble
    /\ pc' = "idle"
    /\ loaded' = {}
    /\ UNCHANGED <<guest, files, run, service, spire, edits>>

-----------------------------------------------------------------------------
(***************************************************************************)
(* The guest and its files between runs; time; the agent.                  *)
(***************************************************************************)
Edit == edits < MaxEdits /\ edits' = edits + 1

\* The disk comes up as another VM, with another TPM, or both.
Clone(v, t) ==
    /\ pc = "idle" /\ Edit
    /\ <<v, t>> # guest
    /\ vmid' = v /\ tpm' = t
    /\ agent' = 0 /\ queued' = FALSE
    /\ UNCHANGED <<files, pc, run, loaded, service, cache, cleared, troubles>>

\* A file is deleted or damaged; only of a private blob does it matter how.
Damage(d) ==
    /\ pc = "idle" /\ Edit
    /\ \/ cert' = d /\ cert # d /\ d # Cut /\ UNCHANGED <<priv, pub>>
       \/ priv' = d /\ priv # d /\ UNCHANGED <<cert, pub>>
       \/ pub' = d /\ pub # d /\ d # Cut /\ UNCHANGED <<cert, priv>>
    /\ UNCHANGED <<guest, due, pc, run, loaded, service, spire, troubles>>

\* The operator takes a pin away.
Unpin(v) ==
    /\ pins[v] # NoTPM
    /\ pins' = [pins EXCEPT ![v] = NoTPM]
    /\ UNCHANGED <<guest, files, pc, run, loaded, session, granted, spire, troubles, edits>>

\* Two thirds of the certificate's life are over.
BecomeDue ==
    /\ cert \in Cert /\ ~due /\ Edit
    /\ due' = TRUE
    /\ UNCHANGED <<guest, cert, priv, pub, pc, run, loaded, service, spire, troubles>>

\* The materials let the agent attest, and are not due.
Attests == cert \in Cert /\ Usable /\ cert.key = pub
Fit     == Attests /\ cert.cn = vmid /\ ~due

\* The agent takes up a cached SVID, or attests with the certificate and caches
\* the SVID it gets.
Attest ==
    \/ /\ cache # NoCert
       /\ agent' = cache.id
       /\ UNCHANGED cache
    \/ /\ cache = NoCert /\ Attests
       /\ agent' = cert.sid
       /\ cache' = [id |-> cert.sid, after |-> cleared]
    \/ /\ cache = NoCert /\ ~Attests
       /\ agent' = 0
       /\ UNCHANGED cache

AgentStart ==
    /\ agent = 0
    /\ Attest
    /\ UNCHANGED <<guest, files, pc, run, loaded, service, cleared, queued, troubles, edits>>

\* systemd carries out the queued restart.
AgentRestart ==
    /\ queued
    /\ queued' = FALSE
    /\ Attest
    /\ UNCHANGED <<guest, files, pc, run, loaded, service, cleared, troubles, edits>>

\* A rotated SVID is for the same identity and replaces the cached one.
AgentRotate ==
    /\ agent # 0
    /\ cache' = [id |-> agent, after |-> cleared]
    /\ UNCHANGED <<guest, files, pc, run, loaded, service, agent, cleared, queued, troubles,
                   edits>>

AgentStop ==
    /\ agent # 0
    /\ agent' = 0 /\ queued' = FALSE
    /\ UNCHANGED <<guest, files, pc, run, loaded, service, cache, cleared, troubles, edits>>

-----------------------------------------------------------------------------
\* The steps of a run that goes well, and its end when it is turned away.
Step ==
    \/ CheckCert \/ CheckVMID \/ ReadBlobs
    \/ DeriveSRK \/ FlushSRK
    \/ LoadBlobs \/ LoadFails \/ CreateAK \/ CreateDevID
    \/ Decide
    \/ DeriveEK \/ FlushEK \/ Certify \/ HashAndSign \/ Activate
    \/ Start \/ Finish \/ Receive \/ TurnedAway \/ Refused
    \/ ClearCache \/ WritePriv \/ WritePub \/ WriteCert \/ TryRestart

Agent == AgentStart \/ AgentRestart \/ AgentRotate \/ AgentStop

Changes ==
    \/ \E v \in VM, t \in TPM : Clone(v, t)
    \/ \E d \in {NoFile, Bad, Cut} : Damage(d)
    \/ \E v \in VM : Unpin(v)
    \/ BecomeDue

Next ==
    \/ Begin \/ Step
    \/ Fail \/ Lose \/ Crash
    \/ Issue \/ Deny \/ Expire
    \/ Agent
    \/ Changes

Spec == Init /\ [][Next]_vars

\* The timer starts a run again and again, a run goes on, the service answers.
FairSpec == Spec /\ WF_vars(Begin) /\ WF_vars(Step) /\ WF_vars(Issue \/ Deny)

-----------------------------------------------------------------------------
(***************************************************************************)
(* Properties.                                                             *)
(***************************************************************************)
\* client.go: "Blobs before cert so a crash cannot leave a new cert with old/missing
\* key".  Wherever runs were cut off, the certificate is over the key in the blobs
\* or over an older one, and the private blob is never behind the public one.
CertNeverNewerThanKey ==
    /\ cert \in Cert /\ pub \in Key => cert.key.n <= pub.n
    /\ pub \in Key /\ priv \in Key => pub.n <= priv.n

\* What the agent attests with was granted by the service, to this VM ID and on the
\* TPM that holds the key, although answers are lost and granted later and the guest
\* changes its VM and its TPM between runs.
CertWasGranted ==
    cert \in Cert =>
        [sid |-> cert.sid, vm |-> cert.cn, ek |-> cert.key.tpm] \in granted

\* csr.go: "a TPM has three" object slots; no run ever needs a fourth.
ThreeSlots == Cardinality(loaded) <= 3

\* client.go: "Closing /dev/tpm0 flushes nothing", so every way out of a run, by an
\* error too, flushes what the run has loaded.
NothingLeftLoaded == pc = "idle" => loaded = {}

\* The TPM's slots suffice for every run, whatever became of the runs before.
SlotsKept == ThreeSlots /\ NothingLeftLoaded

\* client.go: "writing PEM first then failing to clear leaves the old ID".  A cached
\* identity older than the certificate in the file was written by the agent itself
\* after the client had cleared the cache for that certificate.
StaleCacheIsAgentsOwn ==
    cache # NoCert /\ cert \in Cert /\ cache.id < cert.sid => cache.after >= cert.sid

\* A run replaces the DevID key only if the blobs in the files do not load in this
\* TPM; a renewal keeps it, and a TPM warning costs nothing.
KeyKept ==
    [][pc # "idle" /\ Usable => (priv' = priv /\ pub' = pub)]_vars

\* When failures and changes end and the pins let the guest in, it gets materials that
\* fit: a certificate for this VM, not due, over a key this TPM can load.  A clone
\* with its source's EK, or a VM with a new TPM and its old pin, waits for the
\* operator; so does a guest whose private blob the TPM rejects as no foreign one.
EventuallyFit == <>[](Admits(vmid, tpm) /\ priv # Cut) => <>[]Fit
=============================================================================
