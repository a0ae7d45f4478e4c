-------------------------- MODULE GuestClientProofs --------------------------
(***************************************************************************)
(* Proofs about the guest client, for any VMs, TPMs and sessions, and any  *)
(* number of failures, crashes and changes of the guest.                   *)
(***************************************************************************)
EXTENDS GuestClient, FiniteSetTheorems, TLAPS

-----------------------------------------------------------------------------
(***************************************************************************)
(* Types.                                                                  *)
(***************************************************************************)
\* A session that was opened.
Used == [st : {"open", "redeemed", "closed"}, vm : VM, ek : TPM]

ServiceType ==
    /\ session \in [Session -> Used \cup {Service!Fresh}]
    /\ granted \subseteq [sid : Session, vm : VM, ek : TPM]

WithSession == {"ek2", "activate", "finish", "answer", "clear", "priv", "pub", "cert",
                "restart"}
WithKey     == {"certify", "hash", "sign", "start"} \cup WithSession

\* What the run has, by where it is.
Control ==
    /\ pc \in UnderPC => child \in Child
    /\ pc # "idle" /\ devID \in Key => devID.tpm = tpm
    /\ pc \in WithKey \/ (pc = "flush" /\ child = "new") => devID \in Key
    /\ pc \in WithSession =>
          /\ sid \in Session
          /\ session[sid] \in Used
          /\ session[sid].vm = vmid /\ session[sid].ek = tpm

TypeInv == TypeOK /\ ServiceType /\ Control

LEMMA UsedNotFresh == Service!Fresh \notin Used
BY DEF Used, Service!Fresh

\* A session that is open or redeemed was opened.
LEMMA BusyIsUsed ==
    ASSUME ServiceType, NEW s \in Session, session[s].st \in {"open", "redeemed"}
    PROVE  session[s] \in Used
BY DEF ServiceType, Service!Fresh

LEMMA OpenType ==
    ASSUME ServiceType, NEW s \in Session, NEW v \in VM, NEW k \in TPM,
           Service!Open(s, v, k)
    PROVE  /\ ServiceType'
           /\ session'[s] = [st |-> "open", vm |-> v, ek |-> k]
           /\ session'[s] \in Used
           /\ \A r \in Session : session[r] \in Used => session'[r] = session[r]
BY UsedNotFresh DEF ServiceType, Service!Open, Used

LEMMA RedeemType ==
    ASSUME ServiceType, NEW s \in Session, Service!Redeem(s)
    PROVE  /\ ServiceType'
           /\ \A r \in Session : session[r] \in Used =>
                 /\ session'[r] \in Used
                 /\ session'[r].vm = session[r].vm /\ session'[r].ek = session[r].ek
<1>1. session[s] \in Used
  BY BusyIsUsed DEF Service!Redeem
<1>2. [session[s] EXCEPT !.st = "redeemed"] \in Used
  BY <1>1 DEF Used
<1>3. session' = [session EXCEPT ![s] = [session[s] EXCEPT !.st = "redeemed"]]
  BY DEF Service!Redeem
<1>4. granted' = granted
  BY DEF Service!Redeem
<1> QED
  BY <1>1, <1>2, <1>3, <1>4 DEF ServiceType, Used

LEMMA GrantType ==
    ASSUME ServiceType, NEW s \in Session, Service!Grant(s)
    PROVE  /\ ServiceType'
           /\ session[s] \in Used
           /\ \A r \in Session : session[r] \in Used =>
                 /\ session'[r] \in Used
                 /\ session'[r].vm = session[r].vm /\ session'[r].ek = session[r].ek
<1>1. session[s] \in Used
  BY BusyIsUsed DEF Service!Grant
<1>2. [session[s] EXCEPT !.st = "closed"] \in Used
  BY <1>1 DEF Used
<1>3. session' = [session EXCEPT ![s] = [session[s] EXCEPT !.st = "closed"]]
  BY DEF Service!Grant
<1>4. [sid |-> s, vm |-> session[s].vm, ek |-> session[s].ek]
          \in [sid : Session, vm : VM, ek : TPM]
  BY <1>1 DEF Used
<1>5. granted' = granted \cup {[sid |-> s, vm |-> session[s].vm, ek |-> session[s].ek]}
  BY DEF Service!Grant
<1> QED
  BY <1>1, <1>2, <1>3, <1>4, <1>5 DEF ServiceType, Used

LEMMA DropType ==
    ASSUME ServiceType, NEW s \in Session, Service!Drop({s})
    PROVE  /\ ServiceType'
           /\ granted' = granted
           /\ \A r \in Session : session[r] \in Used =>
                 /\ session'[r] \in Used
                 /\ session'[r].vm = session[r].vm /\ session'[r].ek = session[r].ek
<1>1. session[s] \in Used
  BY BusyIsUsed DEF Service!Drop
<1>2. [session[s] EXCEPT !.st = "closed"] \in Used
  BY <1>1 DEF Used
<1>3. session' = [r \in Session |->
          IF r \in {s} THEN [session[r] EXCEPT !.st = "closed"] ELSE session[r]]
  BY DEF Service!Drop
<1>4. \A r \in Session : session'[r] = IF r = s THEN [session[s] EXCEPT !.st = "closed"]
                                                ELSE session[r]
  BY <1>3
<1>5. granted' = granted
  BY DEF Service!Drop
<1> QED
  BY <1>1, <1>2, <1>3, <1>4, <1>5 DEF ServiceType, Used

LEMMA TypeInvInit == Init => TypeInv
<1> SUFFICES ASSUME Init PROVE TypeInv
  OBVIOUS
<1>0. 0 \in 0..MaxTroubles /\ 0 \in 0..MaxEdits
  BY GuestAssumption
<1>1. TypeOK
  BY <1>0, GuestAssumption DEF Init, TypeOK, PC
<1>2. ServiceType
  BY DEF Init, ServiceType, Service!Init
<1>3. Control
  BY GuestAssumption DEF Init, Control, UnderPC, WithKey, WithSession
<1> QED
  BY <1>1, <1>2, <1>3 DEF TypeInv

LEMMA TroubleType == ASSUME TypeOK, Trouble PROVE troubles' \in 0..MaxTroubles
BY GuestAssumption DEF TypeOK, Trouble

LEMMA AttestType ==
    ASSUME TypeOK, Attest
    PROVE  /\ agent' \in Session \cup {0}
           /\ cache' \in [id : Session, after : Session \cup {0}] \cup {NoCert}
<1>1. CASE cache # NoCert /\ agent' = cache.id /\ UNCHANGED cache
  BY <1>1 DEF TypeOK
<1>2. CASE cache = NoCert /\ Attests /\ agent' = cert.sid
           /\ cache' = [id |-> cert.sid, after |-> cleared]
  <2>1. cert.sid \in Session
    BY <1>2 DEF Attests, Cert
  <2> QED
    BY <1>2, <2>1 DEF TypeOK
<1>3. CASE cache = NoCert /\ ~Attests /\ agent' = 0 /\ UNCHANGED cache
  BY <1>3 DEF TypeOK
<1> QED
  BY <1>1, <1>2, <1>3 DEF Attest

LEMMA EditType == ASSUME TypeOK, Edit PROVE edits' \in 0..MaxEdits
BY GuestAssumption DEF TypeOK, Edit

LEMMA TypeInvStep == TypeInv /\ [Next]_vars => TypeInv'
<1> SUFFICES ASSUME TypeInv, [Next]_vars PROVE TypeInv'
  OBVIOUS
<1> USE DEF guest, files, run, service, spire
<1>1. CASE Begin
  <2>1. TypeOK'
    BY <1>1, ZenonT(40) DEF Begin, TypeInv, TypeOK, Control, PC, UnderPC, RequestPC, WithSession,
       WithKey
  <2>2. Control'
    BY <1>1, GuestAssumption DEF Begin, TypeInv, TypeOK, Control, PC, UnderPC,
       RequestPC, WithSession, WithKey
  <2> QED
    BY <1>1, <2>1, <2>2 DEF Begin, TypeInv, ServiceType
<1>2. CASE CheckCert
  <2>1. TypeOK'
    BY <1>2 DEF CheckCert, TypeInv, TypeOK, Control, PC, UnderPC, RequestPC,
       WithSession, WithKey
  <2>2. Control'
    BY <1>2, GuestAssumption DEF CheckCert, TypeInv, TypeOK, Control, PC, UnderPC,
       RequestPC, WithSession, WithKey
  <2> QED
    BY <1>2, <2>1, <2>2 DEF CheckCert, TypeInv, ServiceType
<1>3. CASE CheckVMID
  <2>1. TypeOK'
    BY <1>3 DEF CheckVMID, TypeInv, TypeOK, Control, PC, UnderPC, RequestPC,
       WithSession, WithKey
  <2>2. Control'
    BY <1>3, GuestAssumption DEF CheckVMID, TypeInv, TypeOK, Control, PC, UnderPC,
       RequestPC, WithSession, WithKey
  <2> QED
    BY <1>3, <2>1, <2>2 DEF CheckVMID, TypeInv, ServiceType
<1>4. CASE ReadBlobs
  <2>1. TypeOK'
    BY <1>4 DEF ReadBlobs, TypeInv, TypeOK, Control, PC, UnderPC, RequestPC,
       WithSession, WithKey, Child
  <2>2. Control'
    BY <1>4, GuestAssumption DEF ReadBlobs, TypeInv, TypeOK, Control, PC, UnderPC,
       RequestPC, WithSession, WithKey, Child
  <2> QED
    BY <1>4, <2>1, <2>2 DEF ReadBlobs, TypeInv, ServiceType
<1>5. CASE DeriveSRK
  <2>1. TypeOK'
    BY <1>5 DEF DeriveSRK, TypeInv, TypeOK, Control, PC, UnderPC, RequestPC,
       WithSession, WithKey, Object
  <2>2. Control'
    BY <1>5, GuestAssumption DEF DeriveSRK, TypeInv, TypeOK, Control, PC, UnderPC,
       RequestPC, WithSession, WithKey
  <2> QED
    BY <1>5, <2>1, <2>2 DEF DeriveSRK, TypeInv, ServiceType
<1>6. CASE FlushSRK
  <2>1. TypeOK'
    BY <1>6 DEF FlushSRK, TypeInv, TypeOK, Control, PC, UnderPC, RequestPC, WithSession,
       WithKey, Child
  <2>2. Control'
    BY <1>6, GuestAssumption DEF FlushSRK, TypeInv, TypeOK, Control, PC, UnderPC,
       RequestPC, WithSession, WithKey, Child
  <2> QED
    BY <1>6, <2>1, <2>2 DEF FlushSRK, TypeInv, ServiceType
<1>7. CASE LoadBlobs
  <2>0. /\ reason' \in BOOLEAN
        /\ devID' \in Key \cup {NoKey}
        /\ loaded' \subseteq Object
    <3>1. CASE Usable /\ devID' = pub /\ loaded' = loaded \cup {"DevID"} /\ UNCHANGED
       reason
      BY <3>1 DEF Usable, TypeInv, TypeOK, Object
    <3>2. CASE ~Usable /\ reason' = TRUE /\ UNCHANGED <<devID, loaded>>
      BY <3>2 DEF TypeInv, TypeOK
    <3> QED
      BY <1>7, <3>1, <3>2 DEF LoadBlobs
  <2>a. pc' = "flush" /\ UNCHANGED <<guest, files, child, sid, keys, service, spire,
     troubles, edits>>
    BY <1>7 DEF LoadBlobs
  <2>1. TypeOK'
    BY <2>0, <2>a DEF TypeInv, TypeOK, PC, UnderPC
  <2>2. Control'
    BY <1>7, GuestAssumption DEF LoadBlobs, TypeInv, TypeOK, Control, PC, UnderPC,
       RequestPC, WithSession, WithKey, Usable
  <2> QED
    BY <1>7, <2>1, <2>2 DEF LoadBlobs, TypeInv, ServiceType
<1>8. CASE CreateAK
  <2>1. TypeOK'
    BY <1>8 DEF CreateAK, TypeInv, TypeOK, Control, PC, UnderPC, RequestPC, WithSession,
       WithKey, Object
  <2>2. Control'
    BY <1>8, GuestAssumption DEF CreateAK, TypeInv, TypeOK, Control, PC, UnderPC,
       RequestPC, WithSession, WithKey
  <2> QED
    BY <1>8, <2>1, <2>2 DEF CreateAK, TypeInv, ServiceType
<1>9. CASE CreateDevID
  <2>1. TypeOK'
    BY <1>9, GuestAssumption DEF CreateDevID, TypeInv, TypeOK, Control, PC, UnderPC,
       RequestPC, WithSession, WithKey, Key, Object
  <2>2. Control'
    BY <1>9, GuestAssumption DEF CreateDevID, TypeInv, TypeOK, Control, PC, UnderPC,
       RequestPC, WithSession, WithKey, Key
  <2> QED
    BY <1>9, <2>1, <2>2 DEF CreateDevID, TypeInv, ServiceType
<1>10. CASE Decide
  <2>1. TypeOK'
    BY <1>10 DEF Decide, TypeInv, TypeOK, Control, PC, UnderPC, RequestPC, WithSession,
       WithKey
  <2>2. Control'
    BY <1>10, GuestAssumption DEF Decide, TypeInv, TypeOK, Control, PC, UnderPC,
       RequestPC, WithSession, WithKey
  <2> QED
    BY <1>10, <2>1, <2>2 DEF Decide, TypeInv, ServiceType
<1>11. CASE DeriveEK
  <2>1. TypeOK'
    BY <1>11 DEF DeriveEK, Command, TypeInv, TypeOK, Control, PC, UnderPC, RequestPC,
       WithSession, WithKey, Object
  <2>2. Control'
    BY <1>11, GuestAssumption DEF DeriveEK, Command, TypeInv, TypeOK, Control, PC,
       UnderPC, RequestPC, WithSession, WithKey
  <2> QED
    BY <1>11, <2>1, <2>2 DEF DeriveEK, Command, TypeInv, ServiceType
<1>12. CASE FlushEK
  <2>1. TypeOK'
    BY <1>12 DEF FlushEK, TypeInv, TypeOK, Control, PC, UnderPC, RequestPC, WithSession,
       WithKey, Room, Child
  <2>2. Control'
    BY <1>12, GuestAssumption DEF FlushEK, TypeInv, TypeOK, Control, PC, UnderPC,
       RequestPC, WithSession, WithKey, Room, Child
  <2> QED
    BY <1>12, <2>1, <2>2 DEF FlushEK, TypeInv, ServiceType
<1>13. CASE Certify
  <2>1. TypeOK'
    BY <1>13 DEF Certify, Command, TypeInv, TypeOK, Control, PC, UnderPC, RequestPC,
       WithSession, WithKey
  <2>2. Control'
    BY <1>13, GuestAssumption DEF Certify, Command, TypeInv, TypeOK, Control, PC,
       UnderPC, RequestPC, WithSession, WithKey
  <2> QED
    BY <1>13, <2>1, <2>2 DEF Certify, Command, TypeInv, ServiceType
<1>14. CASE HashAndSign
  <2>1. TypeOK'
    BY <1>14, ZenonT(40) DEF HashAndSign, Command, TypeInv, TypeOK, Control, PC, UnderPC, RequestPC,
       WithSession, WithKey, Object
  <2>2. Control'
    BY <1>14, GuestAssumption DEF HashAndSign, Command, TypeInv, TypeOK, Control, PC,
       UnderPC, RequestPC, WithSession, WithKey
  <2> QED
    BY <1>14, <2>1, <2>2 DEF HashAndSign, Command, TypeInv, ServiceType
<1>15. CASE Activate
  <2>1. TypeOK'
    BY <1>15 DEF Activate, Command, TypeInv, TypeOK, Control, PC, UnderPC, RequestPC,
       WithSession, WithKey, Object
  <2>2. Control'
    BY <1>15, GuestAssumption DEF Activate, Command, TypeInv, TypeOK, Control, PC,
       UnderPC, RequestPC, WithSession, WithKey
  <2> QED
    BY <1>15, <2>1, <2>2 DEF Activate, Command, TypeInv, ServiceType
<1>16. CASE Start
  <2>1. PICK s \in Session : Service!Open(s, vmid, tpm) /\ sid' = s
    BY <1>16 DEF Start
  <2>2. /\ ServiceType'
        /\ session'[s] = [st |-> "open", vm |-> vmid, ek |-> tpm] /\ session'[s] \in Used
    BY <2>1, OpenType DEF TypeInv, TypeOK
  <2>3. TypeOK'
    BY <1>16, <2>1, <2>2 DEF Start, TypeInv, TypeOK, PC, UnderPC, RequestPC,
       WithSession, WithKey
  <2>4. Control'
    BY <1>16, <2>1, <2>2, GuestAssumption DEF Start, TypeInv, TypeOK, Control, PC,
       UnderPC, RequestPC, WithSession, WithKey
  <2> QED
    BY <2>2, <2>3, <2>4 DEF TypeInv
<1>17. CASE Finish
  <2>1. sid \in Session
    BY <1>17 DEF Finish, TypeInv, Control, WithSession
  <2>2. /\ ServiceType'
        /\ session[sid] \in Used =>
              /\ session'[sid] \in Used
              /\ session'[sid].vm = session[sid].vm /\ session'[sid].ek = session[sid].ek
    BY <1>17, <2>1, RedeemType DEF Finish, TypeInv
  <2>3. TypeOK'
    BY <1>17, <2>1, <2>2 DEF Finish, TypeInv, TypeOK, PC, UnderPC, RequestPC,
       WithSession, WithKey
  <2>4. Control'
    BY <1>17, <2>1, <2>2, GuestAssumption DEF Finish, TypeInv, TypeOK, Control, PC,
       UnderPC, RequestPC, WithSession, WithKey
  <2> QED
    BY <2>2, <2>3, <2>4 DEF TypeInv
<1>18. CASE Receive
  <2>1. TypeOK'
    BY <1>18 DEF Receive, TypeInv, TypeOK, Control, PC, UnderPC, RequestPC, WithSession,
       WithKey
  <2>2. Control'
    BY <1>18, GuestAssumption DEF Receive, TypeInv, TypeOK, Control, PC, UnderPC,
       RequestPC, WithSession, WithKey
  <2> QED
    BY <1>18, <2>1, <2>2 DEF Receive, TypeInv, ServiceType
<1>19. CASE Refused
  <2>1. TypeOK'
    BY <1>19 DEF Refused, TypeInv, TypeOK, Control, PC, UnderPC, RequestPC, WithSession,
       WithKey
  <2>2. Control'
    BY <1>19, GuestAssumption DEF Refused, TypeInv, TypeOK, Control, PC, UnderPC,
       RequestPC, WithSession, WithKey
  <2> QED
    BY <1>19, <2>1, <2>2 DEF Refused, TypeInv, ServiceType
<1>20. CASE ClearCache
  <2>1. TypeOK'
    BY <1>20 DEF ClearCache, TypeInv, TypeOK, Control, PC, UnderPC, RequestPC,
       WithSession, WithKey
  <2>2. Control'
    BY <1>20, GuestAssumption DEF ClearCache, TypeInv, TypeOK, Control, PC, UnderPC,
       RequestPC, WithSession, WithKey
  <2> QED
    BY <1>20, <2>1, <2>2 DEF ClearCache, TypeInv, ServiceType
<1>21. CASE WritePriv
  <2>0. devID \in Key
    BY <1>21 DEF WritePriv, TypeInv, Control, WithKey, WithSession
  <2>a. priv' \in Key /\ keys' \in Nat
    BY <1>21, <2>0 DEF WritePriv, Keep, TypeInv, TypeOK, Key
  <2>1. TypeOK'
    BY <1>21, <2>a DEF WritePriv, TypeInv, TypeOK, PC, RequestPC
  <2>2. Control'
    BY <1>21, GuestAssumption DEF WritePriv, TypeInv, TypeOK, Control, PC, UnderPC,
       RequestPC, WithSession, WithKey
  <2> QED
    BY <1>21, <2>1, <2>2 DEF WritePriv, Keep, TypeInv, ServiceType
<1>22. CASE WritePub
  <2>1. TypeOK'
    BY <1>22 DEF WritePub, TypeInv, TypeOK, Control, PC, UnderPC, RequestPC,
       WithSession, WithKey
  <2>2. Control'
    BY <1>22, GuestAssumption DEF WritePub, TypeInv, TypeOK, Control, PC, UnderPC,
       RequestPC, WithSession, WithKey
  <2> QED
    BY <1>22, <2>1, <2>2 DEF WritePub, TypeInv, ServiceType
<1>23. CASE WriteCert
  <2>1. TypeOK'
    BY <1>23, ZenonT(40) DEF WriteCert, TypeInv, TypeOK, Control, PC, UnderPC, RequestPC,
       WithSession, WithKey, Cert, Used
  <2>2. Control'
    BY <1>23, GuestAssumption DEF WriteCert, TypeInv, TypeOK, Control, PC, UnderPC,
       RequestPC, WithSession, WithKey, Cert, Used
  <2> QED
    BY <1>23, <2>1, <2>2 DEF WriteCert, TypeInv, ServiceType
<1>24. CASE TryRestart
  <2>1. TypeOK'
    BY <1>24 DEF TryRestart, TypeInv, TypeOK, Control, PC, UnderPC, RequestPC,
       WithSession, WithKey
  <2>2. Control'
    BY <1>24, GuestAssumption DEF TryRestart, TypeInv, TypeOK, Control, PC, UnderPC,
       RequestPC, WithSession, WithKey
  <2> QED
    BY <1>24, <2>1, <2>2 DEF TryRestart, TypeInv, ServiceType
<1>25. CASE Fail
  <2>1. TypeOK'
    BY <1>25, TroubleType DEF Fail, TypeInv, TypeOK, Control, PC, UnderPC, RequestPC,
       WithSession, WithKey
  <2>2. Control'
    BY <1>25, GuestAssumption DEF Fail, TypeInv, TypeOK, Control, PC, UnderPC,
       RequestPC, WithSession, WithKey
  <2> QED
    BY <1>25, <2>1, <2>2 DEF Fail, Trouble, TypeInv, ServiceType
<1>26. CASE Lose
  <2>1. PICK s \in Session : Service!Drop({s})
    BY <1>26 DEF Lose, TypeInv, Control, WithSession
  <2>2. /\ ServiceType'
        /\ \A r \in Session : session[r] \in Used =>
              /\ session'[r] \in Used
              /\ session'[r].vm = session[r].vm /\ session'[r].ek = session[r].ek
    BY <2>1, DropType DEF TypeInv
  <2>3. TypeOK'
    BY <1>26, <2>2, TroubleType DEF Lose, TypeInv, TypeOK, PC, UnderPC, RequestPC,
       WithSession, WithKey
  <2>4. Control'
    BY <1>26, <2>2, GuestAssumption DEF Lose, TypeInv, TypeOK, Control, PC, UnderPC,
       RequestPC, WithSession, WithKey
  <2> QED
    BY <2>2, <2>3, <2>4 DEF TypeInv
<1>27. CASE Crash
  <2>1. TypeOK'
    BY <1>27, TroubleType DEF Crash, TypeInv, TypeOK, Control, PC, UnderPC, RequestPC,
       WithSession, WithKey
  <2>2. Control'
    BY <1>27, GuestAssumption DEF Crash, TypeInv, TypeOK, Control, PC, UnderPC,
       RequestPC, WithSession, WithKey
  <2> QED
    BY <1>27, <2>1, <2>2 DEF Crash, Trouble, TypeInv, ServiceType
<1>28. CASE Issue
  <2>1. PICK s \in Session : Service!Grant(s)
                             /\ pins' = [pins EXCEPT ![session[s].vm] = session[s].ek]
    BY <1>28 DEF Issue
  <2>2. /\ ServiceType'
        /\ \A r \in Session : session[r] \in Used =>
              /\ session'[r] \in Used
              /\ session'[r].vm = session[r].vm /\ session'[r].ek = session[r].ek
    BY <2>1, GrantType DEF TypeInv
  <2>0. pins' \in [VM -> TPM \cup {NoTPM}]
    <3>1. session[s].vm \in VM /\ session[s].ek \in TPM
      BY <2>1, GrantType DEF TypeInv, Used
    <3>2. pins' = [pins EXCEPT ![session[s].vm] = session[s].ek]
      BY <2>1
    <3> QED
      BY <3>1, <3>2 DEF TypeInv, TypeOK
  <2>3. TypeOK'
    BY <1>28, <2>0, <2>2 DEF Issue, TypeInv, TypeOK, PC, UnderPC, RequestPC, WithSession,
       WithKey
  <2>4. Control'
    BY <1>28, <2>2, GuestAssumption DEF Issue, TypeInv, TypeOK, Control, PC, UnderPC,
       RequestPC, WithSession, WithKey
  <2> QED
    BY <2>2, <2>3, <2>4 DEF TypeInv
<1>29. CASE Expire
  <2>1. PICK s \in Session : Service!Drop({s})
    BY <1>29 DEF Expire
  <2>2. /\ ServiceType'
        /\ \A r \in Session : session[r] \in Used =>
              /\ session'[r] \in Used
              /\ session'[r].vm = session[r].vm /\ session'[r].ek = session[r].ek
    BY <2>1, DropType DEF TypeInv
  <2>3. TypeOK'
    BY <1>29, <2>2 DEF Expire, TypeInv, TypeOK, PC, UnderPC, RequestPC, WithSession,
       WithKey
  <2>4. Control'
    BY <1>29, <2>2, GuestAssumption DEF Expire, TypeInv, TypeOK, Control, PC, UnderPC,
       RequestPC, WithSession, WithKey
  <2> QED
    BY <2>2, <2>3, <2>4 DEF TypeInv
<1>30. CASE AgentStart
  <2>1. TypeOK'
    BY <1>30, AttestType DEF AgentStart, TypeInv, TypeOK
  <2>2. Control'
    BY <1>30, GuestAssumption DEF AgentStart, TypeInv, TypeOK, Control, PC, UnderPC,
       RequestPC, WithSession, WithKey
  <2> QED
    BY <1>30, <2>1, <2>2 DEF AgentStart, Attest, TypeInv, ServiceType
<1>31. CASE AgentRestart
  <2>0. /\ agent' \in Session \cup {0}
        /\ cache' \in [id : Session, after : Session \cup {0}] \cup {NoCert}
    BY <1>31, AttestType DEF AgentRestart, TypeInv
  <2>1. TypeOK'
    BY <1>31, <2>0, ZenonT(40) DEF AgentRestart, TypeInv, TypeOK
  <2>2. Control'
    BY <1>31, GuestAssumption DEF AgentRestart, TypeInv, TypeOK, Control, PC, UnderPC,
       RequestPC, WithSession, WithKey
  <2> QED
    BY <1>31, <2>1, <2>2 DEF AgentRestart, Attest, TypeInv, ServiceType
<1>32. CASE AgentRotate
  <2>1. TypeOK'
    BY <1>32 DEF AgentRotate, TypeInv, TypeOK
  <2>2. Control'
    BY <1>32, GuestAssumption DEF AgentRotate, TypeInv, TypeOK, Control, PC, UnderPC,
       RequestPC, WithSession, WithKey
  <2> QED
    BY <1>32, <2>1, <2>2 DEF AgentRotate, TypeInv, ServiceType
<1>33. CASE AgentStop
  <2>0. queued' \in BOOLEAN /\ agent' \in Session \cup {0}
    BY <1>33 DEF AgentStop
  <2>a. UNCHANGED <<guest, files, pc, run, loaded, service, cache, cleared, troubles,
     edits>>
    BY <1>33 DEF AgentStop
  <2>1. TypeOK'
    BY <2>0, <2>a DEF TypeInv, TypeOK
  <2>2. Control'
    BY <1>33, GuestAssumption DEF AgentStop, TypeInv, TypeOK, Control, PC, UnderPC,
       RequestPC, WithSession, WithKey
  <2> QED
    BY <1>33, <2>1, <2>2 DEF AgentStop, TypeInv, ServiceType
<1>34. CASE \E v \in VM, t \in TPM : Clone(v, t)
  <2>1. TypeOK'
    BY <1>34, EditType DEF Clone, TypeInv, TypeOK, Control, PC, UnderPC, RequestPC,
       WithSession, WithKey
  <2>2. Control'
    BY <1>34, GuestAssumption DEF Clone, TypeInv, TypeOK, Control, PC, UnderPC,
       RequestPC, WithSession, WithKey
  <2> QED
    BY <1>34, <2>1, <2>2 DEF Clone, Edit, TypeInv, ServiceType
<1>35. CASE \E d \in {NoFile, Bad, Cut} : Damage(d)
  <2>1. TypeOK'
    BY <1>35, EditType DEF Damage, TypeInv, TypeOK, Control, PC, UnderPC, RequestPC,
       WithSession, WithKey
  <2>2. Control'
    BY <1>35, GuestAssumption DEF Damage, TypeInv, TypeOK, Control, PC, UnderPC,
       RequestPC, WithSession, WithKey
  <2> QED
    BY <1>35, <2>1, <2>2 DEF Damage, Edit, TypeInv, ServiceType
<1>36. CASE BecomeDue
  <2>1. TypeOK'
    BY <1>36, EditType DEF BecomeDue, TypeInv, TypeOK, Control, PC, UnderPC, RequestPC,
       WithSession, WithKey
  <2>2. Control'
    BY <1>36, GuestAssumption DEF BecomeDue, TypeInv, TypeOK, Control, PC, UnderPC,
       RequestPC, WithSession, WithKey
  <2> QED
    BY <1>36, <2>1, <2>2 DEF BecomeDue, Edit, TypeInv, ServiceType
<1>38. CASE Deny
  <2>1. PICK s \in Session : Service!Drop({s})
    BY <1>38 DEF Deny
  <2>2. /\ ServiceType'
        /\ \A r \in Session : session[r] \in Used =>
              /\ session'[r] \in Used
              /\ session'[r].vm = session[r].vm /\ session'[r].ek = session[r].ek
    BY <2>1, DropType DEF TypeInv
  <2>3. TypeOK'
    BY <1>38, <2>2 DEF Deny, TypeInv, TypeOK, PC, UnderPC, RequestPC, WithSession,
       WithKey
  <2>4. Control'
    BY <1>38, <2>2, GuestAssumption DEF Deny, TypeInv, TypeOK, Control, PC, UnderPC,
       RequestPC, WithSession, WithKey
  <2> QED
    BY <2>2, <2>3, <2>4 DEF TypeInv
<1>39. CASE LoadFails
  <2>1. TypeOK'
    BY <1>39 DEF LoadFails, TypeInv, TypeOK, Control, PC, UnderPC, RequestPC, WithSession,
       WithKey
  <2>2. Control'
    BY <1>39, GuestAssumption DEF LoadFails, TypeInv, TypeOK, Control, PC, UnderPC,
       RequestPC, WithSession, WithKey
  <2> QED
    BY <1>39, <2>1, <2>2 DEF LoadFails, TypeInv, ServiceType
<1>40. CASE TurnedAway
  <2>1. TypeOK'
    BY <1>40 DEF TurnedAway, TypeInv, TypeOK, Control, PC, UnderPC, RequestPC, WithSession,
       WithKey
  <2>2. Control'
    BY <1>40, GuestAssumption DEF TurnedAway, TypeInv, TypeOK, Control, PC, UnderPC,
       RequestPC, WithSession, WithKey
  <2> QED
    BY <1>40, <2>1, <2>2 DEF TurnedAway, TypeInv, ServiceType
<1>41. CASE \E v \in VM : Unpin(v)
  <2>1. UNCHANGED <<guest, files, pc, run, loaded, session, granted, spire, troubles, edits>>
        /\ pins' \in [VM -> TPM \cup {NoTPM}]
    BY <1>41 DEF Unpin, TypeInv, TypeOK
  <2>2. TypeOK'
    BY <2>1 DEF TypeInv, TypeOK
  <2>3. Control' /\ ServiceType'
    BY <2>1 DEF TypeInv, Control, ServiceType
  <2> QED
    BY <2>2, <2>3 DEF TypeInv
<1>37. CASE UNCHANGED vars
  BY <1>37 DEF vars, TypeInv, TypeOK, ServiceType, Control
<1> QED
  BY <1>1, <1>2, <1>3, <1>4, <1>5, <1>6, <1>7, <1>8, <1>9, <1>10, <1>11, <1>12, <1>13,
     <1>14, <1>15, <1>16, <1>17, <1>18, <1>19, <1>20, <1>21, <1>22, <1>23, <1>24, <1>25,
     <1>26, <1>27, <1>28, <1>29, <1>30, <1>31, <1>32, <1>33, <1>34, <1>35, <1>36, <1>37, <1>38, <1>39, <1>40, <1>41
     DEF Next, Step, Agent, Changes

\* The files, the run, the TPM and the agent always have their types.
THEOREM ClientTypeCorrect == Spec => []TypeOK
<1>1. Spec => []TypeInv
  BY TypeInvInit, TypeInvStep, PTL DEF Spec
<1> QED
  BY <1>1, PTL DEF TypeInv

-----------------------------------------------------------------------------
(***************************************************************************)
(* What the run has loaded.                                                *)
(***************************************************************************)
\* The objects a run may have in the TPM, by where it is.
May ==
    (IF pc \in {"load", "flush"} THEN {"SRK"} ELSE {})
        \cup (IF pc \in {"ekFlush", "activate"} THEN {"EK"} ELSE {})
        \cup (IF pc = "sign" THEN {"SEQ"} ELSE {})
        \cup (IF pc \in RequestPC \/ (pc \in UnderPC /\ child # "blobs") THEN {"AK"}
           ELSE {})
        \cup (IF pc \in RequestPC \cup {"flush", "decide"} \/ (pc \in UnderPC /\ child #
           "blobs")
              THEN {"DevID"} ELSE {})

LoadedInv == loaded \subseteq May

LEMMA LoadedInvStep == TypeInv /\ LoadedInv /\ [Next]_vars => LoadedInv'
<1> SUFFICES ASSUME TypeInv, LoadedInv, [Next]_vars PROVE LoadedInv'
  OBVIOUS
<1> USE DEF guest, files, run, service, spire
<1>1. CASE Begin
  BY <1>1 DEF Begin, LoadedInv, May, UnderPC, RequestPC
<1>2. CASE CheckCert
  BY <1>2 DEF CheckCert, LoadedInv, May, UnderPC, RequestPC
<1>3. CASE CheckVMID
  BY <1>3 DEF CheckVMID, LoadedInv, May, UnderPC, RequestPC
<1>4. CASE ReadBlobs
  BY <1>4 DEF ReadBlobs, LoadedInv, May, UnderPC, RequestPC
<1>5. CASE DeriveSRK
  BY <1>5 DEF DeriveSRK, LoadedInv, May, UnderPC, RequestPC
<1>6. CASE FlushSRK
  BY <1>6 DEF FlushSRK, LoadedInv, May, UnderPC, RequestPC, TypeInv, Control, Child
<1>7. CASE LoadBlobs
  BY <1>7 DEF LoadBlobs, LoadedInv, May, UnderPC, RequestPC
<1>8. CASE CreateAK
  BY <1>8 DEF CreateAK, LoadedInv, May, UnderPC, RequestPC
<1>9. CASE CreateDevID
  BY <1>9 DEF CreateDevID, LoadedInv, May, UnderPC, RequestPC
<1>10. CASE Decide
  BY <1>10 DEF Decide, LoadedInv, May, UnderPC, RequestPC
<1>11. CASE DeriveEK
  BY <1>11 DEF DeriveEK, Command, LoadedInv, May, UnderPC, RequestPC
<1>12. CASE FlushEK
  BY <1>12 DEF FlushEK, LoadedInv, May, UnderPC, RequestPC, Room
<1>13. CASE Certify
  BY <1>13 DEF Certify, Command, LoadedInv, May, UnderPC, RequestPC
<1>14. CASE HashAndSign
  BY <1>14 DEF HashAndSign, Command, LoadedInv, May, UnderPC, RequestPC
<1>15. CASE Activate
  BY <1>15 DEF Activate, Command, LoadedInv, May, UnderPC, RequestPC
<1>16. CASE Start
  BY <1>16 DEF Start, LoadedInv, May, UnderPC, RequestPC
<1>17. CASE Finish
  BY <1>17 DEF Finish, LoadedInv, May, UnderPC, RequestPC
<1>18. CASE Receive
  BY <1>18 DEF Receive, LoadedInv, May, UnderPC, RequestPC
<1>19. CASE Refused
  BY <1>19 DEF Refused, LoadedInv, May, UnderPC, RequestPC, Deferred
<1>20. CASE ClearCache
  BY <1>20 DEF ClearCache, LoadedInv, May, UnderPC, RequestPC
<1>21. CASE WritePriv
  BY <1>21 DEF WritePriv, LoadedInv, May, UnderPC, RequestPC
<1>22. CASE WritePub
  BY <1>22 DEF WritePub, LoadedInv, May, UnderPC, RequestPC
<1>23. CASE WriteCert
  BY <1>23 DEF WriteCert, LoadedInv, May, UnderPC, RequestPC
<1>24. CASE TryRestart
  BY <1>24 DEF TryRestart, LoadedInv, May, UnderPC, RequestPC
<1>25. CASE Fail
  BY <1>25 DEF Fail, Trouble, LoadedInv, May, UnderPC, RequestPC, Deferred, TypeInv,
     Control, Child
<1>26. CASE Crash
  BY <1>26 DEF Crash, Trouble, LoadedInv, May, UnderPC, RequestPC
<1>27. CASE Lose \/ Issue \/ Deny \/ Expire \/ AgentStart \/ AgentRestart \/ AgentRotate \/
   AgentStop \/ (\E v \in VM, t \in TPM : Clone(v, t)) \/ (\E d \in {NoFile, Bad, Cut} :
   Damage(d))
  BY <1>27 DEF Lose, Trouble, Issue, Deny, Expire, AgentStart, AgentRestart, AgentRotate,
     AgentStop, Clone, Edit, Damage, LoadedInv, May, UnderPC, RequestPC
<1>28. CASE BecomeDue
  BY <1>28 DEF BecomeDue, Edit, LoadedInv, May, UnderPC, RequestPC
<1>30. CASE LoadFails
  BY <1>30 DEF LoadFails, LoadedInv, May, UnderPC, RequestPC
<1>31. CASE TurnedAway
  BY <1>31 DEF TurnedAway, LoadedInv, May, UnderPC, RequestPC, Deferred
<1>32. CASE \E v \in VM : Unpin(v)
  BY <1>32 DEF Unpin, LoadedInv, May, UnderPC, RequestPC
<1>29. CASE UNCHANGED vars
  BY <1>29 DEF vars, LoadedInv, May, UnderPC, RequestPC
<1> QED
  BY <1>1, <1>2, <1>3, <1>4, <1>5, <1>6, <1>7, <1>8, <1>9, <1>10, <1>11, <1>12, <1>13,
     <1>14, <1>15, <1>16, <1>17, <1>18, <1>19, <1>20, <1>21, <1>22, <1>23, <1>24, <1>25,
     <1>26, <1>27, <1>28, <1>29, <1>30, <1>31, <1>32 DEF Next, Step, Agent, Changes

LEMMA LoadedInvInit == Init => LoadedInv
BY DEF Init, LoadedInv, May

LEMMA Loaded == Spec => [](TypeInv /\ LoadedInv)
BY TypeInvInit, TypeInvStep, LoadedInvInit, LoadedInvStep, PTL DEF Spec

\* Every way out of a run, by an error too, leaves nothing in the TPM.
THEOREM NothingStaysLoaded == Spec => []NothingLeftLoaded
<1>1. LoadedInv => NothingLeftLoaded
  BY DEF LoadedInv, May, NothingLeftLoaded, RequestPC, UnderPC
<1> QED
  BY <1>1, Loaded, PTL

\* Three objects fit three slots.
LEMMA ThreeFit ==
    ASSUME NEW a, NEW b, NEW c, NEW S, S \subseteq {a, b, c}
    PROVE  Cardinality(S) <= 3
<1>2. IsFiniteSet({a}) /\ Cardinality({a}) = 1
  BY FS_Singleton
<1>3. IsFiniteSet({a} \cup {b}) /\ Cardinality({a} \cup {b}) \in {1, 2}
  <2>1. /\ IsFiniteSet({a} \cup {b})
        /\ \/ Cardinality({a} \cup {b}) = Cardinality({a})
           \/ Cardinality({a} \cup {b}) = Cardinality({a}) + 1
    BY <1>2, FS_AddElement, Zenon
  <2> QED
    BY <1>2, <2>1
<1>4. IsFiniteSet({a} \cup {b} \cup {c}) /\ Cardinality({a} \cup {b} \cup {c}) <= 3
  <2>1. /\ IsFiniteSet({a} \cup {b} \cup {c})
        /\ \/ Cardinality({a} \cup {b} \cup {c}) = Cardinality({a} \cup {b})
           \/ Cardinality({a} \cup {b} \cup {c}) = Cardinality({a} \cup {b}) + 1
    BY <1>3, FS_AddElement, Zenon
  <2> QED
    BY <1>3, <2>1
<1>5. S \subseteq {a} \cup {b} \cup {c}
  OBVIOUS
<1>6. IsFiniteSet(S) /\ Cardinality(S) <= Cardinality({a} \cup {b} \cup {c})
  BY <1>4, <1>5, FS_Subset
<1>7. Cardinality(S) \in Nat /\ Cardinality({a} \cup {b} \cup {c}) \in Nat
  BY <1>4, <1>6, FS_CardinalityType, Zenon
<1> QED
  BY <1>4, <1>6, <1>7

\* No run of the client needs a fourth object slot of the TPM.
THEOREM ThreeSlotsSuffice == Spec => []ThreeSlots
<1>1. TypeInv /\ LoadedInv => ThreeSlots
  <2> SUFFICES ASSUME TypeInv, LoadedInv PROVE ThreeSlots
    OBVIOUS
  <2>1. \/ loaded \subseteq {"SRK", "AK", "DevID"}
        \/ loaded \subseteq {"EK", "AK", "DevID"}
        \/ loaded \subseteq {"SEQ", "AK", "DevID"}
    BY DEF LoadedInv, May
  <2> QED
    BY <2>1, ThreeFit DEF ThreeSlots
<1> QED
  BY <1>1, Loaded, PTL

\* Every run finds the slots it needs: none uses a fourth, and none leaves one taken,
\* by whatever error or crash it ends.
THEOREM SlotsAreKept == Spec => []SlotsKept
BY NothingStaysLoaded, ThreeSlotsSuffice, PTL DEF SlotsKept

-----------------------------------------------------------------------------
(***************************************************************************)
(* The order of the keys.                                                  *)
(***************************************************************************)
\* No key in a file is newer than the last one kept, and a new one is the next; a running client's key is at least as
\* new as what is in the files, and is in the blobs once they are written.
OrderInv ==
    /\ pub \in Key => pub.n <= keys
    /\ priv \in Key => priv.n <= keys
    /\ cert \in Cert => cert.key \in Key /\ cert.key.n <= keys
    /\ devID \in Key => devID.n <= keys + 1
    /\ pc # "idle" /\ devID \in Key =>
          /\ pub \in Key => pub.n <= devID.n
          /\ priv \in Key => priv.n <= devID.n
          /\ cert \in Cert => cert.key.n <= devID.n
    /\ pc \in {"pub", "cert", "restart"} => priv = devID
    /\ pc \in {"cert", "restart"} => pub = devID

\* A key is numbered by a natural number.
LEMMA KeyNumber == ASSUME NEW k \in Key PROVE k.n \in Nat
BY DEF Key

LEMMA OrderInvInit == Init => OrderInv /\ CertNeverNewerThanKey
BY GuestAssumption DEF Init, OrderInv, CertNeverNewerThanKey

LEMMA OrderInvStep ==
    TypeInv /\ OrderInv /\ CertNeverNewerThanKey /\ [Next]_vars
        => OrderInv' /\ CertNeverNewerThanKey'
<1> SUFFICES ASSUME TypeInv, OrderInv, CertNeverNewerThanKey, [Next]_vars
             PROVE  OrderInv' /\ CertNeverNewerThanKey'
  OBVIOUS
<1> USE DEF guest, files, run, service, spire
<1>1. CASE Begin
  BY <1>1, GuestAssumption DEF Begin, OrderInv, CertNeverNewerThanKey
<1>2. CASE LoadBlobs
  <2>1. CASE Usable /\ devID' = pub
    BY <1>2, <2>1, KeyNumber DEF LoadBlobs, Usable, TypeInv, TypeOK, OrderInv,
       CertNeverNewerThanKey
  <2>2. CASE UNCHANGED devID
    BY <1>2, <2>2 DEF LoadBlobs, OrderInv, CertNeverNewerThanKey
  <2> QED
    BY <1>2, <2>1, <2>2 DEF LoadBlobs
<1>3. CASE CreateDevID
  <2>1. keys \in Nat /\ keys' = keys
    BY <1>3 DEF CreateDevID, TypeInv, TypeOK
  <2>2. devID' \in Key /\ devID'.n = keys + 1
    BY <1>3, <2>1 DEF CreateDevID, TypeInv, TypeOK, Key
  <2>3. \A k \in Key : k.n <= keys => k.n <= keys + 1
    BY <2>1, KeyNumber
  <2> QED
    BY <1>3, <2>1, <2>2, <2>3 DEF CreateDevID, OrderInv, CertNeverNewerThanKey
<1>4. CASE WritePriv
  <2>1. devID \in Key
    BY <1>4 DEF WritePriv, TypeInv, Control, WithKey, WithSession
  <2>2. /\ keys \in Nat /\ devID.n \in Nat /\ priv' = devID
        /\ keys' \in Nat /\ keys <= keys' /\ devID.n <= keys'
    BY <1>4, <2>1, KeyNumber DEF WritePriv, Keep, TypeInv, TypeOK
  <2>3. \A k \in Key : k.n \in Nat /\ (k.n <= keys => k.n <= keys')
    BY <2>2, KeyNumber
  <2> QED
    BY <1>4, <2>1, <2>2, <2>3 DEF WritePriv, OrderInv, CertNeverNewerThanKey
<1>5. CASE WritePub
  <2>1. devID \in Key /\ priv = devID
    BY <1>5 DEF WritePub, TypeInv, Control, WithKey, WithSession, OrderInv
  <2> QED
    BY <1>5, <2>1, KeyNumber DEF WritePub, OrderInv, CertNeverNewerThanKey
<1>6. CASE WriteCert
  <2>1. devID \in Key /\ pub = devID /\ priv = devID
    BY <1>6 DEF WriteCert, TypeInv, Control, WithKey, WithSession, OrderInv
  <2>2. cert'.key = devID
    BY <1>6 DEF WriteCert
  <2> QED
    BY <1>6, <2>1, <2>2, KeyNumber DEF WriteCert, OrderInv, CertNeverNewerThanKey
<1>7. CASE \E d \in {NoFile, Bad, Cut} : Damage(d)
  <2>1. PICK d \in {NoFile, Bad, Cut} : Damage(d)
    BY <1>7
  <2> QED
    BY <2>1, GuestAssumption DEF Damage, OrderInv, CertNeverNewerThanKey
<1>8. CASE CheckCert \/ CheckVMID \/ ReadBlobs \/ DeriveSRK \/ FlushSRK \/ CreateAK \/
   Decide \/ DeriveEK \/ FlushEK
  BY <1>8 DEF CheckCert, CheckVMID, ReadBlobs, DeriveSRK, FlushSRK, CreateAK, Decide,
     DeriveEK, Command, FlushEK, OrderInv, CertNeverNewerThanKey
<1>9. CASE Certify \/ HashAndSign \/ Activate \/ Start \/ Finish \/ Receive \/ Refused
   \/ TurnedAway \/ LoadFails \/ ClearCache \/ TryRestart
  BY <1>9 DEF Certify, Command, HashAndSign, Activate, Start, Finish, Receive, Refused,
     TurnedAway, LoadFails, ClearCache, TryRestart, OrderInv, CertNeverNewerThanKey
<1>10. CASE Fail \/ Lose \/ Crash \/ Issue \/ Deny \/ Expire \/ AgentStart \/ AgentRestart \/
   AgentRotate \/ AgentStop
  BY <1>10 DEF Fail, Trouble, Lose, Crash, Issue, Deny, Expire, AgentStart, AgentRestart,
     AgentRotate, AgentStop, OrderInv, CertNeverNewerThanKey
<1>11. CASE (\E v \in VM, t \in TPM : Clone(v, t)) \/ (\E v \in VM : Unpin(v)) \/ BecomeDue
  BY <1>11 DEF Unpin, Clone, Edit, BecomeDue, OrderInv, CertNeverNewerThanKey
<1>12. CASE UNCHANGED vars
  BY <1>12 DEF vars, OrderInv, CertNeverNewerThanKey
<1> QED
  BY <1>1, <1>2, <1>3, <1>4, <1>5, <1>6, <1>7, <1>8, <1>9, <1>10, <1>11, <1>12 DEF Next,
     Step, Agent, Changes

\* Wherever runs were cut off, the certificate in the file is never over a newer key
\* than the blobs hold, and the private blob is never behind the public one.
THEOREM CertNeverAhead == Spec => []CertNeverNewerThanKey
BY TypeInvInit, TypeInvStep, OrderInvInit, OrderInvStep, PTL DEF Spec

-----------------------------------------------------------------------------
(***************************************************************************)
(* A usable key is kept.                                                   *)
(***************************************************************************)
\* The run has tried to load the blobs.
Tried == pc \in RequestPC \cup {"decide", "flush"} \/ (pc \in UnderPC /\ child # "blobs")

\* Then its key is the one in the files if these load; it makes a key only without one.
KeepInv ==
    /\ Tried /\ Usable => devID = pub
    /\ pc \in {"derive", "load"} /\ child = "new" => devID = NoKey

LEMMA KeepInvInit == Init => KeepInv
BY DEF Init, KeepInv, Tried, RequestPC, UnderPC

LEMMA KeepInvStep == TypeInv /\ KeepInv /\ [Next]_vars => KeepInv'
<1> SUFFICES ASSUME TypeInv, KeepInv, [Next]_vars PROVE KeepInv'
  OBVIOUS
<1> USE DEF guest, files, run, service, spire
<1>1. CASE Begin
  BY <1>1 DEF Begin, KeepInv, Tried, Usable, RequestPC, UnderPC
<1>2. CASE CheckCert
  BY <1>2 DEF CheckCert, KeepInv, Tried, Usable, RequestPC, UnderPC
<1>3. CASE CheckVMID
  BY <1>3 DEF CheckVMID, KeepInv, Tried, Usable, RequestPC, UnderPC
<1>4. CASE ReadBlobs
  BY <1>4, GuestAssumption DEF ReadBlobs, KeepInv, Tried, Usable, RequestPC, UnderPC
<1>5. CASE DeriveSRK
  BY <1>5 DEF DeriveSRK, KeepInv, Tried, Usable, RequestPC, UnderPC
<1>6. CASE FlushSRK
  BY <1>6 DEF FlushSRK, KeepInv, Tried, Usable, RequestPC, UnderPC, TypeInv, Control,
     Child
<1>7. CASE LoadBlobs
  BY <1>7 DEF LoadBlobs, KeepInv, Tried, Usable, RequestPC, UnderPC
<1>8. CASE CreateAK
  BY <1>8 DEF CreateAK, KeepInv, Tried, Usable, RequestPC, UnderPC
<1>9. CASE CreateDevID
  <2>1. ~Usable
    <3> SUFFICES ASSUME Usable PROVE FALSE
      OBVIOUS
    <3>1. devID = pub /\ devID = NoKey
      BY <1>9 DEF CreateDevID, KeepInv, Tried, UnderPC
    <3> QED
      BY <3>1, GuestAssumption DEF Usable
  <2>2. ~Usable'
    BY <1>9, <2>1 DEF CreateDevID, Usable
  <2> QED
    BY <1>9, <2>2 DEF CreateDevID, KeepInv
<1>10. CASE Decide
  BY <1>10 DEF Decide, KeepInv, Tried, Usable, RequestPC, UnderPC
<1>11. CASE DeriveEK
  BY <1>11 DEF DeriveEK, Command, KeepInv, Tried, Usable, RequestPC, UnderPC
<1>12. CASE FlushEK
  BY <1>12 DEF FlushEK, KeepInv, Tried, Usable, RequestPC, UnderPC
<1>13. CASE Certify
  BY <1>13 DEF Certify, Command, KeepInv, Tried, Usable, RequestPC, UnderPC
<1>14. CASE HashAndSign
  BY <1>14 DEF HashAndSign, Command, KeepInv, Tried, Usable, RequestPC, UnderPC
<1>15. CASE Activate
  BY <1>15 DEF Activate, Command, KeepInv, Tried, Usable, RequestPC, UnderPC
<1>16. CASE Start
  BY <1>16 DEF Start, KeepInv, Tried, Usable, RequestPC, UnderPC
<1>17. CASE Finish
  BY <1>17 DEF Finish, KeepInv, Tried, Usable, RequestPC, UnderPC
<1>18. CASE Receive
  BY <1>18 DEF Receive, KeepInv, Tried, Usable, RequestPC, UnderPC
<1>19. CASE WritePriv
  BY <1>19 DEF WritePriv, Keep, KeepInv, Tried, Usable, RequestPC, UnderPC
<1>20. CASE WritePub
  BY <1>20 DEF WritePub, KeepInv, Tried, Usable, RequestPC, UnderPC
<1>21. CASE \E v \in VM, t \in TPM : Clone(v, t)
  BY <1>21 DEF Clone, Edit, KeepInv, Tried, Usable, RequestPC, UnderPC
<1>22. CASE \E d \in {NoFile, Bad, Cut} : Damage(d)
  BY <1>22 DEF Damage, Edit, KeepInv, Tried, Usable, RequestPC, UnderPC
<1>23. CASE Refused \/ TurnedAway \/ LoadFails \/ Deny \/ ClearCache \/ WriteCert \/ TryRestart \/ Fail \/ Lose \/ Crash
   \/ Issue \/ Expire
  BY <1>23 DEF Refused, TurnedAway, LoadFails, Deny, ClearCache, WriteCert, TryRestart, Fail, Trouble, Lose, Crash,
     Issue, Expire, KeepInv, Tried, Usable, RequestPC, UnderPC
<1>24. CASE AgentStart \/ AgentRestart \/ AgentRotate \/ AgentStop \/ BecomeDue
   \/ (\E v \in VM : Unpin(v))
  BY <1>24 DEF Unpin, AgentStart, AgentRestart, AgentRotate, AgentStop, BecomeDue, Edit,
     KeepInv, Tried, Usable, RequestPC, UnderPC
<1>25. CASE UNCHANGED vars
  BY <1>25 DEF vars, KeepInv, Tried, Usable, RequestPC, UnderPC
<1> QED
  BY <1>1, <1>2, <1>3, <1>4, <1>5, <1>6, <1>7, <1>8, <1>9, <1>10, <1>11, <1>12, <1>13,
     <1>14, <1>15, <1>16, <1>17, <1>18, <1>19, <1>20, <1>21, <1>22, <1>23, <1>24, <1>25
     DEF Next, Step, Agent, Changes

\* Only the two writes of a run change the blobs while it runs, and they write the
\* key that is there already if that loads.
LEMMA KeyKeptStep ==
    ASSUME TypeInv, KeepInv, Next, pc # "idle", Usable
    PROVE  priv' = priv /\ pub' = pub
<1> USE DEF guest, files, run, service, spire
<1>1. CASE WritePriv
  BY <1>1 DEF WritePriv, Keep, KeepInv, Tried, RequestPC, Usable
<1>2. CASE WritePub
  BY <1>2 DEF WritePub, KeepInv, Tried, RequestPC, Usable
<1>3. CASE UNCHANGED <<priv, pub>>
  BY <1>3
<1>4. CASE (\E v \in VM, t \in TPM : Clone(v, t)) \/ (\E d \in {NoFile, Bad, Cut} : Damage(d))
  BY <1>4 DEF Clone, Damage
<1> QED
  BY <1>1, <1>2, <1>3, <1>4 DEF Next, Step, Agent, Changes, Begin, CheckCert, CheckVMID,
     ReadBlobs, DeriveSRK, FlushSRK, LoadBlobs, CreateAK, CreateDevID, Decide, DeriveEK,
     Command, FlushEK, Certify, HashAndSign, Activate, Start, Finish, Receive, Refused,
     TurnedAway, LoadFails, Deny, Unpin,
     ClearCache, WriteCert, TryRestart, Fail, Lose, Crash, Issue, Expire, AgentStart,
     AgentRestart, AgentRotate, AgentStop, BecomeDue

\* A run replaces the DevID key only if the blobs in the files do not load in this TPM.
THEOREM UsableKeyIsKept == Spec => KeyKept
<1>1. TypeInv /\ KeepInv /\ [Next]_vars => [pc # "idle" /\ Usable => (priv' = priv /\
   pub' = pub)]_vars
  BY KeyKeptStep
<1> QED
  BY <1>1, TypeInvInit, TypeInvStep, KeepInvInit, KeepInvStep, PTL DEF Spec, KeyKept

-----------------------------------------------------------------------------
(***************************************************************************)
(* What the certificate was granted for.                                   *)
(***************************************************************************)
\* A certificate that was granted answers its session, and the run that has received
\* one is the run of that session.
GrantInv ==
    /\ \A g \in granted : session[g.sid] \in Used
                             /\ g.vm = session[g.sid].vm /\ g.ek = session[g.sid].ek
    /\ pc \in {"clear", "priv", "pub", "cert"} =>
          [sid |-> sid, vm |-> session[sid].vm, ek |-> session[sid].ek] \in granted

LEMMA GrantInvInit == Init => GrantInv /\ CertWasGranted
BY GuestAssumption DEF Init, GrantInv, CertWasGranted, Service!Init

LEMMA GrantInvStep ==
    TypeInv /\ GrantInv /\ CertWasGranted /\ [Next]_vars => GrantInv' /\ CertWasGranted'
<1> SUFFICES ASSUME TypeInv, GrantInv, CertWasGranted, [Next]_vars
             PROVE  GrantInv' /\ CertWasGranted'
  OBVIOUS
<1> USE DEF guest, files, run, service, spire
<1>1. CASE Start
  <2>1. PICK s \in Session : Service!Open(s, vmid, tpm)
    BY <1>1 DEF Start
  <2>2. /\ \A r \in Session : session[r] \in Used => session'[r] = session[r]
        /\ granted' = granted
    BY <2>1, OpenType DEF TypeInv, TypeOK, Service!Open
  <2>3. \A g \in granted : g.sid \in Session
    BY DEF TypeInv, ServiceType
  <2>4. pc \in {"clear", "priv", "pub", "cert"} => sid \in Session /\ session[sid] \in
     Used
    BY DEF TypeInv, Control, WithSession
  <2> QED
    BY <1>1, <2>1, <2>2, <2>3, <2>4 DEF Start, GrantInv, CertWasGranted
<1>2. CASE Finish
  <2>1. sid \in Session
    BY <1>2 DEF Finish, TypeInv, Control, WithSession
  <2>2. /\ granted' = granted
        /\ \A r \in Session : session[r] \in Used =>
              /\ session'[r] \in Used
              /\ session'[r].vm = session[r].vm /\ session'[r].ek = session[r].ek
    BY <1>2, <2>1, RedeemType DEF Finish, TypeInv, Service!Redeem
  <2>3. \A g \in granted : g.sid \in Session
    BY DEF TypeInv, ServiceType
  <2>4. pc \in {"clear", "priv", "pub", "cert"} => sid \in Session /\ session[sid] \in
     Used
    BY DEF TypeInv, Control, WithSession
  <2> QED
    BY <1>2, <2>1, <2>2, <2>3, <2>4 DEF Finish, GrantInv, CertWasGranted
<1>3. CASE Receive
  <2>1. PICK g \in granted : g.sid = sid
    BY <1>3 DEF Receive, Answered
  <2>2. g = [sid |-> g.sid, vm |-> g.vm, ek |-> g.ek]
    BY DEF TypeInv, ServiceType
  <2> QED
    BY <1>3, <2>1, <2>2 DEF Receive, GrantInv, CertWasGranted
<1>4. CASE ClearCache
  BY <1>4 DEF ClearCache, GrantInv, CertWasGranted
<1>5. CASE WritePriv
  BY <1>5 DEF WritePriv, Keep, GrantInv, CertWasGranted
<1>6. CASE WritePub
  BY <1>6 DEF WritePub, GrantInv, CertWasGranted
<1>7. CASE WriteCert
  <2>1. devID.tpm = session[sid].ek
    BY <1>7 DEF WriteCert, TypeInv, Control, WithKey, WithSession
  <2>2. [sid |-> sid, vm |-> session[sid].vm, ek |-> session[sid].ek] \in granted
    BY <1>7 DEF WriteCert, GrantInv
  <2>3. cert' = [sid |-> sid, cn |-> session[sid].vm, key |-> devID]
    BY <1>7 DEF WriteCert
  <2>4. CertWasGranted'
    BY <1>7, <2>1, <2>2, <2>3 DEF WriteCert, CertWasGranted
  <2> QED
    BY <1>7, <2>4 DEF WriteCert, GrantInv
<1>8. CASE Lose
  <2>1. PICK s \in Session : Service!Drop({s})
    BY <1>8 DEF Lose, TypeInv, Control, WithSession
  <2>2. /\ granted' = granted
        /\ \A r \in Session : session[r] \in Used =>
              /\ session'[r] \in Used
              /\ session'[r].vm = session[r].vm /\ session'[r].ek = session[r].ek
    BY <2>1, DropType DEF TypeInv
  <2>3. \A g \in granted : g.sid \in Session
    BY DEF TypeInv, ServiceType
  <2>4. pc \in {"clear", "priv", "pub", "cert"} => sid \in Session /\ session[sid] \in
     Used
    BY DEF TypeInv, Control, WithSession
  <2> QED
    BY <1>8, <2>1, <2>2, <2>3, <2>4 DEF Lose, GrantInv, CertWasGranted
<1>9. CASE Issue
  <2>1. PICK s \in Session : Service!Grant(s)
    BY <1>9 DEF Issue
  <2>2. /\ granted' = granted
              \cup {[sid |-> s, vm |-> session[s].vm, ek |-> session[s].ek]}
        /\ session[s] \in Used
        /\ \A r \in Session : session[r] \in Used =>
              /\ session'[r] \in Used
              /\ session'[r].vm = session[r].vm /\ session'[r].ek = session[r].ek
    BY <2>1, GrantType DEF TypeInv, Service!Grant
  <2>3. \A g \in granted : g.sid \in Session
    BY DEF TypeInv, ServiceType
  <2>4. pc \in {"clear", "priv", "pub", "cert"} => sid \in Session /\ session[sid] \in
     Used
    BY DEF TypeInv, Control, WithSession
  <2>5. \A g \in granted' : session'[g.sid] \in Used
            /\ g.vm = session'[g.sid].vm /\ g.ek = session'[g.sid].ek
    BY <2>2, <2>3 DEF GrantInv
  <2> QED
    BY <1>9, <2>1, <2>2, <2>4, <2>5 DEF Issue, GrantInv, CertWasGranted
<1>10. CASE Expire
  <2>1. PICK s \in Session : Service!Drop({s})
    BY <1>10 DEF Expire
  <2>2. /\ granted' = granted
        /\ \A r \in Session : session[r] \in Used =>
              /\ session'[r] \in Used
              /\ session'[r].vm = session[r].vm /\ session'[r].ek = session[r].ek
    BY <2>1, DropType DEF TypeInv
  <2>3. \A g \in granted : g.sid \in Session
    BY DEF TypeInv, ServiceType
  <2>4. pc \in {"clear", "priv", "pub", "cert"} => sid \in Session /\ session[sid] \in
     Used
    BY DEF TypeInv, Control, WithSession
  <2> QED
    BY <1>10, <2>1, <2>2, <2>3, <2>4 DEF Expire, GrantInv, CertWasGranted
<1>11. CASE \E d \in {NoFile, Bad, Cut} : Damage(d)
  BY <1>11, GuestAssumption DEF Damage, Edit, GrantInv, CertWasGranted
<1>12. CASE Begin \/ CheckCert \/ CheckVMID \/ ReadBlobs \/ DeriveSRK \/ FlushSRK \/
   LoadBlobs \/ CreateAK \/ CreateDevID
  BY <1>12 DEF Begin, CheckCert, CheckVMID, ReadBlobs, DeriveSRK, FlushSRK, LoadBlobs,
     CreateAK, CreateDevID, GrantInv, CertWasGranted
<1>13. CASE Decide \/ DeriveEK \/ FlushEK \/ Certify \/ HashAndSign \/ Activate \/
   Refused \/ TryRestart \/ Fail
  BY <1>13 DEF Decide, DeriveEK, Command, FlushEK, Certify, HashAndSign, Activate,
     Refused, TryRestart, Fail, Trouble, GrantInv, CertWasGranted
<1>14. CASE Crash \/ AgentStart \/ AgentRestart \/ AgentRotate \/ AgentStop \/ (\E v \in
   VM, t \in TPM : Clone(v, t)) \/ BecomeDue
  BY <1>14 DEF Crash, Trouble, AgentStart, AgentRestart, AgentRotate, AgentStop, Clone,
     Edit, BecomeDue, GrantInv, CertWasGranted
<1>16. CASE Deny
  <2>1. PICK s \in Session : Service!Drop({s})
    BY <1>16 DEF Deny
  <2>2. /\ granted' = granted
        /\ \A r \in Session : session[r] \in Used =>
              /\ session'[r] \in Used
              /\ session'[r].vm = session[r].vm /\ session'[r].ek = session[r].ek
    BY <2>1, DropType DEF TypeInv
  <2>3. \A g \in granted : g.sid \in Session
    BY DEF TypeInv, ServiceType
  <2>4. pc \in {"clear", "priv", "pub", "cert"} => sid \in Session /\ session[sid] \in
     Used
    BY DEF TypeInv, Control, WithSession
  <2> QED
    BY <1>16, <2>1, <2>2, <2>3, <2>4 DEF Deny, GrantInv, CertWasGranted
<1>17. CASE LoadFails \/ TurnedAway \/ (\E v \in VM : Unpin(v))
  BY <1>17 DEF LoadFails, TurnedAway, Unpin, GrantInv, CertWasGranted
<1>15. CASE UNCHANGED vars
  BY <1>15 DEF vars, GrantInv, CertWasGranted
<1> QED
  BY <1>1, <1>2, <1>3, <1>4, <1>5, <1>6, <1>7, <1>8, <1>9, <1>10, <1>11, <1>12, <1>13,
     <1>14, <1>15, <1>16, <1>17 DEF Next, Step, Agent, Changes

\* The certificate in the file was granted for its VM ID and for the TPM that holds
\* its key.
THEOREM CertIsGranted == Spec => []CertWasGranted
BY TypeInvInit, TypeInvStep, GrantInvInit, GrantInvStep, PTL DEF Spec

-----------------------------------------------------------------------------
(***************************************************************************)
(* The agent's cache.                                                      *)
(***************************************************************************)
\* Sessions are opened in order; the cache was last cleared for a session that is not
\* newer than the run's and not older than the certificate's; while a run that has
\* cleared it writes its files, what is cached was cached after that.
CacheInv ==
    /\ \A r, q \in Session : session[r] # Service!Fresh /\ session[q] = Service!Fresh =>
       r < q
    /\ cleared # 0 => session[cleared] # Service!Fresh
    /\ pc \in WithSession => cleared <= sid
    /\ cert \in Cert => cert.sid \in Session /\ cert.sid <= cleared
    /\ pc \in {"priv", "pub", "cert"} =>
          cleared = sid /\ (cache # NoCert => cache.after = sid)

LEMMA CacheInvInit == Init => CacheInv /\ StaleCacheIsAgentsOwn
BY GuestAssumption DEF Init, CacheInv, StaleCacheIsAgentsOwn, Service!Init, WithSession

LEMMA CacheTypes ==
    ASSUME TypeInv
    PROVE  /\ Session \subseteq Nat /\ sid \in Nat /\ cleared \in Nat
           /\ cache # NoCert => cache.id \in Nat /\ cache.after \in Nat
<1>1. \A s \in Session \cup {0} : s \in Nat
  BY GuestAssumption
<1>2. sid \in Session \cup {0} /\ cleared \in Session \cup {0}
  BY DEF TypeInv, TypeOK
<1>3. cache # NoCert => cache.id \in Session \cup {0} /\ cache.after \in Session \cup {0}
  BY DEF TypeInv, TypeOK
<1> QED
  BY <1>1, <1>2, <1>3

\* Only Start turns a fresh session into another.
LEMMA StillFresh ==
    ASSUME ServiceType, \A r \in Session : session[r] \in Used => session'[r] \in Used,
           NEW s \in Session, session[s] \in Used,
           \A r \in Session : r # s => session'[r] = session[r]
    PROVE  \A r \in Session : session'[r] = Service!Fresh <=> session[r] = Service!Fresh
BY UsedNotFresh DEF ServiceType

LEMMA CacheInvStep ==
    TypeInv /\ CacheInv /\ StaleCacheIsAgentsOwn /\ [Next]_vars
        => CacheInv' /\ StaleCacheIsAgentsOwn'
<1> SUFFICES ASSUME TypeInv, CacheInv, StaleCacheIsAgentsOwn, [Next]_vars
             PROVE  CacheInv' /\ StaleCacheIsAgentsOwn'
  OBVIOUS
<1> USE DEF guest, files, run, service, spire
<1>1. CASE Begin
  BY <1>1 DEF Begin, CacheInv, StaleCacheIsAgentsOwn, WithSession
<1>2. CASE DeriveEK
  BY <1>2 DEF DeriveEK, Command, CacheInv, StaleCacheIsAgentsOwn, WithSession
<1>3. CASE Certify
  BY <1>3 DEF Certify, Command, CacheInv, StaleCacheIsAgentsOwn, WithSession
<1>4. CASE HashAndSign
  BY <1>4 DEF HashAndSign, Command, CacheInv, StaleCacheIsAgentsOwn, WithSession
<1>5. CASE Activate
  BY <1>5 DEF Activate, Command, CacheInv, StaleCacheIsAgentsOwn, WithSession
<1>6. CASE Start
  <2>1. PICK s \in Session :
            /\ \A r \in Session : session[r] = Service!Fresh => s <= r
            /\ Service!Open(s, vmid, tpm)
            /\ sid' = s
    BY <1>6 DEF Start
  <2>2. /\ session[s] = Service!Fresh /\ session'[s] # Service!Fresh
        /\ \A r \in Session : r # s => session'[r] = session[r]
    BY <2>1 DEF TypeInv, ServiceType, Service!Open, Service!Fresh
  <2>3. \A r, q \in Session :
            session'[r] # Service!Fresh /\ session'[q] = Service!Fresh => r < q
    BY <2>1, <2>2, CacheTypes DEF CacheInv
  <2>4. cleared <= s
    BY <2>1, <2>2, CacheTypes DEF CacheInv, TypeInv, TypeOK
  <2>5. cleared # 0 => session'[cleared] # Service!Fresh
    BY <2>2 DEF CacheInv, TypeInv, TypeOK
  <2> QED
    BY <1>6, <2>1, <2>3, <2>4, <2>5 DEF Start, CacheInv, StaleCacheIsAgentsOwn,
       WithSession
<1>7. CASE Finish
  <2>1. PICK s \in Session : Service!Redeem(s)
    BY <1>7 DEF Finish, TypeInv, Control, WithSession
  <2>2. /\ session[s] \in Used
        /\ \A r \in Session : session[r] \in Used => session'[r] \in Used
        /\ \A r \in Session : r # s => session'[r] = session[r]
    BY <2>1, RedeemType, BusyIsUsed DEF TypeInv, ServiceType, Service!Redeem
  <2>3. \A r \in Session : session'[r] = Service!Fresh <=> session[r] = Service!Fresh
    BY <2>1, <2>2, StillFresh DEF TypeInv
  <2>4. cleared \in Session \cup {0}
    BY DEF TypeInv, TypeOK
  <2> QED
    BY <1>7, <2>3, <2>4 DEF Finish, CacheInv, StaleCacheIsAgentsOwn, WithSession
<1>8. CASE Receive
  BY <1>8 DEF Receive, CacheInv, StaleCacheIsAgentsOwn, WithSession
<1>9. CASE ClearCache
  <2>1. sid \in Session /\ session[sid] # Service!Fresh
    BY <1>9, UsedNotFresh DEF ClearCache, TypeInv, Control, WithSession
  <2>2. cleared <= sid /\ cleared' = sid /\ cache' = NoCert /\ pc' = "priv"
    BY <1>9 DEF ClearCache, CacheInv, WithSession
  <2> QED
    BY <1>9, <2>1, <2>2, CacheTypes DEF ClearCache, CacheInv, StaleCacheIsAgentsOwn
<1>10. CASE WritePriv
  BY <1>10 DEF WritePriv, Keep, CacheInv, StaleCacheIsAgentsOwn, WithSession
<1>11. CASE WritePub
  BY <1>11 DEF WritePub, CacheInv, StaleCacheIsAgentsOwn, WithSession
<1>12. CASE WriteCert
  <2>1. sid \in Session /\ cert'.sid = sid /\ cleared = sid
    BY <1>12 DEF WriteCert, TypeInv, Control, WithSession, CacheInv
  <2>2. cache # NoCert => cache.after = sid
    BY <1>12 DEF WriteCert, CacheInv
  <2> QED
    BY <1>12, <2>1, <2>2, CacheTypes DEF WriteCert, CacheInv, StaleCacheIsAgentsOwn,
       WithSession
<1>13. CASE Fail
  BY <1>13 DEF Fail, Trouble, CacheInv, StaleCacheIsAgentsOwn, WithSession
<1>14. CASE Lose
  <2>1. PICK s \in Session : Service!Drop({s})
    BY <1>14 DEF Lose, TypeInv, Control, WithSession
  <2>2. /\ session[s] \in Used
        /\ \A r \in Session : session[r] \in Used => session'[r] \in Used
        /\ \A r \in Session : r # s => session'[r] = session[r]
    BY <2>1, DropType, BusyIsUsed DEF TypeInv, ServiceType, Service!Drop
  <2>3. \A r \in Session : session'[r] = Service!Fresh <=> session[r] = Service!Fresh
    BY <2>1, <2>2, StillFresh DEF TypeInv
  <2>4. cleared \in Session \cup {0}
    BY DEF TypeInv, TypeOK
  <2> QED
    BY <1>14, <2>3, <2>4 DEF Lose, CacheInv, StaleCacheIsAgentsOwn, WithSession
<1>15. CASE Issue
  <2>1. PICK s \in Session : Service!Grant(s)
    BY <1>15 DEF Issue
  <2>2. /\ session[s] \in Used
        /\ \A r \in Session : session[r] \in Used => session'[r] \in Used
        /\ \A r \in Session : r # s => session'[r] = session[r]
    BY <2>1, GrantType, BusyIsUsed DEF TypeInv, ServiceType, Service!Grant
  <2>3. \A r \in Session : session'[r] = Service!Fresh <=> session[r] = Service!Fresh
    BY <2>1, <2>2, StillFresh DEF TypeInv
  <2>4. cleared \in Session \cup {0}
    BY DEF TypeInv, TypeOK
  <2> QED
    BY <1>15, <2>3, <2>4 DEF Issue, CacheInv, StaleCacheIsAgentsOwn, WithSession
<1>16. CASE Expire
  <2>1. PICK s \in Session : Service!Drop({s})
    BY <1>16 DEF Expire
  <2>2. /\ session[s] \in Used
        /\ \A r \in Session : session[r] \in Used => session'[r] \in Used
        /\ \A r \in Session : r # s => session'[r] = session[r]
    BY <2>1, DropType, BusyIsUsed DEF TypeInv, ServiceType, Service!Drop
  <2>3. \A r \in Session : session'[r] = Service!Fresh <=> session[r] = Service!Fresh
    BY <2>1, <2>2, StillFresh DEF TypeInv
  <2>4. cleared \in Session \cup {0}
    BY DEF TypeInv, TypeOK
  <2> QED
    BY <1>16, <2>3, <2>4 DEF Expire, CacheInv, StaleCacheIsAgentsOwn, WithSession
<1>17. CASE AgentStart
  <2>1. CASE UNCHANGED cache
    BY <1>17, <2>1 DEF AgentStart, CacheInv, StaleCacheIsAgentsOwn
  <2>2. CASE cache' = [id |-> cert.sid, after |-> cleared] /\ cert \in Cert
    BY <1>17, <2>2, CacheTypes DEF AgentStart, CacheInv, StaleCacheIsAgentsOwn
  <2> QED
    BY <1>17, <2>1, <2>2 DEF AgentStart, Attest, Attests
<1>18. CASE AgentRestart
  <2>1. CASE UNCHANGED cache
    BY <1>18, <2>1 DEF AgentRestart, CacheInv, StaleCacheIsAgentsOwn
  <2>2. CASE cache' = [id |-> cert.sid, after |-> cleared] /\ cert \in Cert
    BY <1>18, <2>2, CacheTypes DEF AgentRestart, CacheInv, StaleCacheIsAgentsOwn
  <2> QED
    BY <1>18, <2>1, <2>2 DEF AgentRestart, Attest, Attests
<1>19. CASE AgentRotate
  <2>1. cache' = [id |-> agent, after |-> cleared]
    BY <1>19 DEF AgentRotate
  <2> QED
    BY <1>19, <2>1, CacheTypes DEF AgentRotate, CacheInv, StaleCacheIsAgentsOwn
<1>20. CASE \E d \in {NoFile, Bad, Cut} : Damage(d)
  BY <1>20, GuestAssumption DEF Damage, Edit, CacheInv, StaleCacheIsAgentsOwn, WithSession
<1>21. CASE CheckCert \/ CheckVMID \/ ReadBlobs \/ DeriveSRK \/ FlushSRK \/ LoadBlobs \/
   CreateAK \/ CreateDevID \/ Decide
  BY <1>21 DEF CheckCert, CheckVMID, ReadBlobs, DeriveSRK, FlushSRK, LoadBlobs,
     CreateAK, CreateDevID, Decide, CacheInv, StaleCacheIsAgentsOwn, WithSession
<1>22. CASE FlushEK \/ Refused \/ TryRestart \/ Crash \/ AgentStop \/ (\E v \in VM, t
   \in TPM : Clone(v, t)) \/ BecomeDue
  BY <1>22 DEF FlushEK, Refused, TryRestart, Crash, Trouble, AgentStop, Clone, Edit,
     BecomeDue, CacheInv, StaleCacheIsAgentsOwn, WithSession
<1>24. CASE Deny
  <2>1. PICK s \in Session : Service!Drop({s})
    BY <1>24 DEF Deny
  <2>2. /\ session[s] \in Used
        /\ \A r \in Session : session[r] \in Used => session'[r] \in Used
        /\ \A r \in Session : r # s => session'[r] = session[r]
    BY <2>1, DropType, BusyIsUsed DEF TypeInv, ServiceType, Service!Drop
  <2>3. \A r \in Session : session'[r] = Service!Fresh <=> session[r] = Service!Fresh
    BY <2>1, <2>2, StillFresh DEF TypeInv
  <2>4. cleared \in Session \cup {0}
    BY DEF TypeInv, TypeOK
  <2> QED
    BY <1>24, <2>3, <2>4 DEF Deny, CacheInv, StaleCacheIsAgentsOwn, WithSession
<1>25. CASE LoadFails \/ TurnedAway \/ (\E v \in VM : Unpin(v))
  BY <1>25 DEF LoadFails, TurnedAway, Unpin, CacheInv, StaleCacheIsAgentsOwn, WithSession
<1>23. CASE UNCHANGED vars
  BY <1>23 DEF vars, CacheInv, StaleCacheIsAgentsOwn, WithSession
<1> QED
  BY <1>1, <1>2, <1>3, <1>4, <1>5, <1>6, <1>7, <1>8, <1>9, <1>10, <1>11, <1>12, <1>13,
     <1>14, <1>15, <1>16, <1>17, <1>18, <1>19, <1>20, <1>21, <1>22, <1>23, <1>24, <1>25 DEF Next,
     Step, Agent, Changes

\* A cached identity older than the certificate was written by the agent itself after
\* the client had cleared the cache for that certificate.
THEOREM StaleCacheIsLate == Spec => []StaleCacheIsAgentsOwn
BY TypeInvInit, TypeInvStep, CacheInvInit, CacheInvStep, PTL DEF Spec
=============================================================================
