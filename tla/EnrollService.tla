--------------------------- MODULE EnrollService ----------------------------
(***************************************************************************)
(* What the enrollment service promises, without legs, pins and locks: a   *)
(* session is opened for one VM and one EK, is redeemed at most once, and  *)
(* a certificate answers exactly one redemption and names the VM and the   *)
(* EK the session was opened for.  Any session may be dropped at any time: *)
(* by its age, a wrong answer, a refused pin, a failing store, a restart.  *)
(***************************************************************************)
CONSTANTS VM, EK, Session, NoVM, NoPin

VARIABLES
    session,    \* the sessions, with what a closed session was for
    granted     \* the certificates that were issued

vars == <<session, granted>>

Fresh == [st |-> "fresh", vm |-> NoVM, ek |-> NoPin]

Init ==
    /\ session = [s \in Session |-> Fresh]
    /\ granted = {}

\* enroll/start: a challenge only the TPM with EK k can answer, for VM v.
Open(s, v, k) ==
    /\ session[s] = Fresh
    /\ session' = [session EXCEPT ![s] = [st |-> "open", vm |-> v, ek |-> k]]
    /\ UNCHANGED granted

\* enroll/finish takes the session out of the table, on the right answer.
Redeem(s) ==
    /\ session[s].st = "open"
    /\ session' = [session EXCEPT ![s].st = "redeemed"]
    /\ UNCHANGED granted

\* The certificate of a redeemed session.
Grant(s) ==
    /\ session[s].st = "redeemed"
    /\ session' = [session EXCEPT ![s].st = "closed"]
    /\ granted' = granted \cup {[sid |-> s, vm |-> session[s].vm, ek |-> session[s].ek]}

\* Sessions S lead to no certificate any more.
Drop(S) ==
    /\ \A s \in S : session[s].st \in {"open", "redeemed"}
    /\ session' = [s \in Session |->
          IF s \in S THEN [session[s] EXCEPT !.st = "closed"] ELSE session[s]]
    /\ UNCHANGED granted

Next ==
    \/ \E S \in SUBSET Session : Drop(S)
    \/ \E s \in Session : Redeem(s) \/ Grant(s)
    \/ \E s \in Session, v \in VM, k \in EK : Open(s, v, k)

Spec == Init /\ [][Next]_vars
=============================================================================
