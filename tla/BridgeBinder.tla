---------------------------- MODULE BridgeBinder ----------------------------
(***************************************************************************)
(* vtpm-mds-bind (cmd/vtpm-mds-bind, internal/bridgebind): the process     *)
(* that keeps the nftables table in which every guest port of the IMDS     *)
(* bridge admits only the MAC of its guest's configuration.                *)
(*                                                                         *)
(* One Tick takes the fingerprint of the guest configurations, reads them  *)
(* when it changed (proxmox.GuestNICs), renders the table, lists the table *)
(* that is there, applies its own when needed and lists again.  Others     *)
(* edit the configurations, or change or flush the table, between any two  *)
(* of these steps.  A guest has one NIC here: its file is its port.        *)
(* writeScript, a copy of the script that nothing reads, is left out.      *)
(***************************************************************************)
EXTENDS Naturals

CONSTANTS
    Guest,      \* the guests of this node, one configuration file each
    MAC,        \* valid MAC addresses
    NoMAC,      \* a net<n> line without a valid MAC: its port is closed
    Reverts,    \* TRUE: a file may get back a content it had before
    MaxEdits,   \* bound on the edits of configurations
    MaxHarm,    \* bound on failed nft calls, stops and changes of the table
    Unread,     \* a file not read yet
    Missing,    \* no table, or a listing that failed
    Altered,    \* a table somebody else has changed
    Never       \* what a fresh Binder holds: nothing read, nothing applied

\* A configuration file: absent, there but not readable, or with a NIC on the
\* IMDS bridge or on another one.  n tells two contents apart.
Conf == {c \in [n : 0..MaxEdits, st : {"absent", "unreadable", "imds", "other"},
                mac : MAC \cup {NoMAC}] : c.st # "imds" => c.mac = NoMAC}

\* What Render can write: the admitted MAC of each bound port.
Tables == UNION {[P -> MAC \cup {NoMAC}] : P \in SUBSET Guest}

ASSUME BinderAssumption ==
    /\ Reverts \in BOOLEAN
    /\ MaxEdits \in Nat /\ MaxHarm \in Nat
    /\ {Missing, Altered, Never} \cap Tables = {}
    /\ Missing # Altered /\ Missing # Never /\ Altered # Never
    /\ Unread \notin Conf /\ Never \notin [Guest -> Conf]

VARIABLES
    conf,       \* the configuration files
    table,      \* the table bridge vtpm_mds_bind in the kernel
    pc,         \* where the process is
    first,      \* it is in the Tick Run starts with
    got,        \* what this Tick has read so far
    fp,         \* Binder.fp, Never while ~haveFP
    want,       \* Binder.want, Never while ""
    changed,    \* the local changed of Tick
    seen,       \* Binder.seen, the table as the last successful apply left it
    failing,    \* Binder.failing
    edits, harm \* history: how many edits and other incidents there were

kept == <<fp, want, seen, failing>>
tick == <<first, got, changed>>
vars == <<conf, table, pc, tick, kept, edits, harm>>

Nothing == [g \in Guest |-> Unread]

\* The files, the table and the fields of Binder have their types.
TypeOK ==
    /\ conf \in [Guest -> Conf]
    /\ table \in Tables \cup {Missing, Altered}
    /\ pc \in {"off", "fingerprint", "glob", "read", "list", "apply", "verify", "wait"}
    /\ first \in BOOLEAN
    /\ got \in [Guest -> Conf \cup {Unread}]
    /\ fp \in [Guest -> Conf] \cup {Never}
    /\ want \in Tables \cup {Never}
    /\ changed \in BOOLEAN /\ failing \in BOOLEAN
    /\ seen \in Tables \cup {Missing, Altered, Never}
    /\ edits \in 0..MaxEdits /\ harm \in 0..MaxHarm

\* After a boot there is no table, and the guests are configured in any way.
Init ==
    /\ conf \in [Guest -> {c \in Conf : c.n = 0}]
    /\ table = Missing
    /\ pc = "off" /\ first = TRUE
    /\ got = Nothing
    /\ fp = Never /\ want = Never /\ changed = FALSE
    /\ seen = Never /\ failing = FALSE
    /\ edits = 0 /\ harm = 0

\* An incident that may happen only so often.
Incident == harm < MaxHarm /\ harm' = harm + 1

OnBridge(s) == {g \in Guest : s[g].st = "imds"}

\* Render on the NICs of the files s: a rule for each port of the IMDS bridge,
\* which admits the configured MAC, or nothing when there is none.
Render(s) == [g \in OnBridge(s) |-> s[g].mac]

\* The end of a Tick.  When the first one leaves no table Run returns an error,
\* the process exits and systemd starts it again.
EndTick(w, failed) ==
    /\ pc' = IF first /\ (w = Never \/ failed) THEN "off" ELSE "wait"
    /\ first' = FALSE /\ got' = Nothing /\ changed' = FALSE

-----------------------------------------------------------------------------
(***************************************************************************)
(* The process: main, Run and the ticker.                                  *)
(***************************************************************************)
\* A new Binder; Run ticks at once.
Start ==
    /\ pc = "off"
    /\ pc' = "fingerprint" /\ first' = TRUE
    /\ fp' = Never /\ want' = Never /\ seen' = Never /\ failing' = FALSE
    /\ UNCHANGED <<conf, table, got, changed, edits, harm>>

\* <-t.C: the next check.
Tick ==
    /\ pc = "wait"
    /\ pc' = "fingerprint"
    /\ UNCHANGED <<conf, table, tick, kept, edits, harm>>

\* SIGTERM, or the process is killed: the table is left in place.  An nft call
\* that was under way may still have its effect.
Stop ==
    /\ pc # "off"
    /\ Incident
    /\ pc' = "off" /\ first' = FALSE /\ got' = Nothing /\ changed' = FALSE
    /\ fp' = Never /\ want' = Never /\ seen' = Never /\ failing' = FALSE
    /\ table' \in IF pc = "apply" THEN {table, want} ELSE {table}
    /\ UNCHANGED <<conf, edits>>

-----------------------------------------------------------------------------
(***************************************************************************)
(* Tick: fingerprint, read and render.                                     *)
(***************************************************************************)
\* SourceFingerprint reads one more file; one that cannot be read counts with
\* its error.
AddFile(g) ==
    /\ pc = "fingerprint" /\ got[g] = Unread
    /\ got' = [got EXCEPT ![g] = conf[g]]
    /\ UNCHANGED <<conf, table, pc, first, changed, kept, edits, harm>>

HasRead == \A g \in Guest : got[g] # Unread

\* The fingerprint is compared with the last one and recorded; without a table
\* to keep (no earlier read succeeded) an unchanged source ends the Tick.
SourceFingerprint ==
    /\ pc = "fingerprint" /\ HasRead
    /\ \/ /\ got # fp
          /\ fp' = got
          /\ pc' = "glob" /\ got' = Nothing
          /\ UNCHANGED <<first, changed>>
       \/ /\ got = fp /\ want # Never
          /\ pc' = "list" /\ got' = Nothing
          /\ UNCHANGED <<fp, first, changed>>
       \/ /\ got = fp /\ want = Never
          /\ EndTick(want, failing)
          /\ UNCHANGED fp
    /\ UNCHANGED <<conf, table, want, seen, failing, edits, harm>>

\* GuestNICs lists the directory: a guest without a file has no NIC.
Glob ==
    /\ pc = "glob"
    /\ pc' = "read"
    /\ got' = [g \in Guest |-> IF conf[g].st = "absent" THEN conf[g] ELSE Unread]
    /\ UNCHANGED <<conf, table, first, changed, kept, edits, harm>>

\* GuestNICs reads a file it listed.
ReadNICs(g) ==
    /\ pc = "read" /\ got[g] = Unread
    /\ conf[g].st \in {"imds", "other"}
    /\ got' = [got EXCEPT ![g] = conf[g]]
    /\ UNCHANGED <<conf, table, pc, first, changed, kept, edits, harm>>

\* After the read, with w wanted: go on to the table, if there is one to keep.
Rendered(w) ==
    /\ want' = w
    /\ \/ /\ w # Never
          /\ pc' = "list" /\ got' = Nothing /\ changed' = (w # want)
          /\ UNCHANGED first
       \/ /\ w = Never
          /\ EndTick(w, failing)

\* Faulty variant: the NICs read before the error are rendered.
ReadFailsPartly(g) ==
    /\ pc = "read" /\ got[g] = Unread
    /\ conf[g].st \in {"unreadable", "absent"}
    /\ Rendered([h \in {k \in Guest : got[k] # Unread /\ got[k].st = "imds"} |-> got[h].mac])
    /\ UNCHANGED <<conf, table, fp, seen, failing, edits, harm>>

\* A listed file that is gone by now, or cannot be read, fails GuestNICs: what
\* was wanted before stays wanted.
ReadFails(g) ==
    /\ pc = "read" /\ got[g] = Unread
    /\ conf[g].st \in {"unreadable", "absent"}
    /\ Rendered(want)
    /\ UNCHANGED <<conf, table, fp, seen, failing, edits, harm>>

\* Faulty variant: the fingerprint is the one of the files after the read.
RenderNICsAndRecord ==
    /\ pc = "read" /\ HasRead
    /\ Rendered(Render(got))
    /\ fp' = conf
    /\ UNCHANGED <<conf, table, seen, failing, edits, harm>>

\* The whole configuration was read.
RenderNICs ==
    /\ pc = "read" /\ HasRead
    /\ Rendered(Render(got))
    /\ UNCHANGED <<conf, table, fp, seen, failing, edits, harm>>

-----------------------------------------------------------------------------
(***************************************************************************)
(* Tick: the table.                                                        *)
(***************************************************************************)
\* Faulty variant: a failed apply is not retried.
ListNoRetry ==
    /\ pc = "list"
    /\ \/ /\ ~changed /\ (table = seen \/ failing)
          /\ EndTick(want, failing)
       \/ /\ changed \/ (table # seen /\ ~failing)
          /\ pc' = "apply" /\ UNCHANGED tick
    /\ UNCHANGED <<conf, table, kept, edits, harm>>

\* NFT.List: a table that is as the last apply left it needs nothing.
List ==
    /\ pc = "list"
    /\ \/ /\ ~changed /\ ~failing /\ table = seen
          /\ EndTick(want, failing)
       \/ /\ changed \/ failing \/ table # seen
          /\ pc' = "apply" /\ UNCHANGED tick
    /\ UNCHANGED <<conf, table, kept, edits, harm>>

\* A listing that fails, for whatever reason, reads as a missing table.
ListFails ==
    /\ pc = "list"
    /\ Incident
    /\ \/ /\ ~changed /\ ~failing /\ seen = Missing
          /\ EndTick(want, failing)
       \/ /\ changed \/ failing \/ seen # Missing
          /\ pc' = "apply" /\ UNCHANGED tick
    /\ UNCHANGED <<conf, table, kept, edits>>

\* NFT.Apply replaces the whole table in one transaction.
Apply ==
    /\ pc = "apply"
    /\ table' = want
    /\ failing' = FALSE
    /\ pc' = "verify"
    /\ UNCHANGED <<conf, tick, fp, want, seen, edits, harm>>

\* nft reports an error, or is killed after execTimeout: then the transaction
\* may have been committed all the same.
ApplyFails ==
    /\ pc = "apply"
    /\ Incident
    /\ failing' = TRUE
    /\ table' \in {table, want}
    /\ EndTick(want, TRUE)
    /\ UNCHANGED <<conf, fp, want, seen, edits>>

\* Faulty variant: the listing after the apply is not kept.
VerifyForgets ==
    /\ pc = "verify"
    /\ EndTick(want, failing)
    /\ seen' = Missing
    /\ UNCHANGED <<conf, table, fp, want, failing, edits, harm>>

\* The listing after the apply is remembered, whatever it shows.
Verify ==
    /\ pc = "verify"
    /\ \/ seen' = table /\ UNCHANGED harm
       \/ seen' = Missing /\ Incident
    /\ EndTick(want, failing)
    /\ UNCHANGED <<conf, table, fp, want, failing, edits>>

-----------------------------------------------------------------------------
(***************************************************************************)
(* The rest of the node.                                                   *)
(***************************************************************************)
\* A guest is created, changed, migrated away, or its file cannot be read for a
\* while.
Edit(g, c) ==
    /\ edits < MaxEdits
    /\ c # conf[g]
    /\ Reverts \/ c.n = edits + 1
    /\ conf' = [conf EXCEPT ![g] = c]
    /\ edits' = edits + 1
    /\ UNCHANGED <<table, pc, tick, kept, harm>>

\* Somebody flushes the ruleset or changes the table.
ChangeTable(t) ==
    /\ t # table
    /\ Incident
    /\ table' = t
    /\ UNCHANGED <<conf, pc, tick, kept, edits>>

\* The steps of a Tick, when no nft call fails.
Step ==
    \/ \E g \in Guest : AddFile(g) \/ ReadNICs(g) \/ ReadFails(g)
    \/ SourceFingerprint \/ Glob \/ RenderNICs
    \/ List \/ Apply \/ Verify

Next ==
    \/ Start \/ Tick \/ Step
    \/ Stop \/ ListFails \/ ApplyFails
    \/ \E g \in Guest, c \in Conf : Edit(g, c)
    \/ \E t \in {Missing, Altered} : ChangeTable(t)

Spec == Init /\ [][Next]_vars

\* The process runs, its ticker ticks, and systemd starts it again
\* (Restart=on-failure; after a SIGTERM, whoever stopped it).  No nft call is
\* assumed to succeed: failures are bounded by MaxHarm only.
Fairness == WF_vars(Start) /\ WF_vars(Tick) /\ WF_vars(Step)

FairSpec == Spec /\ Fairness

-----------------------------------------------------------------------------
(***************************************************************************)
(* Properties.                                                             *)
(***************************************************************************)
\* GuestNICs succeeds on these files.
Readable(s) == \A g \in Guest : s[g].st # "unreadable"

\* The listing after an apply found a table that was not the applied one: flushed
\* or changed between the two nft calls, or the listing failed.  The binder takes
\* that for its own work; TableRestored, which leaves this case in, is violated.
Misled == seen \in {Missing, Altered}

\* A binder that would do nothing at its next check has nothing to do: while it
\* waits with the fingerprint of the files as they are and finds the table as it
\* left it, each port admits what its guest's file says.  A binder that was Misled
\* by the listing after its last apply is left out: what it finds again is not its
\* own table.
QuietIsBound ==
    pc = "wait" /\ fp = conf /\ Readable(conf) /\ ~failing /\ table = seen /\ ~Misled
        => table = Render(conf)

\* A guest whose file nobody touched never loses its rule to what happens to the
\* others: edits seen half, failed reads, failed applies and restarts.
UntouchedStaysBound ==
    table \in Tables =>
        \A g \in OnBridge(conf) :
            conf[g].n = 0 => g \in DOMAIN table /\ table[g] = conf[g].mac

\* No "binder that runs without a table" (Run): a process that waits for its
\* ticker has applied a table, in the check it began with.
NeverRunsWithoutTable == pc = "wait" => seen # Never

\* After the last change the table ends up right without anybody's help, however
\* many applies failed, or reported a failure and took effect, before, and however
\* often it was flushed, changed or could not be listed before an apply: unless the
\* listing after the last apply misled the binder, the case of TableRestored.
EventuallyBound ==
    <>[](Readable(conf) => table = Render(conf) \/ Misled)

\* "The table is listed every time and restored when it is missing or differs from
\* what the last apply left" (Tick), and so it ends up right, whatever the listing
\* after an apply has shown.
TableRestored == <>[](Readable(conf) => table = Render(conf))

\* "An unchanged source SHALL cause no rewrite": the binder comes to rest.
EventuallyQuiet == <>[](pc \notin {"apply", "verify"})
=============================================================================
