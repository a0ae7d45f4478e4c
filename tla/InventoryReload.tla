--------------------------- MODULE InventoryReload ---------------------------
(***************************************************************************)
(* How the running service keeps its inventory up to date                  *)
(* (internal/server/reload.go, RefreshVMConfigCache in server.go, the      *)
(* signal loop in main.go).  Two goroutines reload: main, at startup and   *)
(* on SIGHUP, always; the poller, every few seconds, when the fingerprint  *)
(* of the source differs from the one of the last load attempt.  Both go   *)
(* through the same steps: take the fingerprint, record it, wait for       *)
(* vmConfigCacheMu, load, publish.                                         *)
(*                                                                         *)
(* The source is a set of files that others edit at any time; neither the  *)
(* fingerprint nor the load reads them all at once.  A file that is        *)
(* missing or cannot be read has a content too, as in AddFile.  A          *)
(* fingerprint is what was read: the digest is taken to be injective.      *)
(***************************************************************************)
EXTENDS Naturals, Sequences

CONSTANTS
    File,        \* the files the backend reads
    FatalFile,   \* the ones whose being broken fails the load: the YAML file,
                 \* or the qemu-server directory; another file is skipped then
    Content,     \* what a file may hold
    Broken,      \* contents that cannot be read or parsed
    Reverts,     \* TRUE: a file may get back a content it had before
    MaxEdits,    \* bound on the edits of the source
    MaxSignals,  \* bound on the signals sent
    Unread       \* a file not read yet

ASSUME ReloadAssumption ==
    /\ FatalFile \subseteq File
    /\ Content \subseteq Nat /\ 0 \in Content /\ Broken \subseteq Content \ {0}
    /\ Unread \notin Content
    /\ Reverts \in BOOLEAN
    /\ MaxEdits \in Nat /\ MaxSignals \in Nat

Proc == {"main", "poller"}

VARIABLES
    src,        \* the files as they are now
    pc,         \* where each goroutine is
    seen,       \* what it has read so far, for a fingerprint or for a load
    last,       \* poll.last, with nothing read while ~poll.have
    cacheMu,    \* the writer that holds vmConfigCacheMu, or "none"
    cache,      \* what the inventory in vmConfigCache was loaded from
    failed,     \* lastErrorClass is inventory_load_failed
    cancelled,  \* the poller's context was cancelled
    sigChan,    \* the signal channel, of capacity one
    sent,       \* history: the signals sent to the process
    edits       \* history: how many edits there were

poll  == <<last, cancelled>>
inv   == <<cacheMu, cache, failed>>
world == <<src, edits>>
sigs  == <<sigChan, sent>>
vars  == <<world, pc, seen, poll, inv, sigs>>

Nothing == [f \in File |-> Unread]

\* The goroutines, the cache and the signals have their types.
TypeOK ==
    /\ src \in [File -> Content]
    /\ pc \in [Proc -> {"off", "wait", "fingerprint", "record", "lock", "load",
                        "stopping", "done"}]
    /\ seen \in [Proc -> [File -> Content \cup {Unread}]]
    /\ last \in [File -> Content \cup {Unread}]
    /\ cacheMu \in Proc \cup {"none"}
    /\ cache \in [File -> Content \cup {Unread}]
    /\ failed \in BOOLEAN /\ cancelled \in BOOLEAN
    /\ sigChan \in {<<>>, <<"HUP">>, <<"TERM">>}
    /\ sent \in Seq({"HUP", "TERM"})
    /\ edits \in Nat

\* New calls reloadNow before there is a poller or a signal loop.
Init ==
    /\ src = [f \in File |-> 0]
    /\ pc = [p \in Proc |-> IF p = "main" THEN "fingerprint" ELSE "off"]
    /\ seen = [p \in Proc |-> Nothing]
    /\ last = Nothing
    /\ cacheMu = "none"
    /\ cache = Nothing
    /\ failed = FALSE
    /\ cancelled = FALSE
    /\ sigChan = <<>>
    /\ sent = <<>>
    /\ edits = 0

Running == pc["main"] # "done"

\* The load of New has returned, with an inventory or without.
Started == cache # Nothing \/ failed

Goto(p, l) == pc' = [pc EXCEPT ![p] = l]

Forget(p) == seen' = [seen EXCEPT ![p] = Nothing]

\* LoadYAML or ParseVMConfigs returns an error.
Fails(s) == \E f \in FatalFile : s[f] \in Broken

-----------------------------------------------------------------------------
(***************************************************************************)
(* reloadNow and reloadIfChanged.                                          *)
(***************************************************************************)
\* One more file is read, for inventoryFingerprint or by the load.
ReadFile(p, f) ==
    /\ Running
    /\ pc[p] \in {"fingerprint", "load"}
    /\ seen[p][f] = Unread
    /\ seen' = [seen EXCEPT ![p][f] = src[f]]
    /\ UNCHANGED <<world, pc, poll, inv, sigs>>

HasRead(p) == \A f \in File : seen[p][f] # Unread

\* inventoryFingerprint returns.
Fingerprint(p) ==
    /\ Running
    /\ pc[p] = "fingerprint" /\ HasRead(p)
    /\ Goto(p, "record")
    /\ UNCHANGED <<world, seen, poll, inv, sigs>>

\* Faulty variant: the fingerprint of the check is not kept.
reloadIfChangedForgets ==
    /\ Running
    /\ pc["poller"] = "record"
    /\ Goto("poller", IF seen["poller"] = last THEN "wait" ELSE "lock")
    /\ Forget("poller")
    /\ UNCHANGED <<world, poll, inv, sigs>>

\* Faulty variant: the check looks whether there was a load, not at what.
reloadIfChangedOnce ==
    /\ Running
    /\ pc["poller"] = "record"
    /\ Goto("poller", IF last # Nothing THEN "wait" ELSE "lock")
    /\ Forget("poller")
    /\ UNCHANGED <<world, poll, inv, sigs>>

\* reloadIfChanged under poll.mu: an unchanged source ends the check.
reloadIfChanged ==
    /\ Running
    /\ pc["poller"] = "record"
    /\ Goto("poller", IF seen["poller"] = last THEN "wait" ELSE "lock")
    /\ last' = seen["poller"]
    /\ Forget("poller")
    /\ UNCHANGED <<world, cancelled, inv, sigs>>

\* reloadNow under poll.mu.
reloadNow ==
    /\ Running
    /\ pc["main"] = "record"
    /\ Goto("main", "lock")
    /\ last' = seen["main"]
    /\ Forget("main")
    /\ UNCHANGED <<world, cancelled, inv, sigs>>

\* RefreshVMConfigCache holds vmConfigCacheMu for the whole load.
Lock(p) ==
    /\ Running
    /\ pc[p] = "lock" /\ cacheMu = "none"
    /\ cacheMu' = p
    /\ Goto(p, "load")
    /\ UNCHANGED <<world, seen, poll, cache, failed, sigs>>

\* Faulty variant: the fingerprint is the one of the source after the load.
PublishAndRecord(p) ==
    /\ Running
    /\ pc[p] = "load" /\ HasRead(p)
    /\ cache' = IF Fails(seen[p]) THEN cache ELSE seen[p]
    /\ failed' = Fails(seen[p])
    /\ last' = src
    /\ cacheMu' = "none"
    /\ Goto(p, "wait")
    /\ Forget(p)
    /\ UNCHANGED <<world, cancelled, sigs>>

\* The end of RefreshVMConfigCache: a load that failed keeps the previous
\* inventory and marks the health answer, one that did not replaces the
\* inventory and clears the mark.
Publish(p) ==
    /\ Running
    /\ pc[p] = "load" /\ HasRead(p)
    /\ cache' = IF Fails(seen[p]) THEN cache ELSE seen[p]
    /\ failed' = Fails(seen[p])
    /\ cacheMu' = "none"
    /\ Goto(p, "wait")
    /\ Forget(p)
    /\ UNCHANGED <<world, poll, sigs>>

Reload(p) ==
    \/ \E f \in File : ReadFile(p, f)
    \/ Fingerprint(p)
    \/ (p = "poller" /\ reloadIfChanged)
    \/ (p = "main" /\ reloadNow)
    \/ Publish(p)

-----------------------------------------------------------------------------
(***************************************************************************)
(* The poller's life.                                                      *)
(***************************************************************************)
\* Start, in a goroutine of its own once New has returned; a shutdown may already
\* be under way.
startInventoryPoller ==
    /\ Running
    /\ Started
    /\ pc["poller"] = "off"
    /\ Goto("poller", "wait")
    /\ UNCHANGED <<world, seen, poll, inv, sigs>>

\* The ticker fires.  With the context cancelled too, select may take either.
Tick ==
    /\ Running
    /\ pc["poller"] = "wait"
    /\ Goto("poller", "fingerprint")
    /\ UNCHANGED <<world, seen, poll, inv, sigs>>

\* <-ctx.Done(): the goroutine returns and closes done.
StopTicking ==
    /\ Running
    /\ pc["poller"] = "wait" /\ cancelled
    /\ Goto("poller", "done")
    /\ UNCHANGED <<world, seen, poll, inv, sigs>>

-----------------------------------------------------------------------------
(***************************************************************************)
(* Signals and shutdown.                                                   *)
(***************************************************************************)
\* What main does with a signal: SIGHUP is RefreshActiveVMConfigCache; SIGTERM and
\* SIGINT are Shutdown, where stopInventoryPoller cancels the check if there is one.
HandleSignal(s) ==
    \/ /\ s = "HUP"
       /\ Goto("main", "fingerprint")
       /\ UNCHANGED cancelled
    \/ /\ s = "TERM"
       /\ Goto("main", "stopping")
       /\ cancelled' = (pc["poller"] # "off")

Receiving == pc["main"] = "wait" /\ sigChan = <<>>

\* signal.Notify never blocks: a signal goes to main if that is receiving, else
\* into the channel, and one that finds the channel full is lost.
Signal(s) ==
    /\ Running /\ Started
    /\ Len(sent) < MaxSignals
    /\ sent' = Append(sent, s)
    /\ IF Receiving
       THEN HandleSignal(s) /\ UNCHANGED sigChan
       ELSE /\ sigChan' = IF sigChan = <<>> THEN <<s>> ELSE sigChan
            /\ UNCHANGED <<pc, cancelled>>
    /\ UNCHANGED <<world, seen, last, inv>>

\* The signal loop comes round and finds a signal in the channel.
ReceiveSignal ==
    /\ pc["main"] = "wait" /\ sigChan # <<>>
    /\ HandleSignal(Head(sigChan))
    /\ sigChan' = <<>>
    /\ UNCHANGED <<world, seen, last, inv, sent>>

\* Faulty variant: <-done is waited for also without a poller.
ExitWaits ==
    /\ pc["main"] = "stopping"
    /\ pc["poller"] = "done"
    /\ Goto("main", "done")
    /\ UNCHANGED <<world, seen, poll, inv, sigs>>

\* <-done has returned, if there was a poller to wait for, the HTTP server is
\* shut down within its deadline, and main returns.
Exit ==
    /\ pc["main"] = "stopping"
    /\ cancelled => pc["poller"] = "done"
    /\ Goto("main", "done")
    /\ UNCHANGED <<world, seen, poll, inv, sigs>>

\* Somebody changes a file, makes it unreadable or readable again.
Edit(f, x) ==
    /\ Running
    /\ edits < MaxEdits
    /\ IF Reverts THEN x # src[f] ELSE x > src[f]
    /\ src' = [src EXCEPT ![f] = x]
    /\ edits' = edits + 1
    /\ UNCHANGED <<pc, seen, poll, inv, sigs>>

Next ==
    \/ \E p \in Proc : Reload(p) \/ Lock(p)
    \/ startInventoryPoller \/ Tick \/ StopTicking
    \/ \E s \in {"HUP", "TERM"} : Signal(s)
    \/ ReceiveSignal \/ Exit
    \/ \E f \in File, x \in Content : Edit(f, x)

Spec == Init /\ [][Next]_vars

\* Goroutines run, the ticker ticks, sync.RWMutex does not starve a writer, and
\* select picks among ready cases at random.
Fairness ==
    /\ \A p \in Proc : WF_vars(Reload(p)) /\ SF_vars(Lock(p))
    /\ WF_vars(startInventoryPoller)
    /\ WF_vars(Tick)
    /\ SF_vars(StopTicking)
    /\ WF_vars(ReceiveSignal \/ Exit)

FairSpec == Spec /\ Fairness

-----------------------------------------------------------------------------
(***************************************************************************)
(* Properties.                                                             *)
(***************************************************************************)
\* The inventory in use is the source as it is, or the health answer says that
\* the source cannot be loaded.
Fresh == IF Fails(src) THEN failed ELSE cache = src /\ ~failed

\* When no reload is under way and the next check would find nothing changed,
\* there is nothing to reload (reload.go: a change made during the load is seen
\* again by the next check), whichever of the two goroutines loaded last.
SettledIsFresh ==
    (\A p \in Proc : pc[p] \notin {"lock", "load"}) /\ last = src => Fresh

\* After the last edit the service ends up with the source as it is, without
\* a SIGHUP, unless it is stopped.
EventuallyFresh == <>[](Fresh \/ pc["main"] \in {"stopping", "done"})

\* An unchanged source causes no reload for ever: the poller stops loading.
EventuallyQuiet == <>[](pc["poller"] \notin {"lock", "load"} \/ ~Running)

\* A SIGTERM that the channel has taken ends the service, through the reload main is
\* in and the poller it waits for, which may itself be waiting for the cache.
ShutdownReturns ==
    sigChan = <<"TERM">> \/ pc["main"] = "stopping" ~> pc["main"] = "done"
=============================================================================
