----------------------------- MODULE Reconciler -----------------------------
(***************************************************************************)
(* The SPIRE reconciler (internal/reconcile, cmd/vtpm-mds-reconcile): a    *)
(* process that reads every Proxmox cluster, brings the node aliases of    *)
(* the SPIRE server in line with the guests, and bans the agents of        *)
(* destroyed VMs.                                                          *)
(*                                                                         *)
(* Every call to Proxmox or SPIRE is a step of its own that may fail, with *)
(* a part of a batch done; guests, agents and entries change in between.   *)
(* An agent carries the fingerprint of at most one cluster, since          *)
(* LoadConfig refuses a fingerprint that two clusters share, as it refuses *)
(* a cluster that is configured twice.  Entries with another parent than   *)
(* the server are never listed, and are left out.  A listing is one step,  *)
(* whatever its pages.                                                     *)
(***************************************************************************)
EXTENDS FiniteSets, Naturals, Sequences

CONSTANTS
    Cluster,       \* names that occur in /pve/<cluster>/
    Targets,       \* the configured clusters, in their order
    Fp,            \* fingerprints of intermediates
    Fingerprints,  \* Fingerprints[c]: the configured ones of cluster c
    VM,            \* VM IDs
    Pool, Tag,     \* pools and instance tags as written in Proxmox
    Name,          \* valid path segments
    Segment,       \* Segment[x]: pool or tag x in lower case, or Invalid
    Guest,         \* the guests that occur: [template, pool, tags]
    InitGuests,    \* the clusters as they may be at the start
    InitEntries,   \* the entries that are there at the start
    Agent,         \* attested agents
    Home,          \* Home[a]: the cluster whose intermediate a carries, or NoCluster
    AgentVM,       \* AgentVM[a]: its one subject:cn, or NoVM
    HandAliases,   \* aliases somebody may add by hand
    Changing,      \* the guests <<cluster, VM>> that change
    MaxChanges,    \* bound on their changes
    MaxTroubles,   \* bound on failures and interventions by hand
    NoGuest, NoPool, NoVM, NoCluster, Invalid, Unlisted

Paths == ({"vm"} \X VM) \cup ({"pool"} \X Name) \cup ({"tag"} \X Name \X Name)

\* A node alias: SPIFFE ID and selectors.
Alias == [cluster : Cluster, path : Paths, fp : Fp, vm : VM]

\* An entry; alias and gen stand for its ID, which is new for every entry made.
Entry == [alias : Alias, gen : {0, 1}, default : BOOLEAN]

Listing == [VM -> Guest \cup {NoGuest}]

ASSUME ReconcilerAssumption ==
    /\ Targets \in Seq(Cluster) /\ Len(Targets) > 0
    /\ \A i, j \in DOMAIN Targets : Targets[i] = Targets[j] => i = j
    /\ Fingerprints \in [Cluster -> SUBSET Fp]
    /\ Segment \in [Pool \cup Tag -> Name \cup {Invalid}] /\ Invalid \notin Name
    /\ Guest \subseteq [template : BOOLEAN, pool : Pool \cup {NoPool}, tags : SUBSET Tag]
    /\ NoGuest \notin Guest /\ NoPool \notin Pool /\ NoVM \notin VM
    /\ NoCluster \notin Cluster
    /\ InitGuests \subseteq [Cluster -> Listing]
    /\ InitEntries \subseteq Entry
    /\ \A x, y \in InitEntries : x.alias = y.alias => x = y
    /\ Home \in [Agent -> Cluster \cup {NoCluster}]
    /\ AgentVM \in [Agent -> VM \cup {NoVM}]
    /\ HandAliases \subseteq Alias
    /\ Changing \subseteq Cluster \X VM
    /\ MaxChanges \in Nat /\ MaxTroubles \in Nat

VARIABLES
    guests,   \* guests[c]: the guests of cluster c as Proxmox lists them
    entries,  \* the node aliases of the SPIRE server
    agent,    \* the agents of the SPIRE server
    dead,     \* agents whose VM, the one that attested, was destroyed
    pc,       \* where the reconciler is
    once,     \* the process was started with -once
    target,   \* index of the cluster it works on
    read,     \* the guests of that cluster as read in this pass
    listing,  \* the entries as listed in this pass, or Unlisted
    agents,   \* the agents as listed in this pass, or Unlisted
    bans,     \* the agents Observe returned
    misses,   \* BanTracker.misses: the counts
    touched,  \* history: aliases whose entry was ever changed by hand
    changes, troubles  \* what was used of the bounds

pve   == <<guests, dead, changes>>
pass  == <<once, target, read, listing, agents, bans>>
vars  == <<pve, entries, agent, pc, pass, misses, touched, troubles>>

NoneListed == [v \in VM |-> NoGuest]

\* The variables have their types.
TypeOK ==
    /\ guests \in [Cluster -> Listing]
    /\ entries \subseteq Entry
    /\ agent \in [Agent -> {"new", "attested", "evicted", "banned"}]
    /\ dead \subseteq Agent
    /\ pc \in {"off", "wait", "read", "list", "create", "delete", "recreate",
               "agents", "observe", "ban"}
    /\ once \in BOOLEAN
    /\ target \in 1..Len(Targets)
    /\ read \in Listing
    /\ listing \in (SUBSET Entry) \cup {Unlisted}
    /\ agents \in (SUBSET Agent) \cup {Unlisted}
    /\ bans \subseteq Agent
    /\ misses \in [Agent -> {0, 1}]
    /\ touched \subseteq Alias
    /\ changes \in Nat /\ troubles \in Nat

Init ==
    /\ guests \in InitGuests
    /\ entries = InitEntries
    /\ agent = [a \in Agent |-> "new"]
    /\ dead = {}
    /\ pc = "off"
    /\ once = FALSE
    /\ target = 1
    /\ read = NoneListed
    /\ listing = Unlisted /\ agents = Unlisted
    /\ bans = {}
    /\ misses = [a \in Agent |-> 0]
    /\ touched = {e.alias : e \in {e \in InitEntries : ~e.default}}
    /\ changes = 0 /\ troubles = 0

-----------------------------------------------------------------------------
(***************************************************************************)
(* Wanted and Diff.                                                        *)
(***************************************************************************)
Present(g) == {v \in VM : g[v] # NoGuest}

\* The guests of listing g that may get aliases.
Running(g) == {v \in Present(g) : ~g[v].template}

\* Guest v is in a pool whose name is one path segment.
Pooled(g, v) == g[v].pool # NoPool /\ Segment[g[v].pool] # Invalid

\* Two pools of the listing are written differently and have one segment.
Collides(g, v) ==
    \E w \in Running(g) : /\ Pooled(g, w) /\ g[w].pool # g[v].pool
                          /\ Segment[g[w].pool] = Segment[g[v].pool]

\* The paths of v's aliases: its ID, its pool, and its tags within the pool.
PathsOf(g, v) ==
    {<<"vm", v>>} \cup
    IF Pooled(g, v) /\ ~Collides(g, v)
    THEN {<<"pool", Segment[g[v].pool]>>} \cup
         {<<"tag", Segment[g[v].pool], Segment[t]>> :
             t \in {t \in g[v].tags : Segment[t] # Invalid}}
    ELSE {}

\* Wanted: one alias for each path of a guest and each intermediate.
Wanted(c, g) ==
    UNION {[cluster : {c}, path : PathsOf(g, v), fp : Fingerprints[c], vm : {v}] :
              v \in Running(g)}

Current == Targets[target]

Want == Wanted(Current, read)

\* The listed entries under the cluster's prefix.
Mine == {e \in listing : e.alias.cluster = Current}

\* Diff: the entries to keep and to delete, and the aliases to create.
Kept     == {e \in Mine : e.default /\ e.alias \in Want}
Doomed   == Mine \ Kept
ToCreate == Want \ {e.alias : e \in Kept}

\* Created after the delete, since SPIRE refuses a duplicate.
Colliding == ToCreate \cap {e.alias : e \in Doomed}

\* Created before the delete.
Safe == ToCreate \ Colliding

-----------------------------------------------------------------------------
(***************************************************************************)
(* The process.                                                            *)
(***************************************************************************)
\* A call fails, or somebody intervenes.
Trouble == troubles < MaxTroubles /\ troubles' = troubles + 1

Goto(l) == pc' = l

\* What a pass keeps in local variables is gone.
Fresh ==
    /\ target' = 1
    /\ read' = NoneListed
    /\ listing' = Unlisted /\ agents' = Unlisted
    /\ bans' = {}

\* Pass returns, with an error or without: the daemon waits for the ticker, a
\* -once run exits.
Return ==
    /\ Goto(IF once THEN "off" ELSE "wait")
    /\ Fresh
    /\ UNCHANGED once

\* The pass is done with this cluster.
NextTarget ==
    \/ target = Len(Targets) /\ Return
    \/ /\ target < Len(Targets)
       /\ Goto("read")
       /\ target' = target + 1
       /\ read' = NoneListed
       /\ bans' = {}
       /\ UNCHANGED <<once, listing, agents>>

\* main: the privileges and the socket were checked, the first pass begins.  A
\* -once run is started by hand.
Start(o) ==
    /\ pc = "off"
    /\ IF o THEN Trouble ELSE UNCHANGED troubles
    /\ Goto("read")
    /\ once' = o
    /\ misses' = [a \in Agent |-> 0]
    /\ Fresh
    /\ UNCHANGED <<pve, entries, agent, touched>>

\* The ticker fires.
Tick ==
    /\ pc = "wait"
    /\ Goto("read")
    /\ UNCHANGED <<pve, entries, agent, pass, misses, touched, troubles>>

\* The process is stopped or dies.
Crash ==
    /\ pc # "off" /\ Trouble
    /\ Goto("off")
    /\ once' = FALSE
    /\ misses' = [a \in Agent |-> 0]
    /\ Fresh
    /\ UNCHANGED <<pve, entries, agent, touched>>

\* ProxmoxClient.Read: the cluster is left alone after an error and when no guest is
\* listed.
Read ==
    /\ pc = "read"
    /\ \/ /\ Present(guests[Current]) # {}
          /\ read' = guests[Current]
          /\ Goto(IF listing = Unlisted THEN "list" ELSE "create")
          /\ UNCHANGED <<once, target, listing, agents, bans, troubles>>
       \/ /\ \/ Present(guests[Current]) = {} /\ UNCHANGED troubles
             \/ Trouble
          /\ NextTarget
    /\ UNCHANGED <<pve, entries, agent, misses, touched>>

\* SPIRE.Entries, once per pass.
Entries ==
    /\ pc = "list"
    /\ \/ /\ listing' = entries
          /\ Goto("create")
          /\ UNCHANGED <<once, target, read, agents, bans, troubles>>
       \/ Trouble /\ Return
    /\ UNCHANGED <<pve, entries, agent, misses, touched>>

\* The entry the server makes of alias a, with an ID that is in no listing.
Made(a) ==
    [alias |-> a, default |-> TRUE,
     gen |-> IF listing # Unlisted /\ \E e \in listing : e.alias = a /\ e.gen = 0
             THEN 1 ELSE 0]

\* SPIRE.Create of the aliases S: one that is there already is refused, the others are
\* made; after a failure any of them may have been.
Create(S, next) ==
    LET new == {a \in S : \A e \in entries : e.alias # a}
    IN \/ /\ new = S
          /\ entries' = entries \cup {Made(a) : a \in S}
          /\ Goto(next)
          /\ UNCHANGED <<pass, troubles>>
       \/ /\ new # S
          /\ entries' = entries \cup {Made(a) : a \in new}
          /\ Return
          /\ UNCHANGED troubles
       \/ /\ S # {} /\ Trouble
          /\ \E done \in SUBSET new : entries' = entries \cup {Made(a) : a \in done}
          /\ Return

\* SPIRE.Delete by ID; an entry that is gone is no error.
Delete ==
    LET old == {e \in entries : \E d \in Doomed : d.alias = e.alias /\ d.gen = e.gen}
    IN \/ /\ entries' = entries \ old
          /\ Goto("recreate")
          /\ UNCHANGED <<pass, troubles>>
       \/ /\ Doomed # {} /\ Trouble
          /\ \E done \in SUBSET old : entries' = entries \ done
          /\ Return

\* Faulty variant: old aliases go first.
WriteDeletesFirst ==
    /\ \/ pc = "create" /\ (\/ entries' = entries \ {e \in entries : \E d \in Doomed :
                                                       d.alias = e.alias /\ d.gen = e.gen}
                               /\ Goto("delete") /\ UNCHANGED <<pass, troubles>>
                            \/ Trouble /\ Return /\ UNCHANGED entries)
       \/ pc = "delete" /\ Create(Safe, "recreate")
       \/ pc = "recreate" /\ Create(Colliding, IF agents = Unlisted THEN "agents" ELSE "observe")
    /\ UNCHANGED <<pve, agent, misses, touched>>

\* Faulty variant: a hand-edited alias is created before it is deleted.
WriteAllFirst ==
    /\ \/ pc = "create" /\ Create(ToCreate, "delete")
       \/ pc = "delete" /\ Delete
       \/ pc = "recreate" /\ Create({}, IF agents = Unlisted THEN "agents" ELSE "observe")
    /\ UNCHANGED <<pve, agent, misses, touched>>

\* The three writes of a cluster.  (A -once run then goes to the next cluster.)
Write ==
    /\ \/ pc = "create" /\ Create(Safe, "delete")
       \/ pc = "delete" /\ Delete
       \/ pc = "recreate" /\ Create(Colliding, IF agents = Unlisted THEN "agents" ELSE "observe")
    /\ UNCHANGED <<pve, agent, misses, touched>>

\* SPIRE.Agents, once per pass; agentInfo passes over banned ones.
Agents ==
    /\ pc = "agents" /\ ~once
    /\ \/ /\ agents' = {a \in Agent : agent[a] = "attested"}
          /\ Goto("observe")
          /\ UNCHANGED <<once, target, read, listing, bans, troubles>>
       \/ Trouble /\ Return
    /\ UNCHANGED <<pve, entries, agent, misses, touched>>

\* The agents of the cluster in the listing, and those whose VM was not read.
Seen    == {a \in agents : AgentVM[a] # NoVM /\ Home[a] = Current}
Missing == {a \in Seen : read[AgentVM[a]] = NoGuest}

\* Faulty variant: one read without the VM is enough.
ToBanAtOnce == Missing

\* The second read that misses the VM.
ToBan == {a \in Missing : misses[a] = 1}

\* Faulty variant: agents of other clusters are forgotten too.
CountAlone(a) == IF a \in Missing \ ToBan THEN 1 ELSE 0

\* What Observe leaves in misses: nothing of an agent that is listed, banned or no
\* longer seen; other clusters' agents as they were.
Count(a) ==
    IF a \in Missing \ ToBan THEN 1
    ELSE IF Home[a] = Current THEN 0 ELSE misses[a]

\* BanTracker.Observe.
Observe ==
    /\ pc = "observe" /\ ~once
    /\ bans' = ToBan
    /\ misses' = [a \in Agent |-> Count(a)]
    /\ Goto("ban")
    /\ UNCHANGED <<pve, entries, agent, once, target, read, listing, agents, touched,
                   troubles>>

\* -once never looks at agents.
SkipBans ==
    /\ pc \in {"agents", "observe"} /\ once
    /\ NextTarget
    /\ UNCHANGED <<pve, entries, agent, misses, touched, troubles>>

\* SPIRE.Ban, one agent after the other; the first failure ends the pass.
Ban ==
    /\ pc = "ban"
    /\ \/ /\ bans = {} /\ NextTarget
          /\ UNCHANGED <<agent, troubles>>
       \/ \E a \in bans :
             /\ agent' = [agent EXCEPT ![a] = "banned"]
             /\ bans' = bans \ {a}
             /\ UNCHANGED <<pc, once, target, read, listing, agents, troubles>>
       \/ \E a \in bans :
             /\ Trouble /\ Return
             /\ agent' \in {agent, [agent EXCEPT ![a] = "banned"]}
    /\ UNCHANGED <<pve, entries, misses, touched>>

-----------------------------------------------------------------------------
(***************************************************************************)
(* Proxmox, the agents, and edits by hand.                                 *)
(***************************************************************************)
\* A guest is created, changed or (g = NoGuest) destroyed.
SetGuest(c, v, g) ==
    /\ changes < MaxChanges /\ changes' = changes + 1
    /\ g # guests[c][v]
    /\ guests' = [guests EXCEPT ![c][v] = g]
    /\ dead' = IF g # NoGuest THEN dead
               ELSE dead \cup {a \in Agent : Home[a] = c /\ AgentVM[a] = v /\ agent[a] # "new"}
    /\ UNCHANGED <<entries, agent, pc, pass, misses, touched, troubles>>

\* The agent in a running VM attests.
Attest(a) ==
    /\ agent[a] \in {"new", "evicted"} /\ a \notin dead
    /\ Home[a] # NoCluster /\ AgentVM[a] # NoVM
    /\ AgentVM[a] \in Running(guests[Home[a]])
    /\ agent' = [agent EXCEPT ![a] = "attested"]
    /\ UNCHANGED <<pve, entries, pc, pass, misses, touched, troubles>>

ByHand(a) ==
    /\ Trouble
    /\ touched' = touched \cup {a}
    /\ UNCHANGED <<pve, agent, pc, pass, misses>>

\* An operator evicts an agent.
Evict(a) ==
    /\ Trouble
    /\ agent[a] = "attested"
    /\ agent' = [agent EXCEPT ![a] = "evicted"]
    /\ UNCHANGED <<pve, entries, pc, pass, misses, touched>>

\* An operator changes a field of an entry, deletes one, or adds one.
EditEntry(e) ==
    /\ ByHand(e.alias)
    /\ e.default
    /\ entries' = (entries \ {e}) \cup {[e EXCEPT !.default = FALSE]}

DeleteEntry(e) ==
    /\ ByHand(e.alias)
    /\ entries' = entries \ {e}

AddEntry(a) ==
    /\ ByHand(a)
    /\ \A e \in entries : e.alias # a
    /\ entries' = entries \cup {Made(a)}

Step ==
    \/ Read \/ Entries \/ Write
    \/ Agents \/ Observe \/ SkipBans \/ Ban

Outside ==
    \/ \E x \in Changing, g \in Guest \cup {NoGuest} : SetGuest(x[1], x[2], g)
    \/ \E a \in Agent : Attest(a) \/ Evict(a)
    \/ \E e \in entries : EditEntry(e) \/ DeleteEntry(e)
    \/ \E a \in HandAliases : AddEntry(a)

Next ==
    \/ \E o \in BOOLEAN : Start(o)
    \/ Tick \/ Step \/ Crash
    \/ Outside

Spec == Init /\ [][Next]_vars

\* systemd keeps the daemon running, the ticker ticks and calls return.
FairSpec ==
    /\ Spec
    /\ WF_vars(Start(FALSE)) /\ WF_vars(Tick) /\ WF_vars(Step)

-----------------------------------------------------------------------------
(***************************************************************************)
(* Properties.                                                             *)
(***************************************************************************)
\* "bans agents of destroyed VMs": a banned agent's own VM was destroyed, also when a
\* VM is created and its agent attests between the read and the listing of the
\* agents, and whatever fails in between.
BannedIsDead == \A a \in Agent : agent[a] = "banned" => a \in dead

\* VM v of cluster c has an alias of a pool.
HasPool(c, v, S) ==
    \E e \in S : e.alias.cluster = c /\ e.alias.vm = v /\ e.alias.path[1] = "pool"

\* A pool alias of the VM was changed by hand.
PoolTouched(c, v, S) == \E a \in S : a.cluster = c /\ a.vm = v /\ a.path[1] = "pool"

\* A VM that moves between pools is never without the alias of a pool ("a failed
\* create leaves the old aliases in place"), unless somebody edits its pool aliases.
MoveKeepsPool ==
    [][\A v \in VM :
          HasPool(Current, v, entries) /\ ~HasPool(Current, v, entries')
          => \/ \A w \in Want : w.vm = v => w.path[1] # "pool"
             \/ PoolTouched(Current, v, touched')]_vars

\* The aliases of cluster c are those its guests want, with default fields.
InLine(c) ==
    LET own == {e \in entries : e.alias.cluster = c}
    IN /\ {e.alias : e \in own} = Wanted(c, guests[c])
       /\ \A e \in own : e.default

\* The aliases of every cluster that has a guest end up in line, after failures in any
\* call and edits by hand.
EventuallyInLine ==
    <>[](\A i \in DOMAIN Targets :
            Present(guests[Targets[i]]) # {} => InLine(Targets[i]))

\* The agent of a destroyed VM is banned in the end, unless its ID is in use again or
\* the cluster has no guest left.
DestroyedBanned ==
    \A a \in Agent :
        a \in dead /\ agent[a] = "attested"
            ~> \/ agent[a] # "attested"
               \/ guests[Home[a]][AgentVM[a]] # NoGuest
               \/ Present(guests[Home[a]]) = {}
=============================================================================
