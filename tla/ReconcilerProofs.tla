-------------------------- MODULE ReconcilerProofs --------------------------
(***************************************************************************)
(* The reconciler's variables have their types, it bans only agents whose  *)
(* own VM was destroyed, and it leaves no VM that moves between pools      *)
(* without a pool alias, for any clusters, guests, agents and failures.    *)
(***************************************************************************)
EXTENDS Reconciler, TLAPS

\* The part of the type invariant about the pass.
PassType ==
    /\ pc \in {"off", "wait", "read", "list", "create", "delete", "recreate",
               "agents", "observe", "ban"}
    /\ once \in BOOLEAN
    /\ target \in 1..Len(Targets)
    /\ read \in Listing
    /\ listing \in (SUBSET Entry) \cup {Unlisted}
    /\ agents \in (SUBSET Agent) \cup {Unlisted}
    /\ bans \subseteq Agent

\* Observe works on a listing of agents.
AgentsInv == pc = "observe" => agents \subseteq Agent

TInv == TypeOK /\ AgentsInv

\* An agent that has attested has a VM; while it is not dead, that VM is there.  Counts
\* and bans are about agents that have attested.
AgentInv ==
    \A a \in Agent :
        /\ agent[a] = "banned" => a \in dead
        /\ misses[a] = 1 \/ a \in dead => agent[a] # "new"
        /\ agent[a] # "new" => Home[a] \in Cluster /\ AgentVM[a] \in VM
        /\ agent[a] # "new" /\ a \notin dead => guests[Home[a]][AgentVM[a]] # NoGuest

\* The listed agents have attested.
ListedInv ==
    agents # Unlisted \/ pc = "observe" => \A a \in agents : agent[a] # "new"

\* An agent that was counted before this pass and whose VM the read misses is dead:
\* it attested before the read.
ReadInv ==
    pc \in {"list", "create", "delete", "recreate", "agents", "observe"} =>
        \A a \in Agent :
            misses[a] = 1 /\ Home[a] = Current /\ read[AgentVM[a]] = NoGuest => a \in dead

BanInv == bans \subseteq dead

IInv == TInv /\ AgentInv /\ ListedInv /\ ReadInv /\ BanInv

-----------------------------------------------------------------------------
\* The cluster worked on is a configured one.
LEMMA CurrentType == ASSUME TypeOK PROVE Current \in Cluster
  BY ReconcilerAssumption DEF TypeOK, Current

\* Wanted returns aliases.
LEMMA WantedType ==
  ASSUME NEW x \in Cluster, NEW l \in Listing
  PROVE  Wanted(x, l) \subseteq Alias
<1>1. ASSUME NEW u \in Running(l)
      PROVE  PathsOf(l, u) \subseteq Paths
  <2>1. u \in VM /\ l[u] \in Guest
    BY <1>1 DEF Running, Present, Listing
  <2>2. /\ l[u].pool \in Pool \cup {NoPool}
        /\ l[u].tags \subseteq Tag
    BY <2>1, ReconcilerAssumption
  <2>3. ASSUME Pooled(l, u) PROVE Segment[l[u].pool] \in Name
    BY <2>2, <2>3, ReconcilerAssumption DEF Pooled
  <2>4. ASSUME NEW t \in l[u].tags, Segment[t] # Invalid PROVE Segment[t] \in Name
    BY <2>2, <2>4, ReconcilerAssumption
  <2>5. <<"vm", u>> \in Paths
    BY <2>1 DEF Paths
  <2>6. ASSUME Pooled(l, u) PROVE <<"pool", Segment[l[u].pool]>> \in Paths
    BY <2>3, <2>6 DEF Paths
  <2>7. ASSUME Pooled(l, u), NEW t \in l[u].tags, Segment[t] # Invalid
        PROVE  <<"tag", Segment[l[u].pool], Segment[t]>> \in Paths
    BY <2>3, <2>4, <2>7 DEF Paths
  <2> QED
    BY <2>5, <2>6, <2>7, Zenon DEF PathsOf
<1>2. Running(l) \subseteq VM /\ Fingerprints[x] \subseteq Fp
  BY ReconcilerAssumption DEF Running, Present
<1>3. ASSUME NEW u \in Running(l)
      PROVE  [cluster : {x}, path : PathsOf(l, u), fp : Fingerprints[x], vm : {u}] \subseteq Alias
  BY <1>1, <1>2, <1>3 DEF Alias
<1> QED
  BY <1>3, Zenon DEF Wanted

\* The aliases to create are aliases.
LEMMA CreateType ==
  ASSUME TypeOK
  PROVE  Safe \subseteq Alias /\ Colliding \subseteq Alias
<1>1. Want \subseteq Alias
  BY CurrentType, WantedType DEF Want, TypeOK
<1> QED
  BY <1>1 DEF Safe, Colliding, ToCreate

\* What the server makes of aliases are entries.
LEMMA MadeType ==
  ASSUME NEW S \in SUBSET Alias
  PROVE  {Made(a) : a \in S} \subseteq Entry
<1>1. ASSUME NEW a \in Alias PROVE Made(a) \in Entry
  <2> DEFINE n == IF listing # Unlisted /\ \E e \in listing : e.alias = a /\ e.gen = 0
                  THEN 1 ELSE 0
  <2>1. n \in {0, 1}
    OBVIOUS
  <2>2. Made(a) = [alias |-> a, default |-> TRUE, gen |-> n]
    BY DEF Made
  <2> HIDE DEF n
  <2> QED
    BY <2>1, <2>2 DEF Entry
<1> QED
  BY <1>1, Zenon

\* The end of a pass keeps the types.
LEMMA ReturnType ==
  ASSUME TypeOK, Return PROVE PassType' /\ pc' # "observe"
<1>1. 1 \in 1..Len(Targets) /\ NoneListed \in Listing
  BY ReconcilerAssumption DEF NoneListed, Listing
<1> QED
  BY <1>1 DEF TypeOK, Return, Fresh, Goto, PassType

\* The step to the next cluster keeps the types.
LEMMA NextTargetType ==
  ASSUME TypeOK, NextTarget PROVE PassType' /\ pc' # "observe"
<1>1. NoneListed \in Listing
  BY DEF NoneListed, Listing
<1>2. Len(Targets) \in Nat
  BY ReconcilerAssumption
<1>3. CASE target = Len(Targets) /\ Return
  BY <1>3, ReturnType
<1>4. CASE target < Len(Targets) /\ target' = target + 1 /\ Goto("read")
           /\ read' = NoneListed /\ bans' = {} /\ UNCHANGED <<once, listing, agents>>
  <2>1. target' \in 1..Len(Targets)
    BY <1>2, <1>4 DEF TypeOK
  <2> QED
    BY <1>1, <1>4, <2>1 DEF TypeOK, Goto, PassType
<1> QED
  BY <1>3, <1>4 DEF NextTarget

\* The counter of failures and interventions is a number.
LEMMA TroubleType ==
  ASSUME TypeOK, Trouble PROVE troubles' \in Nat
  BY DEF TypeOK, Trouble

-----------------------------------------------------------------------------
\* The batches of Create keep the types.
LEMMA CreateStepType ==
  ASSUME TypeOK, NEW S \in SUBSET Alias,
         NEW next \in {"delete", "recreate", "agents", "observe"}, Create(S, next)
  PROVE  /\ entries' \subseteq Entry /\ PassType' /\ troubles' \in Nat
         /\ pc' = "observe" => next = "observe" /\ agents' = agents
<1> DEFINE new == {a \in S : \A e \in entries : e.alias # a}
<1>1. CASE /\ entries' = entries \cup {Made(a) : a \in S}
           /\ Goto(next) /\ UNCHANGED <<pass, troubles>>
  BY <1>1, MadeType DEF TypeOK, PassType, Goto, pass
<1>2. CASE /\ entries' = entries \cup {Made(a) : a \in new}
           /\ Return /\ UNCHANGED troubles
  <2>1. new \in SUBSET Alias
    OBVIOUS
  <2>2. entries' \subseteq Entry
    BY <1>2, <2>1, MadeType DEF TypeOK
  <2> QED
    BY <1>2, <2>2, ReturnType DEF TypeOK
<1>3. CASE /\ Trouble /\ Return
           /\ \E done \in SUBSET new : entries' = entries \cup {Made(a) : a \in done}
  <2>1. PICK done \in SUBSET new : entries' = entries \cup {Made(a) : a \in done}
    BY <1>3
  <2>2. done \in SUBSET Alias
    OBVIOUS
  <2>3. entries' \subseteq Entry
    BY <2>1, <2>2, MadeType DEF TypeOK
  <2> QED
    BY <1>3, <2>3, ReturnType, TroubleType
<1> HIDE DEF new
<1> QED
  BY <1>1, <1>2, <1>3 DEF Create, new

\* The deletion keeps the types.
LEMMA DeleteStepType ==
  ASSUME TypeOK, Delete
  PROVE  entries' \subseteq Entry /\ PassType' /\ troubles' \in Nat /\ pc' # "observe"
<1>1. entries' \subseteq entries
  BY DEF Delete
<1>2. CASE Goto("recreate") /\ UNCHANGED <<pass, troubles>>
  BY <1>1, <1>2 DEF TypeOK, PassType, Goto, pass
<1>3. CASE Trouble /\ Return
  BY <1>1, <1>3, ReturnType, TroubleType DEF TypeOK
<1> QED
  BY <1>2, <1>3 DEF Delete

\* The writes keep the types.
LEMMA WriteType ==
  ASSUME TInv, Write PROVE TInv'
<1>1. /\ entries' \subseteq Entry /\ PassType' /\ troubles' \in Nat
      /\ pc' = "observe" => agents' \subseteq Agent
  <2>1. CASE pc = "create" /\ Create(Safe, "delete")
    BY <2>1, CreateType, CreateStepType DEF TInv
  <2>2. CASE pc = "delete" /\ Delete
    BY <2>2, DeleteStepType DEF TInv
  <2>3. CASE pc = "recreate" /\ agents = Unlisted /\ Create(Colliding, "agents")
    BY <2>3, CreateType, CreateStepType DEF TInv
  <2>4. CASE pc = "recreate" /\ agents # Unlisted /\ Create(Colliding, "observe")
    BY <2>4, CreateType, CreateStepType DEF TInv, TypeOK
  <2> QED
    BY <2>1, <2>2, <2>3, <2>4 DEF Write
<1>2. UNCHANGED <<pve, agent, misses, touched>>
  BY DEF Write
<1> QED
  BY <1>1, <1>2 DEF TInv, TypeOK, PassType, AgentsInv, pve

\* A read keeps the types.
LEMMA ReadType ==
  ASSUME TInv, Read PROVE TInv'
<1>1. UNCHANGED <<pve, entries, agent, misses, touched>>
  BY DEF Read
<1>2. CASE /\ read' = guests[Current]
           /\ Goto(IF listing = Unlisted THEN "list" ELSE "create")
           /\ UNCHANGED <<once, target, listing, agents, bans, troubles>>
  <2>1. Current \in Cluster
    BY CurrentType DEF TInv
  <2>2. guests[Current] \in Listing
    BY <2>1 DEF TInv, TypeOK
  <2>3. pc' \in {"list", "create"}
    BY <1>2 DEF Goto
  <2> QED
    BY <1>1, <1>2, <2>2, <2>3 DEF TInv, TypeOK, AgentsInv, pve
<1>3. CASE NextTarget /\ troubles' \in Nat
  BY <1>1, <1>3, NextTargetType DEF TInv, TypeOK, PassType, AgentsInv, pve
<1>4. Read => \/ /\ read' = guests[Current]
                 /\ Goto(IF listing = Unlisted THEN "list" ELSE "create")
                 /\ UNCHANGED <<once, target, listing, agents, bans, troubles>>
              \/ NextTarget /\ (UNCHANGED troubles \/ Trouble)
  BY Zenon DEF Read
<1>5. UNCHANGED troubles \/ Trouble => troubles' \in Nat
  BY TroubleType DEF TInv, TypeOK
<1> QED
  BY <1>2, <1>3, <1>4, <1>5

\* Every step keeps the types.
LEMMA TypeStep == TInv /\ [Next]_vars => TInv'
<1> SUFFICES ASSUME TInv, [Next]_vars PROVE TInv'
  OBVIOUS
<1> USE DEF pve
<1>0. NoneListed \in Listing /\ 1 \in 1..Len(Targets)
  BY ReconcilerAssumption DEF NoneListed, Listing
<1>1. CASE \E o \in BOOLEAN : Start(o)
  <2>1. troubles' \in Nat
    BY <1>1, TroubleType DEF Start, TInv, TypeOK
  <2> QED
    BY <1>0, <1>1, <2>1 DEF Start, Fresh, Goto, TInv, TypeOK, AgentsInv
<1>2. CASE Tick
  BY <1>2 DEF Tick, Goto, TInv, TypeOK, AgentsInv, pass
<1>3. CASE Crash
  BY <1>0, <1>3, TroubleType DEF Crash, Fresh, Goto, TInv, TypeOK, AgentsInv
<1>4. CASE Read
  BY <1>4, ReadType
<1>5. CASE Entries
  <2>1. CASE /\ listing' = entries /\ Goto("create")
             /\ UNCHANGED <<once, target, read, agents, bans, troubles>>
    BY <1>5, <2>1 DEF Entries, Goto, TInv, TypeOK, AgentsInv
  <2>2. CASE Trouble /\ Return
    BY <1>5, <2>2, TroubleType, ReturnType DEF Entries, TInv, TypeOK, PassType, AgentsInv
  <2> QED
    BY <1>5, <2>1, <2>2 DEF Entries
<1>6. CASE Write
  BY <1>6, WriteType
<1>7. CASE Agents
  <2>1. CASE /\ agents' = {a \in Agent : agent[a] = "attested"} /\ Goto("observe")
             /\ UNCHANGED <<once, target, read, listing, bans, troubles>>
    BY <1>7, <2>1 DEF Agents, Goto, TInv, TypeOK, AgentsInv
  <2>2. CASE Trouble /\ Return
    BY <1>7, <2>2, TroubleType, ReturnType DEF Agents, TInv, TypeOK, PassType, AgentsInv
  <2> QED
    BY <1>7, <2>1, <2>2 DEF Agents
<1>8. CASE Observe
  <2>1. agents \subseteq Agent
    BY <1>8 DEF Observe, TInv, TypeOK, AgentsInv
  <2>2. ToBan \subseteq Agent
    BY <2>1 DEF ToBan, Missing, Seen
  <2>3. \A a \in Agent : Count(a) \in {0, 1}
    BY DEF Count, TInv, TypeOK
  <2> QED
    BY <1>8, <2>2, <2>3 DEF Observe, Goto, TInv, TypeOK, AgentsInv
<1>9. CASE SkipBans
  BY <1>9, NextTargetType DEF SkipBans, TInv, TypeOK, PassType, AgentsInv
<1>10. CASE Ban
  <2>1. CASE bans = {} /\ NextTarget /\ UNCHANGED <<agent, troubles>>
    BY <1>10, <2>1, NextTargetType DEF Ban, TInv, TypeOK, PassType, AgentsInv
  <2>2. CASE \E a \in bans :
                /\ agent' = [agent EXCEPT ![a] = "banned"]
                /\ bans' = bans \ {a}
                /\ UNCHANGED <<pc, once, target, read, listing, agents, troubles>>
    BY <1>10, <2>2 DEF Ban, TInv, TypeOK, AgentsInv
  <2>3. CASE \E a \in bans :
                /\ Trouble /\ Return
                /\ agent' \in {agent, [agent EXCEPT ![a] = "banned"]}
    BY <1>10, <2>3, TroubleType, ReturnType DEF Ban, TInv, TypeOK, PassType, AgentsInv
  <2> QED
    BY <1>10, <2>1, <2>2, <2>3 DEF Ban
<1>11. ASSUME NEW x \in Changing, NEW l \in Guest \cup {NoGuest}, SetGuest(x[1], x[2], l)
       PROVE  TInv'
  <2>1. x[1] \in Cluster /\ x[2] \in VM
    BY ReconcilerAssumption
  <2>2. guests' \in [Cluster -> Listing]
    BY <1>11, <2>1 DEF SetGuest, TInv, TypeOK, Listing
  <2> QED
    BY <1>11, <2>2 DEF SetGuest, TInv, TypeOK, AgentsInv, pass
<1>12. ASSUME NEW a \in Agent, Attest(a) PROVE TInv'
  BY <1>12 DEF Attest, TInv, TypeOK, AgentsInv, pass
<1>13. ASSUME NEW a \in Agent, Evict(a) PROVE TInv'
  BY <1>13, TroubleType DEF Evict, TInv, TypeOK, AgentsInv, pass
<1>14. ASSUME NEW e \in entries, EditEntry(e) PROVE TInv'
  <2>1. e \in Entry /\ e.alias \in Alias
    BY DEF TInv, TypeOK, Entry
  <2>2. [e EXCEPT !.default = FALSE] \in Entry
    BY <2>1 DEF Entry
  <2> QED
    BY <1>14, <2>1, <2>2, TroubleType DEF EditEntry, ByHand, TInv, TypeOK, AgentsInv, pass
<1>15. ASSUME NEW e \in entries, DeleteEntry(e) PROVE TInv'
  <2>1. e.alias \in Alias
    BY DEF TInv, TypeOK, Entry
  <2> QED
    BY <1>15, <2>1, TroubleType DEF DeleteEntry, ByHand, TInv, TypeOK, AgentsInv, pass
<1>16. ASSUME NEW a \in HandAliases, AddEntry(a) PROVE TInv'
  <2>1. a \in Alias
    BY ReconcilerAssumption
  <2>2. Made(a) \in Entry
    <3>1. {Made(x) : x \in {a}} \subseteq Entry
      BY <2>1, MadeType
    <3> QED
      BY <3>1
  <2> QED
    BY <1>16, <2>1, <2>2, TroubleType DEF AddEntry, ByHand, TInv, TypeOK, AgentsInv, pass
<1>17. CASE UNCHANGED vars
  BY <1>17 DEF vars, TInv, TypeOK, AgentsInv, pass
<1> QED
  BY <1>1, <1>2, <1>3, <1>4, <1>5, <1>6, <1>7, <1>8, <1>9, <1>10, <1>11, <1>12, <1>13,
     <1>14, <1>15, <1>16, <1>17 DEF Next, Step, Outside

-----------------------------------------------------------------------------
\* The end of a pass and the step to the next cluster leave nothing to show.
LEMMA LeaveCluster ==
  ASSUME IInv, Return \/ NextTarget, UNCHANGED agent
  PROVE  ListedInv' /\ ReadInv' /\ BanInv'
<1>1. CASE Return
  BY <1>1 DEF Return, Fresh, Goto, ListedInv, ReadInv, BanInv
<1>2. CASE NextTarget
  BY <1>2 DEF NextTarget, Return, Fresh, Goto, IInv, ListedInv, ReadInv, BanInv
<1> QED
  BY <1>1, <1>2

\* A write changes neither agents nor counts.
LEMMA WriteStep ==
  ASSUME IInv, Write PROVE AgentInv' /\ ListedInv' /\ ReadInv' /\ BanInv'
<1>1. UNCHANGED <<guests, dead, agent, misses>>
  BY DEF Write, pve
<1>2. CASE Return
  BY <1>1, <1>2, LeaveCluster DEF IInv, AgentInv
<1>3. CASE UNCHANGED pass /\ pc' \in {"delete", "recreate", "agents"}
  BY <1>1, <1>3 DEF IInv, AgentInv, ListedInv, ReadInv, BanInv, Current, Write, pass
<1>4. CASE UNCHANGED pass /\ agents # Unlisted /\ pc' = "observe"
  BY <1>1, <1>4 DEF IInv, AgentInv, ListedInv, ReadInv, BanInv, Current, Write, pass
<1>5. \/ Return
      \/ UNCHANGED pass /\ pc' \in {"delete", "recreate", "agents"}
      \/ UNCHANGED pass /\ agents # Unlisted /\ pc' = "observe"
  BY DEF Write, Create, Delete, Goto
<1> QED
  BY <1>2, <1>3, <1>4, <1>5

\* A read misses only VMs that are not there, so the agents counted for them are dead.
LEMMA ReadStep ==
  ASSUME IInv, Read PROVE AgentInv' /\ ListedInv' /\ ReadInv' /\ BanInv'
<1>1. UNCHANGED <<guests, dead, agent, misses>>
  BY DEF Read, pve
<1>2. AgentInv'
  BY <1>1 DEF IInv, AgentInv
<1>3. CASE /\ read' = guests[Current] /\ pc' \in {"list", "create"}
           /\ UNCHANGED <<target, agents, bans>>
  <2>1. ReadInv'
    BY <1>1, <1>3 DEF IInv, AgentInv, ReadInv, Current
  <2> QED
    BY <1>1, <1>2, <1>3, <2>1 DEF IInv, ListedInv, BanInv
<1>4. CASE NextTarget
  BY <1>1, <1>2, <1>4, LeaveCluster
<1> QED
  BY <1>3, <1>4 DEF Read, Goto

\* Observe bans an agent it counted before the read, and counts listed agents.
LEMMA ObserveStep ==
  ASSUME IInv, Observe PROVE AgentInv' /\ ListedInv' /\ ReadInv' /\ BanInv'
<1>1. UNCHANGED <<guests, dead, agent, agents>> /\ pc = "observe" /\ pc' = "ban"
  BY DEF Observe, pve, Goto
<1>2. agents \subseteq Agent /\ \A a \in agents : agent[a] # "new"
  BY <1>1 DEF IInv, TInv, AgentsInv, ListedInv
<1>3. BanInv'
  BY <1>1, <1>2 DEF Observe, BanInv, ToBan, Missing, Seen, IInv, ReadInv
<1>4. ASSUME NEW a \in Agent, misses'[a] = 1 PROVE agent[a] # "new"
  <2>1. misses'[a] = Count(a)
    BY DEF Observe
  <2>2. CASE a \in Missing
    BY <1>2, <2>2 DEF Missing, Seen
  <2>3. CASE misses[a] = 1
    BY <2>3 DEF IInv, AgentInv
  <2> QED
    BY <1>4, <2>1, <2>2, <2>3 DEF Count
<1>5. AgentInv'
  BY <1>1, <1>4 DEF IInv, AgentInv
<1> QED
  BY <1>1, <1>2, <1>3, <1>5 DEF ListedInv, ReadInv

\* Ban bans agents of destroyed VMs.
LEMMA BanStep ==
  ASSUME IInv, Ban PROVE AgentInv' /\ ListedInv' /\ ReadInv' /\ BanInv'
<1>1. UNCHANGED <<guests, dead, misses>> /\ pc = "ban"
  BY DEF Ban, pve
<1>2. CASE bans = {} /\ NextTarget /\ UNCHANGED agent
  BY <1>1, <1>2, LeaveCluster DEF IInv, AgentInv
<1>3. ASSUME NEW a \in bans, agent' = [agent EXCEPT ![a] = "banned"]
      PROVE  /\ AgentInv'
             /\ UNCHANGED agents /\ pc' # "observe" => ListedInv'
  <2>1. a \in Agent /\ a \in dead /\ agent \in [Agent -> {"new", "attested", "evicted", "banned"}]
    BY DEF IInv, BanInv, TInv, TypeOK
  <2>2. Home[a] \in Cluster /\ AgentVM[a] \in VM
    BY <2>1 DEF IInv, AgentInv
  <2> QED
    BY <1>1, <1>3, <2>1, <2>2 DEF IInv, AgentInv, ListedInv, TInv, TypeOK
<1>4. CASE \E a \in bans :
              /\ agent' = [agent EXCEPT ![a] = "banned"]
              /\ bans' = bans \ {a}
              /\ UNCHANGED <<pc, agents>>
  BY <1>1, <1>3, <1>4 DEF IInv, ReadInv, BanInv
<1>5. CASE \E a \in bans :
              /\ Return
              /\ agent' \in {agent, [agent EXCEPT ![a] = "banned"]}
  <2>1. AgentInv'
    BY <1>1, <1>3, <1>5 DEF IInv, AgentInv
  <2> QED
    BY <1>5, <2>1 DEF Return, Fresh, Goto, ListedInv, ReadInv, BanInv
<1> QED
  BY <1>2, <1>4, <1>5 DEF Ban

\* Every step keeps the invariant.
LEMMA InvStep == IInv /\ [Next]_vars => IInv'
<1> SUFFICES ASSUME IInv, [Next]_vars PROVE IInv'
  OBVIOUS
<1> DEFINE Rest == AgentInv /\ ListedInv /\ ReadInv /\ BanInv
<1> SUFFICES Rest'
  BY TypeStep DEF IInv
<1>1. ASSUME NEW o \in BOOLEAN, Start(o) PROVE Rest'
  BY <1>1 DEF Start, Fresh, Goto, pve, IInv, AgentInv, ListedInv, ReadInv, BanInv
<1>2. CASE Tick
  BY <1>2 DEF Tick, Goto, pve, pass, IInv, AgentInv, ListedInv, ReadInv, BanInv
<1>3. CASE Crash
  BY <1>3 DEF Crash, Fresh, Goto, pve, IInv, AgentInv, ListedInv, ReadInv, BanInv
<1>4. CASE Read
  BY <1>4, ReadStep
<1>5. CASE Entries
  <2>1. AgentInv'
    BY <1>5 DEF Entries, pve, IInv, AgentInv
  <2>2. CASE pc' = "create" /\ UNCHANGED <<target, read, agents, bans>>
    BY <1>5, <2>1, <2>2 DEF Entries, pve, IInv, ListedInv, ReadInv, BanInv, Current
  <2>3. CASE Return
    BY <1>5, <2>1, <2>3, LeaveCluster DEF Entries
  <2> QED
    BY <1>5, <2>2, <2>3 DEF Entries, Goto
<1>6. CASE Write
  BY <1>6, WriteStep
<1>7. CASE Agents
  <2>1. AgentInv'
    BY <1>7 DEF Agents, pve, IInv, AgentInv
  <2>2. CASE /\ agents' = {a \in Agent : agent[a] = "attested"} /\ pc' = "observe"
             /\ UNCHANGED <<target, read, bans>>
    BY <1>7, <2>1, <2>2 DEF Agents, pve, IInv, ListedInv, ReadInv, BanInv, Current
  <2>3. CASE Return
    BY <1>7, <2>1, <2>3, LeaveCluster DEF Agents
  <2> QED
    BY <1>7, <2>2, <2>3 DEF Agents, Goto
<1>8. CASE Observe
  BY <1>8, ObserveStep
<1>9. CASE SkipBans
  BY <1>9, LeaveCluster DEF SkipBans, pve, IInv, AgentInv
<1>10. CASE Ban
  BY <1>10, BanStep
<1>11. ASSUME NEW x \in Changing, NEW l \in Guest \cup {NoGuest}, SetGuest(x[1], x[2], l)
       PROVE  Rest'
  <2>1. x[1] \in Cluster /\ x[2] \in VM /\ guests \in [Cluster -> Listing]
    BY ReconcilerAssumption DEF IInv, TInv, TypeOK
  <2>2. /\ guests' = [guests EXCEPT ![x[1]][x[2]] = l]
        /\ UNCHANGED <<agent, pc, target, read, agents, bans, misses>>
    BY <1>11 DEF SetGuest, pass
  <2>3. /\ dead \subseteq dead'
        /\ \A b \in Agent : b \in dead' => b \in dead \/ agent[b] # "new"
        /\ l = NoGuest => \A b \in Agent : Home[b] = x[1] /\ AgentVM[b] = x[2] /\ agent[b] # "new"
                                             => b \in dead'
    BY <1>11 DEF SetGuest
  <2>4. ASSUME NEW b \in Agent, agent[b] # "new", b \notin dead'
        PROVE  guests'[Home[b]][AgentVM[b]] # NoGuest
    <3>1. Home[b] \in Cluster /\ AgentVM[b] \in VM /\ guests[Home[b]][AgentVM[b]] # NoGuest
      BY <2>3, <2>4 DEF IInv, AgentInv
    <3>2. CASE Home[b] = x[1] /\ AgentVM[b] = x[2]
      BY <2>1, <2>2, <2>3, <2>4, <3>1, <3>2 DEF Listing
    <3>3. CASE ~(Home[b] = x[1] /\ AgentVM[b] = x[2])
      BY <2>1, <2>2, <3>1, <3>3 DEF Listing
    <3> QED
      BY <3>2, <3>3
  <2>5. AgentInv'
    BY <2>2, <2>3, <2>4 DEF IInv, AgentInv
  <2> QED
    BY <2>2, <2>3, <2>5 DEF IInv, ListedInv, ReadInv, BanInv, Current
<1>12. ASSUME NEW a \in Agent, Attest(a) PROVE Rest'
  <2>1. /\ agent' = [agent EXCEPT ![a] = "attested"]
        /\ UNCHANGED <<guests, dead, pc, target, read, agents, bans, misses>>
        /\ agent \in [Agent -> {"new", "attested", "evicted", "banned"}]
    BY <1>12 DEF Attest, pve, pass, IInv, TInv, TypeOK
  <2>2. /\ Home[a] \in Cluster /\ AgentVM[a] \in VM
        /\ guests[Home[a]][AgentVM[a]] # NoGuest
    BY <1>12, ReconcilerAssumption DEF Attest, Running, Present
  <2>3. AgentInv'
    BY <2>1, <2>2 DEF IInv, AgentInv
  <2>4. ListedInv'
    BY <2>1 DEF IInv, ListedInv, TInv, TypeOK, AgentsInv
  <2> QED
    BY <2>1, <2>3, <2>4 DEF IInv, ReadInv, BanInv, Current
<1>13. ASSUME NEW a \in Agent, Evict(a) PROVE Rest'
  <2>1. /\ agent' = [agent EXCEPT ![a] = "evicted"] /\ agent[a] = "attested"
        /\ UNCHANGED <<guests, dead, pc, target, read, agents, bans, misses>>
        /\ agent \in [Agent -> {"new", "attested", "evicted", "banned"}]
    BY <1>13 DEF Evict, pve, pass, IInv, TInv, TypeOK
  <2>2. AgentInv'
    BY <2>1 DEF IInv, AgentInv
  <2>3. ListedInv'
    BY <2>1 DEF IInv, ListedInv, TInv, TypeOK, AgentsInv
  <2> QED
    BY <2>1, <2>2, <2>3 DEF IInv, ReadInv, BanInv, Current
<1>14. CASE UNCHANGED <<guests, dead, agent, pc, pass, misses>>
  BY <1>14 DEF pass, IInv, AgentInv, ListedInv, ReadInv, BanInv, Current
<1>15. ASSUME NEW e, EditEntry(e) \/ DeleteEntry(e) \/ AddEntry(e) PROVE Rest'
  BY <1>14, <1>15 DEF EditEntry, DeleteEntry, AddEntry, ByHand, pve
<1>16. CASE UNCHANGED vars
  BY <1>14, <1>16 DEF vars, pve
<1> HIDE DEF Rest
<1> QED
  BY <1>1, <1>2, <1>3, <1>4, <1>5, <1>6, <1>7, <1>8, <1>9, <1>10, <1>11, <1>12, <1>13,
     <1>15, <1>16 DEF Next, Step, Outside

\* The invariant holds at the start.
LEMMA InvInit == Init => IInv
<1> SUFFICES ASSUME Init PROVE IInv
  OBVIOUS
<1>1. NoneListed \in Listing /\ 1 \in 1..Len(Targets)
  BY ReconcilerAssumption DEF NoneListed, Listing
<1>2. guests \in [Cluster -> Listing] /\ entries \subseteq Entry
  BY ReconcilerAssumption DEF Init
<1>4. /\ agent \in [Agent -> {"new", "attested", "evicted", "banned"}]
      /\ misses \in [Agent -> {0, 1}]
  BY DEF Init
<1>3. touched \subseteq Alias
  <2>1. \A e \in InitEntries : e.alias \in Alias
    BY ReconcilerAssumption DEF Entry
  <2> QED
    BY <2>1 DEF Init
<1>5. TInv
  BY <1>1, <1>2, <1>3, <1>4 DEF Init, TInv, TypeOK, AgentsInv
<1> QED
  BY <1>5 DEF Init, IInv, AgentInv, ListedInv, ReadInv, BanInv

\* The reconciler's variables have their types: no count passes 1, what it writes are
\* well-formed aliases, and the cluster index stays within the configuration.
THEOREM ReconcilerTypeCorrect == Spec => []TypeOK
<1>1. IInv => TypeOK
  BY DEF IInv, TInv
<1> QED
  BY <1>1, InvInit, InvStep, PTL DEF Spec

\* The reconciler bans only agents whose own VM was destroyed, for any clusters, guests,
\* agents, and any interleaving of their changes with the calls of a pass: an agent is
\* counted only after it attested, so a later read that misses its VM shows the VM gone.
THEOREM BannedIsDeadAlways == Spec => []BannedIsDead
<1>1. IInv => BannedIsDead
  BY DEF IInv, AgentInv, BannedIsDead
<1> QED
  BY <1>1, InvInit, InvStep, PTL DEF Spec

-----------------------------------------------------------------------------
(***************************************************************************)
(* The aliases.  The listing is taken once per pass and grows old while    *)
(* the clusters are written one after the other; what it says of a         *)
(* cluster still to be written is true but for edits by hand.              *)
(***************************************************************************)
AliasesOf(S) == {e.alias : e \in S}

\* The server keeps one entry for an alias.
OneEach(S) == \A x, y \in S : x.alias = y.alias => x = y

\* Only a hand changes the fields of an entry.
EditedKnown(S) == \A e \in S : ~e.default => e.alias \in touched

\* The server has the alias, unless somebody dealt with it by hand.
There(x) == x \in AliasesOf(entries) \/ x \in touched

\* The clusters whose old entries this pass has not deleted yet.
Pending ==
    {Targets[i] : i \in {j \in DOMAIN Targets :
        j > target \/ (j = target /\ pc \notin {"recreate", "agents", "observe", "ban"})}}

\* The pass has a listing.
Listed ==
    \/ listing # Unlisted
    \/ pc \in {"create", "delete", "recreate", "agents", "observe", "ban"}

EntriesInv == OneEach(entries) /\ EditedKnown(entries)

ListingInv ==
    Listed => /\ OneEach(listing) /\ EditedKnown(listing)
              /\ \A e \in listing : e.alias.cluster \in Pending => There(e.alias)

\* Before the delete, what could be created first has been.
SafeInv == pc = "delete" => \A x \in Safe : There(x)

EInv == EntriesInv /\ ListingInv /\ SafeInv

-----------------------------------------------------------------------------
\* The server makes the alias it is asked for, with default fields.
LEMMA MadeAlias == \A a : Made(a).alias = a /\ Made(a).default
BY DEF Made

\* What is wanted of a cluster has the cluster's name.
LEMMA WantCluster == \A w \in Want : w.cluster = Current
BY DEF Want, Wanted

\* Entries that are made of aliases the server does not have.
LEMMA Added ==
    ASSUME EntriesInv, NEW S, \A a \in S : \A e \in entries : e.alias # a,
           entries' = entries \cup {Made(a) : a \in S}, touched \subseteq touched'
    PROVE  EntriesInv' /\ AliasesOf(entries') = AliasesOf(entries) \cup S
<1> DEFINE N == {Made(a) : a \in S}
<1>1. \A x \in N : x.alias \in S /\ x.default
  BY MadeAlias
<1>2. \A x, y \in N : x.alias = y.alias => x = y
  BY MadeAlias
<1>3. AliasesOf(N) = S
  BY MadeAlias DEF AliasesOf
<1>4. entries' = entries \cup N
  OBVIOUS
<1> HIDE DEF N
<1>5. OneEach(entries')
  BY <1>1, <1>2, <1>4 DEF EntriesInv, OneEach
<1>6. EditedKnown(entries)'
  BY <1>1, <1>4 DEF EntriesInv, EditedKnown
<1>7. AliasesOf(entries') = AliasesOf(entries) \cup S
  BY <1>3, <1>4 DEF AliasesOf
<1>8. QED
  BY <1>5, <1>6, <1>7 DEF EntriesInv

\* Entries that are removed.
LEMMA Removed ==
    ASSUME EntriesInv, entries' \subseteq entries, touched \subseteq touched'
    PROVE  EntriesInv'
BY DEF EntriesInv, OneEach, EditedKnown

\* A listing stays true when nothing that it says of pending clusters is undone.
LEMMA ListingKept ==
    ASSUME ListingInv, listing' = listing, touched \subseteq touched',
           Listed' => Listed, Pending' \subseteq Pending,
           \A x : There(x) /\ x.cluster \in Pending' => There(x)'
    PROVE  ListingInv'
<1> SUFFICES ASSUME Listed'
             PROVE  /\ OneEach(listing') /\ EditedKnown(listing)'
                    /\ \A e \in listing' : e.alias.cluster \in Pending' => There(e.alias)'
  BY DEF ListingInv
<1>1. OneEach(listing) /\ EditedKnown(listing)
  BY DEF ListingInv
<1>2. \A e \in listing : e.alias.cluster \in Pending => There(e.alias)
  BY DEF ListingInv
<1>3. EditedKnown(listing)'
  BY <1>1 DEF EditedKnown
<1>4. ASSUME NEW e \in listing', e.alias.cluster \in Pending'
      PROVE  There(e.alias)'
  BY <1>2, <1>4
<1>5. QED
  BY <1>1, <1>3, <1>4

\* A pass that returns has no listing.
LEMMA Returned ==
    ASSUME EntriesInv', listing' = Unlisted, pc' \in {"off", "wait", "read"}
    PROVE  EInv'
BY DEF EInv, ListingInv, SafeInv, Listed

\* Steps that change neither entries nor listing, and the pass only forward.
LEMMA Quiet ==
    ASSUME EInv, UNCHANGED <<entries, touched, listing>>, Pending' \subseteq Pending,
           Listed' => Listed,
           pc' # "delete" \/ UNCHANGED <<pc, target, read>>
    PROVE  EInv'
<1>1. EntriesInv' /\ \A x : There(x) => There(x)'
  BY DEF EInv, EntriesInv, EditedKnown, There
<1>2. ListingInv'
  BY <1>1, ListingKept DEF EInv
<1>3. SafeInv'
  <2>1. CASE pc' # "delete"
    BY <2>1 DEF SafeInv
  <2>2. CASE UNCHANGED <<pc, target, read>>
    <3>1. Safe' = Safe
      BY <2>2 DEF Safe, ToCreate, Colliding, Kept, Doomed, Mine, Want, Current
    <3>2. QED
      BY <1>1, <2>2, <3>1 DEF EInv, SafeInv
  <2>3. QED
    BY <2>1, <2>2
<1>4. QED
  BY <1>1, <1>2, <1>3 DEF EInv

\* The end of a pass, and the step to the next cluster.
LEMMA Left ==
    ASSUME TInv, EInv, Return \/ NextTarget, UNCHANGED <<entries, touched>>
    PROVE  EInv'
<1>1. EntriesInv'
  BY DEF EInv, EntriesInv, EditedKnown
<1>2. CASE Return
  BY <1>1, <1>2, Returned DEF Return, Fresh, Goto
<1>3. CASE /\ target' = target + 1 /\ pc' = "read" /\ listing' = listing
  <2>1. target \in Nat /\ \A j \in DOMAIN Targets : j \in Nat
    BY ReconcilerAssumption DEF TInv, TypeOK
  <2>2. \A j \in Nat : j > target + 1 \/ j = target + 1 => j > target
    BY <2>1
  <2>3. Pending' \subseteq Pending
    BY <1>3, <2>1, <2>2 DEF Pending
  <2>4. Listed' => Listed
    BY <1>3 DEF Listed
  <2>5. QED
    BY <1>3, <2>3, <2>4, Quiet
<1>4. QED
  BY <1>2, <1>3 DEF NextTarget, Goto

\* Create: the server refuses what it has, so it has still one entry for an alias.
LEMMA CreateKeeps ==
    ASSUME EInv, NEW S, NEW next, Create(S, next), UNCHANGED touched
    PROVE  \/ EntriesInv' /\ Return
           \/ /\ EntriesInv' /\ pc' = next /\ UNCHANGED <<target, read, listing>>
              /\ AliasesOf(entries') = AliasesOf(entries) \cup S
<1> DEFINE new == {a \in S : \A e \in entries : e.alias # a}
<1>1. ASSUME NEW D \in SUBSET new, entries' = entries \cup {Made(a) : a \in D}
      PROVE  EntriesInv' /\ AliasesOf(entries') = AliasesOf(entries) \cup D
  BY <1>1, Added DEF EInv
<1>2. CASE new = S /\ entries' = entries \cup {Made(a) : a \in S} /\ Goto(next) /\ UNCHANGED pass
  BY <1>1, <1>2 DEF Goto, pass
<1>3. CASE entries' = entries \cup {Made(a) : a \in new} /\ Return
  BY <1>1, <1>3
<1>4. CASE Return /\ \E D \in SUBSET new : entries' = entries \cup {Made(a) : a \in D}
  BY <1>1, <1>4
<1> HIDE DEF new
<1>5. QED
  BY <1>2, <1>3, <1>4 DEF Create, new

\* The delete takes only aliases of the cluster worked on.
LEMMA DeleteTakes ==
    ASSUME Delete
    PROVE  /\ entries' \subseteq entries
           /\ \A e \in entries : e \in entries' \/ e.alias \in AliasesOf(Doomed)
           /\ Return \/ (pc' = "recreate" /\ UNCHANGED <<target, read, listing>>)
<1> DEFINE old == {e \in entries : \E d \in Doomed : d.alias = e.alias /\ d.gen = e.gen}
<1>1. \A e \in old : e.alias \in AliasesOf(Doomed)
  BY DEF AliasesOf
<1>2. PICK D \in SUBSET old : entries' = entries \ D
  BY DEF Delete
<1>3. Return \/ (pc' = "recreate" /\ UNCHANGED <<target, read, listing>>)
  BY DEF Delete, Goto, pass
<1>4. QED
  BY <1>1, <1>2, <1>3

\* What Diff condemns belongs to the cluster worked on.
LEMMA DoomedCluster == \A x \in AliasesOf(Doomed) : x.cluster = Current
BY DEF AliasesOf, Doomed, Mine

\* The three writes of a cluster.
LEMMA WriteKeeps ==
    ASSUME TInv, EInv, Write
    PROVE  EInv'
<1>1. touched' = touched
  BY DEF Write
<1>2. ASSUME EntriesInv', Return
      PROVE  EInv'
  BY <1>2, Returned DEF Return, Fresh, Goto
<1>3. CASE pc = "create" /\ Create(Safe, "delete")
  <2>1. CASE /\ EntriesInv' /\ pc' = "delete" /\ UNCHANGED <<target, read, listing>>
             /\ AliasesOf(entries') = AliasesOf(entries) \cup Safe
    <3>1. Safe' = Safe
      BY <2>1 DEF Safe, ToCreate, Colliding, Kept, Doomed, Mine, Want, Current
    <3>2. SafeInv'
      BY <2>1, <3>1 DEF SafeInv, There
    <3>3. \A x : There(x) => There(x)'
      BY <1>1, <2>1 DEF There
    <3>4. Pending' = Pending
      BY <1>3, <2>1 DEF Pending
    <3>5. Listed
      BY <1>3 DEF Listed
    <3>6. ListingInv'
      BY <1>1, <2>1, <3>3, <3>4, <3>5, ListingKept DEF EInv
    <3>7. QED
      BY <2>1, <3>2, <3>6 DEF EInv
  <2>2. QED
    BY <1>1, <1>2, <1>3, <2>1, CreateKeeps
<1>4. CASE pc = "delete" /\ Delete
  <2>1. EntriesInv'
    BY <1>1, <1>4, DeleteTakes, Removed DEF EInv
  <2>2. CASE pc' = "recreate" /\ UNCHANGED <<target, read, listing>>
    <3>1. Current \notin Pending' /\ Pending' \subseteq Pending
      <4>1. target \in DOMAIN Targets /\ DOMAIN Targets \subseteq Nat
        BY ReconcilerAssumption DEF TInv, TypeOK
      <4>2. ~(target > target)
        BY <4>1
      <4>3. Pending' = {Targets[i] : i \in {j \in DOMAIN Targets : j > target}}
        BY <2>2 DEF Pending
      <4>4. Pending' \subseteq Pending
        BY <4>3 DEF Pending
      <4>5. Current \notin Pending'
        BY <4>1, <4>2, <4>3, ReconcilerAssumption DEF Current
      <4>6. QED
        BY <4>4, <4>5
    <3>2. ASSUME NEW x, There(x), x.cluster \in Pending'
          PROVE  There(x)'
      <4>1. x \notin AliasesOf(Doomed)
        BY <3>1, <3>2, DoomedCluster
      <4>2. QED
        BY <1>1, <1>4, <3>2, <4>1, DeleteTakes DEF There, AliasesOf
    <3>3. Listed
      BY <1>4 DEF Listed
    <3>4. ListingInv'
      BY <1>1, <2>2, <3>1, <3>2, <3>3, ListingKept DEF EInv
    <3>5. QED
      BY <2>1, <2>2, <3>4 DEF EInv, SafeInv
  <2>3. QED
    BY <1>2, <1>4, <2>1, <2>2, DeleteTakes
<1>5. ASSUME pc = "recreate", NEW next \in {"agents", "observe"}, Create(Colliding, next)
      PROVE  EInv'
  <2>1. CASE /\ EntriesInv' /\ pc' = next /\ UNCHANGED <<target, read, listing>>
             /\ AliasesOf(entries') = AliasesOf(entries) \cup Colliding
    <3>1. \A x : There(x) => There(x)'
      BY <1>1, <2>1 DEF There
    <3>2. Pending' = Pending
      BY <1>5, <2>1 DEF Pending
    <3>3. Listed
      BY <1>5 DEF Listed
    <3>4. ListingInv'
      BY <1>1, <2>1, <3>1, <3>2, <3>3, ListingKept DEF EInv
    <3>5. QED
      BY <2>1, <3>4 DEF EInv, SafeInv
  <2>2. QED
    BY <1>1, <1>2, <1>5, <2>1, CreateKeeps
<1>6. QED
  BY <1>3, <1>4, <1>5 DEF Write

\* An edit by hand marks the alias.
LEMMA HandKeeps ==
    ASSUME EInv, NEW a, touched' = touched \cup {a}, UNCHANGED <<pc, pass>>, EntriesInv',
           \A x : x # a /\ x \in AliasesOf(entries) => x \in AliasesOf(entries')
    PROVE  EInv'
<1>1. \A x : There(x) => There(x)'
  BY DEF There
<1>2. UNCHANGED <<pc, target, read, listing>>
  BY DEF pass
<1>3. Pending' = Pending /\ Listed' = Listed
  BY <1>2 DEF Pending, Listed
<1>4. ListingInv'
  BY <1>1, <1>2, <1>3, ListingKept DEF EInv
<1>5. Safe' = Safe
  BY <1>2 DEF Safe, ToCreate, Colliding, Kept, Doomed, Mine, Want, Current
<1>6. SafeInv'
  BY <1>1, <1>2, <1>5 DEF EInv, SafeInv
<1>7. QED
  BY <1>4, <1>6 DEF EInv

\* Every step keeps what the entries and the listing promise.
LEMMA EntryStep == TInv /\ EInv /\ [Next]_vars => EInv'
<1> SUFFICES ASSUME TInv, EInv, [Next]_vars
             PROVE  EInv'
  OBVIOUS
<1>1. ASSUME UNCHANGED <<entries, touched>>, Fresh, pc' \in {"off", "wait", "read"}
      PROVE  EInv'
  <2>1. EntriesInv'
    BY <1>1 DEF EInv, EntriesInv, EditedKnown
  <2>2. QED
    BY <1>1, <2>1, Returned DEF Fresh
<1>2. ASSUME NEW o \in BOOLEAN, Start(o)
      PROVE  EInv'
  BY <1>1, <1>2 DEF Start, Goto
<1>3. CASE Crash
  BY <1>1, <1>3 DEF Crash, Goto
<1>4. CASE Tick
  <2>1. /\ UNCHANGED <<entries, touched, listing, target, read>> /\ pc = "wait" /\ pc' = "read"
    BY <1>4 DEF Tick, Goto, pass
  <2>2. Pending' = Pending /\ (Listed' => Listed)
    BY <2>1 DEF Pending, Listed
  <2>3. QED
    BY <2>1, <2>2, Quiet
<1>5. CASE Read
  <2>1. CASE /\ UNCHANGED <<entries, touched, listing, target>> /\ pc = "read"
             /\ pc' = IF listing = Unlisted THEN "list" ELSE "create"
    <3>1. Pending' = Pending /\ (Listed' => Listed)
      BY <2>1 DEF Pending, Listed
    <3>2. QED
      BY <2>1, <3>1, Quiet
  <2>2. CASE NextTarget
    BY <1>5, <2>2, Left DEF Read
  <2>3. QED
    BY <1>5, <2>1, <2>2 DEF Read, Goto
<1>6. CASE Entries
  <2>1. CASE listing' = entries /\ pc' = "create" /\ UNCHANGED <<entries, touched>>
    <3>1. EntriesInv'
      BY <2>1 DEF EInv, EntriesInv, EditedKnown
    <3>2. OneEach(listing') /\ EditedKnown(listing)'
      BY <2>1, <3>1 DEF EntriesInv, EditedKnown
    <3>3. \A e \in listing' : There(e.alias)'
      BY <2>1 DEF There, AliasesOf
    <3>4. QED
      BY <2>1, <3>1, <3>2, <3>3 DEF EInv, ListingInv, SafeInv
  <2>2. CASE Return
    BY <1>6, <2>2, Left DEF Entries
  <2>3. QED
    BY <1>6, <2>1, <2>2 DEF Entries, Goto
<1>7. CASE Write
  BY <1>7, WriteKeeps
<1>8. ASSUME UNCHANGED <<entries, touched, listing, target>>, pc \in {"agents", "observe", "ban"},
             pc' \in {"agents", "observe", "ban"}
      PROVE  EInv'
  <2>1. Pending' = Pending /\ Listed
    BY <1>8 DEF Pending, Listed
  <2>2. QED
    BY <1>8, <2>1, Quiet
<1>9. CASE Agents
  BY <1>8, <1>9, Left DEF Agents, Goto
<1>10. CASE Observe
  BY <1>8, <1>10 DEF Observe, Goto
<1>11. CASE SkipBans
  BY <1>11, Left DEF SkipBans
<1>12. CASE Ban
  <2>1. UNCHANGED <<entries, touched>> /\ pc = "ban"
    BY <1>12 DEF Ban
  <2>2. Return \/ NextTarget \/ UNCHANGED <<pc, listing, target>>
    BY <1>12 DEF Ban
  <2>3. QED
    BY <1>8, <2>1, <2>2, Left
<1>13. CASE UNCHANGED <<entries, touched, pc, pass>>
  <2>1. UNCHANGED <<pc, target, read, listing>>
    BY <1>13 DEF pass
  <2>2. Pending' = Pending /\ Listed' = Listed
    BY <2>1 DEF Pending, Listed
  <2>3. QED
    BY <1>13, <2>1, <2>2, Quiet
<1>14. ASSUME NEW x \in Changing, NEW g, SetGuest(x[1], x[2], g)
       PROVE  EInv'
  BY <1>13, <1>14 DEF SetGuest
<1>15. ASSUME NEW a \in Agent, Attest(a) \/ Evict(a)
       PROVE  EInv'
  BY <1>13, <1>15 DEF Attest, Evict
<1>16. ASSUME NEW e \in entries, EditEntry(e)
       PROVE  EInv'
  <2> DEFINE n == [e EXCEPT !.default = FALSE]
  <2>1. e \in Entry
    BY DEF TInv, TypeOK
  <2>2. n.alias = e.alias
    BY <2>1 DEF Entry
  <2>3. entries' = (entries \ {e}) \cup {n} /\ touched' = touched \cup {e.alias}
        /\ UNCHANGED <<pc, pass>>
    BY <1>16 DEF EditEntry, ByHand
  <2> HIDE DEF n
  <2>4. OneEach(entries')
    BY <2>2, <2>3 DEF EInv, EntriesInv, OneEach
  <2>5. EditedKnown(entries)'
    BY <2>2, <2>3 DEF EInv, EntriesInv, EditedKnown
  <2>6. \A x : x # e.alias /\ x \in AliasesOf(entries) => x \in AliasesOf(entries')
    BY <2>3 DEF AliasesOf
  <2>7. QED
    BY <2>3, <2>4, <2>5, <2>6, HandKeeps DEF EntriesInv
<1>17. ASSUME NEW e \in entries, DeleteEntry(e)
       PROVE  EInv'
  <2>1. entries' = entries \ {e} /\ touched' = touched \cup {e.alias} /\ UNCHANGED <<pc, pass>>
    BY <1>17 DEF DeleteEntry, ByHand
  <2>2. EntriesInv'
    BY <2>1, Removed DEF EInv
  <2>3. \A x : x # e.alias /\ x \in AliasesOf(entries) => x \in AliasesOf(entries')
    BY <2>1 DEF AliasesOf
  <2>4. QED
    BY <2>1, <2>2, <2>3, HandKeeps
<1>18. ASSUME NEW a \in HandAliases, AddEntry(a)
       PROVE  EInv'
  <2>1. /\ entries' = entries \cup {Made(x) : x \in {a}} /\ touched' = touched \cup {a}
        /\ UNCHANGED <<pc, pass>> /\ \A e \in entries : e.alias # a
    BY <1>18 DEF AddEntry, ByHand
  <2>2. EntriesInv' /\ AliasesOf(entries') = AliasesOf(entries) \cup {a}
    <3> DEFINE S == {a}
    <3>1. \A x \in S : \A e \in entries : e.alias # x
      BY <2>1
    <3>2. entries' = entries \cup {Made(x) : x \in S} /\ touched \subseteq touched'
      BY <2>1
    <3> HIDE DEF S
    <3>3. EntriesInv' /\ AliasesOf(entries') = AliasesOf(entries) \cup S
      BY <3>1, <3>2, Added DEF EInv
    <3>4. QED
      BY <3>3 DEF S
  <2>3. QED
    BY <2>1, <2>2, HandKeeps
<1>19. CASE UNCHANGED vars
  BY <1>13, <1>19 DEF vars
<1>20. QED
  BY <1>2, <1>3, <1>4, <1>5, <1>6, <1>7, <1>9, <1>10, <1>11, <1>12, <1>14, <1>15, <1>16,
     <1>17, <1>18, <1>19 DEF Next, Step, Outside

\* Before the delete every wanted alias is there, and the delete leaves it there,
\* unless somebody dealt with it by hand.
LEMMA DeleteLeavesWanted ==
    ASSUME EInv, TInv, pc = "delete", Delete, NEW w \in Want, w \notin touched
    PROVE  w \in AliasesOf(entries')
<1>1. Listed
  BY DEF Listed
<1>2. w.cluster = Current /\ Current \in Pending
  <2>1. target \in DOMAIN Targets
    BY ReconcilerAssumption DEF TInv, TypeOK
  <2>2. QED
    BY <2>1, WantCluster DEF Pending, Current
<1>3. w \notin AliasesOf(Doomed) /\ There(w)
  <2>1. CASE w \in AliasesOf(Kept)
    <3>1. PICK e \in Kept : e.alias = w
      BY <2>1 DEF AliasesOf
    <3>2. e \in listing
      BY DEF Kept, Mine
    <3>3. There(w)
      BY <1>1, <1>2, <3>1, <3>2 DEF EInv, ListingInv
    <3>4. ASSUME NEW d \in Doomed, d.alias = w
          PROVE  FALSE
      <4>1. d \in listing /\ d \notin Kept
        BY DEF Doomed, Mine
      <4>2. d = e
        BY <1>1, <3>1, <3>2, <3>4, <4>1 DEF EInv, ListingInv, OneEach
      <4>3. QED
        BY <4>1, <4>2
    <3>5. QED
      BY <3>3, <3>4 DEF AliasesOf
  <2>2. CASE w \notin AliasesOf(Kept)
    <3>1. w \in ToCreate
      BY <2>2 DEF ToCreate, AliasesOf
    <3>2. ASSUME NEW d \in Doomed, d.alias = w
          PROVE  FALSE
      <4>1. d \in listing /\ ~d.default
        BY <3>2 DEF Doomed, Kept, Mine
      <4>2. QED
        BY <1>1, <3>2, <4>1 DEF EInv, ListingInv, EditedKnown
    <3>3. w \notin AliasesOf(Doomed)
      BY <3>2 DEF AliasesOf
    <3>4. w \in Safe
      BY <3>1, <3>3 DEF Safe, Colliding, AliasesOf
    <3>5. QED
      BY <3>3, <3>4 DEF EInv, SafeInv
  <2>3. QED
    BY <2>1, <2>2
<1>4. PICK x \in entries : x.alias = w
  BY <1>3 DEF There, AliasesOf
<1>5. x \in entries'
  BY <1>3, <1>4, DeleteTakes
<1>6. QED
  BY <1>4, <1>5 DEF AliasesOf

\* A VM whose pool the pass knows is at no moment without the alias of a pool, for any
\* clusters and guests, whatever fails and whenever the process dies, unless somebody
\* changes a pool alias of that VM by hand: the new alias is there before the old one
\* goes.
THEOREM MoveKeepsPoolAlways == Spec => MoveKeepsPool
<1> DEFINE A == \A v \in VM :
                  HasPool(Current, v, entries) /\ ~HasPool(Current, v, entries')
                  => \/ \A w \in Want : w.vm = v => w.path[1] # "pool"
                     \/ PoolTouched(Current, v, touched')
<1>1. Init => EInv
  <2> SUFFICES ASSUME Init
               PROVE  EInv
    OBVIOUS
  <2>1. EntriesInv
    BY ReconcilerAssumption DEF Init, EntriesInv, OneEach, EditedKnown
  <2>2. QED
    BY <2>1 DEF Init, EInv, ListingInv, Listed, SafeInv
<1>2. ASSUME TInv, EInv, Next, NEW v \in VM,
             HasPool(Current, v, entries), ~HasPool(Current, v, entries'),
             NEW w \in Want, w.vm = v, w.path[1] = "pool"
      PROVE  PoolTouched(Current, v, touched')
  <2>1. PICK e \in entries : e.alias.cluster = Current /\ e.alias.vm = v /\ e.alias.path[1] = "pool"
    BY <1>2 DEF HasPool
  <2>2. e.alias \notin AliasesOf(entries')
    BY <1>2, <2>1 DEF HasPool, AliasesOf
  <2>3. \/ pc = "delete" /\ Delete /\ touched' = touched
        \/ \E d \in entries : DeleteEntry(d)
    <3>1. e \notin entries'
      BY <2>2 DEF AliasesOf
    <3>2. ~UNCHANGED entries /\ ~(entries \subseteq entries')
      BY <3>1
    <3>3. ASSUME NEW S, NEW next, Create(S, next)
          PROVE  entries \subseteq entries'
      BY <3>3 DEF Create
    <3>4. ASSUME NEW d \in entries, EditEntry(d)
          PROVE  FALSE
      <4>1. d \in Entry
        BY <1>2 DEF TInv, TypeOK
      <4>2. [d EXCEPT !.default = FALSE].alias = d.alias
        BY <4>1 DEF Entry
      <4>3. entries' = (entries \ {d}) \cup {[d EXCEPT !.default = FALSE]}
        BY <3>4 DEF EditEntry
      <4>4. e.alias \in AliasesOf(entries')
        BY <4>2, <4>3 DEF AliasesOf
      <4>5. QED
        BY <2>2, <4>4
    <3>5. ASSUME NEW a, AddEntry(a)
          PROVE  FALSE
      BY <3>2, <3>5 DEF AddEntry
    <3>6. ~(Tick \/ Crash \/ Read \/ Entries \/ Agents \/ Observe \/ SkipBans \/ Ban)
      BY <3>2 DEF Tick, Crash, Read, Entries, Agents, Observe, SkipBans, Ban
    <3>7. \A o \in BOOLEAN : ~Start(o)
      BY <3>2 DEF Start
    <3>8. \A x, g : ~SetGuest(x[1], x[2], g)
      BY <3>2 DEF SetGuest
    <3>9. \A a : ~Attest(a) /\ ~Evict(a)
      BY <3>2 DEF Attest, Evict
    <3>10. Write => pc = "delete" /\ Delete /\ touched' = touched
      BY <3>2, <3>3 DEF Write
    <3>11. QED
      BY <1>2, <3>4, <3>5, <3>6, <3>7, <3>8, <3>9, <3>10 DEF Next, Step, Outside
  <2>4. CASE pc = "delete" /\ Delete /\ touched' = touched
    <3>1. w.cluster = Current
      BY <1>2, WantCluster
    <3>2. w \notin AliasesOf(entries')
      BY <1>2, <3>1 DEF HasPool, AliasesOf
    <3>3. w \in touched
      BY <1>2, <2>4, <3>2, DeleteLeavesWanted
    <3>4. QED
      BY <1>2, <2>4, <3>1, <3>3 DEF PoolTouched
  <2>5. ASSUME NEW d \in entries, DeleteEntry(d)
        PROVE  PoolTouched(Current, v, touched')
    <3>1. entries' = entries \ {d} /\ d.alias \in touched'
      BY <2>5 DEF DeleteEntry, ByHand
    <3>2. d = e
      BY <2>2, <3>1 DEF AliasesOf
    <3>3. QED
      BY <2>1, <3>1, <3>2 DEF PoolTouched
  <2>6. QED
    BY <2>3, <2>4, <2>5
<1>3. TInv /\ EInv /\ [Next]_vars => [A]_vars
  BY <1>2
<1>4. IInv => TInv
  BY DEF IInv
<1>5. QED
  BY <1>1, <1>3, <1>4, EntryStep, InvInit, InvStep, PTL DEF Spec, MoveKeepsPool
=============================================================================
