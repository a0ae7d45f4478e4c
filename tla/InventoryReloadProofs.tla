------------------------ MODULE InventoryReloadProofs ------------------------
(***************************************************************************)
(* Theorems about InventoryReload, for every set of files and contents and *)
(* any number of edits and signals.                                        *)
(***************************************************************************)
EXTENDS InventoryReload, TLAPS

\* The values of pc.
Label == {"off", "wait", "fingerprint", "record", "lock", "load", "stopping", "done"}

\* What TypeOK says of the variables that the reload works on.
ReloadType ==
    /\ src \in [File -> Content]
    /\ pc \in [Proc -> Label]
    /\ seen \in [Proc -> [File -> Content \cup {Unread}]]
    /\ last \in [File -> Content \cup {Unread}]
    /\ cache \in [File -> Content \cup {Unread}]

\* The loading goroutine holds vmConfigCacheMu; one that waits for it starts its
\* load with nothing read.
LoadInv ==
    \A p \in Proc :
        /\ pc[p] = "load" => cacheMu = p
        /\ pc[p] = "lock" => seen[p] = Nothing

\* Nobody has read, or recorded, a content newer than the one of the file.
NotNewer ==
    \A f \in File :
        /\ last[f] # Unread => last[f] <= src[f]
        /\ \A p \in Proc : seen[p][f] # Unread => seen[p][f] <= src[f]

\* All that p has read is as it still is.
Current(p) == \A f \in File : seen[p][f] \in {Unread, src[f]}

\* A load is to come, or under way, that will see the source as it is.
Pending == \E p \in Proc : pc[p] = "lock" \/ (pc[p] = "load" /\ Current(p))

\* When the recorded fingerprint is the source's, a load of the source as it is
\* will come, or the inventory is fresh and no load under way can spoil it.
Covered ==
    last = src => Pending \/ (Fresh /\ \A p \in Proc : pc[p] # "load")

IInv == ReloadType /\ LoadInv /\ NotNewer /\ Covered

-----------------------------------------------------------------------------
\* The variables have their types: what goroutines read are contents, and the
\* signal channel of main.go never holds more than one signal.
THEOREM ReloadTypeCorrect == Spec => []TypeOK
<1> USE ReloadAssumption DEF Proc, Nothing
<1>1. Init => TypeOK
  <2> SUFFICES ASSUME Init
               PROVE  TypeOK
    OBVIOUS
  <2>1. Nothing \in [File -> Content \cup {Unread}]
    OBVIOUS
  <2>2. /\ seen \in [Proc -> [File -> Content \cup {Unread}]]
        /\ last \in [File -> Content \cup {Unread}]
        /\ cache \in [File -> Content \cup {Unread}]
    BY <2>1 DEF Init
  <2>3. src \in [File -> Content]
    BY DEF Init
  <2>4. sigChan \in {<<>>, <<"HUP">>, <<"TERM">>} /\ sent \in Seq({"HUP", "TERM"})
    BY DEF Init
  <2>5. QED
    BY <2>2, <2>3, <2>4 DEF Init, TypeOK
<1>2. TypeOK /\ [Next]_vars => TypeOK'
  <2> SUFFICES ASSUME TypeOK, [Next]_vars
               PROVE  TypeOK'
    OBVIOUS
  <2> USE DEF TypeOK, world, poll, inv, sigs
  <2>1. ASSUME NEW p \in Proc, NEW f \in File, ReadFile(p, f)
        PROVE  TypeOK'
    BY <2>1 DEF ReadFile
  <2>2. ASSUME NEW p \in Proc, Fingerprint(p) \/ Lock(p)
        PROVE  TypeOK'
    BY <2>2 DEF Fingerprint, Lock, Goto
  <2>3. CASE reloadIfChanged \/ reloadNow
    BY <2>3 DEF reloadIfChanged, reloadNow, Goto, Forget
  <2>4. ASSUME NEW p \in Proc, Publish(p)
        PROVE  TypeOK'
    BY <2>4 DEF Publish, Goto, Forget, Fails
  <2>5. CASE startInventoryPoller \/ Tick \/ StopTicking \/ Exit
    BY <2>5 DEF startInventoryPoller, Tick, StopTicking, Exit, Goto
  <2>6. ASSUME NEW s \in {"HUP", "TERM"}, HandleSignal(s)
        PROVE  pc' \in [Proc -> {"off", "wait", "fingerprint", "record", "lock",
                                 "load", "stopping", "done"}] /\ cancelled' \in BOOLEAN
    BY <2>6 DEF HandleSignal, Goto
  <2>7. ASSUME NEW s \in {"HUP", "TERM"}, Signal(s)
        PROVE  TypeOK'
    BY <2>6, <2>7 DEF Signal
  <2>8. CASE ReceiveSignal
    BY <2>6, <2>8 DEF ReceiveSignal
  <2>9. ASSUME NEW f \in File, NEW x \in Content, Edit(f, x)
        PROVE  TypeOK'
    BY <2>9 DEF Edit
  <2>10. CASE UNCHANGED vars
    BY <2>10 DEF vars
  <2>11. QED
    BY <2>1, <2>2, <2>3, <2>4, <2>5, <2>7, <2>8, <2>9, <2>10 DEF Next, Reload
<1>3. QED
  BY <1>1, <1>2, PTL DEF Spec

-----------------------------------------------------------------------------
\* Init satisfies the inductive invariant: nothing has been recorded yet.
LEMMA InitIInv == Init => IInv
<1> USE ReloadAssumption DEF Proc, Nothing
<1> SUFFICES ASSUME Init
             PROVE  IInv
  OBVIOUS
<1>1. ReloadType
  <2>1. Nothing \in [File -> Content \cup {Unread}]
    OBVIOUS
  <2>2. QED
    BY <2>1 DEF Init, ReloadType, Label
<1>2. LoadInv /\ NotNewer
  BY DEF Init, LoadInv, NotNewer
<1>3. Covered
  <2>1. CASE File = {}
    <3>1. cache = src /\ ~Fails(src)
      BY <2>1 DEF Init, Fails
    <3>2. QED
      BY <3>1 DEF Init, Covered, Fresh
  <2>2. CASE File # {}
    <3>1. PICK f \in File : TRUE
      BY <2>2
    <3>2. last[f] = Unread /\ src[f] = 0
      BY <3>1 DEF Init
    <3>3. QED
      BY <3>2 DEF Covered
  <2>3. QED
    BY <2>1, <2>2
<1>4. QED
  BY <1>1, <1>2, <1>3 DEF IInv

\* Steps that touch neither the source, the recorded fingerprint nor the cache,
\* and move no goroutine into or out of the lock and the load.
Aside ==
    /\ UNCHANGED <<src, last, seen, cacheMu, cache, failed>>
    /\ pc' \in [Proc -> Label]
    /\ \A p \in Proc : pc'[p] # pc[p] =>
          pc[p] \notin {"lock", "load"} /\ pc'[p] \notin {"lock", "load"}

\* Such steps keep the inductive invariant.
LEMMA AsideStep == IInv /\ Aside => IInv'
<1> SUFFICES ASSUME IInv, Aside
             PROVE  IInv'
  OBVIOUS
<1>1. ReloadType' /\ LoadInv' /\ NotNewer'
  BY DEF IInv, Aside, ReloadType, LoadInv, NotNewer, Nothing
<1>2. Covered'
  <2>1. \A p \in Proc : /\ pc'[p] = "lock" <=> pc[p] = "lock"
                        /\ pc'[p] = "load" <=> pc[p] = "load"
    BY DEF Aside
  <2>2. QED
    BY <2>1 DEF IInv, Aside, Covered, Pending, Current, Fresh, Fails
<1>3. QED
  BY <1>1, <1>2 DEF IInv

\* Every step of the two goroutines, of the signals and of the editors keeps the
\* inductive invariant, as long as no file gets an earlier content back.
LEMMA StepIInv ==
    ASSUME ~Reverts, IInv, [Next]_vars
    PROVE  IInv'
<1> USE ReloadAssumption DEF world, poll, inv, sigs
<1>1. ASSUME NEW p \in Proc, NEW f \in File, ReadFile(p, f)
      PROVE  IInv'
  <2>1. /\ src' = src /\ pc' = pc /\ last' = last /\ cache' = cache
        /\ failed' = failed /\ cacheMu' = cacheMu
        /\ seen' = [seen EXCEPT ![p][f] = src[f]]
        /\ pc[p] \in {"fingerprint", "load"}
    BY <1>1 DEF ReadFile
  <2>2. src[f] \in Content /\ src[f] <= src[f]
    <3>1. src[f] \in Content
      BY DEF IInv, ReloadType
    <3>2. src[f] \in Nat
      BY <3>1
    <3>3. QED
      BY <3>1, <3>2
  <2>3. ReloadType'
    BY <2>1, <2>2 DEF IInv, ReloadType
  <2>4. LoadInv'
    BY <2>1 DEF IInv, ReloadType, LoadInv, Nothing
  <2>5. NotNewer'
    BY <2>1, <2>2 DEF IInv, ReloadType, NotNewer
  <2>6. \A q \in Proc : Current(q) => Current(q)'
    BY <2>1 DEF IInv, ReloadType, Current
  <2>7. Pending => Pending'
    BY <2>1, <2>6 DEF Pending
  <2>8. Fresh => Fresh'
    BY <2>1 DEF Fresh, Fails
  <2>9. Covered'
    BY <2>1, <2>7, <2>8 DEF IInv, Covered
  <2>10. QED
    BY <2>3, <2>4, <2>5, <2>9 DEF IInv
<1>2. ASSUME NEW p \in Proc, Fingerprint(p)
      PROVE  IInv'
  BY <1>2, AsideStep DEF Fingerprint, Goto, Aside, IInv, ReloadType, Label
<1>3. ASSUME NEW p \in Proc, pc[p] = "record", seen[p] = last, Goto(p, "wait"),
             last' = seen[p], Forget(p), UNCHANGED <<src, cacheMu, cache, failed>>
      PROVE  IInv'
  <2>1. ReloadType' /\ LoadInv' /\ NotNewer'
    BY <1>3 DEF IInv, ReloadType, LoadInv, NotNewer, Goto, Forget, Nothing, Label
  <2>2. \A q \in Proc : /\ pc'[q] = "lock" <=> pc[q] = "lock"
                        /\ pc'[q] = "load" <=> pc[q] = "load"
    BY <1>3 DEF Goto, IInv, ReloadType
  <2>3. \A q \in Proc : pc[q] = "load" => (Current(q) <=> Current(q)')
    BY <1>3 DEF Current, Forget, IInv, ReloadType
  <2>4. Pending => Pending'
    BY <2>2, <2>3 DEF Pending
  <2>5. Fresh => Fresh'
    BY <1>3 DEF Fresh, Fails
  <2>6. last' = src' => last = src
    BY <1>3
  <2>7. Covered'
    BY <2>2, <2>4, <2>5, <2>6 DEF IInv, Covered
  <2>8. QED
    BY <2>1, <2>7 DEF IInv
<1>4. ASSUME NEW p \in Proc, pc[p] = "record", Goto(p, "lock"),
             last' = seen[p], Forget(p), UNCHANGED <<src, cacheMu, cache, failed>>
      PROVE  IInv'
  <2>1. ReloadType' /\ LoadInv' /\ NotNewer'
    BY <1>4 DEF IInv, ReloadType, LoadInv, NotNewer, Goto, Forget, Nothing, Label
  <2>2. Pending'
    BY <1>4 DEF Pending, Goto, IInv, ReloadType
  <2>3. QED
    BY <2>1, <2>2 DEF IInv, Covered
<1>5. CASE reloadIfChanged
  <2>1. "poller" \in Proc
    BY DEF Proc
  <2>2. QED
    BY <1>3, <1>4, <1>5, <2>1 DEF reloadIfChanged
<1>6. CASE reloadNow
  <2>1. "main" \in Proc
    BY DEF Proc
  <2>2. QED
    BY <1>4, <1>6, <2>1 DEF reloadNow
<1>7. ASSUME NEW p \in Proc, Lock(p)
      PROVE  IInv'
  <2>1. ReloadType' /\ NotNewer'
    BY <1>7 DEF Lock, Goto, IInv, ReloadType, NotNewer, Label
  <2>2. LoadInv'
    <3>1. "none" \notin Proc
      BY DEF Proc
    <3>2. QED
      BY <1>7, <3>1 DEF Lock, Goto, IInv, ReloadType, LoadInv
  <2>3. Pending'
    <3>1. seen[p] = Nothing
      BY <1>7 DEF Lock, IInv, LoadInv
    <3>2. Current(p)'
      BY <1>7, <3>1 DEF Lock, Current, Nothing
    <3>3. QED
      BY <1>7, <3>2 DEF Lock, Goto, Pending, IInv, ReloadType
  <2>4. QED
    BY <2>1, <2>2, <2>3 DEF IInv, Covered
<1>8. ASSUME NEW p \in Proc, Publish(p)
      PROVE  IInv'
  <2>1. ReloadType' /\ NotNewer'
    BY <1>8 DEF Publish, Goto, Forget, IInv, ReloadType, NotNewer, Label, Nothing
  <2>2. \A q \in Proc : q # p => pc[q] # "load" /\ pc'[q] = pc[q] /\ seen'[q] = seen[q]
    BY <1>8 DEF Publish, Goto, Forget, IInv, ReloadType, LoadInv
  <2>3. pc'[p] = "wait"
    BY <1>8 DEF Publish, Goto, IInv, ReloadType
  <2>4. LoadInv'
    BY <2>2, <2>3 DEF LoadInv, IInv, Nothing
  <2>5. CASE Current(p)
    <3>1. seen[p] = src
      BY <1>8, <2>5 DEF Publish, HasRead, Current, IInv, ReloadType
    <3>2. Fresh'
      BY <1>8, <3>1 DEF Publish, Fresh, Fails
    <3>3. QED
      BY <2>1, <2>2, <2>3, <2>4, <3>2 DEF IInv, Covered
  <2>6. CASE ~Current(p)
    <3>1. last' = last /\ src' = src
      BY <1>8 DEF Publish
    <3>2. last = src => \E q \in Proc : q # p /\ pc[q] = "lock"
      BY <1>8, <2>2, <2>6 DEF Publish, IInv, Covered, Pending
    <3>3. last' = src' => Pending'
      BY <2>2, <3>1, <3>2 DEF Pending
    <3>4. QED
      BY <2>1, <2>4, <3>3 DEF IInv, Covered
  <2>7. QED
    BY <2>5, <2>6
<1>9. CASE startInventoryPoller \/ Tick \/ StopTicking \/ Exit
  BY <1>9, AsideStep
     DEF startInventoryPoller, Tick, StopTicking, Exit, Goto, Aside, IInv,
         ReloadType, Label, Proc
<1>10. ASSUME NEW s \in {"HUP", "TERM"}, pc["main"] = "wait", HandleSignal(s),
              UNCHANGED <<src, last, seen, cacheMu, cache, failed>>
       PROVE  IInv'
  BY <1>10, AsideStep DEF HandleSignal, Goto, Aside, IInv, ReloadType, Label, Proc
<1>11. ASSUME NEW s \in {"HUP", "TERM"}, Signal(s)
       PROVE  IInv'
  <2>1. CASE Receiving
    BY <1>10, <1>11, <2>1 DEF Signal, Receiving
  <2>2. CASE ~Receiving
    BY <1>11, <2>2, AsideStep DEF Signal, Aside, IInv, ReloadType
  <2>3. QED
    BY <2>1, <2>2
<1>12. CASE ReceiveSignal
  <2>1. PICK s : s = Head(sigChan) /\ HandleSignal(s)
    BY <1>12 DEF ReceiveSignal
  <2>2. s \in {"HUP", "TERM"}
    BY <2>1 DEF HandleSignal
  <2>3. QED
    BY <1>10, <1>12, <2>1, <2>2 DEF ReceiveSignal
<1>13. ASSUME NEW f \in File, NEW x \in Content, Edit(f, x)
       PROVE  IInv'
  <2>1. /\ x > src[f] /\ src' = [src EXCEPT ![f] = x]
        /\ pc' = pc /\ seen' = seen /\ last' = last /\ cacheMu' = cacheMu
        /\ cache' = cache
    BY <1>13 DEF Edit
  <2>2. /\ src \in [File -> Nat] /\ x \in Nat
        /\ \A g \in File : src[g] <= src'[g]
    <3>1. src \in [File -> Content] /\ Content \subseteq Nat
      BY DEF IInv, ReloadType
    <3>2. src \in [File -> Nat] /\ x \in Nat
      BY <3>1
    <3>3. ASSUME NEW g \in File
          PROVE  src[g] <= src'[g]
      BY <2>1, <3>2
    <3>4. QED
      BY <3>2, <3>3
  <2>3. ReloadType' /\ LoadInv'
    BY <2>1 DEF IInv, ReloadType, LoadInv, Nothing
  <2>4. NotNewer'
    <3>1. ASSUME NEW g \in File, NEW y \in Content, y <= src[g]
          PROVE  y <= src'[g]
      <4>1. y \in Nat /\ src[g] \in Nat /\ src[g] <= src'[g]
        BY <2>2
      <4>2. src'[g] \in Nat
        BY <2>1, <2>2
      <4>3. QED
        BY <3>1, <4>1, <4>2
    <3>2. QED
      <4>1. \A g \in File : last[g] \in Content \cup {Unread}
        BY DEF IInv, ReloadType
      <4>2. \A p \in Proc, g \in File : seen[p][g] \in Content \cup {Unread}
        BY DEF IInv, ReloadType
      <4>3. QED
        BY <2>1, <3>1, <4>1, <4>2 DEF IInv, NotNewer
  <2>5. last' # src'
    <3>1. src'[f] = x /\ ~(x <= src[f])
      BY <2>1, <2>2 DEF IInv, ReloadType
    <3>2. last[f] # x
      BY <3>1 DEF IInv, NotNewer
    <3>3. QED
      BY <2>1, <3>1, <3>2
  <2>6. QED
    BY <2>3, <2>4, <2>5 DEF IInv, Covered
<1>14. CASE UNCHANGED vars
  BY <1>14, AsideStep DEF vars, Aside, IInv, ReloadType
<1>15. QED
  BY <1>1, <1>2, <1>5, <1>6, <1>7, <1>8, <1>9, <1>11, <1>12, <1>13, <1>14
     DEF Next, Reload

\* If files only ever get new contents, then whenever no load is waiting or under
\* way and the next check of the poller would find its fingerprint unchanged, the
\* inventory in use is the source as it is (or the failure to load it is on the
\* health answer), whatever SIGHUP and the poller did to each other.
THEOREM SettledIsFreshAlways ==
    ASSUME ~Reverts
    PROVE  Spec => []SettledIsFresh
<1>1. IInv /\ [Next]_vars => IInv'
  BY StepIInv
<1>2. IInv => SettledIsFresh
  BY DEF IInv, Covered, Pending, SettledIsFresh
<1>3. QED
  BY InitIInv, <1>1, <1>2, PTL DEF Spec
=============================================================================
