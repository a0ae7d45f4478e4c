------------------------- MODULE BridgeBinderProofs -------------------------
(***************************************************************************)
(* Proofs about the bridge binder, for any number of guests, MACs, edits   *)
(* and incidents.                                                          *)
(***************************************************************************)
EXTENDS BridgeBinder, TLAPS

\* What is rendered from files that were all read is a table.
LEMMA RenderIsTable ==
    ASSUME NEW s \in [Guest -> Conf]
    PROVE  Render(s) \in Tables
<1>1. OnBridge(s) \subseteq Guest
  BY DEF OnBridge
<1>2. Render(s) \in [OnBridge(s) -> MAC \cup {NoMAC}]
  BY DEF Render, OnBridge, Conf
<1> QED
  BY <1>1, <1>2 DEF Tables

\* Files that were all read are configurations.
LEMMA AllRead ==
    ASSUME TypeOK, HasRead
    PROVE  got \in [Guest -> Conf]
BY DEF TypeOK, HasRead

\* The values that stand for no table are none.
LEMMA NotTables ==
    /\ Missing \notin Tables /\ Altered \notin Tables /\ Never \notin Tables
    /\ Missing # Never /\ Altered # Never /\ Missing # Altered
BY BinderAssumption

LEMMA NothingType == Nothing \in [Guest -> Conf \cup {Unread}]
BY DEF Nothing

LEMMA IncidentType ==
    ASSUME TypeOK, Incident
    PROVE  harm' \in 0..MaxHarm
BY BinderAssumption DEF TypeOK, Incident

\* Where the process is, as far as its fields depend on it.
Control ==
    /\ pc \in {"list", "apply", "verify"} => want # Never
    /\ pc \in {"glob", "read"} => fp # Never
    /\ changed => pc \in {"list", "apply", "verify"}
    /\ pc = "wait" => ~first
    /\ pc # "off" /\ ~first => seen # Never
    /\ pc \in {"glob", "list", "apply", "verify", "wait", "off"} => got = Nothing

TypeInv == TypeOK /\ Control

LEMMA TypeInvInit == Init => TypeInv
<1> SUFFICES ASSUME Init PROVE TypeInv
  OBVIOUS
<1>1. conf \in [Guest -> Conf]
  BY DEF Init
<1>0. 0 \in 0..MaxEdits /\ 0 \in 0..MaxHarm
  BY BinderAssumption
<1>2. TypeOK
  BY <1>0, <1>1, NothingType DEF Init, TypeOK
<1>3. Control
  BY DEF Init, Control
<1> QED
  BY <1>2, <1>3 DEF TypeInv

LEMMA TypeInvNext == TypeInv /\ [Next]_vars => TypeInv'
<1> SUFFICES ASSUME TypeInv, [Next]_vars PROVE TypeInv'
  OBVIOUS
<1> USE NotTables, NothingType, IncidentType
<1>1. CASE Start
  BY <1>1 DEF TypeInv, TypeOK, Control, Start
<1>2. CASE Tick
  BY <1>2 DEF TypeInv, TypeOK, Control, Tick, tick, kept
<1>3. CASE Stop
  BY <1>3 DEF TypeInv, TypeOK, Control, Stop
<1>4. ASSUME NEW g \in Guest, AddFile(g) PROVE TypeInv'
  BY <1>4 DEF TypeInv, TypeOK, Control, AddFile, kept
<1>5. CASE SourceFingerprint
  <2>1. got \in [Guest -> Conf]
    BY <1>5, AllRead DEF TypeInv, SourceFingerprint
  <2>a. TypeOK'
    BY <1>5, <2>1 DEF TypeInv, TypeOK, SourceFingerprint, EndTick
  <2>b. Control'
    BY <1>5, <2>1, BinderAssumption DEF TypeInv, TypeOK, Control, SourceFingerprint, EndTick
  <2> QED
    BY <2>a, <2>b DEF TypeInv
<1>6. CASE Glob
  BY <1>6 DEF TypeInv, TypeOK, Control, Glob, kept
<1>7. ASSUME NEW g \in Guest, ReadNICs(g) PROVE TypeInv'
  BY <1>7 DEF TypeInv, TypeOK, Control, ReadNICs, kept
<1>8. ASSUME NEW g \in Guest, ReadFails(g) PROVE TypeInv'
  <2>a. TypeOK'
    BY <1>8 DEF TypeInv, TypeOK, ReadFails, Rendered, EndTick
  <2>b. Control'
    BY <1>8 DEF TypeInv, TypeOK, Control, ReadFails, Rendered, EndTick
  <2> QED
    BY <2>a, <2>b DEF TypeInv
<1>9. CASE RenderNICs
  <2>1. Render(got) \in Tables
    BY <1>9, AllRead, RenderIsTable DEF TypeInv, RenderNICs
  <2>a. TypeOK'
    BY <1>9, <2>1 DEF TypeInv, TypeOK, RenderNICs, Rendered, EndTick
  <2>b. Control'
    BY <1>9, <2>1 DEF TypeInv, TypeOK, Control, RenderNICs, Rendered, EndTick
  <2> QED
    BY <2>a, <2>b DEF TypeInv
<1>10. CASE List
  BY <1>10 DEF TypeInv, TypeOK, Control, List, EndTick, tick, kept
<1>11. CASE ListFails
  <2>a. TypeOK'
    BY <1>11 DEF TypeInv, TypeOK, ListFails, EndTick, tick, kept
  <2>b. Control'
    BY <1>11 DEF TypeInv, TypeOK, Control, ListFails, EndTick, tick, kept
  <2> QED
    BY <2>a, <2>b DEF TypeInv
<1>12. CASE Apply
  BY <1>12 DEF TypeInv, TypeOK, Control, Apply, tick
<1>13. CASE ApplyFails
  BY <1>13 DEF TypeInv, TypeOK, Control, ApplyFails, EndTick
<1>14. CASE Verify
  BY <1>14 DEF TypeInv, TypeOK, Control, Verify, EndTick
<1>15. ASSUME NEW g \in Guest, NEW c \in Conf, Edit(g, c) PROVE TypeInv'
  BY <1>15, BinderAssumption DEF TypeInv, TypeOK, Control, Edit, tick, kept
<1>16. ASSUME NEW t \in {Missing, Altered}, ChangeTable(t) PROVE TypeInv'
  BY <1>16 DEF TypeInv, TypeOK, Control, ChangeTable, tick, kept
<1>17. CASE UNCHANGED vars
  BY <1>17 DEF TypeInv, TypeOK, Control, vars, tick, kept
<1> QED
  BY <1>1, <1>2, <1>3, <1>4, <1>5, <1>6, <1>7, <1>8, <1>9, <1>10, <1>11,
     <1>12, <1>13, <1>14, <1>15, <1>16, <1>17 DEF Next, Step

\* Binder's fields, the table and the files keep their types.
THEOREM BinderTypeCorrect == Spec => []TypeOK
<1>1. TypeInv => TypeOK
  BY DEF TypeInv
<1> QED
  BY <1>1, TypeInvInit, TypeInvNext, PTL DEF Spec

\* Run: a process that waits for its ticker has applied a table.
THEOREM RunsWithTable == Spec => []NeverRunsWithoutTable
<1>1. TypeInv => NeverRunsWithoutTable
  BY DEF TypeInv, Control, NeverRunsWithoutTable
<1> QED
  BY <1>1, TypeInvInit, TypeInvNext, PTL DEF Spec
-----------------------------------------------------------------------------
(***************************************************************************)
(* The inductive invariant behind the table's being right.  Without a      *)
(* revert a file only gets newer, so a fingerprint that still fits was     *)
(* taken of the files that were read after it.                             *)
(***************************************************************************)
\* x is the content of the file of g, or an older one.
NotNewer(x, g) == x = conf[g] \/ x.n < conf[g].n

History ==
    /\ \A g \in Guest : conf[g].n <= edits
    /\ fp # Never => \A g \in Guest : NotNewer(fp[g], g)
    /\ \A g \in Guest : got[g] # Unread => NotNewer(got[g], g)

\* What GuestNICs has read is what is there, or else the fingerprint is out of
\* date; and so is it when a file that was listed is gone.
ReadFits ==
    pc = "read" =>
        \A g \in Guest : fp[g] = conf[g] =>
            /\ got[g] # Unread => got[g] = conf[g]
            /\ got[g] = Unread => conf[g].st # "absent"

\* With an up-to-date fingerprint, what is wanted is what the files say.
WantFits ==
    pc \notin {"glob", "read"} /\ fp = conf /\ Readable(conf) => want = Render(conf)

\* What the last successful apply left is what is wanted, unless there is
\* something to apply.
SeenFits ==
    /\ pc = "verify" => table \in {want, Missing, Altered}
    /\ seen \in Tables /\ ~failing /\ ~changed /\ pc # "verify" => seen = want

QuietInv == TypeInv /\ History /\ ReadFits /\ WantFits /\ SeenFits

\* Two sets of files that agree on every guest render alike.
LEMMA SameFiles ==
    ASSUME NEW s \in [Guest -> Conf], NEW t \in [Guest -> Conf],
           \A g \in Guest : s[g] = t[g]
    PROVE  s = t
OBVIOUS

LEMMA QuietInvInit == Init => QuietInv
<1> SUFFICES ASSUME Init PROVE QuietInv
  OBVIOUS
<1>1. TypeInv
  BY TypeInvInit
<1>2. History
  BY DEF Init, History, Nothing
<1>3. ReadFits
  BY DEF Init, ReadFits
<1>4. WantFits
  BY <1>1, BinderAssumption DEF Init, WantFits, TypeInv, TypeOK
<1>5. SeenFits
  BY NotTables DEF Init, SeenFits
<1> QED
  BY <1>1, <1>2, <1>3, <1>4, <1>5 DEF QuietInv

LEMMA QuietInvNext ==
    ASSUME ~Reverts, QuietInv, [Next]_vars
    PROVE  QuietInv'
<1> USE DEF QuietInv
<1>0. TypeInv'
  BY TypeInvNext
<1>c. \A c \in Conf : c.n \in Nat
  BY BinderAssumption DEF Conf
<1>n. Nothing = [g \in Guest |-> Unread]
  BY DEF Nothing
<1>1. CASE Start
  BY <1>0, <1>1, NotTables, BinderAssumption
     DEF TypeInv, TypeOK, Start, History, NotNewer, ReadFits, WantFits, SeenFits, Readable, Render, OnBridge
<1>2. CASE Tick
  BY <1>0, <1>2 DEF Tick, tick, kept, History, NotNewer, ReadFits, WantFits, SeenFits, Readable, Render, OnBridge
<1>3. CASE Stop
  BY <1>0, <1>3, <1>n, NotTables, BinderAssumption
     DEF TypeInv, TypeOK, Stop, History, NotNewer, ReadFits, WantFits, SeenFits, Readable, Render, OnBridge
<1>4. ASSUME NEW g \in Guest, AddFile(g) PROVE QuietInv'
  BY <1>0, <1>4 DEF TypeInv, TypeOK, AddFile, kept, History, NotNewer, ReadFits, WantFits, SeenFits,
                    Readable, Render, OnBridge
<1>5. CASE SourceFingerprint
  <2>0. got \in [Guest -> Conf]
    BY <1>5, AllRead DEF TypeInv, SourceFingerprint
  <2>1. History'
    BY <1>5, <1>n, <2>0 DEF TypeInv, TypeOK, SourceFingerprint, HasRead, EndTick, History, NotNewer
  <2>2. ReadFits' /\ SeenFits'
    BY <1>5 DEF TypeInv, Control, SourceFingerprint, EndTick, ReadFits, SeenFits
  <2>3. WantFits'
    BY <1>5 DEF SourceFingerprint, EndTick, WantFits, Readable, Render, OnBridge
  <2> QED
    BY <1>0, <2>1, <2>2, <2>3
<1>6. CASE Glob
  <2>1. \A g \in Guest : got'[g] = IF conf[g].st = "absent" THEN conf[g] ELSE Unread
    BY <1>6 DEF Glob
  <2>2. History'
    BY <1>6, <2>1 DEF Glob, kept, History, NotNewer
  <2>3. ReadFits'
    BY <1>6, <2>1, BinderAssumption DEF TypeInv, TypeOK, Glob, kept, ReadFits
  <2>4. WantFits' /\ SeenFits'
    BY <1>6 DEF TypeInv, Control, Glob, kept, WantFits, SeenFits
  <2> QED
    BY <1>0, <2>2, <2>3, <2>4
<1>7. ASSUME NEW g \in Guest, ReadNICs(g) PROVE QuietInv'
  BY <1>0, <1>7 DEF TypeInv, TypeOK, ReadNICs, kept, History, NotNewer, ReadFits, WantFits, SeenFits,
                    Readable, Render, OnBridge
<1>8. ASSUME NEW g \in Guest, ReadFails(g) PROVE QuietInv'
  <2>1. History'
    BY <1>8, <1>n DEF TypeInv, TypeOK, ReadFails, Rendered, EndTick, History, NotNewer
  <2>2. ReadFits' /\ SeenFits'
    BY <1>8 DEF TypeInv, Control, ReadFails, Rendered, EndTick, ReadFits, SeenFits
  <2>3. WantFits'
    BY <1>8 DEF ReadFails, Rendered, EndTick, WantFits, ReadFits, Readable
  <2> QED
    BY <1>0, <2>1, <2>2, <2>3
<1>9. CASE RenderNICs
  <2>0. got \in [Guest -> Conf]
    BY <1>9, AllRead DEF TypeInv, RenderNICs
  <2>1. History'
    BY <1>9, <1>n DEF TypeInv, TypeOK, RenderNICs, Rendered, EndTick, History, NotNewer
  <2>2. ReadFits' /\ SeenFits'
    <3>1. Render(got) # Never
      BY <2>0, RenderIsTable, NotTables
    <3> QED
      BY <1>9, <3>1 DEF TypeInv, Control, RenderNICs, Rendered, ReadFits, SeenFits
  <2>3. ASSUME fp = conf PROVE got = conf
    <3>1. \A g \in Guest : got[g] = conf[g]
      BY <1>9, <2>3 DEF RenderNICs, HasRead, ReadFits
    <3> QED
      BY <2>0, <3>1, SameFiles DEF TypeInv, TypeOK
  <2>4. WantFits'
    BY <1>9, <2>3 DEF RenderNICs, Rendered, WantFits, Readable, Render, OnBridge
  <2> QED
    BY <1>0, <2>1, <2>2, <2>4
<1>10. CASE List \/ ListFails
  <2>1. History' /\ ReadFits'
    BY <1>10, <1>n DEF TypeInv, TypeOK, List, ListFails, EndTick, tick, kept, History, NotNewer, ReadFits
  <2>2. SeenFits'
    BY <1>10 DEF TypeInv, Control, List, ListFails, EndTick, tick, kept, SeenFits
  <2>3. WantFits'
    BY <1>10 DEF List, ListFails, EndTick, tick, kept, WantFits, Readable, Render, OnBridge
  <2> QED
    BY <1>0, <2>1, <2>2, <2>3
<1>11. CASE Apply
  BY <1>0, <1>11 DEF Apply, tick, History, NotNewer, ReadFits, WantFits, SeenFits, Readable, Render, OnBridge
<1>12. CASE ApplyFails \/ Verify
  <2>1. History' /\ ReadFits'
    BY <1>12, <1>n DEF TypeInv, TypeOK, ApplyFails, Verify, EndTick, History, NotNewer, ReadFits
  <2>2. SeenFits'
    BY <1>12, NotTables DEF TypeInv, Control, ApplyFails, Verify, EndTick, SeenFits
  <2>3. WantFits'
    BY <1>12 DEF ApplyFails, Verify, EndTick, WantFits, Readable, Render, OnBridge
  <2> QED
    BY <1>0, <2>1, <2>2, <2>3
<1>13. ASSUME NEW g \in Guest, NEW c \in Conf, Edit(g, c) PROVE QuietInv'
  <2>1. c.n > conf[g].n /\ c.n = edits + 1 /\ edits' = edits + 1
    BY <1>13, <1>c DEF TypeInv, TypeOK, Edit, History
  <2>2. conf'[g] = c /\ \A h \in Guest \ {g} : conf'[h] = conf[h]
    BY <1>13 DEF TypeInv, TypeOK, Edit
  <2>3. \A h \in Guest : conf'[h].n <= edits'
    BY <2>1, <2>2, <1>c DEF TypeInv, TypeOK, History
  <2>4. \A h \in Guest, x \in Conf : NotNewer(x, h) => NotNewer(x, h)' /\ (h = g => x # conf'[g])
    BY <2>1, <2>2, <1>c DEF TypeInv, TypeOK, NotNewer
  <2>5. \A h \in Guest : fp # Never => fp[h] \in Conf
    BY DEF TypeInv, TypeOK
  <2>6. History'
    BY <1>13, <2>3, <2>4, <2>5 DEF TypeInv, TypeOK, Edit, tick, kept, History, NotNewer
  <2>7. ReadFits'
    BY <1>13, <2>2, <2>4, <2>5 DEF TypeInv, Control, Edit, tick, kept, History, ReadFits
  <2>8. WantFits'
    <3>1. fp # Never => fp[g] # conf'[g]
      BY <2>4, <2>5 DEF History
    <3>2. fp' # conf'
      BY <1>0, <1>13, <3>1, BinderAssumption DEF TypeInv, TypeOK, Edit, kept
    <3> QED
      BY <3>2 DEF WantFits
  <2>9. SeenFits'
    BY <1>13 DEF Edit, tick, kept, SeenFits
  <2> QED
    BY <1>0, <2>6, <2>7, <2>8, <2>9
<1>14. ASSUME NEW t \in {Missing, Altered}, ChangeTable(t) PROVE QuietInv'
  BY <1>0, <1>14 DEF ChangeTable, tick, kept, History, NotNewer, ReadFits, WantFits, SeenFits,
                     Readable, Render, OnBridge
<1>15. CASE UNCHANGED vars
  BY <1>0, <1>15 DEF vars, tick, kept, History, NotNewer, ReadFits, WantFits, SeenFits,
                     Readable, Render, OnBridge
<1> QED
  BY <1>1, <1>2, <1>3, <1>4, <1>5, <1>6, <1>7, <1>8, <1>9, <1>10, <1>11, <1>12, <1>13,
     <1>14, <1>15 DEF Next, Step

\* While no file gets an earlier content back, a binder that would do nothing at
\* its next check has the table its files ask for.
THEOREM QuietMeansBound == ASSUME ~Reverts PROVE Spec => []QuietIsBound
<1>1. QuietInv => QuietIsBound
  BY DEF QuietInv, TypeInv, TypeOK, Control, WantFits, SeenFits, QuietIsBound, Misled
<1>2. QuietInv /\ [Next]_vars => QuietInv'
  BY QuietInvNext
<1> QED
  BY <1>1, <1>2, QuietInvInit, PTL DEF Spec

-----------------------------------------------------------------------------
(***************************************************************************)
(* A guest whose file nobody touched: everything read, wanted or applied   *)
(* has its rule.                                                           *)
(***************************************************************************)
HasRule(t, g) == g \in DOMAIN t /\ t[g] = conf[g].mac

Untouched == {g \in Guest : conf[g].n = 0}

RuleInv ==
    /\ TypeInv
    /\ \A g \in Untouched : got[g] \in {Unread, conf[g]}
    /\ \A g \in Untouched \cap OnBridge(conf) :
         /\ want # Never => HasRule(want, g)
         /\ table \in Tables => HasRule(table, g)

LEMMA RuleInvInit == Init => RuleInv
<1> SUFFICES ASSUME Init PROVE RuleInv
  OBVIOUS
<1>1. TypeInv
  BY TypeInvInit
<1> QED
  BY <1>1, NotTables DEF Init, RuleInv, Nothing, Untouched

LEMMA RuleInvNext ==
    ASSUME ~Reverts, RuleInv, [Next]_vars
    PROVE  RuleInv'
<1> USE DEF RuleInv
<1>0. TypeInv'
  BY TypeInvNext
<1>n. Nothing = [g \in Guest |-> Unread]
  BY DEF Nothing
<1>1. CASE Start \/ Tick \/ Stop
  BY <1>0, <1>1, <1>n, NotTables
     DEF TypeInv, Control, Start, Tick, Stop, tick, kept, HasRule, Untouched, OnBridge
<1>2. ASSUME NEW g \in Guest, AddFile(g) \/ ReadNICs(g) \/ ReadFails(g) PROVE RuleInv'
  BY <1>0, <1>2, <1>n DEF TypeInv, TypeOK, AddFile, ReadNICs, ReadFails, Rendered, EndTick, kept,
                          HasRule, Untouched, OnBridge
<1>3. CASE SourceFingerprint \/ Glob
  BY <1>0, <1>3, <1>n DEF TypeInv, TypeOK, SourceFingerprint, Glob, EndTick, kept,
                          HasRule, Untouched, OnBridge
<1>4. CASE RenderNICs
  <2>1. want' = Render(got) /\ got' = Nothing /\ UNCHANGED <<conf, table>>
    BY <1>4 DEF RenderNICs, Rendered, EndTick
  <2>2. \A g \in Untouched : got[g] = conf[g]
    BY <1>4 DEF RenderNICs, HasRead, Untouched
  <2>3. \A g \in Untouched \cap OnBridge(conf) : HasRule(Render(got), g)
    BY <2>2 DEF HasRule, Render, OnBridge
  <2> QED
    BY <1>0, <1>n, <2>1, <2>3 DEF HasRule, Untouched, OnBridge
<1>5. CASE List \/ ListFails \/ Apply \/ ApplyFails \/ Verify
  BY <1>0, <1>5, <1>n DEF TypeInv, Control, List, ListFails, Apply, ApplyFails, Verify, EndTick,
                          tick, kept, HasRule, Untouched, OnBridge
<1>6. ASSUME NEW g \in Guest, NEW c \in Conf, Edit(g, c) PROVE RuleInv'
  <2>1. conf'[g].n # 0 /\ \A h \in Guest \ {g} : conf'[h] = conf[h]
    BY <1>6, BinderAssumption DEF TypeInv, TypeOK, Edit
  <2> QED
    BY <1>0, <1>6, <2>1 DEF Edit, tick, kept, HasRule, Untouched, OnBridge
<1>7. ASSUME NEW t \in {Missing, Altered}, ChangeTable(t) PROVE RuleInv'
  BY <1>0, <1>7, NotTables DEF ChangeTable, tick, kept, HasRule, Untouched, OnBridge
<1>8. CASE UNCHANGED vars
  BY <1>0, <1>8 DEF vars, tick, kept, HasRule, Untouched, OnBridge
<1> QED
  BY <1>1, <1>2, <1>3, <1>4, <1>5, <1>6, <1>7, <1>8 DEF Next, Step

\* Whatever is edited, unreadable, failing or restarted around it, the port of a
\* guest whose own file is untouched keeps its rule in every applied table.
THEOREM UntouchedKeepRule == ASSUME ~Reverts PROVE Spec => []UntouchedStaysBound
<1>1. RuleInv => UntouchedStaysBound
  BY DEF RuleInv, HasRule, Untouched, UntouchedStaysBound, OnBridge
<1>2. RuleInv /\ [Next]_vars => RuleInv'
  BY RuleInvNext
<1> QED
  BY <1>1, <1>2, RuleInvInit, PTL DEF Spec
=============================================================================
