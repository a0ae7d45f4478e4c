---------------------------- MODULE MCReconciler ----------------------------
(* Instances of Reconciler for TLC: two clusters, and the agent of one VM. *)
EXTENDS Reconciler, TLC

CONSTANTS c, d, v, w, a, f, g

MCTargets      == <<c, d>>
MCFingerprints == c :> {f} @@ d :> {g}

\* Two pools that differ in case, one more, a tag and one that is no path segment.
MCSegment == "Web" :> "web" @@ "web" :> "web" @@ "db" :> "db"
             @@ "role.x" :> "x" @@ "role.+" :> Invalid

InWeb    == [template |-> FALSE, pool |-> "web", tags |-> {}]
InDB     == [template |-> FALSE, pool |-> "db", tags |-> {"role.x", "role.+"}]
OtherWeb == [template |-> FALSE, pool |-> "Web", tags |-> {}]
Template == [template |-> TRUE, pool |-> "Web", tags |-> {}]

MCGuest == {InWeb, InDB, OtherWeb, Template}

\* VM v of cluster c has still to be created, or cluster d has no guest.
MCInit == {c :> (v :> NoGuest @@ w :> InWeb) @@ d :> (v :> NoGuest @@ w :> InWeb),
           c :> (v :> InWeb @@ w :> InWeb) @@ d :> (v :> NoGuest @@ w :> NoGuest)}

\* An alias of w that was edited by hand.
MCEntries == {[alias |-> [cluster |-> c, path |-> <<"vm", w>>, fp |-> f, vm |-> w],
               gen |-> 0, default |-> FALSE]}

MCHome    == a :> c
MCAgentVM == a :> v

\* Guest v of cluster c; w is affected when their pools collide.
MCChanging == {<<c, v>>}

\* An alias that v wants later, and the edited one.
MCHand == {[cluster |-> c, path |-> <<"pool", "db">>, fp |-> f, vm |-> v]}
          \cup {e.alias : e \in MCEntries}
=============================================================================
