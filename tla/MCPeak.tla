------------------------------- MODULE MCPeak -------------------------------
(***************************************************************************)
(* TLC instance of PeakRoute: a line of two stations, three routes: one    *)
(* ends, and two may be opened after it.                                   *)
(***************************************************************************)
EXTENDS PeakRoute, TLC

CONSTANTS r1, r2, g1, g2, a1, a2

From == r1 :> 1 @@ r2 :> 2
To   == r1 :> 2 @@ r2 :> 1

\* Reports are alike, and so are the app's requests.
Alike == Permutations({g1, g2}) \cup Permutations({a1, a2})

\* At most two requests are under way, only the first route records stations,
\* the third opens while nobody has boarded, and one station at most is recorded
\* once it is too late to start or to renew.  After a crash lost a count, or a
\* history flag excused a claim, fewer states are explored.
Small ==
  /\ Cardinality({t \in Thread : task[t] # Idle}) <= 2
  /\ \A r \in Route \ {1} : rows[r] = <<>>
  /\ route[3] # "none" => \A p \in Rider : order[p].r = NoRoute
  /\ ~crossed \/ (mixed = {} /\ shut = {} /\ lost = {} /\ Len(rows[1]) <= 1)
  /\ mixed = {} \/ (Len(rows[1]) <= 2 /\ shut = {} /\ route[3] = "none")
  /\ shut = {} \/ Len(rows[1]) <= 1
  /\ lost = {} \/ (mixed = {} /\ shut = {} /\ route[3] = "none")
=============================================================================
