----------------------------- MODULE MCOffpeak -----------------------------
(***************************************************************************)
(* TLC instance of OffpeakRoute: riders between three stations.            *)
(***************************************************************************)
EXTENDS OffpeakRoute, TLC

CONSTANTS p1, p2, a, b, c, r1, r2, w1, g1, g2

MCFrom == p1 :> a @@ p2 :> b
MCTo   == p1 :> b @@ p2 :> c

\* Routes and position threads are interchangeable.
Alike == Permutations({r1, r2}) \cup Permutations({g1, g2})

\* Two requests, reports or scans at a time.
Busy == Cardinality({t \in Thread : ~At(t, "idle")})
        + Cardinality({p \in Rider : scan[p] # Unscanned})

\* The second route starts when nothing is pending about the first and all
\* went as planned there.
Second == \A r \in Route : route[r].state # "none"
Settled == \A r \in Route : Closed(r) =>
  (\A x \in overdue : x[1] # r) /\ (\A p \in Rider : scan[p].r # r)

\* Nothing is claimed once a handler was overtaken, and it stays so.
Small == /\ ~overtaken /\ Busy <= 2
         /\ Second => Settled /\ astray = {} /\ outdated = {}
=============================================================================
