---------------------------- MODULE Exploration ----------------------------
(***************************************************************************)
(* The bounded exploration of a component given as a function from a state *)
(* to the states that may come next, for facts TLC evaluates as            *)
(* assumptions.                                                            *)
(***************************************************************************)
EXTENDS Naturals

RECURSIVE Explored(_, _, _, _)

\* The pairs of a state and a next one met within n steps of the frontier,
\* without going on from the states already seen.
Explored(After(_), seen, frontier, n) ==
  IF n = 0 \/ frontier = {} THEN {}
  ELSE LET pairs   == UNION {{<<s, t>> : t \in After(s)} : s \in frontier}
           visited == seen \cup frontier
       IN  pairs \cup Explored(After, visited, {p[2] : p \in pairs} \ visited, n - 1)

StepsWithin(n, init, After(_)) == Explored(After, {}, {init}, n)
=============================================================================
