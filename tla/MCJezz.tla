-------------------------------- MODULE MCJezz --------------------------------
(***************************************************************************)
(* Two rows, one of them all but one site taken by an obstacle, and three  *)
(* cells that together fill the sites or not, by the width of one.         *)
(***************************************************************************)
EXTENDS Jezz, TLC

CONSTANTS a, b, c, o, r1, r2, s1, s2

MCWidths == (a :> {1, 2}) @@ (b :> {1}) @@ (c :> {1})
MCId == (o :> 0) @@ (a :> 1) @@ (b :> 2) @@ (c :> 3)
MCBlock == o :> [row |-> r2, x |-> 1, w |-> 2]
MCFiller == (r1 :> s1) @@ (r2 :> s2)
\* Left of the row, within it (in one row the left end of the obstacle), and
\* right of it, past the obstacle.
MCTargets == {-1, 1, Sites}

\* Which of the whitespace nodes stands at a place makes no difference: states
\* are told apart by the whitespaces' places.
Label(n) == IF n \in Spaces THEN IF row[n] = None THEN "free" ELSE <<row[n], x[n]>>
            ELSE n
Fields(n) == <<Label(n), Label(prev[n]), Label(next[n]), x[n], w[n], row[n]>>

View ==
  <<{Fields(n) : n \in {m \in Nodes : row[m] # None}}, [k \in Cells |-> w[k]],
    Label(ref), Label(at), node, dir, over, lack, toRight, call, created, stored>>
=============================================================================
