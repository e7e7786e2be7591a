-------------------------- MODULE MCVerifyReachable --------------------------
(***************************************************************************)
(* Cases of VerifyReachable: small stores that others add to, with every   *)
(* parent list of at most two ids, and larger ones that do not change.     *)
(***************************************************************************)
EXTENDS VerifyReachable

CONSTANTS r, n1, n2, t1

\* Of two nodes: no parents, one, the node itself, both in either order, the
\* same one twice.
ShortLists == UNION {[1..k -> {r, n1}] : k \in 0..2}

\* Of three nodes: chains, cycles, self-loops and one fork.
ChainsAndForks == {<<>>, <<r>>, <<n1>>, <<n2>>, <<n1, n2>>, <<n2, n1>>}

Lists == ShortLists \cup ChainsAndForks

MCReproduces(n, m) == m.parents[1] # r

Growing == [deny |-> FALSE, replay |-> FALSE, busy |-> TRUE, race |-> FALSE,
            ids |-> {r, n1}, lists |-> ShortLists, damaged |-> {}]

MCCases ==
    {Growing,
     [Growing EXCEPT !.replay = TRUE, !.damaged = {n1}],
     [Growing EXCEPT !.replay = TRUE, !.damaged = {n1}, !.race = TRUE],
     [Growing EXCEPT !.deny = TRUE, !.busy = FALSE,
                     !.ids = {r, n1, n2}, !.lists = ChainsAndForks],
     [Growing EXCEPT !.deny = TRUE, !.replay = TRUE, !.busy = FALSE,
                     !.damaged = {r, n1, t1}]}
=============================================================================
