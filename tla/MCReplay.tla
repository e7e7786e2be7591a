------------------------------- MODULE MCReplay -------------------------------
(***************************************************************************)
(* An instance of Replay: a root r, a node c made from r, and a node d.    *)
(***************************************************************************)
EXTENDS Replay, TLC

CONSTANTS r, c, d,  \* nodes
          t, quiet, \* transforms; quiet writes no out.bin
          x, y      \* parameters

\* Of all that could be written, these outputs are somebody's id.
MCApply(s, p, l) ==
    CASE s = quiet -> Absent
      [] s = t /\ p = x /\ l = <<r>> -> c
      [] s = t /\ p = x /\ l = <<r, c>> -> d
      [] s \in Junk /\ p = y /\ l = <<r>> -> c
      [] s = t /\ p = y /\ l = <<Partial>> -> c
      [] OTHER -> CHOOSE b \in Junk \ {Partial} : TRUE

Roots(n) == [parents |-> <<>>, transform |-> t, params |-> x, env |-> Absent]
Derives(l, s, p) == [parents |-> l, transform |-> s, params |-> p, env |-> Absent]

Nodes(mc, md) == [n \in Node |-> CASE n = r -> Roots(n) [] n = c -> mc [] n = d -> md]

\* Every object intact but that of g, which holds b.
Intact == [g \in Digest |-> g]
But(g, b) == [Intact EXCEPT ![g] = b]
Damaged == CHOOSE b \in Junk \ {Partial} : TRUE

\* Two honest nodes, with one input missing or damaged, or none; d with the
\* parents in the wrong order and an environment that is stored or not; c by a
\* transform that writes nothing beside a d which in truth yields c; c with
\* parameters for which only a damaged t, or t from a torn r, yields it.
MCLedgers ==
    LET honest == Nodes(Derives(<<r>>, t, x), Derives(<<r, c>>, t, x))
        wrong  == Nodes(Derives(<<r>>, t, x), [Derives(<<c, r>>, t, x) EXCEPT !.env = quiet])
        silent == Nodes(Derives(<<r>>, quiet, x), Derives(<<r>>, t, x))
        forged == Nodes(Derives(<<r>>, t, y), Derives(<<r, c>>, t, x))
    IN  [man : {honest}, obj : {Intact, But(c, Damaged)} \cup {But(g, Absent) : g \in {r, c, t}}]
        \cup [man : {wrong}, obj : {Intact, But(quiet, Absent)}]
        \cup [man : {silent}, obj : {Intact}]
        \cup [man : {forged}, obj : {Intact, But(t, Damaged)}]

Replays == Permutations(Proc)
MCParentLists == {<<>>, <<r>>, <<r, c>>, <<c, r>>}
=============================================================================
