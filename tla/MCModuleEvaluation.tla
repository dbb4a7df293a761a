-------------------------- MODULE MCModuleEvaluation --------------------------
(* Constants of ModuleEvaluation for TLC: every graph of three modules, one of *)
(* those that differ by names only, or the graph a -> b -> c alone.            *)
EXTENDS ModuleEvaluation, TLC

CONSTANTS a, b, c

MCModules == {a, b, c}

\* Request lists without repetition: the parser keeps one entry per specifier.
Lists == {s \in UNION {[1..n -> MCModules] : n \in 0..2} :
             \A i, j \in DOMAIN s : s[i] = s[j] => i = j}

Renamed(g, p) ==
    [m \in MCModules |->
        LET old == CHOOSE o \in MCModules : p[o] = m
        IN  [i \in DOMAIN g[old] |-> p[g[old][i]]]]
SameGraph(g) == {Renamed(g, p) : p \in Permutations(MCModules)}
MCGraphs == {CHOOSE h \in SameGraph(g) : TRUE : g \in [MCModules -> Lists]}

MCChain == {[m \in MCModules |-> IF m = a THEN <<b>> ELSE IF m = b THEN <<c>> ELSE <<>>]}
=============================================================================
