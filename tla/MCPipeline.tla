----------------------------- MODULE MCPipeline -----------------------------
(* Two scale factors: one that is cached and another one.                    *)
EXTENDS Pipeline, TLC
CONSTANTS s1, s2

MCScales   == {s1, s2}
MCSymmetry == Permutations(MCScales)

(* The two maximal tolerated combinations, and the two faults left alone.    *)
MCFaults == {{"clone", "kill"}, {"clone", "make"}, {"torn"}, {"build"}}
NoFaults == {{}}
=============================================================================
