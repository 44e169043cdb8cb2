---------------------------- MODULE MCPodRuntime ----------------------------
\* Small instances of PodRuntime.
EXTENDS PodRuntime

CONSTANTS a1, a2, b1

\* Two files of one variant, and one of another.
ByName == [f \in Files |-> IF f = b1 THEN "b" ELSE "a"]
=============================================================================
