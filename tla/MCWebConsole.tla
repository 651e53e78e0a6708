----------------------------- MODULE MCWebConsole -----------------------------
EXTENDS WebConsole, TLC

CONSTANTS x1, x2

\* The note texts are interchangeable.
Symmetry == Permutations(Texts)

\* The policies the editor loads.
TwoTabs == <<"delivery", "ai">>

=============================================================================
