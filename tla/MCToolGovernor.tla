--------------------------- MODULE MCToolGovernor ---------------------------
\* Instances of ToolGovernor for TLC.
EXTENDS ToolGovernor, TLC

\* Calls and sessions are interchangeable; used by the safety runs only.
Symmetric == Permutations(Calls) \union Permutations(Sessions)
=============================================================================
