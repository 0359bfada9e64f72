-------------------------- MODULE MCReleaseInstall --------------------------
(* An instance of ReleaseInstall for TLC: three releases of two components.
   The second drops a file and the configuration of the first, adds a file that
   the third drops, and has the configuration as a link of its second component;
   the third has it as a file again and stages a file outside the prefix.    *)
EXTENDS ReleaseInstall, TLC

CONSTANTS a, b, core, extra, program, asset, added, tool, config, stray

MCUser == {a, b}
MCComponent == {core, extra}
MCPath == {program, asset, added, tool, config, stray}
MCShips ==
  <<[c \in MCComponent |-> IF c = core THEN {program, asset, config} ELSE {tool}],
    [c \in MCComponent |-> IF c = core THEN {program, added} ELSE {tool, config}],
    [c \in MCComponent |-> IF c = core THEN {program, config} ELSE {tool, stray}]>>
MCLinks == <<{}, {config}, {}>>
MCMarker == [c \in MCComponent |-> IF c = core THEN program ELSE tool]
\* The first release is a pre-release of the second.
MCSays == <<2, 2, 3>>

Users == Permutations(User)
=============================================================================
