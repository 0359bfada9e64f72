---------------------------- MODULE MCSteamTurns ----------------------------
(* Instances of SteamTurns for TLC: two sessions, of which one or none has a   *)
(* second thread, so that the mutex is contended as well as the file.          *)
EXTENDS SteamTurns, TLC

CONSTANTS s, r, a, b

OneEach == {<<s, a>>, <<r, a>>}
OneMore == OneEach \cup {<<s, b>>}

SessionSymmetry == Permutations(Sessions)
=============================================================================
