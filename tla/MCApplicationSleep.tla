------------------------- MODULE MCApplicationSleep -------------------------
(***************************************************************************)
(* Instances of ApplicationSleep for TLC.  Shell is 2, Compositor 3.       *)
(***************************************************************************)
EXTENDS ApplicationSleep

At(parent, group, name) ==
  [parent |-> parent, group |-> group, name |-> name, started |-> 0]

Base == [p \in AnyPid |-> IF p = Shell THEN At(Compositor, Shell, "lxb")
                          ELSE IF p = Compositor
                               THEN At(1, Compositor, "lxb")
                          ELSE Gone]

With(more, first) ==
  [proc |-> [p \in AnyPid |-> IF p \in DOMAIN more THEN more[p] ELSE Base[p]],
   foreign |-> {p \in DOMAIN more : more[p].name \in {"getty", "login"}},
   clock |-> first]

\* A launcher with two programs of its own, both with a window.
OneTree == With([p \in {4, 5, 6} |->
  CASE p = 4 -> At(Shell, 4, "term")
    [] p = 5 -> At(4, 4, "player")
    [] p = 6 -> At(4, 6, "game")], MaxStart + 1)

\* A process of another login, with a window on this session's socket, beside
\* a game; one process is started.
Login == With([p \in {4, 5, 6} |->
  CASE p = 4 -> At(1, 4, "getty")
    [] p = 5 -> At(4, 5, "login")
    [] p = 6 -> At(Shell, 6, "game")], MaxStart)

\* Steam started by the shell, its interface and a title under it.
SteamTree == With([p \in {4, 5, 6} |->
  CASE p = 4 -> At(Shell, 4, "steam")
    [] p = 5 -> At(4, 5, "web")
    [] p = 6 -> At(4, 4, "title")], 1)

\* Steam started from a terminal.
FromTerminal == With([p \in {4, 5} |->
  CASE p = 4 -> At(Shell, 4, "term") [] p = 5 -> At(4, 4, "steam")], 1)

Trees == {OneTree, Login, SteamTree, FromTerminal}
JustOne == {OneTree}
=============================================================================
