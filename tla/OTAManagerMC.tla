---------------------------- MODULE OTAManagerMC ----------------------------
(***************************************************************************)
(* The constants of the instances of OTAManager that TLC checks.           *)
(***************************************************************************)
EXTENDS OTAManager, TLC

\* Component types, named for the package each stands for: two snaps, of which
\* launcher is kept under meta_server, an archive, and a deb.
CONSTANTS core, webview, player, launcher

MCComps == {core, webview}
NoComps == {}
MCTars == {webview}
MCSnaps == {core}

\* Both on the operator's side, none on the vehicle's.
OneSide == [op \in BOOLEAN |-> IF op THEN MCComps ELSE {}]

\* core belongs to both sides, webview to the operator's only.
TwoSides == [op \in BOOLEAN |-> IF op THEN {core, webview} ELSE {core}]

\* A snap, a snap of the meta server and a deb, all on the operator's side.
MixComps == {core, launcher, player}
MixSnaps == {core, launcher}
MixMeta == {launcher}
MixSide == [op \in BOOLEAN |-> IF op THEN MixComps ELSE {}]

\* A machine with the snap only.
JustCore == {core}
CoreOnly == [op \in BOOLEAN |-> IF op THEN {core} ELSE {}]

CONSTANTS a, b

ListOf(x, y) == [agent |-> 1, list |-> (core :> x @@ webview :> y)]
NewAgent == [agent |-> 2, list |-> (core :> b @@ webview :> b)]
KeepList == [agent |-> 1, list |-> KeepAsIs]

\* A first version, a second one without the archive, one with both and a later
\* agent, and "[]".
AgentLists == {ListOf(a, a), ListOf(b, NoSum), NewAgent, KeepList}
\* The snap both sides have is listed, or is not.
SharedLists == {ListOf(a, a), ListOf(NoSum, a)}
\* The snap, or a later agent and no snap.
SnapOrAgent ==
  {[agent |-> 1, list |-> (core :> a)], [agent |-> 2, list |-> (core :> NoSum)]}
MixList(x) == [agent |-> 1, list |-> [c \in MixComps |-> x]]
MixLists == {MixList(a), MixList(b)}
==============================================================================
