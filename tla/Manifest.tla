------------------------------- MODULE Manifest -------------------------------
(***************************************************************************)
(* The manifest of src/src/ota/manifest.rs: what the agent believes is     *)
(* installed (HashManifest, the hash file) and what one update cycle plans *)
(* to do about it (Manifest, a Component per component type).  Everything  *)
(* here is a constant-level operator on those two values.                  *)
(*                                                                         *)
(* Abstractions.  A checksum stands for the installer it is the checksum   *)
(* of; the empty string is NoSum.  A link, a path and a token are present  *)
(* or absent.  The agent's own component is the field "agent": the version *)
(* to move to, 0 when it is not to be updated.  The hash file maps the     *)
(* full server name <<server, operator>> ("O_..." or "V_...") and the key  *)
(* "meta_server" to checksums; a missing entry and an empty one are the    *)
(* same, as they are to every reader in the code.                          *)
(***************************************************************************)
EXTENDS Naturals

CONSTANTS
  Comps,      \* component types other than phantom_agent
  Meta,       \* those kept under META_SERVER_NAME (phantom_launcher, log2jira)
  ByVersion,  \* those updated by version, not by checksum (phantom_launcher)
  Servers,    \* server names an auth file may hold
  Unnamed,    \* the empty server name
  Sums,       \* checksums the server may publish
  NoSum,      \* the empty checksum
  Hardcoded,  \* Hardcoded[op]: the component types of that side's manifest
  KeepAsIs    \* the server's "[]" and {version: "local", missingComponents: []}

ASSUME ManifestAssumption ==
  /\ Meta \subseteq Comps
  /\ ByVersion \subseteq Meta
  /\ Hardcoded \in [BOOLEAN -> SUBSET Comps]
  /\ NoSum \notin Sums
  /\ Unnamed \notin Servers

Sum == Sums \cup {NoSum}

-----------------------------------------------------------------------------
(* Keys of the hash file *)

\* A manifest is made for the unnamed server when the licence cannot be read.
Names == Servers \cup {Unnamed}

MetaKey == <<"meta_server", TRUE>>
FullServerName(s, op) == <<s, op>>
Keys == (Names \X BOOLEAN) \cup {MetaKey}

ASSUME KeysAssumption == MetaKey \notin Names \X BOOLEAN

\* The key a component of the manifest of <<s, op>> is recorded under.
WhichServer(c, s, op) == IF c \in Meta THEN MetaKey ELSE FullServerName(s, op)

HashManifest == [Keys -> [Comps -> Sum]]
EmptyHash == [k \in Keys |-> [c \in Comps |-> NoSum]]

-----------------------------------------------------------------------------
(* Components and manifests *)

Component == [sum: Sum, updated: BOOLEAN, link: BOOLEAN, path: BOOLEAN]

ManifestType == [server: Names, operator: BOOLEAN, agent: Nat,
                 comp: [Comps -> Component]]

\* A component as Manifest::new leaves it: nothing to do, checksum as recorded.
Settled(sum) == [sum |-> sum, updated |-> TRUE, link |-> FALSE, path |-> FALSE]

CurrentlyInstalled(d) == d.sum # NoSum
ShouldInstall(d) == ~d.updated /\ d.path
ShouldUninstall(d) == ~d.updated /\ ~d.path

NewManifest(h, s, op) ==
  [server |-> s, operator |-> op, agent |-> 0,
   comp |-> [c \in Comps |->
     Settled(IF c \in Hardcoded[op] THEN h[WhichServer(c, s, op)][c] ELSE NoSum)]]

ToHandle(mf) == {c \in Comps : ~mf.comp[c].updated}
IsFullyInstalled(mf) == mf.agent = 0 /\ ToHandle(mf) = {}

\* Every recorded component of the server is to be uninstalled; the meta ones
\* and the ones with no recorded checksum are left alone.
PrepareForServerPurge(mf) ==
  [mf EXCEPT !.comp = [c \in Comps |->
     IF c \notin Meta /\ CurrentlyInstalled(mf.comp[c])
     THEN [Settled(NoSum) EXCEPT !.updated = FALSE]
     ELSE [mf.comp[c] EXCEPT !.updated = TRUE]]]

-----------------------------------------------------------------------------
(* The server's answer.  list[c] is the published checksum of c, NoSum when *)
(* the list does not name c.  The agent is always named: the server "gives  *)
(* us ALL the components".                                                  *)

ServerList == [agent: Nat \ {0}, list: [Comps -> Sum] \cup {KeepAsIs}]

\* As a bug: what is installed counts as up to date.
ShouldAdd(c, d, new) == ~CurrentlyInstalled(d)

\* On Linux the launcher's own version is the hard-coded 1.0.0, older than any
\* version published, so a listed launcher is always updated.
ShouldUpdate(c, d, new) == c \in ByVersion \/ new # d.sum

UpdateComponent(c, d, new) ==
  CASE new # NoSum /\ ShouldUpdate(c, d, new) ->
         [sum |-> new, updated |-> FALSE, link |-> TRUE, path |-> FALSE]
    [] new = NoSum /\ CurrentlyInstalled(d) ->
         [d EXCEPT !.updated = FALSE, !.link = FALSE, !.path = FALSE]
    [] OTHER -> d

UpdateWithJson(mf, answer, myVersion) ==
  IF answer.list = KeepAsIs THEN mf
  ELSE IF answer.agent > myVersion THEN [mf EXCEPT !.agent = answer.agent]
  ELSE [mf EXCEPT !.comp = [c \in Comps |->
          IF c \in Hardcoded[mf.operator]
          THEN UpdateComponent(c, mf.comp[c], answer.list[c])
          ELSE mf.comp[c]]]

\* What download_components fetches, and the manifest with the paths it got.
ToDownload(mf) == {c \in Comps : ~mf.comp[c].updated /\ mf.comp[c].link}
UpdateComponentsPaths(mf) ==
  [mf EXCEPT !.comp = [c \in Comps |->
     IF c \in ToDownload(mf) THEN [mf.comp[c] EXCEPT !.path = TRUE]
     ELSE mf.comp[c]]]

-----------------------------------------------------------------------------
(* Saving.  Only components marked updated are recorded: the server's entry *)
(* is replaced, the meta entry is merged.                                   *)

Recorded(mf) == {c \in Hardcoded[mf.operator] : mf.comp[c].updated}

\* As a bug: the server's entry is merged like the meta one.
WriteMerged(h, mf) ==
  [k \in Keys |-> [c \in Comps |->
    IF k = WhichServer(c, mf.server, mf.operator) /\ c \in Recorded(mf)
    THEN mf.comp[c].sum
    ELSE h[k][c]]]

WriteToFile(h, mf) ==
  [k \in Keys |-> [c \in Comps |->
    IF k = WhichServer(c, mf.server, mf.operator) /\ c \in Recorded(mf)
    THEN mf.comp[c].sum
    ELSE IF k = FullServerName(mf.server, mf.operator) THEN NoSum
    ELSE h[k][c]]]
=============================================================================
