--------------------------------- MODULE Tools --------------------------------
(***************************************************************************)
(* The installation of the YouTube tools, youtube_compat.install: of the   *)
(* downloaded archives (Downloads), which are whole, the Node runtime and  *)
(* the provider's source; its plugin, a copy of a part of the source; its  *)
(* packages, installed in place by npm; and its build.  All but the        *)
(* packages are made in a directory of their own and then take the place   *)
(* of what is there.  At the end the provider is started for a test.       *)
(*                                                                         *)
(* A tree is none, torn if one of the files is missing that its readiness  *)
(* is decided by, hollow if others are, or whole.                          *)
(***************************************************************************)
EXTENDS Attempt

VARIABLES
  tree,      \* the trees under their names
  piece,     \* the tree that is looked at
  staged,    \* what is made to take its place
  aside,     \* what has been moved out of its place
  litter,    \* the trees of which a staging or backup directory was left, and
             \* "unpacked" for one that extract_archive_verified unpacks in
  listener   \* who answers on the provider's port

toolsVars == <<tree, piece, staged, aside, litter, listener>>

Trees == {"node", "source", "plugin", "modules", "build"}
\* The packages and the build are in the directory of the source.
Within(t) == IF t = "source" THEN {"source", "modules", "build"} ELSE {t}
Empty == [t \in {} |-> "none"]

AllNone == [t \in Trees |-> "none"]
AllWhole == [t \in Trees |-> "whole"]
Without(f, t) == [u \in Trees |-> IF u \in Within(t) THEN "none" ELSE f[u]]
Lost(t) == Without(AllWhole, t)
Damaged(t) == [AllWhole EXCEPT ![t] = "torn"]

\* Nothing is installed, or of what was installed a tree was lost or damaged.
SomeTools ==
  /\ tree \in {AllNone} \cup {Lost(t) : t \in Trees} \cup {Damaged(t) : t \in Trees}
  /\ piece = "node" /\ staged = "none" /\ aside = Empty /\ litter = {}
  /\ listener = "none"

ForgetTools ==
  /\ tree' = AllWhole /\ piece' = "node" /\ staged' = "none" /\ aside' = Empty
  /\ litter' = {} /\ listener' = "none"

\* _node_install_ready, _source_install_ready, _provider_plugin_ready,
\* _node_modules_ready and _build_ready look at some of the files.
LooksReady(v) == v \in {"hollow", "whole"}

-----------------------------------------------------------------------------
\* _extract_assets clears up after the two archives, ready or not.
Cleared(l) == l \ {"node", "source"}

StartInstall ==
  /\ at = "tools" /\ pc = "start" /\ Goto("look")
  /\ piece' = "node" /\ litter' = Cleared(litter)
  /\ UNCHANGED <<tree, staged, aside, listener>>

Following ==
  [node |-> "source", source |-> "plugin", plugin |-> "modules",
   modules |-> "build", build |-> "none"]

Found ==
  /\ pc = "look" /\ LooksReady(tree[piece])
  /\ IF piece = "build" THEN Goto("spawn") /\ UNCHANGED piece
     ELSE Goto("look") /\ piece' = Following[piece]
  /\ UNCHANGED <<tree, staged, aside, litter, listener>>

\* What a killed installation left of this tree is removed first; of the
\* packages all that is there.
Missing ==
  /\ pc = "look" /\ ~LooksReady(tree[piece])
  /\ IF piece = "modules"
       THEN Goto("npm") /\ tree' = [tree EXCEPT !.modules = "none"] /\ UNCHANGED litter
       ELSE Goto("stage") /\ litter' = litter \ {piece} /\ UNCHANGED tree
  /\ UNCHANGED <<piece, staged, aside, listener>>

\* A tree that is written is torn, then hollow, before it is whole.
Grown(v) == IF v = "none" THEN "torn" ELSE IF v = "torn" THEN "hollow" ELSE "whole"

\* Extracting an archive, copying the plugin, compiling the build.
Make ==
  /\ pc = "stage" /\ staged # "whole" /\ Goto("stage") /\ staged' = Grown(staged)
  /\ UNCHANGED <<tree, piece, aside, litter, listener>>

\* A variant that tells it from the files it is decided by.
SeemsComplete(v) == LooksReady(v)
\* The archive is verified, the copy returned, the compiler's exit code is 0.
Complete(v) == v = "whole"

Made ==
  /\ pc = "stage" /\ Complete(staged) /\ Goto("swap")
  /\ UNCHANGED toolsVars

\* npm ci lists what it installed, in a file that is looked for, last.
InstallModules ==
  /\ pc = "npm" /\ Goto("look") /\ tree' = [tree EXCEPT !.modules = "whole"]
  /\ UNCHANGED <<piece, staged, aside, litter, listener>>

-----------------------------------------------------------------------------
(***************************************************************************)
(* _atomic_replace_managed_tree: what is there is renamed, the new tree    *)
(* takes its name, and what was there is removed; if it cannot take the    *)
(* name, the old one gets it back.                                         *)
(***************************************************************************)
SetAside ==
  /\ pc = "swap" /\ Goto("place")
  /\ aside' = [t \in Within(piece) |-> tree[t]]
  /\ tree' = Without(tree, piece)
  /\ UNCHANGED <<piece, staged, litter, listener>>

Place ==
  /\ pc = "place" /\ Goto("tidy")
  /\ tree' = [tree EXCEPT ![piece] = staged] /\ staged' = "none"
  /\ UNCHANGED <<piece, aside, litter, listener>>

\* The directory of the source takes what was left in it along.
Tidy ==
  /\ pc = "tidy" /\ Goto("look") /\ aside' = Empty
  /\ litter' = litter \ (Within(piece) \ {piece})
  /\ UNCHANGED <<tree, piece, staged, listener>>

PutBack(f) == [t \in Trees |-> IF t \in Within(piece) THEN aside[t] ELSE f[t]]

PlaceFails ==
  /\ pc = "place" /\ Trouble("stopped")
  /\ tree' = PutBack(tree) /\ aside' = Empty /\ staged' = "none"
  /\ UNCHANGED <<piece, litter, listener>>

\* The backup cannot be removed: the new tree is there nevertheless.
TidyFails ==
  /\ pc = "tidy" /\ Trouble("stopped")
  /\ litter' = litter \cup {piece} /\ aside' = Empty
  /\ UNCHANGED <<tree, piece, staged, listener>>

\* npm works in place: what is cut off may have left a part of the packages.
NpmLeft == IF pc = "npm" THEN {tree, [tree EXCEPT !.modules = "torn"]} ELSE {tree}

\* The staging directory is removed whatever fails.
MakingFails ==
  /\ pc \in {"stage", "swap", "npm"} /\ Trouble("stopped")
  /\ tree' \in NpmLeft /\ staged' = "none"
  /\ UNCHANGED <<piece, aside, litter, listener>>

-----------------------------------------------------------------------------
(***************************************************************************)
(* The test: ProviderSupervisor.start finds a healthy provider on the port *)
(* or starts the one installed, self_test asks it and looks at the trees   *)
(* again, and stop ends what start started.                                *)
(***************************************************************************)
StartTest ==
  /\ pc = "spawn" /\ Goto("selftest")
  /\ listener' = IF listener = "none" THEN "ours" ELSE listener
  /\ UNCHANGED <<tree, piece, staged, aside, litter>>

\* stop ends only what start started.
Dismissed == IF listener = "ours" THEN "none" ELSE listener

Tested ==
  /\ pc = "selftest" /\ (\A t \in Trees : LooksReady(tree[t])) /\ Goto("done")
  /\ listener' = Dismissed
  /\ UNCHANGED <<tree, piece, staged, aside, litter>>

\* The port is taken, the process ends at once or does not become healthy.
TestFails ==
  /\ pc \in {"spawn", "selftest"} /\ Trouble("stopped")
  /\ listener' = Dismissed
  /\ UNCHANGED <<tree, piece, staged, aside, litter>>

-----------------------------------------------------------------------------
(***************************************************************************)
(* The process is killed.  A staging or backup directory stays, and so     *)
(* does the one an archive is unpacked in, beside the staging directory;   *)
(* and a provider it started, which has a session of its own.              *)
(***************************************************************************)
LeftBehind ==
  IF pc \notin {"stage", "swap", "place", "tidy"} THEN {}
  ELSE IF piece \in {"node", "source"} /\ staged \in {"torn", "hollow"}
    THEN {piece, "unpacked"} ELSE {piece}

KillInstall ==
  /\ Working("tools") /\ Trouble("stopped")
  /\ tree' \in NpmLeft /\ litter' = litter \cup LeftBehind
  /\ listener' = IF listener = "ours" THEN "orphan" ELSE listener
  /\ staged' = "none" /\ aside' = Empty /\ UNCHANGED piece

ResumeInstall == Resumes("tools") /\ UNCHANGED toolsVars

ToolsNext ==
  \/ StartInstall \/ Found \/ Missing \/ Make \/ Made \/ InstallModules
  \/ SetAside \/ Place \/ Tidy \/ PlaceFails \/ TidyFails \/ MakingFails
  \/ StartTest \/ Tested \/ TestFails \/ KillInstall \/ ResumeInstall

-----------------------------------------------------------------------------
(***************************************************************************)
(* A tree that looks ready is whole, whatever was interrupted: its         *)
(* readiness is decided by some of its files only.                         *)
(***************************************************************************)
ReadyIsWhole == \A t \in Trees : tree[t] # "hollow"

(***************************************************************************)
(* An installation that succeeds leaves no staging or backup directory     *)
(* beside the two archives' trees, not even those of killed installations  *)
(* before it; but it does not know the names of those they unpacked in.    *)
(***************************************************************************)
ClearedUp ==
  at = "tools" /\ pc = "done" => litter \subseteq {"plugin", "build", "unpacked"}

\* The provider it tested is stopped however the installation ends.
OnlyTestsServe == pc # "selftest" => listener # "ours"
=============================================================================
