-------------------------------- MODULE Repo --------------------------------
(***************************************************************************)
(* The Git repository as the transaction engine sees it through git child  *)
(* processes and the file system: branch tips, HEAD, immutable commits, the *)
(* worktree and the index, plus what people do to it with git and with an  *)
(* editor while the program runs.  None of it is code under src/.          *)
(*                                                                         *)
(* A path's content is <<kind, writer>>: absent, some outsider's bytes, or *)
(* the whole or a proper prefix of what one writer generates there.        *)
(***************************************************************************)
EXTENDS Naturals, Sequences, FiniteSets

CONSTANTS
  Writer,      \* the operations that write to the repository
  Path,        \* the managed paths they generate
  Branch,      \* the local branches
  None,
  EditedPath,  \* paths an outsider may edit while the program runs
  MaxCommit    \* bound: commits in the object store

RepoConstants ==
  /\ EditedPath \subseteq Path
  /\ MaxCommit \in Nat \ {0}
  /\ None \notin Nat /\ None \notin Branch /\ None \notin Writer
ASSUME RepoAssumption == RepoConstants

VARIABLES
  inside,     \* the writers in the mutation lock (module ExclusiveLock)
  head,       \* the branch HEAD names, or None when it is detached
  tip,        \* per branch, its commit; 0 while the branch is unborn
  commits,    \* the object store: commit c is commits[c]
  worktree,   \* per path, the content of the file
  index,      \* per path, the content staged in the caller's index
  everTip     \* history: the commits each branch ever named

repoVars == <<head, tip, commits, worktree, index, everTip>>

Lock == INSTANCE ExclusiveLock WITH Thread <- Writer

Absent == <<"absent", None>>
Foreign == <<"foreign", None>>
Whole(w) == <<"whole", w>>
Part(w) == <<"part", w>>
Content == {Absent, Foreign} \cup ({"whole", "part"} \X Writer)

Nothing == [p \in Path |-> Absent]
Commit == [past : SUBSET (1..MaxCommit), parent : 0..MaxCommit, files : [Path -> Content]]

FilesOf(c) == IF c = 0 THEN Nothing ELSE commits[c].files
PastOf(c) == IF c = 0 THEN {} ELSE commits[c].past
OnBranch(c, b) == c \in PastOf(tip[b])
Reachable(c) == \E b \in Branch : OnBranch(c, b)

RepoTypeOK ==
  /\ inside \subseteq Writer
  /\ head \in Branch \cup {None}
  /\ tip \in [Branch -> 0..Len(commits)]
  /\ commits \in Seq(Commit) /\ Len(commits) <= MaxCommit
  /\ worktree \in [Path -> Content]
  /\ index \in [Path -> Content]
  /\ everTip \in [Branch -> SUBSET (1..MaxCommit)]

\* commit-tree: a new object; the branch that is to name it is not touched.
NewOid == Len(commits) + 1
CommitTree(parent, files) ==
  /\ NewOid <= MaxCommit
  /\ commits' = Append(commits, [past |-> PastOf(parent) \cup {NewOid},
                                 parent |-> parent, files |-> files])

\* update-ref: the branch moves to c if it still names old.
UpdateRef(b, c, old) ==
  /\ tip[b] = old
  /\ tip' = [tip EXCEPT ![b] = c]
  /\ everTip' = [everTip EXCEPT ![b] = @ \cup {c}]

\* git reset -q <c> -- <paths>
ResetPaths(c, paths) ==
  index' = [p \in Path |-> IF p \in paths THEN FilesOf(c)[p] ELSE index[p]]

(***************************************************************************)
(* Outsiders.                                                              *)
(***************************************************************************)
ExternalCommit(b) ==
  /\ tip[b] # 0
  /\ CommitTree(tip[b], FilesOf(tip[b]))
  /\ UpdateRef(b, NewOid, tip[b])
  /\ UNCHANGED <<head, worktree, index>>

\* HEAD is repointed; what a checkout does to files is Edit's part.
SwitchHead ==
  /\ head' \in (Branch \cup {None}) \ {head}
  /\ UNCHANGED <<tip, commits, worktree, index, everTip>>

Edit(p) ==
  /\ p \in EditedPath
  /\ \E c \in {Absent, Foreign} : c # worktree[p] /\ worktree' = [worktree EXCEPT ![p] = c]
  /\ UNCHANGED <<head, tip, commits, index, everTip>>

Stage(p) ==
  /\ p \in EditedPath
  /\ worktree[p] # index[p]
  /\ index' = [index EXCEPT ![p] = worktree[p]]
  /\ UNCHANGED <<head, tip, commits, worktree, everTip>>

Outside ==
  \/ \E b \in Branch : ExternalCommit(b)
  \/ SwitchHead
  \/ \E p \in Path : Edit(p) \/ Stage(p)
=============================================================================
