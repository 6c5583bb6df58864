------------------------------- MODULE Staged -------------------------------
(***************************************************************************)
(* Commits made in small parts and the verifier of what is staged          *)
(* (tools/verify-staged.mjs, the pre-commit hook, its --commit and --all   *)
(* modes).  Three paths are enough for every rule: a checked file that may *)
(* import the second one or a bare package, a module, and package.json.    *)
(* The checked file is JavaScript, a page or vendored code.                *)
(***************************************************************************)
EXTENDS Naturals

CONSTANT MaxChanges        \* bound: changes of the index and of the working tree

VARIABLES
  type,       \* of the checked file: "js", "html" or "vendored"
  head, index, work,
  hook,       \* .git/hooks/pre-commit is installed
  check,      \* a run of the verifier
  commit,     \* how the last commit was made
  changes

vars == <<type, head, index, work, hook, check, commit, changes>>

Path == {"file", "module", "package.json"}
Missing == "none"
\* A blob: broken text, or what it imports or (package.json) declares.
Blob(p) == CASE p = "file"   -> {Missing, "broken", "plain", "imports-module", "imports-package"}
             [] p = "module" -> {Missing, "plain"}
             [] OTHER        -> {Missing, "broken", "plain", "declares-package"}
Committed == [p \in Path |-> "plain"]

NoCheck == [mode |-> "none", todo |-> {}, failed |-> FALSE, disturbed |-> FALSE]
CheckInit(mode, todo) == [mode |-> mode, todo |-> todo, failed |-> FALSE, disturbed |-> FALSE]

Init ==
  /\ type \in {"js", "html", "vendored"}
  /\ head = Committed /\ index = Committed /\ work = Committed
  /\ hook = FALSE /\ check = NoCheck /\ commit = "none" /\ changes = 0

---------------------------------------------------------------------------
(* What the verifier asks of one file: its text from one tree, its imports *)
(* from the index.                                                         *)

\* The bare import needs a declaration in the index's package.json, a relative
\* one the module in the index.
Resolves(blob, tree) ==
  /\ blob = "imports-module" => tree["module"] # Missing
  /\ blob = "imports-package" => tree["package.json"] = "declares-package"

\* Vendored code passes unread, a page's scripts are not parsed, the module and
\* package.json have no imports, a path that is not in the tree is skipped.
Passes(p, blob, tree) ==
  \/ blob = Missing
  \/ p = "file" /\ type = "vendored"
  \/ /\ blob = "broken" => p = "file" /\ type = "html"
     /\ p = "file" => Resolves(blob, tree)

\* The tree a commit leaves is whole.
Whole(p, tree) == Passes(p, tree[p], tree)

ReadWorkTree(p) == work[p]

\* --all lists the index and reads HEAD, then the index; the other modes of
\* the verifier read the index (the hook) or the commit.
ReadSource(p) == CASE check.mode = "all"    -> IF head[p] # Missing THEN head[p] ELSE index[p]
                   [] check.mode = "commit" -> head[p]
                   [] OTHER                 -> index[p]

Staged == {p \in Path : index[p] # head[p]}

---------------------------------------------------------------------------

Change == changes < MaxChanges /\ changes' = changes + 1

\* An editor saves a file.
Edit(p) ==
  /\ Change
  /\ \E b \in Blob(p) \ {work[p]} : work' = [work EXCEPT ![p] = b]
  /\ UNCHANGED <<type, head, index, hook, check, commit>>

\* git add, git rm, or git apply --cached with any hunk, also from another
\* terminal while the hook runs.
Stage(p) ==
  /\ Change
  /\ \E b \in Blob(p) \ {index[p]} : index' = [index EXCEPT ![p] = b]
  /\ check' = [check EXCEPT !.disturbed = check.mode # "none"]
  /\ UNCHANGED <<type, head, work, hook, commit>>

InstallHook ==
  /\ ~hook /\ hook' = TRUE
  /\ UNCHANGED <<type, head, index, work, check, commit, changes>>

\* git commit: the hook starts, or nothing looks at the staged files.
StartCommit ==
  /\ check.mode = "none" /\ Staged # {} /\ hook
  /\ check' = CheckInit("staged", Staged)
  /\ UNCHANGED <<type, head, index, work, hook, commit, changes>>

CommitUnverified ==
  /\ check.mode = "none" /\ Staged # {}
  /\ head' = index /\ commit' = "unverified"
  /\ UNCHANGED <<type, index, work, hook, check, changes>>

\* The backstop of CI runs on a checkout, where the index is the commit.
StartAll ==
  /\ check.mode = "none" /\ index = head
  /\ check' = CheckInit("all", {p \in Path : index[p] # Missing})
  /\ UNCHANGED <<type, head, index, work, hook, commit, changes>>

StartOfCommit ==
  /\ check.mode = "none"
  /\ \E files \in SUBSET Path : check' = CheckInit("commit", files)
  /\ UNCHANGED <<type, head, index, work, hook, commit, changes>>

CheckFile(p) ==
  /\ p \in check.todo
  /\ check' = [check EXCEPT !.todo = @ \ {p}, !.failed = @ \/ ~Passes(p, ReadSource(p), index)]
  /\ UNCHANGED <<type, head, index, work, hook, commit, changes>>

\* The hook's exit code lets git write the commit from the index as it is now.
EndCheck ==
  /\ check.mode # "none" /\ check.todo = {}
  /\ check' = NoCheck
  /\ IF check.mode = "staged" /\ ~check.failed
     THEN head' = index /\ commit' = IF check.disturbed THEN "disturbed" ELSE "verified"
     ELSE UNCHANGED <<head, commit>>
  /\ UNCHANGED <<type, index, work, hook, changes>>

Next == \/ \E p \in Path : Edit(p) \/ Stage(p) \/ CheckFile(p)
        \/ InstallHook \/ StartCommit \/ CommitUnverified \/ StartAll \/ StartOfCommit \/ EndCheck

Spec == Init /\ [][Next]_vars

---------------------------------------------------------------------------

\* A commit the hook let through breaks a file only by taking away what an
\* unchanged file imports: every file it changes parses and finds its imports in
\* the commit itself, unless the index was changed while the hook read it.
VerifiedCommitsHold ==
  [][(check.mode = "staged" /\ head' # head /\ ~check.disturbed) =>
        \A p \in Path : Whole(p, head') \/ head'[p] = head[p]]_vars

\* A passing --all on a checkout means the whole commit holds, including the
\* files no hook looked at; a failing one that something in it does not.
AllIsBackstop ==
  check.mode = "all" /\ check.todo = {} /\ ~check.disturbed
     => (check.failed <=> \E p \in Path : ~Whole(p, head))
=============================================================================
