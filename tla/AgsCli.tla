------------------------------- MODULE AgsCli -------------------------------
(***************************************************************************)
(* The fix of the installed ags command line and its check:                *)
(* tools/ags-fix-lib.mjs (patch), tools/patch-ags-cli.mjs (postinstall)    *)
(* and tools/check-ags-update.mjs (strict, --warn and --refresh).  npm may *)
(* replace the installed file at any time, also between two steps of a run.*)
(***************************************************************************)
EXTENDS Naturals

VARIABLES
  dist,      \* the installed update.js
  fixture,   \* the captured answer of the version endpoint
  live,      \* what the endpoint answers now
  run,       \* the command in progress
  last       \* the command that ended last, with its exit code

vars == <<dist, fixture, live, run, last>>

\* "buggy" assumes an array; "fixed" reads the object; "both" is fixed and still
\* has the text of the old call; "reworked" has neither expression.
Dist == {"absent", "buggy", "fixed", "both", "reworked"}
Fixture == {"none", "object", "array", "empty"}
NoRun == [cmd |-> "none", pc |-> "idle"]

Init == /\ dist \in Dist /\ fixture \in Fixture /\ live \in {"object", "array"}
        /\ run = NoRun /\ last = [cmd |-> "none", exit |-> 0, dist |-> "absent"]

Install == dist' \in Dist /\ UNCHANGED <<fixture, live, run, last>>
ApiChanges == live' \in {"object", "array"} /\ UNCHANGED <<dist, fixture, run, last>>

Start(cmd) ==
  /\ run.pc = "idle"
  /\ run' = [cmd |-> cmd,
             pc |-> CASE cmd = "patch" -> "heal" [] cmd = "refresh" -> "capture" [] OTHER -> "load"]
  /\ UNCHANGED <<dist, fixture, live, last>>

End(exit) == run' = NoRun /\ last' = [cmd |-> run.cmd, exit |-> exit, dist |-> dist']
Goto(pc) == run' = [run EXCEPT !.pc = pc] /\ UNCHANGED last

\* --refresh validates the old fixture and the new answer before it writes.
Capture ==
  /\ run.pc = "capture"
  /\ UNCHANGED <<dist, live>>
  /\ IF fixture = "array" \/ live = "array" THEN End(1) /\ UNCHANGED fixture
     ELSE Goto("load") /\ fixture' = "object"

\* No fixture or one of another shape ends the check; without the CLI it skips.
Load ==
  /\ run.pc = "load"
  /\ UNCHANGED <<dist, fixture, live>>
  /\ CASE fixture \in {"none", "array"} -> End(1)
       [] fixture \notin {"none", "array"} /\ dist = "absent" -> End(0)
       [] OTHER -> Goto("heal")

\* patch as it would be if it took any file it cannot patch for a fixed one.
LenientPatch == IF dist = "buggy" THEN "fixed" ELSE dist
Patched == CASE dist = "buggy" -> "fixed" [] dist = "reworked" -> "error" [] OTHER -> dist

Heal ==
  /\ run.pc = "heal"
  /\ dist' = IF Patched = "error" THEN dist ELSE Patched
  /\ CASE Patched = "error"  -> End(1)
       [] Patched # "error" /\ run.cmd = "patch" -> End(0)
       [] OTHER -> Goto("replay")
  /\ UNCHANGED <<fixture, live>>

\* Both scenarios against the file as it is now: it must read the object, hold
\* no "remote.map(" and track a skill; an empty fixture ends scenario B with an
\* uncaught exception, as does a file that went away.  --warn reports failures and exits 0.
Holds(d) == d = "fixed" /\ fixture = "object"
Replay ==
  /\ run.pc = "replay"
  /\ UNCHANGED <<dist, fixture, live>>
  /\ IF Holds(dist) \/ (run.cmd = "warn" /\ fixture # "empty" /\ dist # "absent") THEN End(0) ELSE End(1)

Next == \/ Install \/ ApiChanges \/ Capture \/ Load \/ Heal \/ Replay
        \/ \E cmd \in {"patch", "strict", "warn", "refresh"} : Start(cmd)

Spec == Init /\ [][Next]_vars

---------------------------------------------------------------------------

\* The strict check ends with 0 only on a machine without the CLI, or with a CLI
\* that reads the captured answer; the postinstall hook never leaves the bug.
ExitTellsState ==
  last.exit = 0 =>
    /\ last.cmd \in {"strict", "refresh"} => last.dist \in {"absent", "fixed"}
    /\ last.cmd = "patch" => last.dist \in {"absent", "fixed", "both"}

\* check-ags-update.mjs says of --warn that failures exit 0, so that a broken fix
\* never breaks npm install.
WarnNeverFails == last.cmd = "warn" => last.exit = 0
=============================================================================
