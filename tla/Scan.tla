-------------------------------- MODULE Scan --------------------------------
(***************************************************************************)
(* The scanner of skill directories (tools/scan-skill.mjs): two passes     *)
(* over the files, the decoding of hidden lines, the score and the report. *)
(* A line stands for one rule of each severity and one way of hiding it;   *)
(* the regular expressions themselves are left out.  Files are read again  *)
(* in the second pass, and may be edited in between.                       *)
(***************************************************************************)
EXTENDS Naturals, FiniteSets

CONSTANTS
  MaxLines,    \* bound: matching lines of one file
  Shapes       \* what the third file may be besides a plain text

VARIABLES
  skill,       \* the directory: a file for every name that is there
  opts,        \* deobfuscate, includeRubric, excludes
  pc, todo,    \* the pass and the files it has not read yet
  structure,   \* the findings about the packaging
  findings,    \* the findings in the lines
  edited,      \* a file was edited after a pass read it
  reported     \* what became of the report

vars == <<skill, opts, pc, todo, structure, findings, edited, reported>>

Severity == {"CRITICAL", "HIGH", "MEDIUM", "LOW"}
SKILL == "SKILL.md"
RUBRIC == "SECURITY.md"
SCRIPT == "run"

---------------------------------------------------------------------------
(* The rules on one line.  "rm" deletes the root directory; the hidden     *)
(* lines are the same command in base64, with zero-width characters, in    *)
(* escapes or with a lookalike letter.  "key" names a sensitive path and   *)
(* "send" is network I/O.                                                  *)

Line == {"rm", "cron", "http", "localhost", "lan", "npx", "key", "send",
         "base64-rm", "zero-width-rm", "escaped-rm", "lookalike-rm"}

Rule(severity, label) == [severity |-> severity, label |-> label, via |-> "direct"]
Delete == Rule("CRITICAL", "delete-filesystem-root")

\* The plain-HTTP and raw-IP rules match "localhost" and "lan" and let them go;
\* a private address is reported by a rule of its own.
scanLine(l) ==
  CASE l = "rm"            -> {Delete}
    [] l = "cron"          -> {Rule("HIGH", "cron-persistence")}
    [] l = "http"          -> {Rule("MEDIUM", "plain-HTTP-transport")}
    [] l = "lan"           -> {Rule("MEDIUM", "internal-network-host")}
    [] l = "npx"           -> {Rule("LOW", "unpinned-tool-exec")}
    [] l = "zero-width-rm" -> {Rule("HIGH", "zero-width-character")}
    [] l = "escaped-rm"    -> {Rule("HIGH", "hex-escape-payload")}
    [] l = "lookalike-rm"  -> {Rule("HIGH", "unicode-homoglyph")}
    [] OTHER               -> {}

Hidden == {"base64-rm", "zero-width-rm", "escaped-rm", "lookalike-rm"}
Decoding(l) == CASE l = "base64-rm"     -> "base64"
                 [] l = "zero-width-rm" -> "zero-width-stripped"
                 [] l = "escaped-rm"    -> "hex-octal-escapes"
                 [] OTHER               -> "homoglyphs"

\* Mutant: a decoded line is scanned as written.
AsWritten(l) == {}

\* Only lines a decoding changes are scanned again, under its tag.
deobfuscate(l) == IF l \in Hidden THEN {[Delete EXCEPT !.via = Decoding(l)]} ELSE {}

---------------------------------------------------------------------------
(* A file: its shape, how many lines of each kind it has, and for SKILL.md *)
(* and SECURITY.md what its head says.                                     *)

Body == UNION {[ks -> 1..MaxLines] : ks \in {s \in SUBSET Line : Cardinality(s) <= 2}}
Lines(b) == {ln \in (DOMAIN b) \X (1..MaxLines) : ln[2] <= b[ln[1]]}
Bodies == {b \in Body : Cardinality(Lines(b)) <= MaxLines}
FileOf(shape, body) == [shape |-> shape, body |-> body]
One(ls) == [l \in ls |-> 1]
Empty == One({})

SkillFiles == {FileOf(fm, Empty) : fm \in {"full", "bare", "Bash"}} \cup {FileOf("full", One({"key"}))}
RubricFiles == {FileOf("rubric", One({"key", "send"})),
                FileOf("own", One({"key", "send"})), FileOf("own", One({"rm"}))}
Scripts == {FileOf("text", b) : b \in Bodies} \cup {FileOf(s, One({"rm", "npx"})) : s \in Shapes}

\* isText: a binary file is not read as text.
Readable(f) == f.shape \notin {"binary", "archive"}
Has(f, l) == l \in DOMAIN f.body

Structure(severity, label) == [severity |-> severity, label |-> label]
\* About the frontmatter, once, before any file is scanned.
Frontmatter(d) ==
  IF SKILL \notin DOMAIN d THEN {Structure("CRITICAL", "missing-SKILL.md")}
  ELSE CASE d[SKILL].shape = "bare" -> {Structure("LOW", "missing-name"), Structure("LOW", "missing-description")}
         [] d[SKILL].shape = "Bash" -> {Structure("MEDIUM", "broad-allowed-tools")}
         [] OTHER                   -> {}
\* About one file: several may hold of it, and a binary is not read further.
Packaging(f) ==
  CASE f.shape = "oversized" -> {Structure("MEDIUM", "oversized-file")}
    [] f.shape = "double"    -> {Structure("HIGH", "double-extension")}
    [] f.shape = "archive"   -> {Structure("HIGH", "executable-or-archive"), Structure("MEDIUM", "binary-file")}
    [] f.shape = "binary"    -> {Structure("MEDIUM", "binary-file")}
    [] OTHER                 -> {}

\* The first pass skips the rubric by its header, the second by its name.
SkippedByHeader(name, f) == ~opts.includeRubric /\ name = RUBRIC /\ f.shape = "rubric"
SkippedByName(name, f) == ~opts.includeRubric /\ name = RUBRIC

In(name, l, n, rules) == {[rule |-> r, file |-> name, line |-> <<l, n>>] : r \in rules}
LineFindings(name, f) ==
  UNION {In(name, ln[1], ln[2], scanLine(ln[1]) \cup (IF opts.deobfuscate THEN deobfuscate(ln[1]) ELSE {})) :
         ln \in Lines(f.body)}

\* A sensitive path and network I/O anywhere in the same file.
Compound(name, f) ==
  IF Has(f, "key") /\ (Has(f, "send") \/ Has(f, "http") \/ Has(f, "localhost"))
  THEN In(name, "whole-file", 0, {Rule("CRITICAL", "sensitive-path-network-send")}) ELSE {}

\* Hidden files are not listed.
walk(d) == {name \in DOMAIN d : d[name].shape # "hidden"}

---------------------------------------------------------------------------
(* The score.                                                              *)

\* Mutant: one finding per rule, file and tag for every severity.
AllNoisy(f) == TRUE

\* One finding per rule, file and tag for the two low severities.
Noisy(f) == f.rule.severity \in {"MEDIUM", "LOW"}

collapsed(fs) == {f \in fs : ~Noisy(f)} \cup
                 {[f EXCEPT !.line = <<"any", 0>>] : f \in {g \in fs : Noisy(g)}}

Graded(fs, s) == {f \in fs : f.rule.severity = s}
Severities(st, fs) == [s \in Severity |->
  Cardinality({x \in st : x.severity = s}) + Cardinality(Graded(fs, s))]
scoreOf(c) ==
  LET lost == 20 * c["CRITICAL"] + 10 * c["HIGH"] + 3 * c["MEDIUM"] + c["LOW"]
  IN IF c["CRITICAL"] >= 5 \/ lost > 100 THEN 0 ELSE 100 - lost
score == scoreOf(Severities(structure, collapsed(findings)))
action == CASE score >= 90 -> "ALLOW" [] score >= 70 -> "REVIEW" [] OTHER -> "BLOCK"

---------------------------------------------------------------------------

Names == {SKILL, RUBRIC, SCRIPT}

Init ==
  /\ skill = One({}) /\ pc = "start" /\ todo = {}
  /\ opts = [deobfuscate |-> TRUE, includeRubric |-> FALSE, excludes |-> {}]
  /\ structure = {} /\ findings = {} /\ edited = FALSE /\ reported = "not requested"

Hides(d) == \E n \in DOMAIN d : DOMAIN d[n].body \cap Hidden # {}

\* The command line names a directory: its files are listed, SKILL.md is read.
\* Only a file that stands out by its shape is excluded, and an option that
\* nothing in the directory turns on keeps one value.
Start ==
  /\ pc = "start"
  /\ \E s \in SkillFiles, r \in RubricFiles, o \in Scripts, names \in SUBSET Names :
       skill' = [n \in names |-> CASE n = SKILL -> s [] n = RUBRIC -> r [] n = SCRIPT -> o]
  /\ opts' \in [deobfuscate : {TRUE, ~Hides(skill')},
                includeRubric : {FALSE, (RUBRIC \in DOMAIN skill')},
                excludes : IF SCRIPT \in DOMAIN skill' /\ skill'[SCRIPT].shape # "text" THEN {{}, {SCRIPT}} ELSE {{}}]
  /\ structure' = Frontmatter(skill')
  /\ todo' = walk(skill') \ opts'.excludes
  /\ pc' = "lines"
  /\ UNCHANGED <<findings, edited, reported>>

\* The first pass reads one file of the listing.
ScanFile(name) ==
  /\ pc = "lines" /\ name \in todo /\ todo' = todo \ {name}
  /\ LET f == skill[name]
     IN IF SkippedByHeader(name, f) THEN UNCHANGED <<structure, findings>>
        ELSE /\ structure' = structure \cup Packaging(f)
             /\ findings' = IF Readable(f) THEN findings \cup LineFindings(name, f) ELSE findings
  /\ UNCHANGED <<skill, opts, pc, edited, reported>>

\* The second pass reads every file again.
SecondPass ==
  /\ pc = "lines" /\ todo = {}
  /\ pc' = "compound" /\ todo' = walk(skill) \ opts.excludes
  /\ UNCHANGED <<skill, opts, structure, findings, edited, reported>>

CompoundFile(name) ==
  /\ pc = "compound" /\ name \in todo /\ todo' = todo \ {name}
  /\ findings' = IF SkippedByName(name, skill[name]) \/ ~Readable(skill[name]) THEN findings
                 ELSE findings \cup Compound(name, skill[name])
  /\ UNCHANGED <<skill, opts, pc, structure, edited, reported>>

\* The findings are collapsed and scored; a report is asked for or not, and a
\* clean scan is not reported.
Collapse ==
  /\ pc = "compound" /\ todo = {}
  /\ findings' = collapsed(findings)
  /\ \/ pc' = "done"                                             \* no --report
     \/ pc' = "report" /\ (structure # {} \/ findings # {})
  /\ UNCHANGED <<skill, opts, todo, structure, edited, reported>>

\* The endpoint answers, refuses, or does not answer within ten seconds: the
\* scan ends in each case with the same result.
Report(outcome) ==
  /\ pc = "report" /\ pc' = "done" /\ reported' = outcome
  /\ UNCHANGED <<skill, opts, todo, structure, findings, edited>>

\* Somebody saves a file of the skill while it is scanned.
Edit(name) ==
  /\ pc \in {"lines", "compound"} /\ ~edited /\ name \in DOMAIN skill
  /\ \E body \in {Empty, One({"rm"})} : skill' = [skill EXCEPT ![name].body = body]
  /\ edited' = TRUE
  /\ UNCHANGED <<opts, pc, todo, structure, findings, reported>>

Next == \/ Start \/ SecondPass \/ Collapse
        \/ \E name \in Names : ScanFile(name) \/ CompoundFile(name) \/ Edit(name)
        \/ \E outcome \in {"submitted", "refused", "request failed"} : Report(outcome)

Spec == Init /\ [][Next]_vars

---------------------------------------------------------------------------

\* What the findings of a directory amount to, whatever the order its files are
\* read in: the rubric's formula over the findings of each file on its own.
Ours(name) == name \notin opts.excludes /\ skill[name].shape # "hidden" /\ ~SkippedByHeader(name, skill[name])
Weigh(critical, high, medium, low) == 20 * critical + 10 * high + 3 * medium + low
RulesOf(fs, s) == {f.rule : f \in Graded(fs, s)}
Loss(hits, both) ==
  Weigh(Cardinality(Graded(hits \cup both, "CRITICAL")), Cardinality(Graded(hits, "HIGH")),
        Cardinality(RulesOf(hits, "MEDIUM")), Cardinality(RulesOf(hits, "LOW")))
FileLoss(name) ==
  Loss(IF Readable(skill[name]) THEN LineFindings(name, skill[name]) ELSE {},
       IF SkippedByName(name, skill[name]) \/ ~Readable(skill[name]) THEN {} ELSE Compound(name, skill[name]))

\* The findings about the packaging lose what they lose by the same weights.
PackagingLoss ==
  LET graded(s) == Cardinality({x \in structure : x.severity = s})
  IN Weigh(graded("CRITICAL"), graded("HIGH"), graded("MEDIUM"), graded("LOW"))

\* The score is the rubric's 100 - (CRITICAL*20 + HIGH*10 + MEDIUM*3 + LOW*1)
\* over a directory that is not edited meanwhile: no file order, collapsing or
\* decoding changes it, and a report that fails leaves it as it is.
ScoreIsRubrics ==
  pc \in {"report", "done"} /\ ~edited =>
    LET loss(name) == IF name \in DOMAIN skill /\ Ours(name) THEN FileLoss(name) ELSE 0
        total == PackagingLoss + loss(SKILL) + loss(RUBRIC) + loss(SCRIPT)
    IN score = IF total > 100 THEN 0 ELSE 100 - total

\* A skill with a critical finding is never let in, hidden or not, edited
\* meanwhile or not, and what is reported has something in it.
NeverAllowed ==
  pc = "done" =>
    /\ (\E f \in findings : f.rule.severity = "CRITICAL") => action # "ALLOW"
    /\ reported # "not requested" => structure # {} \/ findings # {}
    /\ (~edited /\ opts.deobfuscate /\ \E n \in DOMAIN skill :
          Ours(n) /\ Readable(skill[n]) /\ DOMAIN skill[n].body \cap (Hidden \cup {"rm"}) # {})
         => action # "ALLOW"

\* What the source says of the exemption (scan-skill.mjs:49-52): only a
\* SECURITY.md that is the rubric itself is skipped.
OnlyTheRubricSkipped ==
  pc = "done" /\ ~edited => \A n \in DOMAIN skill :
    (Ours(n) /\ Readable(skill[n])) => Compound(n, skill[n]) \subseteq findings
=============================================================================
