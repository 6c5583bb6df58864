------------------------------- MODULE Verdict -------------------------------
(***************************************************************************)
(* VERDAD: the offline heuristics and the recommendation made from them    *)
(* (public/aegis/modules/verdad.js, verdad-service.js), the pre-send gate, *)
(* and the dashboard's audit of a claim, which waits for a model and then  *)
(* for published fact-checks (factcheck.js).  A claim is what the          *)
(* heuristics count in it.  Quotients are exact here; the code's are       *)
(* floating-point, so a sum that ends in .5 may round the other way.       *)
(***************************************************************************)
EXTENDS Integers, FiniteSets, FiniteSetsExt

CONSTANTS
  Vector,      \* the emotional vectors a claim may hit, of the six there are
  Lengths,     \* lengths of a claim, in words
  MaxHits,     \* bound: hits per vector, fallacies, certainty markers
  MaxAudits    \* bound: audits run

VARIABLES
  text,        \* the claim in the text area
  setting,     \* the keys stored and whether the user forced the offline mode
  audit,       \* the audit that runs: where it is and the claim it took
  panel,       \* the verdict shown
  checks,      \* the fact-checks shown
  calls,       \* history: who a claim was sent to, and by what
  audits       \* history: audits started

vars == <<text, setting, audit, panel, checks, calls, audits>>


Unasked == "none"
Least(a, b) == IF a < b THEN a ELSE b

\* Math.round(n / d).
Rounded(n, d) == (2 * n + d) \div (2 * d)

\* A claim without a marker, of the greatest length.
Blank == [hits |-> [v \in Vector |-> 0], words |-> Max(Lengths), fallacies |-> 0, sure |-> 0]

---------------------------------------------------------------------------
(* runOfflineHeuristics.                                                   *)

\* Mutant: the hits count by their share of the words alone.
Density(hits, words) == Least(100, Rounded(hits * 120, words))

intensity(hits, words) == Least(100, Rounded(hits * 55 * words + hits * 120, words))

sumEmotion(c) == MapThenSumSet(LAMBDA v : intensity(c.hits[v], c.words), Vector)

\* Mutant: the mean of the vectors that are hit, for the greatest.
MeanEmotion(c) ==
  sumEmotion(c) \div Max({1, Cardinality({v \in Vector : c.hits[v] > 0})})

maxEmotion(c) == Max({intensity(c.hits[v], c.words) : v \in Vector})

fallacyScore(c) == Least(100, 25 * c.fallacies)
certaintyInflation(c) == Least(100, 25 * c.sure)

\* Weights of the greatest and the mean intensity, the fallacies and the
\* certainty, in hundredths; the mean is over six vectors.
Weighted(c, w) ==
  Least(100, Rounded(6 * w[1] * maxEmotion(c) + w[2] * sumEmotion(c)
                     + 6 * w[3] * fallacyScore(c) + 6 * w[4] * certaintyInflation(c), 600))

manipulationRisk(c) ==
  IF maxEmotion(c) >= 50 THEN Weighted(c, <<85, 35, 35, 20>>) ELSE Weighted(c, <<45, 25, 25, 15>>)

veracityScore(c) == Max({5, Least(95, 100 - manipulationRisk(c))})

runOfflineHeuristics(c) ==
  [live |-> FALSE, risk |-> manipulationRisk(c), veracity |-> veracityScore(c), named |-> TRUE]

\* classify(): a recommendation by its strength.  A risk that is no number counts as 0.
Share == 0
Caution == 1
Block == 2
NotANumber == -1
classify(risk) == IF risk >= 70 THEN Block ELSE IF risk >= 40 THEN Caution ELSE Share

---------------------------------------------------------------------------
(* analyzeClaim.                                                           *)

\* Mutant: a key is enough for the model to be asked.
AsksWithKey(mode, key) == key

\* The model is asked when there is a key and the mode allows it.
AsksModel(mode, key) == mode # "offline" /\ key

\* What the model can answer: a risk, or no number, with any veracity; the
\* fallacies it lists may lack a name.
ModelAnswers ==
  [live : {TRUE}, risk : {NotANumber, 100}, veracity : {50, 95}, named : BOOLEAN]

NoResult == [live |-> FALSE, risk |-> NotANumber, veracity |-> 0, named |-> TRUE]

\* Mutant: without an answer the claim is called neutral.
NeutralFallback(c) == [live |-> FALSE, risk |-> 0, veracity |-> 50, named |-> TRUE]

\* Without an answer the heuristics stand in.
Fallback(c) == runOfflineHeuristics(c)

Init ==
  /\ text = Blank
  /\ setting \in [key : BOOLEAN, factKey : BOOLEAN, offline : BOOLEAN]
  /\ audit = [pc |-> "idle", claim |-> Blank, failed |-> FALSE]
  /\ panel = [claim |-> Blank, result |-> NoResult]
  /\ checks = [claim |-> Blank, status |-> Unasked]
  /\ calls = {} /\ audits = 0

\* shouldShare(): the gate before a send, offline whatever the keys.
Gate ==
  /\ calls' = IF AsksModel("offline", setting.key) THEN calls \cup {<<"gate", "model">>} ELSE calls
  /\ UNCHANGED <<text, setting, audit, panel, checks, audits>>

---------------------------------------------------------------------------
(* The text area.  Bound: once an audit ran, the claim only changes length.*)

\* One word of the claim becomes a marker of a kind.
AddHit(v) == text.hits[v] < MaxHits /\ text' = [text EXCEPT !.hits[v] = @ + 1]
AddFallacy == text.fallacies < MaxHits /\ text' = [text EXCEPT !.fallacies = @ + 1]
AddCertainty == text.sure < MaxHits /\ text' = [text EXCEPT !.sure = @ + 1]
Marks == (\E v \in Vector : AddHit(v)) \/ AddFallacy \/ AddCertainty

\* The claim is cut to, or padded with, words that mean nothing.
Resize == \E n \in Lengths \ {text.words} : text' = [text EXCEPT !.words = n]

Type ==
  /\ (audits = 0 /\ Marks) \/ (audits < MaxAudits /\ Resize)
  /\ UNCHANGED <<setting, audit, panel, checks, calls, audits>>

---------------------------------------------------------------------------
(* executeAudit.                                                           *)

Mode == IF setting.offline THEN "offline" ELSE "auto"

\* The button is disabled while an audit runs.
Execute ==
  /\ audit.pc = "idle" /\ audits < MaxAudits
  /\ audits' = audits + 1
  /\ audit' = [pc |-> "analyze", claim |-> text, failed |-> FALSE]
  /\ calls' = IF AsksModel(Mode, setting.key) THEN calls \cup {<<"audit", "model">>} ELSE calls
  /\ UNCHANGED <<text, setting, panel, checks>>

\* _renderResults(): the scores first; a fallacy without a name throws then, and
\* the audit ends before the fact-checks are looked for.
Render(result) ==
  /\ panel' = [claim |-> audit.claim, result |-> result]
  /\ IF result.named
     THEN /\ checks' = [claim |-> audit.claim, status |-> "pending"]
          /\ audit' = [audit EXCEPT !.pc = "checks"]
          /\ calls' = IF setting.factKey THEN calls \cup {<<"audit", "factcheck">>} ELSE calls
     ELSE /\ audit' = [audit EXCEPT !.pc = "idle", !.failed = TRUE]
          /\ UNCHANGED <<checks, calls>>

\* The model answers or fails; without it the verdict is there at once.
Analyzed ==
  /\ audit.pc = "analyze"
  /\ \/ Render(Fallback(audit.claim))
     \/ /\ AsksModel(Mode, setting.key)
        /\ \E answer \in ModelAnswers : Render(answer)
  /\ UNCHANGED <<text, setting, audits>>

\* searchFactChecks() answers with a status.  It throws only over an answer that is
\* null, or lists a claim that is: the audit then ends as failed, its checks pending.
Searched ==
  IF setting.factKey THEN {"ok", "no-results", "error"} ELSE {"no-key"}

Checked ==
  /\ audit.pc = "checks"
  /\ \/ /\ \E status \in Searched : checks' = [claim |-> audit.claim, status |-> status]
        /\ audit' = [audit EXCEPT !.pc = "idle"]
     \/ /\ setting.factKey /\ UNCHANGED checks
        /\ audit' = [audit EXCEPT !.pc = "idle", !.failed = TRUE]
  /\ UNCHANGED <<text, setting, panel, calls, audits>>

Next == Gate \/ Type \/ Execute \/ Analyzed \/ Checked

Spec == Init /\ [][Next]_vars

---------------------------------------------------------------------------
(* Properties.                                                             *)

\* A marker put in place of a neutral word never lowers the risk,
\* across the roundings, the caps and the switch of the weights at 50.
MarkersNeverHelp ==
  [][((audits = 0 /\ Marks) => manipulationRisk(text') >= manipulationRisk(text))]_vars

\* Padding never clears a claim: one emotional marker is worth a caution
\* however many neutral words surround it.
PaddingNeverClears == (\E v \in Vector : text.hits[v] > 0) => classify(manipulationRisk(text)) >= Caution

\* "it must not phone home with the draft" (verdad-service.js): what the gate is
\* asked about leaves the device only by an audit of the same claim, whatever
\* keys are stored; and with the heuristics forced no audit asks the model.  The
\* search for fact-checks is no part of that: with a key it is sent the claim.
GateStaysHere ==
  /\ \A call \in calls : call[1] # "gate"
  /\ setting.offline => <<"audit", "model">> \notin calls

\* Without a live answer the panel shows what the heuristics say of its claim,
\* whether the model was not asked or failed; and when the last audit did not
\* fail, the fact-checks beneath it were answered and are those of the same claim,
\* although the text area was edited while the two were waited for.
PanelsTellTheClaim ==
  /\ panel.result # NoResult =>
       (panel.result.live \/ panel.result = runOfflineHeuristics(panel.claim))
  /\ (audit.pc = "idle" /\ ~audit.failed) => checks.claim = panel.claim /\ checks.status # "pending"

=============================================================================
