------------------------------ MODULE Attempts ------------------------------
(***************************************************************************)
(* The log of attempts (public/aegis/attemptlog.js), how an attempt is     *)
(* recorded without being awaited (attempts.js) and the sticky confidence  *)
(* control it reads (confidence.js).  The log is one IndexedDB store: each *)
(* transaction is atomic, and nothing joins two of them.                   *)
(***************************************************************************)
EXTENDS Naturals, FiniteSets, FiniteSetsExt

CONSTANTS
  Skill,
  MaxTime,       \* bound: ticks of the clock
  MaxAttempts,   \* bound: attempts answered here
  MaxImports,    \* bound: imports started
  MaxWork,       \* bound: attempts and imports together
  Words          \* the words the control is set to

VARIABLES
  now,
  level,         \* the control, in this page and in the state store
  log,           \* the records committed
  appending,     \* records whose transaction is open
  importing,     \* the imports between two of their transactions
  imports,       \* how many were started
  file,          \* the last export taken
  made,          \* history: the attempts made here, as they were answered
  confirmed      \* history: ids an append or an import answered for, since a reset

vars == <<now, level, log, appending, importing, imports, file, made, confirmed>>

CONFIDENCE_VALUES == {"sure", "unsure", "guess"}
NotStated == "null"
normaliseConfidence(c) == IF c \in CONFIDENCE_VALUES THEN c ELSE NotStated
DefaultLevel == "unsure"

\* An id sorts by the time it was made at, and has a number no other id has.  One of
\* another shape, which only an imported record has, sorts before all of them.
makeId(ts, n) == <<ts, n>>
OtherShape == 0
Ids == (0..MaxTime) \X (0..(MaxAttempts + MaxImports))

\* What normaliseAttempt() keeps; a record of the first schema stays one.
Record(v, id, ts, skill, confidence) ==
  [v |-> IF v = 1 THEN 1 ELSE 2, id |-> id, ts |-> ts, skill |-> skill,
   confidence |-> normaliseConfidence(confidence)]

\* Files: an export of this device, none yet, or one from elsewhere.  That one has a
\* record of the first schema, one without an id, one without a time and with an id of
\* another shape, and perhaps one that does not validate.
Export(records) == [valid |-> TRUE, loose |-> FALSE, records |-> records]
NoFile == [valid |-> FALSE, loose |-> FALSE, records |-> {}]
OldRecord == Record(1, makeId(1, MaxAttempts), 1, CHOOSE s \in Skill : TRUE, NotStated)
Foreign(valid) == [valid |-> valid, loose |-> TRUE, records |-> {OldRecord}]

\* The n-th import makes an id where there is none, a new one every time, and takes
\* the present for a time that is missing.
Normalised(f, n) ==
  f.records \cup
    IF f.loose THEN {Record(2, makeId(1, MaxAttempts + n), 1, CHOOSE s \in Skill : TRUE, "certain"),
                     Record(2, <<OtherShape, MaxAttempts>>, now, CHOOSE s \in Skill : TRUE, NotStated)}
    ELSE {}

IdsOf(records) == {r.id : r \in records}

OnlyNew(records) == records

\* s.put() replaces a record of the same id.
Put(records) == {r \in log : r.id \notin IdsOf(records)} \cup records

TypeOK ==
  /\ now \in 1..MaxTime /\ level \in CONFIDENCE_VALUES
  /\ \A r \in log \cup appending : r.id \in Ids /\ r.v \in {1, 2} /\ r.skill \in Skill
  /\ \A i \in importing : i.pc \in {"keys", "write"}
  /\ imports \in 0..MaxImports /\ confirmed \subseteq Ids

Init ==
  /\ now = 1 /\ level = DefaultLevel
  /\ log = {} /\ appending = {} /\ importing = {} /\ imports = 0 /\ file = NoFile
  /\ made = {} /\ confirmed = {}

---------------------------------------------------------------------------
(* The control.                                                            *)

\* Confidence.set(): an unknown word is refused, a known one is kept.
Set(word) ==
  /\ normaliseConfidence(word) # NotStated /\ word # level
  /\ level' = word
  /\ UNCHANGED <<now, log, appending, importing, imports, file, made, confirmed>>

\* A reload ends the transactions that are open; init() reads the setting back.
Reload ==
  /\ appending' = {} /\ importing' = {}
  /\ UNCHANGED <<now, level, log, imports, file, made, confirmed>>

\* Bound: there is room for n attempts or imports more.
Room(n) == Cardinality(made) + imports + n <= MaxWork

---------------------------------------------------------------------------
(* Recording.                                                              *)

Unstated(given) == normaliseConfidence(given)

\* The certainty given by the caller, or the control's at the moment of the answer.
confidenceOf(given) == IF given = "undefined" THEN level ELSE normaliseConfidence(given)

\* recordAttempt(): one record for every skill the item tests, none for an
\* untagged item; nobody waits for the transactions.
recordAttempt(skills, given) ==
  /\ skills # {} /\ Cardinality(made) + Cardinality(skills) <= MaxAttempts /\ Room(Cardinality(skills))
  /\ LET numbers == Cardinality(made) .. (Cardinality(made) + Cardinality(skills) - 1)
         number == CHOOSE f \in [skills -> numbers] : \A s, t \in skills : f[s] = f[t] => s = t
         records == {Record(2, makeId(now, number[s]), now, s, confidenceOf(given)) : s \in skills}
     IN /\ appending' = appending \cup records
        /\ made' = made \cup {[r EXCEPT !.confidence = IF given = "undefined" THEN level ELSE given] : r \in records}
  /\ UNCHANGED <<now, level, log, importing, imports, file, confirmed>>

\* The transaction of one append commits, or the store refuses it.
Append(r) ==
  /\ r \in appending /\ appending' = appending \ {r}
  /\ \/ log' = Put({r}) /\ confirmed' = confirmed \cup {r.id}
     \/ UNCHANGED <<log, confirmed>>
  /\ UNCHANGED <<now, level, importing, imports, file, made>>

---------------------------------------------------------------------------
(* Export, import and reset.                                               *)

TakeExport ==
  /\ file' = Export(log)
  /\ UNCHANGED <<now, level, log, appending, importing, imports, made, confirmed>>

\* import(): every record is validated before the store is opened.  Nothing keeps two
\* imports from being under way at once.
StartImport(f) ==
  /\ f.valid /\ imports < MaxImports /\ Room(1) /\ imports' = imports + 1
  /\ importing' = importing \cup {[n |-> imports + 1, pc |-> "keys", records |-> Normalised(f, imports + 1),
                                   fresh |-> {}]}
  /\ UNCHANGED <<now, level, log, appending, file, made, confirmed>>

\* The first transaction reads the keys of the log.
Existing == IdsOf(log)
ReadKeys(i) ==
  /\ i \in importing /\ i.pc = "keys"
  /\ importing' = (importing \ {i}) \cup
       {[i EXCEPT !.pc = "write", !.fresh = {r \in i.records : r.id \notin Existing}]}
  /\ UNCHANGED <<now, level, log, appending, imports, file, made, confirmed>>

\* The second one puts the records that were new then, all of them or none.
WriteFresh(i) ==
  /\ i \in importing /\ i.pc = "write" /\ importing' = importing \ {i}
  /\ \/ /\ log' = Put(i.fresh)
        /\ confirmed' = confirmed \cup IdsOf(i.fresh)
     \/ UNCHANGED <<log, confirmed>>
  /\ UNCHANGED <<now, level, appending, imports, file, made>>

\* The hard reset.
Clear ==
  /\ log' = {} /\ confirmed' = {}
  /\ UNCHANGED <<now, level, appending, importing, imports, file, made>>

Tick == now < MaxTime /\ now' = now + 1
        /\ UNCHANGED <<level, log, appending, importing, imports, file, made, confirmed>>

Next ==
  \/ \E word \in Words : Set(word)
  \/ \E skills \in SUBSET Skill, given \in {"undefined", "null"} : recordAttempt(skills, given)
  \/ \E r \in appending : Append(r)
  \/ \E f \in {file, Foreign(TRUE), Foreign(FALSE)} : StartImport(f)
  \/ \E i \in importing : ReadKeys(i) \/ WriteFresh(i)
  \/ TakeExport \/ Clear \/ Reload \/ Tick

Spec == Init /\ [][Next]_vars

---------------------------------------------------------------------------

\* readSince(): a range of ids, then the records in it that are late enough.
IdRange(t) == {r \in log : r.id[1] >= t}
readSince(t) == {r \in IdRange(t) : r.ts >= t}

\* The log as its callers rely on it: what an append or an import answered for is
\* there until a reset, under one record per id; an attempt made here is there as it
\* was answered, with the time and the certainty of that moment and not of the commit,
\* through exports and imports that overlap; and a range of ids misses no such attempt
\* that is late enough, only imported records whose ids do not tell their time.
LogTells ==
  /\ confirmed \subseteq IdsOf(log)
  /\ \A r, s \in log : r.id = s.id => r = s
  /\ \A r \in log, a \in made : r.id = a.id => r = a
  /\ \A t \in 1..MaxTime, r \in log : r.ts >= t /\ r.id \in IdsOf(made) => r \in readSince(t)

\* Append-only: an id, once committed, only ever goes with the whole log; and an
\* import of records that are all there is a no-op (attemptlog.js:258-259), whatever
\* was appended or imported since it read the keys.  A record without an id is never
\* there: each import of its file makes another one of it.
AppendOnly ==
  [][/\ IdsOf(log) \subseteq IdsOf(log') \/ log' = {}
     /\ \A i \in importing \ importing' :
          i.pc = "write" /\ i.records \subseteq log => log' = log]_vars
=============================================================================
