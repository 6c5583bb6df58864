------------------------------- MODULE MCPage -------------------------------
(* Instances for TLC of what the pages and clients do beside the sessions:  *)
(* group channels (Group), the boot gate (Boot), memory and its sidecar     *)
(* (Memory), the attempt log (Attempts), the AEGIS verdict (Verdict), the   *)
(* codecs (Codec) and the conversations of a tab (Conversation).  They share *)
(* no state; a behaviour is one of a single part, chosen at the start, and  *)
(* the others stay as they begin.                                           *)
EXTENDS Group

CONSTANTS alice, bob, carol, dave, p1, p2, room,
          Caller, Stored, Skill, MaxTime, MaxAttempts, MaxImports, MaxWork, Words, Vector, Lengths, MaxHits, MaxAudits,
          Bytes, MaxBytes, Chars, MaxChars, Width, Cli, Dashboards, Tenants, SPAWN_DAEMON, MaxDeletes

VARIABLES
  part,
  net, store, gate, callers, told, sodium, modules, page, import, clean, arrived, found, visits,
  banks, indexing, daemon, sidecar, on, calls, exchanged, hints,
  now, level, log, appending, importing, imports, exported, made, confirmed,
  text, setting, audit, panel, checks, asked, audits,
  buffer, key,
  sessions, saved, known, active, pq, blocked, buttons, address, binding, sent, shown, texts, tabs

boot      == <<net, store, gate, callers, told, sodium, modules, page, import, clean, arrived, found, visits>>
memory    == <<banks, indexing, daemon, sidecar, on, calls, exchanged, hints>>
attempts  == <<now, level, log, appending, importing, imports, exported, made, confirmed>>
verdict   == <<text, setting, audit, panel, checks, asked, audits>>
codec     == <<buffer, key>>
talk      == <<sessions, saved, known, active, pq, blocked, buttons, address, binding, sent, shown, texts, tabs>>
pageVars  == <<part, vars, boot, memory, attempts, verdict, codec, talk>>

Three == {alice, bob, carol}
Two   == {alice, bob}
Peers == {p1, p2}

Boot     == INSTANCE Boot WITH MaxReloads <- 2, waiting <- callers, pq <- modules, reloads <- visits
Memory   == INSTANCE Memory WITH Peers <- {p1}, MaxTexts <- 2, texts <- exchanged
Attempts == INSTANCE Attempts WITH file <- exported
Verdict  == INSTANCE Verdict WITH calls <- asked
Codec    == INSTANCE Codec
Conversation ==
  INSTANCE Conversation WITH Peer <- Peers, Group <- room, MaxTexts <- 2, reloads <- tabs

\* An identity that is stored is of a version there is; a bank has an owner; there is a time to
\* answer at; and a claim has vectors and words.
ASSUME BootAssumption == Stored \subseteq Boot!Identities
ASSUME ConversationAssumption == None \notin Peers /\ {None, room} \cap Conversation!Who = {}
ASSUME MemoryAssumption == Tenants \subseteq Memory!Users /\ MaxDeletes \in Nat
ASSUME AttemptsAssumption ==
  IsFiniteSet(Skill) /\ Skill # {} /\ MaxTime \in Nat \ {0} /\ {MaxAttempts, MaxImports} \subseteq Nat
ASSUME VerdictAssumption ==
  /\ IsFiniteSet(Vector) /\ Vector # {} /\ MaxHits \in Nat
  /\ IsFiniteSet(Lengths) /\ Lengths # {} /\ Lengths \subseteq Nat \ {0}

PageInit ==
  /\ part \in {"group", "boot", "memory", "attempts", "verdict", "codec", "talk"}
  /\ Init /\ Boot!Init /\ Attempts!Init /\ Codec!Init /\ Conversation!Init
  /\ Memory!Init /\ (part = "memory" \/ daemon.state = "down")
  /\ Verdict!Init /\ (part = "verdict" \/ setting = [key |-> FALSE, factKey |-> FALSE, offline |-> FALSE])

PageNext ==
  \/ part = "group"    /\ Next              /\ UNCHANGED <<part, boot, memory, attempts, verdict, codec, talk>>
  \/ part = "boot"     /\ Boot!Next         /\ UNCHANGED <<part, vars, memory, attempts, verdict, codec, talk>>
  \/ part = "memory"   /\ Memory!Next       /\ UNCHANGED <<part, vars, boot, attempts, verdict, codec, talk>>
  \/ part = "attempts" /\ Attempts!Next     /\ UNCHANGED <<part, vars, boot, memory, verdict, codec, talk>>
  \/ part = "verdict"  /\ Verdict!Next      /\ UNCHANGED <<part, vars, boot, memory, attempts, codec, talk>>
  \/ part = "codec"    /\ Codec!Next        /\ UNCHANGED <<part, vars, boot, memory, attempts, verdict, talk>>
  \/ part = "talk"     /\ Conversation!Next /\ UNCHANGED <<part, vars, boot, memory, attempts, verdict, codec>>

PageSpec == PageInit /\ [][PageNext]_pageVars

------------------------------------------------------------------------------
(* What the run checks, part by part.                                       *)

\* Whoever was told the page is ready finds an identity, libsodium and a relay
\* that was dialled; nobody waits on a bootstrap that is not running.
ReadyMeansReady == part = "boot" => Boot!TypeOK /\ Boot!ReadyMeansReady

\* A user's hints come from that user's own memories, from what the daemon has
\* indexed, and a sidecar that a signal ends has asked its daemon to stop.
MemoriesHonest ==
  part = "memory" => Memory!TypeOK /\ Memory!OwnMemories /\ Memory!SeesItIndexed /\ Memory!StopsItsOwn

\* What was answered for is in the log, as it was stated, until it is reset, and a
\* reader of the last attempts misses none of those made here.
LogTells == part = "attempts" => Attempts!TypeOK /\ Attempts!LogTells

\* Padding a claim never clears it, the gate never sends a draft away nor an audit
\* asks the model when that is forced off, and the panels speak of the claim that was
\* audited.
VerdictsHold ==
  part = "verdict" => Verdict!PaddingNeverClears /\ Verdict!GateStaysHere /\ Verdict!PanelsTellTheClaim

\* Each decoder undoes its encoder, byte for byte, and what is shown of a key has
\* no control or lookalike character and no more than its ends.
CodecsExact == part = "codec" => Codec!Base58Exact /\ Codec!Base64Exact /\ Codec!ShownClean

\* A held text is sent only when its gate is confirmed; before a reload every
\* session routes; a rebuttal is shown as verified if its author made it under the
\* address it is taken to come from, which in a session is its sender's.
ConversationsHold ==
  part = "talk" => /\ Conversation!HeldIsConfirmed
                   /\ Conversation!RoutedBeforeReload
                   /\ Conversation!VerifiedIsBound

\* Steps that may not happen: a bootstrap that fails without a cause or gives up
\* the identity (Boot), an id that leaves the log before a reset or an import of what
\* is there that changes it (Attempts), a marker added to a claim that lowers its
\* risk (Verdict).
StepsHold ==
  Boot!FailsForCause /\ Boot!KeepsIdentity /\ Attempts!AppendOnly /\ Verdict!MarkersNeverHelp

=============================================================================
