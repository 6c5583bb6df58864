------------------------------- MODULE MCHost -------------------------------
(* Instances for TLC of the relay's directory with a client that looks peers *)
(* up in it (Directory), and of what runs on the user's machine beside: the *)
(* tools (Assets, Staged, AgsCli, Scan), the launchers (Launch) and the     *)
(* keyfile (Keyfile).  They share no state; a behaviour is one of a single  *)
(* part, chosen at the start, and the others stay as they begin.            *)
EXTENDS Directory, TLC

CONSTANTS alice, bob,
          File, NoTree, MaxVersion, Request, Served, MaxEvents, MaxChanges, MaxLines, Shapes,
          Proc, daily, PoolSize, MaxMade

\* daily is the client of the keyfile part.
ASSUME KeyfileAssumption == daily \in Proc /\ {PoolSize, MaxMade} \subseteq Nat

\* A file of the skill has room for a line.
ASSUME ScanAssumption == MaxLines \in Nat \ {0}

\* The first version of a file is not the damaged one; no directory is no empty one.
ASSUME AssetsAssumption ==
  /\ File # {} /\ MaxVersion \in Nat \ {0}
  /\ NoTree \notin UNION {[S -> 0..MaxVersion] : S \in SUBSET File}

\* alice published one prekey and bob two, in shards of their own.
Two     == {alice, bob}
Numbers == alice :> 1 @@ bob :> 2
Pools   == alice :> {1} @@ bob :> {1, 2}

VARIABLES
  part,
  kind, upstream, out, pins, sourcePins, run, copied, edited, server, cache, req, events,
  type, head, index, work, hook, check, commit, changes,
  asked, tor, foreign, relay, ui, launcher, down, browser, link,
  dist, fixture, live, command, last,
  skill, opts, pc, todo, structure, findings, resaved, reported,
  keyfile, sessfile, proc, published, made, opened, overlap

assets == <<kind, upstream, out, pins, sourcePins, run, copied, edited, server, cache, req, events>>
staged == <<type, head, index, work, hook, check, commit, changes>>
launch == <<asked, tor, foreign, relay, ui, launcher, down, browser, link>>
ags    == <<dist, fixture, live, command, last>>
scan   == <<skill, opts, pc, todo, structure, findings, resaved, reported>>
keys   == <<keyfile, sessfile, proc, published, made, opened, overlap>>
hostVars == <<part, vars, assets, staged, launch, ags, scan, keys>>

Assets  == INSTANCE Assets
Staged  == INSTANCE Staged
Launch  == INSTANCE Launch
AgsCli  == INSTANCE AgsCli WITH run <- command
Scan    == INSTANCE Scan WITH edited <- resaved
Keyfile == INSTANCE Keyfile WITH client <- daily

HostInit ==
  /\ part \in {"look", "assets", "staged", "launch", "ags", "scan", "keyfile"}
  /\ Init /\ (part = "look" \/ client = "cli")
  /\ Assets!Init /\ (part = "assets" \/ kind = "fonts")
  /\ Staged!Init /\ (part = "staged" \/ type = "js")
  /\ Launch!Init
  /\ part = "launch" \/ (~tor /\ foreign = {} /\ asked = CHOOSE x \in Launch!Asked : Launch!Sensible(x))
  /\ AgsCli!Init /\ (part = "ags" \/ (dist = "absent" /\ fixture = "none" /\ live = "object"))
  /\ Scan!Init
  /\ Keyfile!Init /\ (part = "keyfile" \/ keyfile.kind = "absent")

HostNext ==
  \/ part = "look"    /\ Next         /\ UNCHANGED <<part, assets, staged, launch, ags, scan, keys>>
  \/ part = "assets"  /\ Assets!Next  /\ UNCHANGED <<part, vars, staged, launch, ags, scan, keys>>
  \/ part = "staged"  /\ Staged!Next  /\ UNCHANGED <<part, vars, assets, launch, ags, scan, keys>>
  \/ part = "launch"  /\ Launch!Next  /\ UNCHANGED <<part, vars, assets, staged, ags, scan, keys>>
  \/ part = "ags"     /\ AgsCli!Next  /\ UNCHANGED <<part, vars, assets, staged, launch, scan, keys>>
  \/ part = "scan"    /\ Scan!Next    /\ UNCHANGED <<part, vars, assets, staged, launch, ags, keys>>
  \/ part = "keyfile" /\ Keyfile!Next /\ UNCHANGED <<part, vars, assets, staged, launch, ags, scan>>

HostSpec == HostInit /\ [][HostNext]_hostVars

Symmetry == Permutations(Request)

---------------------------------------------------------------------------
(* What the run checks, part by part.                                       *)

\* A check that passes means what its documentation says.  Assets: --check
\* vouches for the files one run copied, with --check-source for the AEGIS
\* sources, and a request is answered with bytes the file held since it came.
\* Staged: --all finds what a commit made past the hook let in.  AgsCli: the exit
\* code of the repair is the state it leaves.
ChecksTell ==
  /\ part = "assets" => Assets!CheckedIsOneRun /\ Assets!NoDrift /\ Assets!FreshAsset
  /\ part = "staged" => Staged!AllIsBackstop
  /\ part = "ags" => AgsCli!ExitTellsState

\* The route and the encryption of a link are never weaker than what was asked
\* for, whatever the relay and Tor do; and a launcher that shuts down leaves no
\* child behind.
LinksAsAsked == part = "launch" => Launch!LinkAsAsked /\ Launch!NothingLeft

\* What tools/messenger.mjs says of its end, which a missing opener refutes.
ServersStop == part = "launch" => Launch!StopsBothServers

\* The verdict on a skill is the rubric's over each file on its own, whatever the
\* order of the passes, and a critical finding is never let in.
ScanSound == part = "scan" => Scan!ScoreIsRubrics /\ Scan!NeverAllowed

\* A process works with the keys that are stored, and a prekey the relay offers is
\* one whose secret some process or file still has.
KeysHold == part = "keyfile" => Keyfile!TypeOK /\ Keyfile!RunsAsStored /\ Keyfile!OfferedOpens

\* What is on disk is replaced whole: a set of fonts or binaries by one that was
\* verified, once all of it is there (SwappedWhole), a verified tree by a commit that passes
\* (VerifiedCommitsHold), a keyfile by one with the same identity (AddressKept).
KeepsWhole == Assets!SwappedWhole /\ Staged!VerifiedCommitsHold /\ Keyfile!AddressKept
=============================================================================
