------------------------------- MODULE Assets -------------------------------
(***************************************************************************)
(* The pinned file trees of the repository and the local web server that   *)
(* hands them to the page: public/fonts (tools/fetch-fonts.mjs),           *)
(* public/vendor (tools/vendor.mjs), public/aegis (tools/vendor-aegis.mjs) *)
(* and tools/.age-cli (tools/fetch-age-cli.mjs), served by tools/serve.mjs.*)
(* The four trees do not meet, so a behaviour follows one of them, chosen  *)
(* at the start.  A file's content is the version upstream gave it, 0 when *)
(* the disk damaged it; a hash stands for the content.  The tool may be    *)
(* killed between any two system calls.                                    *)
(***************************************************************************)
EXTENDS Naturals, Functions

CONSTANTS File, NoTree, MaxVersion, Request,
          Served,       \* bound: the trees files are requested from
          MaxEvents     \* bound: publications, withdrawals, damages and kills

VARIABLES
  kind,        \* the tree this behaviour follows
  upstream,    \* what the CDN, node_modules, the AEGIS tree or the release offers
  out,         \* the directory in the repository, NoTree when there is none
  pins,        \* the committed hashes, NoTree when there is no manifest
  sourcePins,  \* vendor-aegis: the hash of the source as read for the manifest
  run,         \* the tool's run in progress
  copied,      \* what the last run that wrote the pins had copied
  edited,      \* the source changed while that run was reading it
  server,      \* tools/serve.mjs: is it up, did its check at startup fail
  cache, req,
  events

vars == <<kind, upstream, out, pins, sourcePins, run, copied, edited, server, cache, req, events>>

Kind == {"fonts", "vendor", "aegis", "age"}
Version == 0..MaxVersion
Archive == CHOOSE f \in File : TRUE
Empty == [f \in {} |-> 0]
Idle == [pc |-> "idle", update |-> FALSE, todo |-> {}, got |-> Empty, old |-> NoTree,
         file |-> Archive, sha |-> Empty, source |-> Empty, edited |-> FALSE]
Free == [pc |-> "free", file |-> Archive, current |-> FALSE, body |-> 0, since |-> {}]

Files(tree) == IF tree = NoTree THEN {} ELSE DOMAIN tree
Has(tree, f, v) == f \in Files(tree) /\ tree[f] = v
Put(tree, f, v) == [g \in Files(tree) \cup {f} |-> IF g = f THEN v ELSE tree[g]]

\* Every pinned file is there with its hash; the age binary only has to run.
Pinned == pins # NoTree /\ \A f \in DOMAIN pins : Has(out, f, pins[f])
AgeRuns == \A f \in File : f \in Files(out) /\ out[f] # 0
CheckOk == Pinned /\ (kind = "age" => AgeRuns)

SourcePresent == pins # NoTree /\ DOMAIN sourcePins \subseteq DOMAIN upstream

CheckSourceOk == pins # NoTree /\ \A f \in DOMAIN sourcePins : Has(upstream, f, sourcePins[f])

Init ==
  /\ kind \in Kind
  /\ upstream = [f \in File |-> 1]
  /\ out = NoTree
  /\ pins = IF kind = "age" THEN [f \in {Archive} |-> 1] ELSE NoTree
  /\ sourcePins = Empty /\ copied = Empty /\ edited = FALSE
  /\ run = Idle
  /\ server = [up |-> FALSE, failed |-> FALSE]
  /\ cache = [f \in File |-> [current |-> FALSE, body |-> 0]]
  /\ req = [r \in Request |-> Free]
  /\ events = 0

\* A step writes the files of W, or none: an mtime the server noted for one of
\* them is the file's no more.  A request that is being answered also notes what
\* its file has been meanwhile.
Written(W) ==
  /\ req' = [r \in Request |-> IF req[r].pc \in {"free", "done"} THEN req[r] ELSE
       [req[r] EXCEPT !.since = @ \cup {out'[f] : f \in Files(out') \cap {req[r].file}},
                      !.current = @ /\ req[r].file \notin W]]
  /\ cache' = [f \in File |-> [cache[f] EXCEPT !.current = @ /\ f \notin W]]
  /\ UNCHANGED server

RunOnly(W) == UNCHANGED <<kind, upstream, pins, sourcePins, copied, edited>> /\ Written(W)

---------------------------------------------------------------------------
(* The world: a new version, a withdrawn file, a damaged disk.             *)

Event == events < MaxEvents /\ events' = events + 1

Publish(f) ==
  /\ Event
  /\ f \in DOMAIN upstream /\ upstream[f] < MaxVersion
  /\ upstream' = [upstream EXCEPT ![f] = @ + 1]
  /\ run' = [run EXCEPT !.edited = run.pc # "idle"]
  /\ UNCHANGED <<kind, out, pins, sourcePins, copied, edited>> /\ Written({})

Withdraw(f) ==
  /\ Event
  /\ f \in DOMAIN upstream /\ kind # "age"
  /\ upstream' = Restrict(upstream, DOMAIN upstream \ {f})
  /\ run' = [run EXCEPT !.edited = run.pc # "idle"]
  /\ UNCHANGED <<kind, out, pins, sourcePins, copied, edited>> /\ Written({})

Damage(f) ==
  /\ Event
  /\ f \in Files(out) /\ run.pc = "idle" /\ out' = [out EXCEPT ![f] = 0]
  /\ UNCHANGED run /\ RunOnly({f})

Kill ==
  /\ Event
  /\ run.pc # "idle" /\ run' = Idle
  /\ UNCHANGED out /\ RunOnly({})

---------------------------------------------------------------------------
(* The tools.                                                              *)

\* fetch-fonts takes the list of files from the css it fetched; the walk of
\* vendor.mjs and the table of vendor-aegis name the same files every time;
\* fetch-age-cli starts only with --force or when its check fails.
Listing == IF kind = "fonts" THEN DOMAIN upstream ELSE File
Begin(update) ==
  /\ run.pc = "idle"
  /\ kind = "age" => update \/ ~CheckOk
  /\ run' = [Idle EXCEPT !.pc = "read", !.update = update, !.todo = Listing]
  /\ UNCHANGED out /\ RunOnly({})

\* verifyFont and the archive's hash: --update-manifest takes any bytes, a font
\* without a pin is refused; the archive's hash is compared whatever the options.
Verified(f, v) == \/ kind = "fonts" /\ run.update
                  \/ Has(pins, f, v)
                  \/ kind = "age" /\ f # Archive

\* A download written to its place at once.
StageInPlace(f) ==
  /\ run.pc = "read" /\ kind \in {"fonts", "age"} /\ f \in run.todo
  /\ LET v == IF f \in DOMAIN upstream THEN upstream[f] ELSE 0
     IN IF v # 0 /\ Verified(f, v)
        THEN /\ run' = [run EXCEPT !.todo = @ \ {f}, !.got = Put(@, f, v)]
             /\ out' = Put(out, f, v)
        ELSE run' = Idle /\ UNCHANGED out
  /\ RunOnly({f})

\* One download into the staging directory.  The age binary comes out of the
\* archive, after the archive's hash was compared.
Stage(f) ==
  /\ run.pc = "read" /\ kind \in {"fonts", "age"} /\ f \in run.todo
  /\ kind = "age" => (f = Archive <=> Archive \in run.todo)
  /\ LET v == IF kind = "age" /\ f # Archive THEN run.got[Archive]
              ELSE IF f \in DOMAIN upstream THEN upstream[f] ELSE 0
     IN IF v # 0 /\ Verified(f, v)
        THEN run' = [run EXCEPT !.todo = @ \ {f}, !.got = Put(@, f, v)]
        ELSE run' = Idle
  /\ UNCHANGED out /\ RunOnly({})

\* rmSync takes the files of the old age cache one by one; it may fail, or be
\* killed, with some of them gone.
RemoveOld(f) ==
  /\ run.pc = "read" /\ kind = "age" /\ run.todo = {} /\ f \in Files(out)
  /\ \/ out' = Restrict(out, Files(out) \ {f}) /\ UNCHANGED run
     \/ run' = Idle /\ UNCHANGED out
  /\ RunOnly({f})

\* The old directory goes: renamed aside (fonts), or removed once it is empty (age).
MoveAside ==
  /\ run.pc = "read" /\ kind \in {"fonts", "age"} /\ run.todo = {}
  /\ kind = "age" => Files(out) = {}
  /\ out' = NoTree
  /\ run' = [run EXCEPT !.pc = "swap", !.old = IF kind = "fonts" THEN out ELSE NoTree]
  /\ RunOnly({})

\* The staged directory takes its place; fetch-fonts puts the old one back when
\* the rename fails, which may fail too, fetch-age-cli has nothing to put back.
MoveIn ==
  /\ run.pc = "swap"
  /\ \/ out' = run.got /\ run' = [run EXCEPT !.pc = "pin"] /\ RunOnly(File)
     \/ out' \in {run.old, NoTree} /\ run' = Idle /\ RunOnly({})

\* vendor.mjs with each hash written as the file is copied.
PinFirst(f) ==
  /\ run.pc = "read" /\ kind = "vendor" /\ f \in run.todo
  /\ LET v == IF f \in DOMAIN upstream THEN upstream[f] ELSE 1
     IN /\ pins' = Put(pins, f, v) /\ out' = Put(out, f, v)
        /\ run' = [run EXCEPT !.todo = @ \ {f}, !.got = Put(@, f, v)]
  /\ UNCHANGED <<kind, upstream, sourcePins, copied, edited>> /\ Written({f})

\* vendor.mjs: one module read and copied; a missing one is reported and skipped.
CopyModule(f) ==
  /\ run.pc = "read" /\ kind = "vendor" /\ f \in run.todo
  /\ IF f \in DOMAIN upstream
     THEN /\ out' = Put(out, f, upstream[f])
          /\ run' = [run EXCEPT !.todo = @ \ {f}, !.got = Put(@, f, upstream[f])]
     ELSE run' = [run EXCEPT !.todo = @ \ {f}] /\ UNCHANGED out
  /\ RunOnly({f})

\* vendor-aegis: a source is read for its hash, read again by copyFileSync, and
\* a third time for sourceSha256; a missing one is reported and skipped, one that
\* disappears between two of the reads ends the run.
HashSource(f) ==
  /\ run.pc = "read" /\ kind = "aegis" /\ f \in run.todo
  /\ run' = IF f \in DOMAIN upstream
            THEN [run EXCEPT !.pc = "copy", !.file = f, !.todo = @ \ {f}, !.sha = Put(@, f, upstream[f])]
            ELSE [run EXCEPT !.todo = @ \ {f}]
  /\ UNCHANGED out /\ RunOnly({})

CopySource ==
  /\ run.pc = "copy"
  /\ LET f == run.file IN
     IF f \in DOMAIN upstream
     THEN /\ out' = Put(out, f, upstream[f])
          /\ run' = [run EXCEPT !.pc = "source", !.got = Put(@, f, upstream[f])]
     ELSE run' = Idle /\ UNCHANGED out
  /\ RunOnly({run.file})

HashAgain ==
  /\ run.pc = "source"
  /\ run' = IF run.file \in DOMAIN upstream
            THEN [run EXCEPT !.pc = "read", !.source = Put(@, run.file, upstream[run.file])]
            ELSE Idle
  /\ UNCHANGED out /\ RunOnly({})

\* The manifest, last: what was downloaded (fonts, only with --update-manifest),
\* what is now on the disk (vendor) or what was read before the copy (aegis).
WriteManifest ==
  /\ run.pc = "pin" \/ (run.pc = "read" /\ run.todo = {} /\ kind \in {"vendor", "aegis"})
  /\ LET hashes == CASE kind = "fonts"  -> run.got
                     [] kind = "vendor" -> Restrict(out, DOMAIN run.got)
                     [] OTHER           -> run.sha
         pinned == kind \in {"vendor", "aegis"} \/ (kind = "fonts" /\ run.update)
     IN /\ pins' = IF pinned THEN hashes ELSE pins
        /\ sourcePins' = run.source
        /\ copied' = run.got /\ edited' = run.edited
  /\ run' = Idle
  /\ UNCHANGED <<kind, upstream, out>> /\ Written({})

---------------------------------------------------------------------------
(* tools/serve.mjs.                                                        *)

\* The hashes of vendor/ and aegis/ are compared once, when the server starts.
StartServer ==
  /\ ~server.up
  /\ server' = [up |-> TRUE, failed |-> kind \in {"vendor", "aegis"} /\ ~CheckOk]
  /\ UNCHANGED <<kind, upstream, out, pins, sourcePins, run, copied, edited, cache, req>>

\* A request for a file of the tree: 503 after a failed check, else stat, then
\* the cached body when the mtime is the file's, else a read and a new entry.
Ask(r, f) ==
  /\ server.up /\ ~server.failed /\ kind \in Served /\ req[r].pc \in {"free", "done"}
  /\ req' = [req EXCEPT ![r] = [Free EXCEPT !.pc = "stat", !.file = f,
                                            !.since = {out[g] : g \in Files(out) \cap {f}}]]
  /\ UNCHANGED <<kind, upstream, out, pins, sourcePins, run, copied, edited, server, cache>>

AnyHit(entry) == entry.body # 0

Hit(entry) == entry.current

Answered(r, body) == [req[r] EXCEPT !.pc = "done", !.body = body]
GetAsset(r) ==
  /\ LET f == req[r].file IN
     CASE req[r].pc \in {"stat", "read"} /\ f \notin Files(out) ->
            req' = [req EXCEPT ![r] = Free] /\ UNCHANGED cache      \* 404
       [] req[r].pc = "stat" /\ f \in Files(out) ->
            req' = [req EXCEPT ![r] = IF Hit(cache[f]) THEN Answered(r, cache[f].body)
                                      ELSE [@ EXCEPT !.pc = "read", !.current = TRUE]]
            /\ UNCHANGED cache
       [] req[r].pc = "read" /\ f \in Files(out) ->
            req' = [req EXCEPT ![r].pc = "store", ![r].body = out[f]] /\ UNCHANGED cache
       [] req[r].pc = "store" ->
            req' = [req EXCEPT ![r] = Answered(r, req[r].body)]
            /\ cache' = [cache EXCEPT ![f] = [current |-> req[r].current, body |-> req[r].body]]
       [] OTHER -> FALSE
  /\ UNCHANGED <<kind, upstream, out, pins, sourcePins, run, copied, edited, server>>

Tools == \/ \E update \in BOOLEAN : Begin(update)
         \/ \E f \in File : Stage(f) \/ RemoveOld(f) \/ CopyModule(f) \/ HashSource(f)
         \/ MoveAside \/ MoveIn \/ CopySource \/ HashAgain \/ WriteManifest
World == Kill \/ \E f \in File : Publish(f) \/ Withdraw(f) \/ Damage(f)
Serve == StartServer \/ \E r \in Request : Ask(r, Archive) \/ GetAsset(r)
Next == World \/ ((Tools \/ Serve) /\ UNCHANGED events)

Spec == Init /\ [][Next]_vars

---------------------------------------------------------------------------

\* Fonts that are not being re-pinned match the pins; both files of the age
\* cache come from the pinned archive.
Genuine(set) ==
  CASE kind = "fonts" -> run.update \/ \A f \in DOMAIN set : Has(pins, f, set[f])
    [] OTHER -> \A f \in File : Has(set, f, pins[Archive])

\* public/fonts and tools/.age-cli are left alone until every file of the new set is
\* staged and, unless the fonts are being re-pinned, verified.  From there a step puts
\* in that set as a whole, takes the old fonts away or puts them back as a whole, or
\* takes files of the old age cache away.  A kill in between leaves no fonts, or part
\* of the old age cache, but never a file of both sets.
SwapStep ==
  (kind \in {"fonts", "age"} /\ out' # out /\ run.pc # "idle") =>
    /\ run.todo = {} /\ Genuine(run.got)
    /\ \/ out' = run.got
       \/ kind = "fonts" /\ out' \in {NoTree, run.old}
       \/ kind = "age" /\ \A f \in Files(out') : Has(out, f, out'[f])
SwappedWhole == [][SwapStep]_vars

\* When --check passes on vendor/ or aegis/, what is on the disk is what the last
\* run that reached its end copied: no killed run, damaged file or later source
\* goes unnoticed, because the pins are written last.
CheckedIsOneRun ==
  kind \in {"vendor", "aegis"} /\ CheckOk => \A f \in DOMAIN pins : Has(copied, f, out[f])

\* When --check and --check-source both pass, the messenger's copy of the AEGIS
\* modules is the AEGIS source, unless the source changed while it was read.
NoDrift ==
  kind = "aegis" /\ CheckOk /\ CheckSourceOk /\ ~edited
     => \A f \in DOMAIN pins : Has(out, f, upstream[f])

\* No request is answered with bytes the file had stopped holding before the
\* request came, whatever other requests read and cached meanwhile.
FreshAsset == \A r \in Request : req[r].pc = "done" => req[r].body \in req[r].since

\* The header of fetch-fonts.mjs: a failure or a crash leaves the served fonts.
FontsStay == [][kind = "fonts" /\ out # NoTree => out' # NoTree]_vars
=============================================================================
