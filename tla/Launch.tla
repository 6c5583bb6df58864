------------------------------- MODULE Launch -------------------------------
(***************************************************************************)
(* How the parts come up and reach each other: tools/messenger.mjs and     *)
(* tools/messenger-tor.mjs with the children they spawn, the relay's start *)
(* (src/server.js), and the CLI client's link to the relay (src/client.js  *)
(* with src/tor.js, src/tls.js and src/cover.js).  What the user asked for *)
(* and what the machine offers is one record chosen at the start; Tor may  *)
(* go down and children may die at any time.                               *)
(***************************************************************************)
EXTENDS Naturals, FiniteSets

VARIABLES
  asked,      \* options and environment of every program
  tor,        \* a SOCKS proxy listens
  foreign,    \* other programs listen on the relay's and the server's ports
  relay, ui,  \* the children: "off", "starting", "up" or "gone"
  launcher,   \* its main flow: "off", "probing", "wait-relay", "wait-ui", "open", "ready", "failed", "crashed"
  down,       \* its shutdown: "no", "stopping", "gone"
  browser,    \* "off", "direct" or "proxied"
  link        \* the CLI client's: stage and route

vars == <<asked, tor, foreign, relay, ui, launcher, down, browser, link>>

Asked == [launch : {"local", "tor", "relay"},       \* messenger.mjs, messenger-tor.mjs, server.js alone
          url : {"none", "plain", "loopback", "remote"},   \* MESSENGER_TOR_RELAY
          keypair : BOOLEAN, tlsOff : BOOLEAN,             \* the relay's
          noTor : BOOLEAN, fallback : BOOLEAN,             \* --no-tor, --allow-direct-fallback
          tls : BOOLEAN, pin : {"none", "right", "wrong"}] \* RELAY_TLS, RELAY_PIN

\* Options that another option makes meaningless keep one value.
Sensible(a) ==
  /\ a.launch # "tor" => a.url = "none"
  /\ a.launch # "relay" => a.keypair /\ a.tlsOff
  /\ a.noTor => ~a.fallback
  /\ ~a.tls => a.pin = "none"

Init ==
  /\ asked \in {a \in Asked : Sensible(a)}
  /\ tor \in BOOLEAN /\ foreign \in SUBSET {"relay", "ui"}
  /\ relay = "off" /\ ui = "off" /\ launcher = "off" /\ down = "no" /\ browser = "off"
  /\ link = [stage |-> "off", route |-> "none", encrypted |-> FALSE]

OthersUnchanged == UNCHANGED <<asked, tor, foreign>>

---------------------------------------------------------------------------
(* The launchers.                                                          *)

\* messenger.mjs spawns at once; messenger-tor first refuses a relay that is
\* not a remote wss:// one, and then a Tor proxy that does not answer.
Start ==
  /\ launcher = "off" /\ relay = "off"
  /\ CASE asked.launch = "local" -> relay' = "starting" /\ ui' = "starting" /\ launcher' = "wait-relay"
       [] asked.launch = "tor" /\ asked.url = "remote" -> launcher' = "probing" /\ UNCHANGED <<relay, ui>>
       [] asked.launch = "tor" /\ asked.url # "remote" -> launcher' = "failed" /\ UNCHANGED <<relay, ui>>
       [] OTHER -> relay' = "starting" /\ UNCHANGED <<ui, launcher>>
  /\ UNCHANGED <<down, browser, link>> /\ OthersUnchanged

Probe ==
  /\ launcher = "probing"
  /\ IF tor THEN ui' = "starting" /\ launcher' = "wait-ui"
                   ELSE launcher' = "failed" /\ UNCHANGED ui
  /\ UNCHANGED <<relay, down, browser, link>> /\ OthersUnchanged

\* A relay without its key pair refuses to start unless TLS_OFF says so; a port
\* that is taken ends the process.
RelayStarts ==
  /\ relay = "starting"
  /\ relay' = IF "relay" \in foreign \/ (~asked.tlsOff /\ ~asked.keypair) THEN "gone" ELSE "up"
  /\ UNCHANGED <<ui, launcher, down, browser, link>> /\ OthersUnchanged

ServerStarts ==
  /\ ui = "starting"
  /\ ui' = IF "ui" \in foreign THEN "gone" ELSE "up"
  /\ UNCHANGED <<relay, launcher, down, browser, link>> /\ OthersUnchanged

\* waitForTcp and waitForHttp ask a port, whoever listens there.  The main flow
\* is not told of a shutdown: it goes on until the process exits.
Wait ==
  /\ down # "gone"
  /\ \/ launcher = "wait-relay" /\ (relay = "up" \/ "relay" \in foreign) /\ launcher' = "wait-ui"
     \/ launcher = "wait-ui" /\ (ui = "up" \/ "ui" \in foreign) /\ launcher' = "open"
  /\ UNCHANGED <<relay, ui, down, browser, link>> /\ OthersUnchanged

\* The opener of the system's browser may not be there.  spawn reports that with an
\* 'error' event on the next tick, past openBrowser's try, and nobody listens for it:
\* the launcher ends without its shutdown, and what it spawned goes on.
Open ==
  /\ down # "gone" /\ launcher = "open"
  /\ \/ /\ launcher' = "ready" /\ UNCHANGED down
        /\ browser' = IF asked.launch = "tor" THEN "proxied" ELSE "direct"
     \/ asked.launch = "local" /\ launcher' = "crashed" /\ down' = "gone" /\ UNCHANGED browser
  /\ UNCHANGED <<relay, ui, link>> /\ OthersUnchanged

\* The shutdown as it would be if it left a starting child alone.
KilledWhenUp(child) == IF child = "up" THEN "gone" ELSE child

Killed(child) == IF child \in {"starting", "up"} THEN "gone" ELSE child

\* A signal, the exit of a child or a wait that took too long starts the
\* shutdown, once: SIGTERM to the children, the Tor browser closed.
Shutdown ==
  /\ down = "no" /\ launcher \in {"wait-relay", "wait-ui", "open", "ready"}
  /\ down' = "stopping"
  /\ relay' = IF asked.launch = "local" THEN Killed(relay) ELSE relay
  /\ ui' = Killed(ui)
  /\ browser' = IF browser = "proxied" THEN "off" ELSE browser
  /\ UNCHANGED <<launcher, link>> /\ OthersUnchanged

\* The exit, 200 ms later; the driver's browser does not outlive the process.
Exit ==
  /\ down = "stopping" /\ down' = "gone"
  /\ browser' = IF browser = "proxied" THEN "off" ELSE browser
  /\ UNCHANGED <<relay, ui, launcher, link>> /\ OthersUnchanged

---------------------------------------------------------------------------
(* The machine.                                                            *)

ChildDies ==
  /\ \/ relay = "up" /\ relay' = "gone" /\ UNCHANGED ui
     \/ ui = "up" /\ ui' = "gone" /\ UNCHANGED relay
  /\ UNCHANGED <<launcher, down, browser, link>> /\ OthersUnchanged

TorChanges == tor' = ~tor /\ UNCHANGED <<asked, foreign, relay, ui, launcher, down, browser, link>>

---------------------------------------------------------------------------
(* The CLI client's link.                                                  *)

LinkTo(stage, route, encrypted) ==
  link' = [stage |-> stage, route |-> route, encrypted |-> encrypted]
LinkOnly == UNCHANGED <<relay, ui, launcher, down, browser>> /\ OthersUnchanged

\* TLS without a pin is refused before anything is dialled.
Dial ==
  /\ link.stage = "off"
  /\ IF asked.tls /\ asked.pin = "none" THEN LinkTo("exit", "none", FALSE)
     ELSE LinkTo("socket", "none", FALSE)
  /\ LinkOnly

\* createTorSocket as it was before it failed closed.
Downgrade == TRUE
MayFallBack == asked.fallback

\* createTorSocket: through the proxy, directly when Tor was not wanted, or
\* directly when the proxy does not answer and the user allowed it.
Socket ==
  /\ link.stage = "socket"
  /\ LET next == IF asked.tls THEN "handshake" ELSE "connected"
         direct == asked.noTor \/ (~tor /\ MayFallBack)
     IN CASE relay = "up" /\ tor /\ ~asked.noTor -> LinkTo(next, "tor", FALSE)
          [] relay = "up" /\ direct -> LinkTo(next, "direct", FALSE)
          [] OTHER -> LinkTo("exit", "none", FALSE)
  /\ LinkOnly

\* createTlsSocket: the certificate's fingerprint decides; a relay that speaks
\* plaintext fails the handshake.
Handshake ==
  /\ link.stage = "handshake"
  /\ IF relay = "up" /\ ~asked.tlsOff /\ asked.pin = "right"
     THEN LinkTo("connected", link.route, TRUE)
     ELSE LinkTo("exit", link.route, FALSE)
  /\ LinkOnly

\* Cover frames, the directory's shard and the publication go out as soon as the
\* socket is there.  A relay that speaks TLS drops a client that does not.
FirstWrite ==
  /\ link.stage = "connected" /\ LinkTo("sending", link.route, link.encrypted) /\ LinkOnly

Closed ==
  /\ link.stage = "sending" /\ (relay # "up" \/ (~asked.tls /\ ~asked.tlsOff))
  /\ LinkTo("exit", link.route, link.encrypted) /\ LinkOnly

Next == \/ Start \/ Probe \/ RelayStarts \/ ServerStarts \/ Wait \/ Open \/ Shutdown \/ Exit
        \/ ChildDies \/ TorChanges
        \/ Dial \/ Socket \/ Handshake \/ FirstWrite \/ Closed

Spec == Init /\ [][Next]_vars

---------------------------------------------------------------------------

\* Nothing the client writes leaves on another path than the one asked for: a
\* direct link only when the user gave up Tor or allowed the fallback, and with
\* RELAY_TLS=1 never before the pinned certificate was seen.
LinkAsAsked ==
  link.stage = "sending" =>
    /\ link.route = "direct" => asked.noTor \/ asked.fallback
    /\ asked.tls => link.encrypted /\ asked.pin = "right"

\* A launcher that went through its shutdown leaves none of its children and no Tor
\* browser, the one for Tor always does, and its browser is on the proxy.
NothingLeft ==
  /\ down = "gone" /\ launcher # "crashed" =>
       /\ ui \in {"off", "gone"} /\ browser # "proxied"
       /\ asked.launch = "local" => relay = "gone" /\ ui = "gone"
  /\ asked.launch = "tor" => launcher # "crashed" /\ browser # "direct"

\* The header and the comments of tools/messenger.mjs: it keeps running until a
\* signal arrives, and Ctrl+C stops both servers.
StopsBothServers ==
  down = "gone" /\ asked.launch = "local" => relay = "gone" /\ ui = "gone"

\* The comment in src/server.js that plaintext on the link is a conscious
\* decision: a client never writes in the clear to a relay that runs TLS.
PlaintextIsChosen == link.stage = "sending" /\ ~link.encrypted => asked.tlsOff
=============================================================================
