------------------------------ MODULE CliClient ------------------------------
(***************************************************************************)
(* Two CLI clients (src/client.js, src/identity.js, src/sessions.js) that  *)
(* talk to each other through a relay.                                     *)
(***************************************************************************)
EXTENDS Peers

VARIABLE chosen  \* recipientOtk: the peer's prekey to use, NoPeer before it is resolved

vars == <<peerVars, chosen>>

Init ==
  /\ PeersInit
  /\ chosen = [p \in Party |-> NoPeer]

------------------------------------------------------------------------------
(* Starting.                                                                 *)

\* A pool that lost a prekey is replaced by a new one when the client starts.
KeptPool(p) == IF Cardinality(poolFile[p]) < PoolSize THEN {} ELSE poolFile[p]

\* The identity and the session are read; a peer given by its bundle is known.
Start(p) ==
  /\ up[p] = "down"
  /\ up' = [up EXCEPT ![p] = "starting"]
  /\ LoadPool(p, KeptPool(p))
  /\ mem' = [mem EXCEPT ![p] = Restore(disk[p])]
  /\ chosen' = [chosen EXCEPT ![p] = IF p \in Bundles THEN None ELSE NoPeer]
  /\ UNCHANGED <<job, disk, relayVars, fresh, texts, crashes, historyVars>>

\* The answer to fetch-shard, at the start or on `/to': one prekey is selected
\* from the pool the directory serves.
Resolve(p) ==
  /\ up[p] # "down" /\ job[p] = Idle /\ p \notin Bundles
  /\ served[Peer(p)] # None
  /\ \E k \in IF served[Peer(p)] = {} THEN {None} ELSE served[Peer(p)] :
       chosen' = [chosen EXCEPT ![p] = k]
  /\ UNCHANGED peerVars

Publish(p) ==
  /\ up[p] = "starting"
  /\ up' = [up EXCEPT ![p] = "ready"]
  /\ served' = [served EXCEPT ![p] = pool[p]]
  /\ UNCHANGED <<mem, pool, job, fileVars, mail, countVars, historyVars, chosen>>

------------------------------------------------------------------------------
(* The handler of a line of input.                                           *)

Encrypt(p) ==
  /\ up[p] = "ready" /\ job[p] = Idle /\ chosen[p] # NoPeer
  /\ texts[p] < MaxTexts
  /\ texts' = [texts EXCEPT ![p] = @ + 1]
  /\ EncryptText(p, SessionOr(p, chosen[p]))
  /\ UNCHANGED <<up, pool, fileVars, relayVars, made, crashes, historyVars, chosen>>

Typing(p) ==
  \/ Encrypt(p)
  \/ PersistText(p) /\ UNCHANGED chosen
  \/ WriteText(p) /\ UNCHANGED chosen

------------------------------------------------------------------------------
(* handleServer: a message.                                                  *)

\* An envelope of a peer there is a session with.
ReceiveInSession(p, i) ==
  /\ Delivers(p, i) /\ mem[p] # None
  /\ LET d == Decrypt(p, mem[p], Delivered(p, i), Ephemeral(p)) IN
       /\ mem' = [mem EXCEPT ![p] = d.session]
       /\ Uses(p, d.session)
       /\ IF d.why = None THEN Accept(p, mail[p][i]) ELSE Refuse(mail[p][i], d.why)
  /\ Busy(p, "save", None)
  /\ UNCHANGED <<up, pool, fileVars, served, made, texts, crashes, wire, spent, chosen>>

\* Without a session: the handler returns, or it fails for want of the prekey
\* and writes the session file as it is.
DropUnknown(p, i) ==
  /\ Delivers(p, i) /\ mem[p] = None
  /\ ~FirstContact(p, Delivered(p, i))
  /\ Refuse(mail[p][i], WhyNotFirst(Delivered(p, i)))
  /\ IF Delivered(p, i).first THEN Busy(p, "save", None) ELSE UNCHANGED job
  /\ UNCHANGED <<up, mem, pool, fileVars, served, countVars, wire, spent, chosen>>

\* A first message of a peer there is no session with.
ReceiveFirst(p, i) ==
  /\ Delivers(p, i)
  /\ FirstContact(p, Delivered(p, i))
  /\ BurnPrekeyOf(p, Delivered(p, i))
  /\ Busy(p, "establish", mail[p][i])
  /\ UNCHANGED <<up, mem, disk, served, countVars, wire, read, refused, chosen>>

\* A session whose first message fails is deleted again.
Establish(p) ==
  /\ job[p].do = "establish"
  /\ EstablishSession(p, job[p].arg)
  /\ Busy(p, "save", None)
  /\ UNCHANGED <<up, pool, fileVars, served, made, texts, crashes, spent, chosen>>

\* persist() at the end of the handler.
Save(p) ==
  /\ job[p].do = "save"
  /\ disk' = [disk EXCEPT ![p] = mem[p]]
  /\ Done(p)
  /\ UNCHANGED <<up, mem, pool, poolFile, relayVars, countVars, historyVars, chosen>>

Receiving(p) ==
  \/ \E i \in 1..Len(mail[p]) :
       ReceiveInSession(p, i) \/ DropUnknown(p, i) \/ ReceiveFirst(p, i)
  \/ Establish(p)
  \/ Save(p)

------------------------------------------------------------------------------

Crash(p) == Kill(p) /\ chosen' = [chosen EXCEPT ![p] = NoPeer]

\* The first message of another correspondent uses up one of p's prekeys.
OtherFirst(p, k) ==
  /\ Others /\ up[p] = "ready" /\ job[p] = Idle
  /\ k \in pool[p]
  /\ BurnPrekey(p, k)
  /\ UNCHANGED <<up, mem, job, disk, relayVars, countVars, wire, read, refused, chosen>>

Next ==
  \E p \in Party :
    \/ Start(p) \/ Resolve(p) \/ Publish(p)
    \/ Typing(p) \/ Receiving(p) \/ Crash(p)
    \/ \E k \in pool[p] : OtherFirst(p, k)

Spec == Init /\ [][Next]_vars

\* Users start their clients, and a handler that was called runs to its end; the
\* relay delivers what it holds for a client that is ready.
Fairness ==
  \A p \in Party : /\ WF_vars(Start(p)) /\ WF_vars(Publish(p))
                    /\ WF_vars(PersistText(p) /\ UNCHANGED chosen)
                    /\ WF_vars(WriteText(p) /\ UNCHANGED chosen)
                    /\ WF_vars(Receiving(p))

FairSpec == Spec /\ Fairness

------------------------------------------------------------------------------
(* Liveness.                                                                 *)

\* Every envelope handed to the relay is decrypted in the end.
EventuallyRead ==
  \A id \in 1..MaxIds :
    id \in 1..Len(wire) ~> (id \in 1..Len(wire) /\ id \in ReadBy(Reader(id)))

\* "single-use is enforced by the RECIPIENT burning the prekey on first use (and
\* republishing its smaller pool)" (server.js).
Republished ==
  \A p \in Party : \A k \in 1..MaxPrekeys :
    <<p, k>> \in spent ~> served[p] # None /\ k \notin served[p]

=============================================================================
