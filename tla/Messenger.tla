------------------------------ MODULE Messenger ------------------------------
(***************************************************************************)
(* Two browser messengers (public/messenger.html) that talk to each other  *)
(* through a relay.  Reloading or closing the tab is the kill of module    *)
(* Peers, localStorage its files.                                          *)
(*                                                                         *)
(* Unlike the CLI, the messenger suspends in the middle of its handlers:   *)
(* deliverMessage at `await fetchDirectory', onMessage at `await           *)
(* renderInbound', and other handlers run meanwhile.                       *)
(***************************************************************************)
EXTENDS Peers

CONSTANT MaxAnswers  \* bound: directory answers on the way to a messenger

ASSUME MessengerAssumption == MaxAnswers \in Nat \ {0}

VARIABLES
  asked,     \* pendingDirectory: what waits for an answer, "connect", "send" or None
  answers,   \* the directory answers on their way, each the peer's pool or None
  active,    \* does the user have the peer open (activePeer)
  rendering  \* the number of onMessage calls suspended at the rendering

tabVars == <<asked, answers, active, rendering>>
vars == <<peerVars, tabVars>>

Init ==
  /\ PeersInit
  /\ asked = [p \in Party |-> None]
  /\ answers = [p \in Party |-> <<>>]
  /\ active = [p \in Party |-> FALSE]
  /\ rendering = [p \in Party |-> 0]

------------------------------------------------------------------------------
(* Starting.                                                                 *)

\* Mutant: a pool that lost a prekey is replaced by a new one.
NewPool(p) == IF Cardinality(poolFile[p]) < PoolSize THEN {} ELSE poolFile[p]

\* A pool that lost a prekey is topped up.
KeptPool(p) == poolFile[p]

Load(p) ==
  /\ up[p] = "down"
  /\ up' = [up EXCEPT ![p] = "starting"]
  /\ LoadPool(p, KeptPool(p))
  /\ mem' = [mem EXCEPT ![p] = Restore(disk[p])]
  /\ UNCHANGED <<job, disk, relayVars, fresh, texts, crashes, historyVars, tabVars>>

\* publishToRelay.
Open(p) ==
  /\ up[p] = "starting"
  /\ up' = [up EXCEPT ![p] = "ready"]
  /\ served' = [served EXCEPT ![p] = pool[p]]
  /\ UNCHANGED <<mem, pool, job, fileVars, mail, countVars, historyVars, tabVars>>

------------------------------------------------------------------------------
(* The directory.                                                            *)

\* fetchDirectory: one slot waits for an answer, and a second call takes it over.
Ask(p, what) ==
  /\ Len(answers[p]) < MaxAnswers
  /\ asked' = [asked EXCEPT ![p] = what]
  /\ answers' = [answers EXCEPT ![p] = Append(@, served[Peer(p)])]

\* setActive.
Opens(p) == active' = [active EXCEPT ![p] = TRUE]

\* The user opens the peer: by its bundle at once, by its address when the
\* directory has answered.
Connect(p) ==
  /\ up[p] = "ready" /\ job[p] = Idle /\ ~active[p]
  /\ \/ /\ p \in Bundles
        /\ Opens(p)
        /\ UNCHANGED <<asked, answers>>
     \/ p \notin Bundles /\ Ask(p, "connect") /\ UNCHANGED active
  /\ UNCHANGED <<peerVars, rendering>>

------------------------------------------------------------------------------
(* deliverMessage.                                                           *)

Submit(p) ==
  /\ up[p] = "ready" /\ job[p] = Idle /\ active[p]
  /\ texts[p] < MaxTexts
  /\ texts' = [texts EXCEPT ![p] = @ + 1]

\* With a session, or with the peer's bundle, the text is encrypted at once.
SendNow(p) ==
  /\ mem[p] # None \/ p \in Bundles
  /\ Submit(p)
  /\ EncryptText(p, SessionOr(p, None))
  /\ UNCHANGED <<up, pool, fileVars, relayVars, made, crashes, historyVars, tabVars>>

\* Without, the handler waits for the directory.
SendAsking(p) ==
  /\ mem[p] = None /\ p \notin Bundles
  /\ Submit(p)
  /\ Ask(p, "send")
  /\ UNCHANGED <<memoryVars, fileVars, relayVars, fresh, made, crashes, historyVars,
                 active, rendering>>

\* The prekey that is selected from a served pool.
Selected(published) == IF published = {} THEN {None} ELSE published

\* The text's session is new, whether or not there is one by now.
SessionOfAnswer(p, k) == NewSession(IF k = None THEN None ELSE <<Peer(p), k>>)

\* An answer resumes what waits, if something does.
AnswerArrives(p) ==
  /\ up[p] = "ready" /\ job[p] = Idle /\ answers[p] # <<>>
  /\ answers' = [answers EXCEPT ![p] = Tail(@)]
  /\ asked' = [asked EXCEPT ![p] = None]
  /\ LET entry == Head(answers[p]) IN
     \/ /\ asked[p] = None \/ entry = None
        /\ UNCHANGED <<mem, fresh, job, active>>
     \/ /\ asked[p] = "connect" /\ entry # None
        /\ Opens(p)
        /\ UNCHANGED <<mem, fresh, job>>
     \/ /\ asked[p] = "send" /\ entry # None
        /\ \E k \in Selected(entry) : EncryptText(p, SessionOfAnswer(p, k))
        /\ UNCHANGED active
  /\ UNCHANGED <<up, pool, fileVars, relayVars, made, texts, crashes, historyVars, rendering>>

Sends(p) ==
  \/ Connect(p) \/ SendNow(p) \/ SendAsking(p) \/ AnswerArrives(p)
  \/ (PersistText(p) \/ WriteText(p)) /\ UNCHANGED tabVars

------------------------------------------------------------------------------
(* onMessage.                                                                *)

\* What follows a decryption: a text is rendered, which suspends the handler; a
\* receipt goes straight to saveSessions.
RenderOrSave(p, env) ==
  \/ /\ env.text = "text"
     /\ rendering' = [rendering EXCEPT ![p] = @ + 1]
     /\ Done(p)
  \/ /\ env.text = "receipt"
     /\ Busy(p, "save", None)
     /\ UNCHANGED rendering

\* A message that fails costs the session, in memory.
Evict(p) == mem' = [mem EXCEPT ![p] = None]

\* An envelope of a peer there is a session with.
ReceiveInSession(p, i) ==
  /\ Delivers(p, i) /\ mem[p] # None
  /\ LET d == Decrypt(p, mem[p], Delivered(p, i), Ephemeral(p)) IN
     \/ /\ d.why = None
        /\ mem' = [mem EXCEPT ![p] = d.session]
        /\ Uses(p, d.session)
        /\ Accept(p, mail[p][i])
        /\ RenderOrSave(p, Delivered(p, i))
        /\ IF Delivered(p, i).text = "text" THEN Opens(p) ELSE UNCHANGED active
     \/ /\ d.why # None
        /\ Evict(p)
        /\ Refuse(mail[p][i], d.why)
        /\ UNCHANGED <<fresh, job, active, rendering>>
  /\ UNCHANGED <<up, pool, fileVars, served, made, texts, crashes, wire, spent, asked, answers>>

\* Without a session, and not a first message that can be opened.
DropUnknown(p, i) ==
  /\ Delivers(p, i) /\ mem[p] = None
  /\ ~FirstContact(p, Delivered(p, i))
  /\ Refuse(mail[p][i], WhyNotFirst(Delivered(p, i)))
  /\ UNCHANGED <<memoryVars, fileVars, served, countVars, wire, spent, tabVars>>

\* A first message: its prekey is burned, and the smaller pool republished.
ReceiveFirst(p, i) ==
  /\ Delivers(p, i)
  /\ FirstContact(p, Delivered(p, i))
  /\ BurnPrekeyOf(p, Delivered(p, i))
  /\ Busy(p, IF Delivered(p, i).otk = None THEN "establish" ELSE "republish", mail[p][i])
  /\ UNCHANGED <<up, mem, disk, served, countVars, wire, read, refused, tabVars>>

\* Mutant: the smaller pool is not published.
KeepServed(p) == UNCHANGED served

ServePool(p) == served' = [served EXCEPT ![p] = pool[p]]

Republish(p) ==
  /\ job[p].do = "republish"
  /\ ServePool(p)
  /\ IF job[p].arg = None THEN Done(p) ELSE Busy(p, "establish", job[p].arg)
  /\ UNCHANGED <<up, mem, pool, fileVars, mail, countVars, historyVars, tabVars>>

Establish(p) ==
  /\ job[p].do = "establish"
  /\ EstablishSession(p, job[p].arg)
  /\ IF mem'[p] # None THEN RenderOrSave(p, wire[job[p].arg])
     ELSE Done(p) /\ UNCHANGED rendering
  /\ Opens(p)
  /\ UNCHANGED <<up, pool, fileVars, served, made, texts, crashes, spent, asked, answers>>

\* Mutant: a message that was rendered is not saved.
SaveLater(p) == UNCHANGED disk

\* saveSessions writes what is in memory by now.
SaveSessions(p) == disk' = [disk EXCEPT ![p] = mem[p]]

Save(p) ==
  /\ job[p].do = "save"
  /\ SaveSessions(p)
  /\ Done(p)
  /\ UNCHANGED <<up, mem, pool, poolFile, relayVars, countVars, historyVars, tabVars>>

\* A suspended onMessage goes on when the message is rendered.
Rendered(p) ==
  /\ rendering[p] > 0 /\ job[p] = Idle
  /\ rendering' = [rendering EXCEPT ![p] = @ - 1]
  /\ SaveSessions(p)
  /\ UNCHANGED <<memoryVars, poolFile, relayVars, countVars, historyVars, asked, answers, active>>

Receives(p) ==
  \/ \E i \in 1..Len(mail[p]) :
       ReceiveInSession(p, i) \/ DropUnknown(p, i) \/ ReceiveFirst(p, i)
  \/ Republish(p) \/ Establish(p) \/ Save(p) \/ Rendered(p)

------------------------------------------------------------------------------

Reload(p) ==
  /\ Kill(p)
  /\ InHandler \/ rendering[p] = 0
  /\ asked' = [asked EXCEPT ![p] = None]
  /\ answers' = [answers EXCEPT ![p] = <<>>]
  /\ active' = [active EXCEPT ![p] = FALSE]
  /\ rendering' = [rendering EXCEPT ![p] = 0]

\* The first message of another correspondent uses up one of p's prekeys.
OtherFirst(p, k) ==
  /\ Others /\ up[p] = "ready" /\ job[p] = Idle
  /\ k \in pool[p]
  /\ BurnPrekey(p, k)
  /\ Busy(p, "republish", None)
  /\ UNCHANGED <<up, mem, disk, relayVars, countVars, wire, read, refused, tabVars>>

Next ==
  \E p \in Party :
    \/ Load(p) \/ Open(p) \/ Sends(p) \/ Receives(p) \/ Reload(p)
    \/ \E k \in pool[p] : OtherFirst(p, k)

Spec == Init /\ [][Next]_vars

------------------------------------------------------------------------------
(* Properties.                                                               *)

TabTypeOK ==
  /\ TypeOK
  /\ asked \in [Party -> {None, "connect", "send"}]
  /\ answers \in [Party -> Seq((SUBSET Nat) \cup {None})]
  /\ active \in [Party -> BOOLEAN]
  /\ rendering \in [Party -> Nat]

Established(s) == s # None /\ s.ckr # None

\* "Junk or undecryptable first contact: evict so it cannot accumulate"
\* (messenger.html): a session in which the peer was heard is not evicted while
\* the tab is open.
EvictOnlyJunk ==
  [][\A p \in Party : Established(mem[p]) /\ up'[p] # "down" => mem'[p] # None]_vars

\* "First send to this peer: resolve their bundle ... and mint the session"
\* (messenger.html): a session in which the peer was heard is not replaced by one
\* in which it was not.
EstablishedKept ==
  [][\A p \in Party : Established(mem[p]) /\ mem'[p] # None => Established(mem'[p])]_vars

\* "republish the smaller pool" (messenger.html): while a messenger is between two
\* handlers, the directory offers no prekey it used, whoever used it and whether
\* or not the tab was closed before the smaller pool was published.
ServedUnspent ==
  \A p \in Party : (up[p] = "ready" /\ job[p] = Idle) =>
    \A k \in served[p] : <<p, k>> \notin spent

\* When no handler is suspended the file has caught up with the memory, although
\* the handlers that save it are suspended and overtake each other: a reload
\* restores the session there is.
SavedWhenIdle ==
  \A p \in Party :
    (up[p] = "ready" /\ job[p] = Idle /\ rendering[p] = 0 /\ mem[p] # None) =>
      Restore(disk[p]) = Restore(mem[p])

\* Between handlers the storage holds the session of the tab, and the counters and
\* caches of both are those of a session that could have come about.
TabsSound == TabTypeOK /\ SavedWhenIdle

=============================================================================
