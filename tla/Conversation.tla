---------------------------- MODULE Conversation ----------------------------
(***************************************************************************)
(* A messenger tab and the people it talks with, in sessions and in a      *)
(* group: whom a text goes to (public/messenger.html), the gate before a   *)
(* send, and the rebuttals that are signed under a DID bound to a routing  *)
(* address (public/aegis/keybinding.js, crypto.js).  The ratchet and the   *)
(* directory's answers are the subject of other modules: here a session is *)
(* there or not, and a lookup answers at once.  A peer that lost its       *)
(* identity comes back as another one, with another address and the same   *)
(* DID.  The tab is a member of the group throughout (group-core.js).      *)
(***************************************************************************)
EXTENDS Naturals, FiniteSets

CONSTANTS
  Peer,
  None,         \* no correspondent, no address
  Group,        \* the group, as what the tab is looking at
  MaxTexts,     \* bound: texts submitted, messages received
  MaxReloads    \* bound: reloads of the tab

VARIABLES
  sessions,     \* correspondents there is a session with, in memory
  saved,        \* and in the file
  known,        \* correspondents whose routing address is in peerAddresses
  active,       \* activePeer or activeGroup
  pq,           \* the post-quantum modules are loaded
  blocked,      \* gates shown in the feed, to confirm or cancel
  buttons,      \* correspondents with a flagged claim that may be rebutted
  address,      \* each peer's identity of now
  binding,      \* the binding each peer has cached
  sent,         \* history: texts encrypted and sent
  shown,        \* history: rebuttals rendered
  texts,        \* history: texts submitted and messages received
  reloads       \* history

tabVars == <<sessions, saved, known, active, pq, blocked, buttons>>
peerVars == <<address, binding>>
vars == <<sessions, saved, known, active, pq, blocked, buttons,
          address, binding, sent, shown, texts, reloads>>

\* An identity of a peer: with its routing address, what the tab calls a peer.
Who == Peer \X {0, 1}
Identity(p) == <<p, address[p]>>

---------------------------------------------------------------------------
(* Bindings and rebuttals.  A signature is the DID that made it; a DID is  *)
(* the peer it belongs to.                                                 *)

\* signKeyBinding().
signKeyBinding(p, who) == [issuer |-> p, routingAddress |-> who, proof |-> p]
NoBinding == [issuer |-> None, routingAddress |-> None, proof |-> None]

\* Mutant: what is cached for the DID is used, whatever address it names.
AnyBinding(p) == binding[p].issuer = p

\* getBinding(): the cached credential serves if it is for this address.
Current(p) == binding[p].issuer = p /\ binding[p].routingAddress = Identity(p)

Binding(p) == IF Current(p) THEN binding[p] ELSE signKeyBinding(p, Identity(p))

\* buildRebuttal(): by p as it is now, or one it made before its identity was lost.
MadeAs(p, fresh) == IF fresh THEN Identity(p) ELSE <<p, 0>>
Rebuttal(p, fresh) ==
  [did |-> p, binding |-> IF fresh THEN Binding(p) ELSE signKeyBinding(p, <<p, 0>>), jws |-> p]

\* verifyKeyBinding(): the proof is the issuer's.
verifyKeyBinding(b) == b.issuer # None /\ b.proof = b.issuer

\* Mutant: the binding is not compared with the sender.
AnyAddress(r, sender) == verifyKeyBinding(r.binding) /\ r.binding.issuer = r.did /\ r.jws = r.did

\* verifyRebuttal(): against the address the message came from, or none.
verifyRebuttal(r, sender) ==
  /\ verifyKeyBinding(r.binding)
  /\ r.binding.issuer = r.did
  /\ r.binding.routingAddress = sender
  /\ r.jws = r.did

---------------------------------------------------------------------------

Init ==
  /\ sessions = {} /\ saved = {} /\ known = {} /\ active = None
  /\ pq = TRUE /\ blocked = {} /\ buttons = {}
  /\ address = [p \in Peer |-> 0] /\ binding = [p \in Peer |-> NoBinding]
  /\ sent = {} /\ shown = {} /\ texts = 0 /\ reloads = 0

\* connect.onclick: setActive() with an address, once the bundle is verified.
Connect(i) ==
  /\ pq /\ active # i
  /\ active' = i /\ known' = known \cup {i}
  /\ UNCHANGED <<sessions, saved, pq, blocked, buttons, peerVars, sent, shown, texts, reloads>>

\* switchGroup(): the group and a correspondent are mutually exclusive views.
SwitchGroup ==
  /\ active # Group /\ active' = Group
  /\ UNCHANGED <<sessions, saved, known, pq, blocked, buttons, peerVars, sent, shown, texts, reloads>>

Sent(text, addressed, confirmed) ==
  [text |-> text.text, for |-> text.for, to |-> active, addressed |-> addressed, confirmed |-> confirmed]

\* deliverMessage(): to the group or whoever is the active peer by now.  Without a
\* session the peer's address is looked up; a peer whose address is not known cannot
\* be, and to one with a session the message goes without an address.  A peer is
\* active only with the modules loaded, so that waiting for them lets nothing between.
Deliver(text, confirmed) ==
  \/ /\ active = Group
     /\ sent' = sent \cup {Sent(text, TRUE, confirmed)}
     /\ UNCHANGED <<sessions, saved>>
  \/ /\ active \notin {Group, None} /\ active \in sessions \cup known
     /\ sessions' = sessions \cup {active} /\ saved' = sessions'
     /\ sent' = sent \cup {Sent(text, active \in known, confirmed)}
  \/ /\ active # Group /\ (active = None \/ active \notin sessions \cup known)
     /\ UNCHANGED <<sessions, saved, sent>>

\* Mutant: the recommendation is shown and the text sent.
NeverHeld(text) == FALSE

\* The gate blocks what the heuristics recommend not to share.
Held(text) == text = "flagged"

\* sendMessage(): a text the gate blocks waits in the feed for the user.
SendMessage(text) ==
  /\ active # None /\ texts < MaxTexts
  /\ texts' = texts + 1
  /\ LET typed == [text |-> text, for |-> active] IN
     IF Held(text)
     THEN blocked' = blocked \cup {typed} /\ UNCHANGED <<sessions, saved, sent>>
     ELSE Deliver(typed, FALSE) /\ UNCHANGED blocked
  /\ UNCHANGED <<known, active, pq, buttons, peerVars, shown, reloads>>

\* "Send anyway".
Confirm(b) ==
  /\ blocked' = blocked \ {b}
  /\ Deliver(b, TRUE)
  /\ UNCHANGED <<known, active, pq, buttons, peerVars, shown, texts, reloads>>

Cancel(b) ==
  /\ blocked' = blocked \ {b}
  /\ UNCHANGED <<sessions, saved, known, active, pq, buttons, peerVars, sent, shown, texts, reloads>>

\* The button under a flagged claim: a rebuttal of it, to what is active by now.
SendRebuttal(i) ==
  /\ texts < MaxTexts /\ texts' = texts + 1
  /\ Deliver([text |-> "rebuttal", for |-> i], FALSE)
  /\ UNCHANGED <<known, active, pq, blocked, buttons, peerVars, shown, reloads>>

---------------------------------------------------------------------------
(* onMessage.                                                              *)

\* Mutant: the address of a first message is not kept.
Forgotten(i, first) == known

\* The address of a correspondent is remembered at its first message only.
Remembered(i, first) == IF first THEN known \cup {i} ELSE known

\* A message from i is decrypted: a first one makes the session, another needs it.
Opens(i, first) ==
  /\ texts < MaxTexts /\ texts' = texts + 1
  /\ pq /\ (IF first THEN i \notin sessions ELSE i \in sessions)
  /\ sessions' = sessions \cup {i} /\ saved' = sessions'
  /\ known' = Remembered(i, first) /\ active' = i
  /\ UNCHANGED <<pq, blocked, sent, reloads>>

\* The address a message is taken to come from.
Source(i) == IF i \in known' THEN i ELSE None

\* renderInbound(): a flagged claim of a known address can be rebutted.
ReceiveText(p, first, flagged) ==
  /\ Opens(Identity(p), first)
  /\ buttons' = buttons \cup {i \in {Identity(p)} : flagged /\ Source(i) # None}
  /\ UNCHANGED <<peerVars, shown>>

\* renderAegisPayload(): a rebuttal by whoever sent it, if there is a session that tells,
\* and taken to come from an address; its author's cache was used when it was made.
Shown(by, from, author, fresh) ==
  /\ fresh \/ address[author] # 0
  /\ binding' = IF fresh THEN [binding EXCEPT ![author] = Binding(author)] ELSE binding
  /\ shown' = shown \cup {[by |-> by, from |-> from, made |-> MadeAs(author, fresh),
                           ok |-> verifyRebuttal(Rebuttal(author, fresh), from)]}
  /\ UNCHANGED <<buttons, address>>

\* A rebuttal in p's session: one p made, or passes on as p's peer made it.
ReceiveRebuttal(p, first, author, fresh) ==
  Opens(Identity(p), first) /\ Shown(Identity(p), Source(Identity(p)), author, fresh)

\* A rebuttal in the group: the envelope names who sent it, and every member can
\* write any name into it (group-core.js:26-27).  Other texts there change nothing.
ReceiveInGroup(named, author, fresh) ==
  /\ texts < MaxTexts /\ texts' = texts + 1
  /\ Shown(None, named, author, fresh)
  /\ UNCHANGED <<sessions, saved, known, active, pq, blocked, sent, reloads>>

\* What cannot be opened costs the session, in memory.
ReceiveRefused(i) ==
  /\ i \in sessions /\ (~pq \/ texts < MaxTexts)
  /\ sessions' = sessions \ {i}
  /\ texts' = IF pq THEN texts + 1 ELSE texts
  /\ UNCHANGED <<saved, known, active, pq, blocked, buttons, peerVars, sent, shown, reloads>>

---------------------------------------------------------------------------

\* The sessions come back from their file; addresses are in no file.  The modules are
\* loaded if the pool of one-time prekeys is short or the bundle is not cached; if not,
\* nothing loads them before a peer is active, which takes a bundle or a message.
Reload ==
  /\ reloads < MaxReloads /\ reloads' = reloads + 1
  /\ sessions' = saved /\ known' = {} /\ active' = None /\ pq' \in BOOLEAN
  /\ blocked' = {} /\ buttons' = {}
  /\ UNCHANGED <<saved, peerVars, sent, shown, texts>>

\* A peer's identity is lost and made anew; its DID and its cache are kept.
Rotate(p) ==
  /\ address[p] = 0 /\ address' = [address EXCEPT ![p] = 1]
  /\ UNCHANGED <<tabVars, binding, sent, shown, texts, reloads>>

Next ==
  \/ \E i \in {Identity(p) : p \in Peer} : Connect(i)
  \/ SwitchGroup
  \/ \E i \in Who : ReceiveRefused(i)
  \/ \E text \in {"plain", "flagged"} : SendMessage(text)
  \/ \E b \in blocked : Confirm(b) \/ Cancel(b)
  \/ \E i \in buttons : SendRebuttal(i)
  \/ \E p \in Peer, first, flagged \in BOOLEAN : ReceiveText(p, first, flagged)
  \/ \E author \in Peer, fresh \in BOOLEAN :
       \/ \E p \in Peer, first \in BOOLEAN : ReceiveRebuttal(p, first, author, fresh)
       \/ \E named \in Who : ReceiveInGroup(named, author, fresh)
  \/ Reload
  \/ \E p \in Peer : Rotate(p)

Spec == Init /\ [][Next]_vars

---------------------------------------------------------------------------
(* Properties.                                                             *)

\* "Nothing leaves the device until they choose" (messenger.html): a text the
\* gate held was confirmed, whatever is looked at or reloaded meanwhile.
HeldIsConfirmed == \A s \in sent : s.text = "flagged" => s.confirmed

\* "Remember the sender's routing address so replies route back to them"
\* (messenger.html): what is encrypted for a correspondent is addressed to it.
RepliesRouted == \A s \in sent : s.addressed

\* As far as the code goes: in the tab's first life, whoever wrote first.
RoutedBeforeReload == reloads = 0 => RepliesRouted

\* A text goes to the correspondent it was typed for.
GoesWhereTyped == \A s \in sent : s.to = s.for

\* A rebuttal is shown as verified exactly when the address it is taken to come from
\* is the one its author made it under, whatever the author's cache held when its
\* address changed.  In a session that address is the session's: what is passed on,
\* or was made under a lost identity, is never verified, and what the author sends is
\* if the tab knows the address.  In the group it is the one the envelope names, so
\* that a rebuttal passed on there under its author's name is verified too.
VerifiedIsBound ==
  \A r \in shown : /\ r.ok <=> r.from = r.made
                   /\ r.ok /\ r.by # None => r.by = r.made

=============================================================================
