------------------------------ MODULE CliProofs ------------------------------
(***************************************************************************)
(* Module CliClient proved about, for every instance of it.                *)
(***************************************************************************)
EXTENDS CliClient, PeersProofs

\* The peer's prekey is one it published.
ChosenInv ==
  /\ up \in [Party -> {"down", "starting", "ready"}]
  /\ served = [p \in Party |-> served[p]] /\ chosen = [p \in Party |-> chosen[p]]
  /\ \A p \in Party : /\ served[p] # None => served[p] \subseteq Nat
                      /\ chosen[p] \in Nat \cup {None, NoPeer}

IInv == KeyInv /\ SessionInv /\ MailInv /\ PoolInv /\ ReadInv /\ ChosenInv

\* The actions of p.
Act(p) ==
  \/ Start(p) \/ Resolve(p) \/ Publish(p) \/ Typing(p) \/ Receiving(p) \/ Crash(p)
  \/ \E k \in pool[p] : OtherFirst(p, k)

\* Every step of a client does one of the things PeersProofs names to the keys,
\* and one to the mail.
LEMMA StepKinds ==
  ASSUME IInv, NEW p \in Party, Act(p)
  PROVE  /\ (KeyStep(p) /\ StaysUp(p)) \/ UNCHANGED <<up, mem, disk, job, fresh, wire>>
         /\ MailStep(p) /\ OpensFirst(p)'
<1>0. /\ DOMAIN up = Party /\ DOMAIN mem = Party /\ DOMAIN disk = Party /\ DOMAIN job = Party
      /\ OpensFirst(p)
      /\ HasEnvelope(p) => up[p] = "ready"
      /\ wire' = wire => To(p)' = To(p)
  BY DEF IInv, KeyInv, KeyTypes, MailInv, To
<1>. USE <1>0
<1>. DEFINE Kinds == /\ (KeyStep(p) /\ StaysUp(p)) \/ UNCHANGED <<up, mem, disk, job, fresh, wire>>
                     /\ MailStep(p) /\ OpensFirst(p)'
<1>1. CASE Start(p)
  <2>1. up[p] = "down" /\ up' = [up EXCEPT ![p] = "starting"] /\ mem' = [mem EXCEPT ![p] = Restore(disk[p])]
        /\ UNCHANGED <<job, disk, fresh, wire, mail>>
    BY <1>1 DEF Start, relayVars, historyVars
  <2>2. KeyStep(p)
    BY <2>1 DEF KeyStep, OthersKeep, Restores, NothingToSend, HasEnvelope
  <2>. QED  BY <2>1, <2>2 DEF StaysUp, MailStep, OpensFirst, Opening, HasEnvelope
<1>2. CASE Resolve(p)
  BY <1>2 DEF Resolve, peerVars, memoryVars, fileVars, relayVars, countVars, historyVars, MailStep,
              OpensFirst, Opening
<1>3. CASE Publish(p)
  <2>1. up[p] = "starting" /\ up' = [up EXCEPT ![p] = "ready"] /\ UNCHANGED <<mem, job, disk, fresh, wire, mail>>
    BY <1>3 DEF Publish, fileVars, countVars, historyVars
  <2>2. KeyStep(p)
    BY <2>1 DEF KeyStep, OthersKeep, Stays, NothingToSend, HasEnvelope
  <2>. QED  BY <2>1, <2>2 DEF StaysUp, MailStep, OpensFirst, Opening, HasEnvelope
<1>4. CASE Encrypt(p)
  <2>1. up[p] = "ready" /\ EncryptText(p, SessionOr(p, chosen[p]))
        /\ UNCHANGED <<up, disk, wire, mail>>
    BY <1>4 DEF Encrypt, fileVars, relayVars, historyVars
  <2>2. PICK s : s = SessionOr(p, chosen[p])
    OBVIOUS
  <2>3. \/ s = mem[p] /\ s # None
        \/ \E otk \in KeyPair \cup {None} : Addressed(p, otk) /\ s = NewSession(otk)
    <3>1. CASE mem[p] # None
      BY <2>2, <3>1 DEF SessionOr
    <3>2. CASE mem[p] = None
      <4>. DEFINE otk == IF chosen[p] = None THEN None ELSE <<Peer(p), chosen[p]>>
      <4>1. s = NewSession(otk)
        BY <2>2, <3>2 DEF SessionOr
      <4>2. chosen[p] \in Nat \cup {None}
        BY <1>4 DEF Encrypt, IInv, ChosenInv
      <4>3. otk \in KeyPair \cup {None} /\ Addressed(p, otk)
        BY <4>2, PeerParty DEF KeyPair, Addressed
      <4>. QED  BY <4>1, <4>3
    <3>. QED  BY <3>1, <3>2
  <2>4. Encrypts(p)
    BY <2>1, <2>2, <2>3 DEF Encrypts
  <2>5. OthersKeep(p) /\ job'[p].do = "persist"
    BY <2>1 DEF OthersKeep, EncryptText, Busy
  <2>. QED  BY <2>1, <2>4, <2>5 DEF KeyStep, StaysUp, MailStep, OpensFirst, Opening, OthersKeep
<1>5. CASE PersistText(p)
  <2>1. up' = up /\ disk' = [disk EXCEPT ![p] = mem[p]] /\ UNCHANGED <<mem, wire, mail>>
        /\ job' = [job EXCEPT ![p] = [do |-> "write", arg |-> job[p].arg]] /\ job[p].do = "persist"
    BY <1>5 DEF PersistText, Busy, relayVars, historyVars
  <2>2. OthersKeep(p)
    BY <2>1 DEF OthersKeep
  <2>. QED  BY <1>5, <2>1, <2>2 DEF KeyStep, StaysUp, MailStep, OpensFirst, Opening, HasEnvelope
<1>6. CASE WriteText(p)
  <2>1. up' = up /\ UNCHANGED <<mem, disk>> /\ job' = [job EXCEPT ![p] = Idle] /\ Write(p, job[p].arg)
    BY <1>6 DEF WriteText, Done, fileVars
  <2>2. OthersKeep(p)
    BY <2>1 DEF OthersKeep
  <2>3. job[p].arg.from = p
    BY <1>6 DEF WriteText, IInv, KeyInv, Pending, HasEnvelope
  <2>. QED  BY <1>6, <2>1, <2>2, <2>3 DEF KeyStep, StaysUp, MailStep, OpensFirst, Opening, HasEnvelope, Idle
<1>7. ASSUME NEW i, ReceiveInSession(p, i)
      PROVE  Kinds
  <2>1. PICK d : d = Decrypt(p, mem[p], Delivered(p, i), Ephemeral(p))
    OBVIOUS
  <2>2. /\ Delivers(p, i) /\ mem[p] # None /\ mem' = [mem EXCEPT ![p] = d.session] /\ Uses(p, d.session)
        /\ job' = [job EXCEPT ![p] = [do |-> "save", arg |-> None]] /\ UNCHANGED <<up, disk, wire>>
    BY <1>7, <2>1 DEF ReceiveInSession, Busy, fileVars
  <2>3. Reads(p)
    <3>1. mail[p][i] \in To(p)
      BY <2>2, DeliveredOnWire DEF IInv
    <3>. QED  BY <2>1, <2>2, <3>1 DEF Reads, NothingToSend, Delivered
  <2>4. OthersKeep(p)
    BY <2>2 DEF OthersKeep
  <2>. QED  BY <2>2, <2>3, <2>4 DEF KeyStep, StaysUp, MailStep, OpensFirst, Opening, HasEnvelope
<1>8. ASSUME NEW i, DropUnknown(p, i)
      PROVE  Kinds
  <2>1. /\ Delivers(p, i) /\ UNCHANGED <<up, mem, disk, wire, fresh>> /\ job[p] = Idle
        /\ (job' = [job EXCEPT ![p] = [do |-> "save", arg |-> None]] \/ job' = job)
    BY <1>8 DEF DropUnknown, Delivers, Busy, fileVars, countVars
  <2>2. OthersKeep(p) /\ job'[p].do \in {"save", "nothing"}
    BY <2>1 DEF OthersKeep, Idle
  <2>3. Stays(p)
    BY <2>1, <2>2 DEF Stays, NothingToSend
  <2>. QED  BY <2>1, <2>2, <2>3 DEF KeyStep, StaysUp, MailStep, OpensFirst, Opening, HasEnvelope, OthersKeep
<1>9. ASSUME NEW i, ReceiveFirst(p, i)
      PROVE  Kinds
  <2>1. /\ Delivers(p, i) /\ UNCHANGED <<up, mem, disk, wire, fresh>>
        /\ job' = [job EXCEPT ![p] = [do |-> "establish", arg |-> mail[p][i]]]
        /\ wire[mail[p][i]].first
    BY <1>9 DEF ReceiveFirst, FirstContact, Delivered, Busy, countVars
  <2>2. OthersKeep(p)
    BY <2>1 DEF OthersKeep
  <2>3. Stays(p)
    BY <2>1 DEF Stays, NothingToSend
  <2>4. mail[p][i] \in To(p)
    BY <2>1, DeliveredOnWire DEF IInv
  <2>. QED  BY <2>1, <2>2, <2>3, <2>4 DEF KeyStep, StaysUp, MailStep, OpensFirst, Opening, HasEnvelope
<1>10. CASE Establish(p)
  <2>1. PICK id, env, d : id = job[p].arg /\ env = wire[id]
                          /\ d = Decrypt(p, NewSession(env.otk), env, Ephemeral(p))
    OBVIOUS
  <2>2. /\ env.first /\ UNCHANGED <<up, disk>>
        /\ job' = [job EXCEPT ![p] = [do |-> "save", arg |-> None]]
        /\ \/ /\ d.why = None /\ mem' = [mem EXCEPT ![p] = Sent(d.session)]
              /\ Uses(p, d.session) /\ Write(p, Envelope(p, d.session, "receipt"))
           \/ UNCHANGED <<mem, fresh, wire, mail>>
    <3>1. job[p].do = "establish" /\ EstablishSession(p, id)
          /\ job' = [job EXCEPT ![p] = [do |-> "save", arg |-> None]] /\ UNCHANGED <<up, disk>>
      BY <1>10, <2>1 DEF Establish, Busy, fileVars
    <3>2. env.first
      BY <2>1, <3>1 DEF OpensFirst, Opening
    <3>3. \/ /\ d.why = None /\ mem' = [mem EXCEPT ![p] = Sent(d.session)]
             /\ Uses(p, d.session) /\ Write(p, Envelope(p, d.session, "receipt"))
          \/ UNCHANGED <<mem, fresh, wire, mail>>
      BY <2>1, <3>1 DEF EstablishSession
    <3>. QED  BY <3>1, <3>2, <3>3
  <2>3. OthersKeep(p) /\ NothingToSend(p)
    BY <2>2 DEF OthersKeep, NothingToSend
  <2>4. Answers(p) \/ Stays(p)
    <3>1. id \in To(p)
      BY <1>10, <2>1 DEF Establish, OpensFirst, Opening
    <3>. QED  BY <2>1, <2>2, <2>3, <3>1 DEF Answers, Stays, Write
  <2>5. Envelope(p, d.session, "receipt").from = p
    BY DEF Envelope
  <2>. QED  BY <2>2, <2>3, <2>4, <2>5 DEF KeyStep, StaysUp, MailStep, OpensFirst, Opening, HasEnvelope
<1>11. CASE Save(p)
  <2>1. up' = up /\ disk' = [disk EXCEPT ![p] = mem[p]] /\ UNCHANGED <<mem, wire, mail, fresh>>
        /\ job' = [job EXCEPT ![p] = Idle]
    BY <1>11 DEF Save, Done, relayVars, historyVars, countVars
  <2>2. OthersKeep(p) /\ SavesSession(p)
    BY <2>1 DEF OthersKeep, SavesSession, NothingToSend, Idle
  <2>. QED  BY <2>1, <2>2 DEF KeyStep, StaysUp, MailStep, OpensFirst, Opening, HasEnvelope, Idle
<1>12. CASE Crash(p)
  <2>1. up' = [up EXCEPT ![p] = "down"] /\ mem' = [mem EXCEPT ![p] = None] /\ job' = [job EXCEPT ![p] = Idle]
        /\ UNCHANGED <<disk, wire, mail, fresh>>
    BY <1>12 DEF Crash, Kill, Done, fileVars, relayVars, historyVars
  <2>2. OthersKeep(p) /\ Forgets(p)
    BY <2>1 DEF OthersKeep, Forgets, NothingToSend, Idle
  <2>. QED  BY <2>1, <2>2 DEF KeyStep, StaysUp, MailStep, OpensFirst, Opening, HasEnvelope, Idle
<1>13. ASSUME NEW k, OtherFirst(p, k)
       PROVE  Kinds
  BY <1>13 DEF OtherFirst, relayVars, countVars, MailStep, OpensFirst, Opening
<1>. QED  BY <1>1, <1>2, <1>3, <1>4, <1>5, <1>6, <1>7, <1>8, <1>9, <1>10, <1>11, <1>12, <1>13
          DEF Act, Typing, Receiving

\* And one of those to the prekeys, and to what was read.
LEMMA PrekeyKinds ==
  ASSUME IInv, NEW p \in Party, Act(p)
  PROVE  PoolStep(p) /\ ReadStep(p)
<1>0. /\ DOMAIN up = Party /\ DOMAIN job = Party /\ OpensFirst(p)
  BY DEF IInv, KeyInv, KeyTypes, MailInv
<1>. USE <1>0
<1>. DEFINE Kinds == PoolStep(p) /\ ReadStep(p)
            Rest == /\ DOMAIN up' = DOMAIN up /\ \A q \in Party \ {p} : up'[q] = up[q]
                    /\ \A q \in Party \ {p} : job'[q] = job[q]
\* A step that concerns neither.
<1>a. ASSUME Rest, UNCHANGED <<pool, poolFile, made, spent, read>>, up'[p] = "down" <=> up[p] = "down",
             wire' = wire \/ \E env : wire' = Append(wire, env),
             Opening(p)' => Opening(p) /\ job'[p].arg = job[p].arg
      PROVE  Kinds
  BY <1>a DEF PoolStep, ReadStep, GoesOn
<1>1. CASE Start(p)
  <2>1. /\ up[p] = "down" /\ up' = [up EXCEPT ![p] = "starting"] /\ UNCHANGED <<job, wire, spent, read>>
        /\ LoadPool(p, {}) \/ LoadPool(p, poolFile[p])
    BY <1>1 DEF Start, KeptPool, historyVars
  <2>2. Loads(p)
    BY <2>1 DEF Loads
  <2>. QED  BY <2>1, <2>2 DEF PoolStep, ReadStep, GoesOn, Opening
<1>2. CASE Resolve(p) \/ Encrypt(p) \/ PersistText(p) \/ WriteText(p) \/ Publish(p)
  <2>1. /\ Rest /\ UNCHANGED <<pool, poolFile, made, spent, read>>
        /\ up'[p] = "down" <=> up[p] = "down"
        /\ wire' = wire \/ \E env : wire' = Append(wire, env)
        /\ job' = job \/ job'[p].do \in {"persist", "write", "nothing"}
    BY <1>2 DEF Resolve, Encrypt, PersistText, WriteText, Publish, EncryptText, Busy, Done, Idle, Write,
                peerVars, memoryVars, fileVars, relayVars, countVars, historyVars
  <2>. QED  BY <2>1, <1>a DEF Opening
<1>3. ASSUME NEW i, ReceiveInSession(p, i)
      PROVE  Kinds
  <2>0. PICK id : id = mail[p][i]
    OBVIOUS
  <2>1. /\ Delivers(p, i) /\ mem[p] # None /\ UNCHANGED <<up, pool, poolFile, made, spent, wire>>
        /\ job' = [job EXCEPT ![p] = [do |-> "save", arg |-> None]]
        /\ \/ /\ Decrypt(p, mem[p], wire[id], Ephemeral(p)).why = None
              /\ read' = [read EXCEPT ![p] = Append(@, id)]
           \/ read' = read
    BY <1>3, <2>0 DEF ReceiveInSession, Busy, fileVars, Delivered, Accept, Refuse
  <2>2. id \in To(p) /\ ~Opening(p)'
    BY <2>0, <2>1, DeliveredOnWire DEF IInv, Opening
  <2>3. GoesOn(p) \/ ReadsInSession(p)
    BY <2>1, <2>2 DEF GoesOn, ReadsInSession
  <2>. QED  BY <2>1, <2>3 DEF PoolStep, ReadStep
<1>4. ASSUME NEW i, DropUnknown(p, i)
      PROVE  Kinds
  <2>1. /\ UNCHANGED <<up, pool, poolFile, made, spent, wire, read>>
        /\ job' = job \/ job' = [job EXCEPT ![p] = [do |-> "save", arg |-> None]]
    BY <1>4 DEF DropUnknown, Busy, Refuse, fileVars, countVars
  <2>. QED  BY <2>1, <1>a DEF Opening
<1>5. ASSUME NEW i, ReceiveFirst(p, i)
      PROVE  Kinds
  <2>0. PICK id : id = mail[p][i]
    OBVIOUS
  <2>1. /\ Delivers(p, i) /\ UNCHANGED <<up, made, wire, read>>
        /\ job' = [job EXCEPT ![p] = [do |-> "establish", arg |-> id]]
        /\ FirstContact(p, wire[id]) /\ BurnPrekeyOf(p, wire[id])
    BY <1>5, <2>0 DEF ReceiveFirst, Delivered, Busy, countVars
  <2>2. id \in To(p)
    BY <2>0, <2>1, DeliveredOnWire DEF IInv
  <2>3. Begins(p)
    BY <2>1, <2>2 DEF Begins
  <2>4. UNCHANGED <<pool, poolFile, spent>> \/ (Burns(p) /\ spent \subseteq spent')
    BY <2>1 DEF BurnPrekeyOf, FirstContact, Burns, BurnPrekey
  <2>. QED  BY <2>1, <2>3, <2>4 DEF PoolStep, ReadStep
<1>6. CASE Establish(p)
  <2>1. /\ job[p].do = "establish" /\ UNCHANGED <<up, pool, poolFile, made, spent>>
        /\ job' = [job EXCEPT ![p] = [do |-> "save", arg |-> None]]
        /\ wire' = wire \/ \E env : wire' = Append(wire, env)
        /\ read' = read \/ read' = [read EXCEPT ![p] = Append(@, job[p].arg)]
    BY <1>6 DEF Establish, EstablishSession, Busy, fileVars, Write, Accept, Refuse
  <2>2. Opening(p) /\ ~Opening(p)'
    BY <2>1 DEF Opening
  <2>3. GoesOn(p) \/ ReadsFirst(p)
    BY <2>1, <2>2 DEF GoesOn, ReadsFirst
  <2>. QED  BY <2>1, <2>3 DEF PoolStep, ReadStep
<1>7. CASE Save(p)
  <2>1. UNCHANGED <<up, pool, poolFile, made, spent, wire, read>> /\ job' = [job EXCEPT ![p] = Idle]
    BY <1>7 DEF Save, Done, relayVars, countVars, historyVars
  <2>. QED  BY <2>1, <1>a DEF Opening, Idle
<1>8. CASE Crash(p)
  <2>1. /\ UNCHANGED <<poolFile, made, spent, wire, read>> /\ pool' = [pool EXCEPT ![p] = {}]
        /\ job' = [job EXCEPT ![p] = Idle] /\ up' = [up EXCEPT ![p] = "down"]
    BY <1>8 DEF Crash, Kill, Done, fileVars, historyVars
  <2>. QED  BY <2>1 DEF PoolStep, ReadStep, GoesOn, Opening, Idle
<1>9. ASSUME NEW k \in pool[p], OtherFirst(p, k)
      PROVE  Kinds
  <2>1. BurnPrekey(p, k) /\ UNCHANGED <<up, made, job, wire, read>>
    BY <1>9 DEF OtherFirst, countVars
  <2>2. Burns(p) /\ spent \subseteq spent'
    BY <2>1 DEF Burns, BurnPrekey
  <2>. QED  BY <2>1, <2>2 DEF PoolStep, ReadStep, GoesOn, Opening
<1>. QED  BY <1>1, <1>2, <1>3, <1>4, <1>5, <1>6, <1>7, <1>8, <1>9 DEF Act, Typing, Receiving

\* ChosenInv is preserved: whatever a client does, the prekey it chose for its peer is one it could have been offered.
LEMMA ChosenKeeps ==
  ASSUME IInv, NEW p \in Party, Act(p)
  PROVE  ChosenInv'
<1>0. /\ ChosenInv /\ pool[p] \subseteq Nat /\ Peer(p) \in Party
  BY PeerParty DEF IInv, PoolInv, PoolTypes
<1>. USE <1>0
<1>1. CASE Start(p) \/ Crash(p)
  BY <1>1 DEF Start, Crash, Kill, relayVars, ChosenInv
<1>2. CASE Resolve(p)
  <2>1. served[Peer(p)] # None /\ UNCHANGED <<up, served>>
        /\ \E k \in IF served[Peer(p)] = {} THEN {None} ELSE served[Peer(p)] :
             chosen' = [chosen EXCEPT ![p] = k]
    BY <1>2 DEF Resolve, peerVars, memoryVars, relayVars
  <2>. QED  BY <2>1 DEF ChosenInv
<1>3. CASE Publish(p)
  BY <1>3 DEF Publish, ChosenInv
<1>4. CASE UNCHANGED <<up, served, chosen>>
  BY <1>4 DEF ChosenInv
<1>5. CASE Typing(p)
  BY <1>4, <1>5 DEF Typing, Encrypt, PersistText, WriteText, relayVars
<1>6. CASE Receiving(p)
  BY <1>4, <1>6 DEF Receiving, ReceiveInSession, DropUnknown, ReceiveFirst, Establish, Save, relayVars
<1>7. ASSUME NEW k, OtherFirst(p, k)
      PROVE  ChosenInv'
  BY <1>4, <1>7 DEF OtherFirst, relayVars
<1>. QED  BY <1>1, <1>2, <1>3, <1>5, <1>6, <1>7 DEF Act

\* Every step keeps all of it.
LEMMA StepKeeps ==
  ASSUME IInv, NEW p \in Party, Act(p)
  PROVE  IInv'
<1>1. KeyInv'
  BY StepKinds, KeyStepKeeps, KeyStutter DEF IInv
<1>2. SessionInv'
  BY StepKinds, SessionStepKeeps, SessionStutter DEF IInv
<1>3. MailInv'
  BY StepKinds, MailKeeps DEF IInv
<1>4. PoolInv' /\ ReadInv'
  BY PrekeyKinds, PoolKeeps, ReadKeeps DEF IInv
<1>. QED  BY <1>1, <1>2, <1>3, <1>4, ChosenKeeps DEF IInv

\* It holds at the beginning.
LEMMA IInvInit ==
  ASSUME Init
  PROVE  IInv
<1>1. PeersInit
  BY DEF Init
<1>2. ChosenInv
  BY DEF Init, PeersInit, ChosenInv
<1>. QED  BY <1>1, <1>2, KeyInit, SessionInit, MailInit, PoolInit, ReadInit DEF IInv

\* And every step keeps it.
LEMMA IInvStep ==
  ASSUME IInv, [Next]_vars
  PROVE  IInv'
<1>1. CASE Next
  <2>1. PICK p \in Party : Act(p)
    BY <1>1 DEF Next, Act
  <2>. QED  BY <2>1, StepKeeps
<1>2. CASE UNCHANGED vars
  <2>1. UNCHANGED <<up, mem, disk, pool, poolFile, served, job, mail, fresh, made, wire, read, spent, chosen>>
    BY <1>2 DEF vars, peerVars, memoryVars, fileVars, relayVars, countVars, historyVars
  <2>2. ChosenInv'
    BY <2>1 DEF IInv, ChosenInv
  <2>. QED  BY <2>1, <2>2, KeyStutter, SessionStutter, MailStutter, PoolStutter, ReadStutter DEF IInv
<1>. QED  BY <1>1, <1>2

\* The invariant of the CLI clients, for every instance of the module.
THEOREM Inductive == Spec => []IInv
<1>1. Init => IInv
  BY IInvInit
<1>2. IInv /\ [Next]_vars => IInv'
  BY IInvStep
<1>. QED  BY <1>1, <1>2, PTL DEF Spec

\* No message key encrypts two envelopes, whenever a process is killed and starts
\* again from its files, and whatever the relay does to the mail.
THEOREM NoKeyReuseAlways == Spec => []NoKeyReuse
<1>1. IInv => NoKeyReuse
  BY DEF IInv, KeyInv
<1>. QED  BY <1>1, Inductive, PTL

\* The counters of the sessions follow their chains, their caches stay within their
\* limits, and mail, reads and pools are of their types.
THEOREM TypeOKAlways == Spec => []TypeOK
<1>1. IInv => TypeOK
  BY TypesFollow DEF IInv, ChosenInv
<1>. QED  BY <1>1, Inductive, PTL

\* A one-time prekey opens one envelope only, also when its owner is killed after
\* it used it and the relay delivers the first message again.
THEOREM PrekeyOnceAlways == Spec => []PrekeyOnce
<1>1. IInv => PrekeyOnce
  BY ReadPrekeysOnce DEF IInv
<1>. QED  BY <1>1, Inductive, PTL

------------------------------------------------------------------------------
(* What is read once.  A session moves away from the keys that were read in   *)
(* it: its receiving chain is past them, and the chains that its root will    *)
(* begin are longer than theirs, or are not begun with the prekeys.           *)

\* The root of a receiving chain that p began with a first message.
OfFirst(p, root) == Prekey(p) \in root.secrets[Len(root.secrets)][1]

\* No receiving chain that the session s of p will begin has this root.
Old(p, s, root) == Len(root.secrets) <= Len(s.root.secrets) \/ OfFirst(p, root)

\* Nor is the key of its present chain, from its present place on.
Behind(p, s, k) ==
  Old(p, s, k.root) /\ (s.ckr # None /\ k.root = s.ckr.root => k.at < s.ckr.at)

\* The key pair of a session was generated for it.
Generated(s) == (s.dhs # None \/ s.cks # None) => s.dhs[2] # 0

\* The keys the session keeps are behind its chain, no two are the same.
Keeps(p, s) ==
  /\ \A i \in 1..Len(s.skipped) : Behind(p, s, s.skipped[i].key)
  /\ \A i, j \in 1..Len(s.skipped) : s.skipped[i].key = s.skipped[j].key => i = j

\* No envelope with a key of U opens in the session s of p any more.
Unread(p, s, U) ==
  /\ Generated(s)
  /\ s.ckr = None => Len(s.skipped) = 0 /\ U = {}
  /\ s.ckr # None => Old(p, s, s.ckr.root)
  /\ Keeps(p, s)
  /\ \A k \in U : Behind(p, s, k) /\ \A i \in 1..Len(s.skipped) : s.skipped[i].key # k

\* A new session has kept no key.
LEMMA NewUnread ==
  ASSUME NEW p \in Party, NEW otk
  PROVE  Unread(p, NewSession(otk), {})
<1>1. Len(<<>>) = 0 /\ 1..0 = {}
  BY EmptySeq
<1>. QED  BY <1>1 DEF Unread, NewSession, Generated, Keeps

\* A session whose root grew is as far from the keys that were read.
LEMMA GrownUnread ==
  ASSUME NEW p \in Party, NEW s, NEW t, NEW U, Unread(p, s, U), Generated(t),
         Len(s.root.secrets) \in Nat, Len(t.root.secrets) \in Nat,
         \A ck \in Chain : Len(ck.root.secrets) \in Nat, U \subseteq Chain,
         \A i \in 1..Len(s.skipped) : s.skipped[i].key \in Chain, s.ckr \in Chain \cup {None},
         t.ckr = s.ckr, t.skipped = s.skipped, Len(t.root.secrets) >= Len(s.root.secrets)
  PROVE  Unread(p, t, U)
<1>1. \A ck \in Chain : Old(p, s, ck.root) => Old(p, t, ck.root)
  BY DEF Old
<1>2. \A ck \in Chain : Behind(p, s, ck) => Behind(p, t, ck)
  BY <1>1 DEF Behind
<1>3. Keeps(p, t)
  BY <1>2 DEF Keeps, Unread
<1>. QED  BY <1>1, <1>2, <1>3, NoneIsNoChain DEF Unread

\* The sizes and types those lemmas speak of.
LEMMA SessionSizes ==
  ASSUME NEW s \in Session
  PROVE  /\ Len(s.root.secrets) \in Nat /\ Len(s.skipped) \in Nat
         /\ \A i \in 1..Len(s.skipped) : s.skipped[i] \in KeptKey /\ s.skipped[i].key \in Chain
         /\ s.ckr \in Chain \cup {None}
         /\ s.skipped \in Seq(KeptKey) /\ s.root \in Root
<1>1. s.root \in Root /\ s.skipped \in Seq(KeptKey) /\ s.ckr \in Chain \cup {None}
  BY DEF Session
<1>2. Len(s.root.secrets) \in Nat
  BY <1>1, LenProperties DEF Root
<1>3. Len(s.skipped) \in Nat /\ \A i \in 1..Len(s.skipped) : s.skipped[i] \in KeptKey
  BY <1>1, LenProperties, ElementOfSeq
<1>. QED  BY <1>1, <1>2, <1>3 DEF KeptKey

\* The same of a chain, by itself.
LEMMA ChainSizes == \A ck \in Chain : ck.root \in Root /\ Len(ck.root.secrets) \in Nat /\ ck.at \in Nat
<1>1. \A ck \in Chain : ck.root \in Root /\ ck.root.secrets \in Seq(Secret) /\ ck.at \in Nat
  BY DEF Chain, Root
<1>. QED  BY <1>1, LenProperties

\* The last secret of a root that one was mixed into.
LEMMA MixLast ==
  ASSUME NEW root \in Root, NEW dh, NEW kem
  PROVE  LET m == Mix(root, dh, kem) IN
         /\ Len(m.secrets) = Len(root.secrets) + 1
         /\ m.secrets[Len(m.secrets)] = <<dh, kem>>
<1>. DEFINE m == Mix(root, dh, kem)
            x == <<dh, kem>>
            S == Secret \cup {x}
<1>1. root.secrets \in Seq(Secret) /\ Secret \subseteq S
  BY DEF Root
<1>2. m.secrets = Append(root.secrets, x)
  BY DEF Mix, Root
<1>. HIDE DEF x, S
<1>3. root.secrets \in Seq(S) /\ x \in S
  BY <1>1, SeqMonotonic DEF S
<1>4. Len(Append(root.secrets, x)) = Len(root.secrets) + 1
      /\ Append(root.secrets, x)[Len(root.secrets) + 1] = x
  BY <1>3, AppendProperties
<1>. HIDE DEF m
<1>5. Len(m.secrets) = Len(root.secrets) + 1 /\ m.secrets[Len(m.secrets)] = x
  BY <1>2, <1>4
<1>. QED  BY <1>5 DEF m, x

\* A new epoch begins a receiving chain that the session did not have.
LEMMA NextRootNew ==
  ASSUME NEW p \in Party, NEW s \in Session, s.dhs # None, Generated(s),
         NEW env, env.dh[2] # 0, NEW root \in Root, Len(root.secrets) \in Nat, Old(p, s, root)
  PROVE  NextRoot(s, env) # root
<1>1. s.root \in Root /\ Len(s.root.secrets) \in Nat
  BY SessionSizes
<1>2. PICK m : m = NextRoot(s, env)
  OBVIOUS
<1>3. PICK l : l = {s.dhs, env.dh}
  OBVIOUS
<1>4. Len(m.secrets) = Len(s.root.secrets) + 1 /\ m.secrets[Len(m.secrets)][1] = l
  BY <1>1, <1>2, <1>3, MixLast DEF NextRoot
<1>5. s.dhs[2] # 0 /\ env.dh[2] # 0
  BY DEF Generated
<1>6. Prekey(p) \notin l
  BY <1>3, <1>5 DEF Prekey
<1>. QED  BY <1>1, <1>2, <1>4, <1>6 DEF Old, OfFirst

\* What a Map that evicts its oldest entries keeps is the end of it.
LEMMA NewestEnds ==
  ASSUME NEW S, NEW seq \in Seq(S), NEW k \in Nat
  PROVE  \E off \in Nat : \A i \in 1..Len(Newest(seq, k)) :
           i + off \in 1..Len(seq) /\ Newest(seq, k)[i] = seq[i + off]
<1>1. Len(seq) \in Nat
  BY LenProperties
<1>2. CASE Len(seq) <= k
  <2>1. Newest(seq, k) = seq /\ \A i \in 1..Len(seq) : i + 0 = i
    BY <1>1, <1>2 DEF Newest
  <2>. QED  BY <2>1
<1>3. CASE ~(Len(seq) <= k)
  <2>. DEFINE off == Len(seq) - k
              w == SubSeq(seq, off + 1, Len(seq))
  <2>1. Newest(seq, k) = w /\ off \in Nat
    BY <1>1, <1>3 DEF Newest
  <2>2. \A i \in (off + 1)..Len(seq) : seq[i] \in S
    BY <1>1, <2>1, ElementOfSeq
  <2>3. Len(w) = k /\ \A i \in 1..k : w[i] = seq[off + 1 + i - 1]
    BY <1>1, <2>1, <2>2, SubSeqProperties
  <2>. HIDE DEF w
  <2>4. \A i \in 1..Len(w) : i + off \in 1..Len(seq) /\ w[i] = seq[i + off]
    BY <1>1, <2>1, <2>3
  <2>. QED  BY <2>1, <2>4
<1>. QED  BY <1>2, <1>3

\* Keys that are passed are behind the chain as well, and new among those kept.
LEMMA SkipUnread ==
  ASSUME NEW p \in Party, NEW s, WellFormed(s), NEW until \in Nat,
         NEW U \in SUBSET Chain, Unread(p, s, U)
  PROVE  Unread(p, Skip(s, until), U)
<1>1. CASE s.ckr = None \/ until <= s.nr
  BY <1>1 DEF Skip
<1>2. CASE ~(s.ckr = None \/ until <= s.nr)
  <2>. DEFINE k == until - s.nr
              passed == [i \in 1..k |-> [dh |-> s.dhr, n |-> s.nr + i - 1, key |-> After(s.ckr, i - 1)]]
              all == s.skipped \o passed
              kept == Newest(all, MaxKept)
              ck == After(s.ckr, k)
              t == Skip(s, until)
              m == Len(s.skipped)
  <2>1. s \in Session /\ s.dhr \in KeyPair /\ s.ckr \in Chain /\ s.ckr.at = s.nr /\ s.nr \in Nat
    BY <1>2 DEF WellFormed, Session
  <2>2. k \in Nat \ {0}
    BY <1>2, <2>1
  <2>3. t = [s EXCEPT !.ckr = ck, !.nr = until, !.skipped = kept]
    BY <1>2 DEF Skip
  <2>4. ck \in Chain /\ ck.root = s.ckr.root /\ ck.at = s.ckr.at + k
    BY <2>1, <2>2, AfterType
  <2>5. \A i \in 1..k : /\ passed[i].key \in Chain /\ passed[i].key.root = s.ckr.root
                        /\ passed[i].key.at = s.ckr.at + i - 1 /\ passed[i] \in KeptKey
    <3>. SUFFICES ASSUME NEW i \in 1..k
                  PROVE  /\ After(s.ckr, i - 1) \in Chain /\ After(s.ckr, i - 1).root = s.ckr.root
                         /\ After(s.ckr, i - 1).at = s.ckr.at + i - 1
                         /\ [dh |-> s.dhr, n |-> s.nr + i - 1, key |-> After(s.ckr, i - 1)] \in KeptKey
      OBVIOUS
    <3>1. i - 1 \in Nat /\ s.nr + i - 1 \in Nat
      BY <2>1, <2>2
    <3>2. After(s.ckr, i - 1) \in Chain /\ After(s.ckr, i - 1).root = s.ckr.root
          /\ After(s.ckr, i - 1).at = s.ckr.at + i - 1
      BY <2>1, <3>1, AfterType
    <3>. QED  BY <2>1, <3>1, <3>2 DEF KeptKey
  <2>6. passed \in Seq(KeptKey) /\ Len(passed) = k
    <3>. HIDE DEF k
    <3>1. passed \in [1..k -> KeptKey]
      BY <2>5
    <3>2. passed \in Seq(KeptKey)
      BY <2>2, <3>1, SeqDef
    <3>. QED  BY <2>2, <3>1, <3>2, LenProperties
  <2>. HIDE DEF passed
  <2>7. m \in Nat /\ s.skipped \in Seq(KeptKey) /\ \A i \in 1..m : s.skipped[i].key \in Chain
    BY <2>1, SessionSizes
  <2>8. /\ all \in Seq(KeptKey) /\ Len(all) = m + k
        /\ \A i \in 1..Len(all) : all[i] = IF i <= m THEN s.skipped[i] ELSE passed[i - m]
    BY <2>6, <2>7, ConcatProperties
  <2>. HIDE DEF all, k, ck, m
  \* What was kept and what is passed, and the keys of U, apart from one another.
  <2>9. \A i \in 1..Len(all) :
          /\ all[i].key \in Chain
          /\ \/ i <= m /\ i \in 1..m /\ all[i] = s.skipped[i]
             \/ i > m /\ all[i].key.root = s.ckr.root /\ all[i].key.at = s.ckr.at + (i - m) - 1
    <3>. SUFFICES ASSUME NEW i \in 1..Len(all)
                  PROVE  /\ all[i].key \in Chain
                         /\ \/ i <= m /\ i \in 1..m /\ all[i] = s.skipped[i]
                            \/ i > m /\ all[i].key.root = s.ckr.root
                               /\ all[i].key.at = s.ckr.at + (i - m) - 1
      OBVIOUS
    <3>1. i \in 1..(m + k)
      BY <2>8
    <3>2. CASE i <= m
      <4>1. i \in 1..m
        BY <2>7, <3>1, <3>2
      <4>2. all[i] = s.skipped[i]
        BY <2>8, <3>2
      <4>. QED  BY <2>7, <3>2, <4>1, <4>2
    <3>3. CASE i > m
      <4>1. i - m \in 1..k /\ ~(i <= m)
        BY <2>2, <2>7, <3>1, <3>3
      <4>2. all[i] = passed[i - m]
        BY <2>8, <4>1
      <4>. QED  BY <2>5, <3>3, <4>1, <4>2
    <3>. QED  BY <2>2, <2>7, <3>1, <3>2, <3>3
  <2>10. s.ckr.at \in Nat /\ s.ckr # None
    BY <1>2, <2>1
  <2>11. \A i \in 1..m : /\ Old(p, s, s.skipped[i].key.root)
                         /\ s.skipped[i].key.root = s.ckr.root => s.skipped[i].key.at < s.ckr.at
    BY <2>10 DEF Unread, Keeps, Behind, m
  <2>12. Old(p, s, s.ckr.root)
    BY <2>10 DEF Unread
  <2>13. /\ t.ckr = ck /\ t.skipped = kept /\ t.root = s.root /\ t.cks = s.cks /\ t.dhs = s.dhs
    BY <2>1, <2>3 DEF Session
  <2>. HIDE DEF t
  <2>14. \A root : Old(p, s, root) => Old(p, t, root)
    BY <2>13 DEF Old
  <2>15. t.ckr # None /\ t.ckr.root = s.ckr.root /\ t.ckr.at = s.ckr.at + k
    BY <2>4, <2>13, NoneIsNoChain
  <2>16. \A i \in 1..Len(all) : Behind(p, t, all[i].key)
    <3>. SUFFICES ASSUME NEW i \in 1..Len(all)
                  PROVE  /\ Old(p, t, all[i].key.root)
                         /\ all[i].key.root = s.ckr.root => all[i].key.at < s.ckr.at + k
      BY <2>15 DEF Behind
    <3>1. CASE i <= m /\ i \in 1..m /\ all[i] = s.skipped[i]
      <4>1. all[i].key.at \in Nat
        BY <2>9, ChainSizes
      <4>. QED  BY <2>2, <2>10, <2>11, <2>14, <3>1, <4>1
    <3>2. CASE i > m /\ all[i].key.root = s.ckr.root /\ all[i].key.at = s.ckr.at + (i - m) - 1
      BY <2>2, <2>7, <2>8, <2>10, <2>12, <2>14, <3>2
    <3>. QED  BY <2>9, <3>1, <3>2
  <2>17. \A i, j \in 1..Len(all) : all[i].key = all[j].key => i = j
    <3>. SUFFICES ASSUME NEW i \in 1..Len(all), NEW j \in 1..Len(all), all[i].key = all[j].key
                  PROVE  i = j
      OBVIOUS
    <3>0. \A a, b \in 1..m : s.skipped[a].key = s.skipped[b].key => a = b
      BY DEF Unread, Keeps, m
    <3>1. CASE i <= m /\ j <= m
      BY <2>2, <2>7, <2>8, <2>9, <3>0, <3>1
    <3>2. CASE i > m /\ j > m
      BY <2>2, <2>7, <2>8, <2>9, <2>10, <3>2
    <3>3. \A a, b \in 1..Len(all) : a <= m /\ b > m => all[a].key # all[b].key
      <4>. SUFFICES ASSUME NEW a \in 1..Len(all), NEW b \in 1..Len(all), a <= m, b > m,
                           all[a].key = all[b].key
                    PROVE  FALSE
        OBVIOUS
      <4>1. a \in 1..m /\ all[a] = s.skipped[a]
        BY <2>7, <2>8, <2>9
      <4>2. all[b].key.root = s.ckr.root /\ all[b].key.at = s.ckr.at + (b - m) - 1
        BY <2>7, <2>8, <2>9
      <4>3. all[b].key.at < s.ckr.at
        BY <2>11, <4>1, <4>2
      <4>. QED  BY <2>7, <2>8, <2>10, <4>2, <4>3
    <3>. QED  BY <2>2, <2>7, <2>8, <3>1, <3>2, <3>3
  <2>18. \A c \in U : \A i \in 1..Len(all) : all[i].key # c
    <3>. SUFFICES ASSUME NEW c \in U, NEW i \in 1..Len(all), all[i].key = c
                  PROVE  FALSE
      OBVIOUS
    <3>1. Behind(p, s, c) /\ \A j \in 1..m : s.skipped[j].key # c
      BY DEF Unread, m
    <3>2. c.root = s.ckr.root => c.at < s.ckr.at
      BY <2>10, <3>1 DEF Behind
    <3>3. CASE i <= m /\ i \in 1..m /\ all[i] = s.skipped[i]
      BY <3>1, <3>3
    <3>4. CASE i > m /\ all[i].key.root = s.ckr.root /\ all[i].key.at = s.ckr.at + (i - m) - 1
      <4>1. c.at < s.ckr.at /\ c.at = s.ckr.at + (i - m) - 1
        BY <3>2, <3>4
      <4>. QED  BY <2>7, <2>8, <2>10, <3>4, <4>1
    <3>. QED  BY <2>9, <3>3, <3>4
  <2>19. \A c \in U : Behind(p, t, c)
    <3>. SUFFICES ASSUME NEW c \in U
                  PROVE  Old(p, t, c.root) /\ (c.root = s.ckr.root => c.at < s.ckr.at + k)
      BY <2>15 DEF Behind
    <3>1. Behind(p, s, c) /\ c.at \in Nat
      BY ChainSizes DEF Unread
    <3>2. Old(p, s, c.root) /\ (c.root = s.ckr.root => c.at < s.ckr.at)
      BY <2>10, <3>1 DEF Behind
    <3>. QED  BY <2>2, <2>10, <2>14, <3>1, <3>2
  <2>20. PICK off \in Nat : \A i \in 1..Len(kept) : i + off \in 1..Len(all) /\ kept[i] = all[i + off]
    BY <2>8, NewestEnds, RatchetAssumption
  <2>21. Len(kept) \in Nat
    <3>1. kept \in Seq(KeptKey)
      BY <2>8, NewestType, RatchetAssumption
    <3>. QED  BY <3>1, LenProperties
  <2>. HIDE DEF kept
  <2>22. Keeps(p, t)
    <3>1. \A i \in 1..Len(kept) : Behind(p, t, kept[i].key)
      BY <2>16, <2>20
    <3>2. \A i, j \in 1..Len(kept) : kept[i].key = kept[j].key => i + off = j + off
      BY <2>17, <2>20
    <3>3. \A i, j \in 1..Len(kept) : i + off = j + off => i = j
      BY <2>20, <2>21
    <3>. QED  BY <2>13, <3>1, <3>2, <3>3 DEF Keeps
  <2>23. \A c \in U : \A i \in 1..Len(kept) : kept[i].key # c
    BY <2>18, <2>20
  <2>24. Generated(t) /\ Old(p, t, t.ckr.root)
    BY <2>12, <2>13, <2>14, <2>15 DEF Unread, Generated
  <2>25. Unread(p, t, U)
    BY <2>13, <2>15, <2>19, <2>22, <2>23, <2>24 DEF Unread
  <2>. QED  BY <2>25 DEF t
<1>. QED  BY <1>1, <1>2

\* A first message leaves the session with its own key pair, or with a fresh one.
LEMMA EstablishDhs ==
  ASSUME NEW p \in Party, NEW s, WellFormed(s), s.ckr = None, Generated(s),
         NEW env, WellSealed(env), env.first, NEW e \in KeyPair, e[2] # 0
  PROVE  Generated(EstablishFirst(p, s, env, e))
<1>. DEFINE ck == ChainOf(FirstRoot(p, s, env))
            ep == Remember(s, env.dh)
            r == [s EXCEPT !.ckr = ck, !.dhr = env.dh, !.epochs = ep]
            u == [r EXCEPT !.pn = s.ns, !.ns = 0]
            t == EstablishFirst(p, s, env, e)
<1>1. s \in Session
  BY DEF WellFormed
<1>2. t = r \/ t = SendStep(r, e) \/ t = SendStep(u, e)
  BY DEF EstablishFirst, FirstRoot
<1>. HIDE DEF ck, ep, t
<1>3. r.dhs = s.dhs /\ r.cks = s.cks
  BY <1>1 DEF Session
<1>4. DOMAIN r = DOMAIN s /\ DOMAIN u = DOMAIN s /\ "dhs" \in DOMAIN s /\ "root" \in DOMAIN s /\ "cks" \in DOMAIN s
  BY <1>1 DEF Session
<1>. HIDE DEF r, u
<1>5. SendStep(r, e).dhs = e /\ SendStep(u, e).dhs = e
  BY <1>4 DEF SendStep
<1>. QED  BY <1>2, <1>3, <1>5 DEF t, Generated

\* A first message begins a chain with the prekeys.
LEMMA FirstUnread ==
  ASSUME NEW p \in Party, NEW s, WellFormed(s), s.ckr = None, NEW U \in SUBSET Chain, Unread(p, s, U),
         NEW env, WellSealed(env), env.first, NEW e \in KeyPair, e[2] # 0
  PROVE  Unread(p, EstablishFirst(p, s, env, e), U)
<1>. DEFINE m == FirstRoot(p, s, env)
<1>1. PICK t : t = EstablishFirst(p, s, env, e)
  OBVIOUS
<1>2. Generated(t)
  BY <1>1, EstablishDhs DEF Unread
<1>3. m \in Root /\ t.ckr = ChainOf(m) /\ t.skipped = s.skipped
  BY <1>1, EstablishType
<1>4. U = {} /\ Len(t.skipped) = 0
  BY <1>3 DEF Unread
<1>5. Prekey(p) \in m.secrets[Len(m.secrets)][1]
  <2>1. s.root \in Root
    BY SessionSizes DEF WellFormed
  <2>2. PICK l : l = {env.dh, Prekey(p)}
    OBVIOUS
  <2>3. m.secrets[Len(m.secrets)] = <<l, Opened(env.ct, Prekey(p))>>
    BY <2>1, <2>2, MixLast DEF FirstRoot
  <2>. QED  BY <2>2, <2>3
<1>. HIDE DEF m
<1>6. t.ckr # None /\ Old(p, t, t.ckr.root)
  <2>1. t.ckr.root = m /\ t.ckr \in Chain
    BY <1>3 DEF ChainOf, Chain
  <2>. QED  BY <1>5, <2>1, NoneIsNoChain DEF Old, OfFirst
<1>7. Keeps(p, t)
  BY <1>4 DEF Keeps
<1>8. Unread(p, t, U)
  BY <1>2, <1>4, <1>6, <1>7 DEF Unread
<1>. QED  BY <1>1, <1>8

\* A new epoch begins a chain that no key is of.
LEMMA NextUnread ==
  ASSUME NEW p \in Party, NEW s, WellFormed(s), s.dhs \in KeyPair, NEW U \in SUBSET Chain, Unread(p, s, U),
         s.dhs # None, s.ckr # None \/ U = {},
         NEW env, WellSealed(env), env.ct \in Ciphertext, env.dh[2] # 0, NEW e \in KeyPair, e[2] # 0
  PROVE  Unread(p, DHRatchet(s, env, e), U)
<1>. DEFINE m == NextRoot(s, env)
<1>1. PICK t : t = DHRatchet(s, env, e)
  OBVIOUS
<1>2. /\ m \in Root /\ t.ckr = ChainOf(m) /\ t.skipped = s.skipped
      /\ Len(t.root.secrets) > Len(s.root.secrets) /\ Len(t.root.secrets) > Len(m.secrets)
      /\ WellFormed(t)
  BY <1>1, RatchetType
<1>3. t.dhs = e
  <2>. DEFINE ep == Remember(s, env.dh)
              ck == ChainOf(m)
              r == [s EXCEPT !.pn = s.ns, !.ns = 0, !.nr = 0, !.dhr = env.dh,
                             !.epochs = ep, !.root = m, !.ckr = ck]
  <2>1. DOMAIN r = DOMAIN s /\ "dhs" \in DOMAIN s
    BY DEF WellFormed, Session
  <2>2. t = SendStep(r, e)
    BY <1>1 DEF DHRatchet, NextRoot
  <2>. HIDE DEF r
  <2>. QED  BY <2>1, <2>2 DEF SendStep
<1>4. /\ Len(t.root.secrets) \in Nat /\ Len(s.root.secrets) \in Nat
      /\ \A i \in 1..Len(s.skipped) : s.skipped[i].key \in Chain
      /\ t.root \in Root /\ Len(m.secrets) \in Nat
  <2>1. s \in Session /\ t \in Session
    BY <1>2 DEF WellFormed
  <2>2. m.secrets \in Seq(Secret)
    BY <1>2 DEF Root
  <2>. QED  BY <2>1, <2>2, SessionSizes, LenProperties
<1>. HIDE DEF m
<1>5. t.ckr # None /\ t.ckr.root = m /\ Old(p, t, m)
  <2>1. t.ckr.root = m /\ t.ckr \in Chain
    BY <1>2 DEF ChainOf, Chain
  <2>. QED  BY <1>2, <1>4, <2>1, NoneIsNoChain DEF Old
<1>6. \A c \in Chain : Behind(p, s, c) => Behind(p, t, c)
  <2>. SUFFICES ASSUME NEW c \in Chain, Behind(p, s, c)
                PROVE  Behind(p, t, c)
    OBVIOUS
  <2>1. Old(p, s, c.root) /\ c.root \in Root /\ Len(c.root.secrets) \in Nat
    BY ChainSizes DEF Behind
  <2>2. Old(p, t, c.root)
    BY <1>2, <1>4, <2>1 DEF Old
  <2>3. m # c.root
    BY <2>1, NextRootNew DEF m, WellFormed, Unread
  <2>. QED  BY <1>5, <2>2, <2>3 DEF Behind
<1>7. Keeps(p, t)
  BY <1>2, <1>4, <1>6 DEF Keeps, Unread
<1>8. Generated(t)
  BY <1>3 DEF Generated
<1>9. \A c \in U : Behind(p, t, c) /\ \A i \in 1..Len(t.skipped) : t.skipped[i].key # c
  BY <1>2, <1>6 DEF Unread
<1>10. Unread(p, t, U)
  BY <1>5, <1>7, <1>8, <1>9 DEF Unread
<1>. QED  BY <1>1, <1>10

\* Whichever chain an envelope is read from, no key that was read is ahead in it.
LEMMA TurnUnread ==
  ASSUME NEW p \in Party, NEW s, WellFormed(s), NEW U \in SUBSET Chain, Unread(p, s, U),
         NEW env, WellSealed(env), env.dh[2] # 0, NEW e \in KeyPair, e[2] # 0,
         env.first => s.ckr = None,
         ~env.first /\ NewEpoch(s, env) => s.dhs # None /\ env.ct # None
  PROVE  Unread(p, Turned(p, s, env, e), U)
<1>1. CASE env.first
  BY <1>1, FirstUnread DEF Turned
<1>2. CASE ~env.first /\ NewEpoch(s, env)
  <2>1. env.pn \in Nat /\ env.ct \in Ciphertext /\ s.dhs \in KeyPair
    BY <1>2 DEF WellSealed, EnvelopeType, WellFormed, Session
  <2>2. PICK u : u = Skip(s, env.pn)
    OBVIOUS
  <2>3. WellFormed(u) /\ u.dhs = s.dhs
    BY <2>1, <2>2, SkipType
  <2>4. Unread(p, u, U)
    BY <2>1, <2>2, SkipUnread
  <2>5. u.ckr # None \/ U = {}
    BY <2>4 DEF Unread
  <2>6. Unread(p, DHRatchet(u, env, e), U)
    BY <1>2, <2>1, <2>3, <2>4, <2>5, NextUnread
  <2>. QED  BY <1>2, <2>2, <2>6 DEF Turned
<1>3. CASE ~env.first /\ ~NewEpoch(s, env)
  BY <1>3 DEF Turned
<1>. QED  BY <1>1, <1>2, <1>3

\* The next key of the chain is none of those, and is behind the chain when it was used.
LEMMA PassedUnread ==
  ASSUME NEW p \in Party, NEW s, WellFormed(s), s.ckr \in Chain, NEW U \in SUBSET Chain, Unread(p, s, U)
  PROVE  s.ckr \notin U /\ Unread(p, Passed(s), U \cup {s.ckr})
<1>1. s.ckr # None /\ s.ckr.at \in Nat /\ s \in Session
  BY NoneIsNoChain, ChainSizes DEF WellFormed
<1>2. s.ckr \notin U
  BY <1>1 DEF Unread, Behind
<1>3. PICK t : t = Passed(s)
  OBVIOUS
<1>4. /\ WellFormed(t) /\ t.cks = s.cks /\ t.root = s.root /\ t.skipped = s.skipped
      /\ t.ckr \in Chain /\ t.ckr.root = s.ckr.root /\ t.ckr.at = s.ckr.at + 1
  BY <1>3, PassedType
<1>5. t.dhs = s.dhs
  BY <1>1, <1>3 DEF Passed, Session
<1>6. t.ckr # None
  BY <1>4, NoneIsNoChain
<1>7. \A root : Old(p, s, root) => Old(p, t, root)
  BY <1>4 DEF Old
<1>8. \A c \in Chain : Behind(p, s, c) => Behind(p, t, c)
  BY <1>1, <1>4, <1>7, ChainSizes DEF Behind
<1>9. Behind(p, t, s.ckr)
  BY <1>1, <1>4, <1>7 DEF Behind, Unread
<1>10. \A i \in 1..Len(s.skipped) : /\ s.skipped[i].key \in Chain /\ Behind(p, s, s.skipped[i].key)
                                    /\ s.skipped[i].key # s.ckr
  BY <1>1, SessionSizes DEF Unread, Keeps, Behind
<1>11. Keeps(p, t)
  BY <1>4, <1>8, <1>10 DEF Keeps, Unread
<1>12. Generated(t)
  BY <1>4, <1>5 DEF Generated, Unread
<1>13. Unread(p, t, U \cup {s.ckr})
  <2>1. Old(p, t, t.ckr.root)
    BY <1>1, <1>4, <1>7 DEF Unread
  <2>2. \A c \in U \cup {s.ckr} : Behind(p, t, c) /\ \A i \in 1..Len(t.skipped) : t.skipped[i].key # c
    BY <1>4, <1>8, <1>9, <1>10 DEF Unread
  <2>. QED  BY <1>6, <1>11, <1>12, <2>1, <2>2 DEF Unread
<1>. QED  BY <1>2, <1>3, <1>13

\* A kept key is none of those that were read, and is not kept when it was used.
LEMMA DroppedUnread ==
  ASSUME NEW p \in Party, NEW s, WellFormed(s), NEW i \in 1..Len(s.skipped),
         NEW U \in SUBSET Chain, Unread(p, s, U)
  PROVE  s.skipped[i].key \notin U /\ Unread(p, Dropped(s, i), U \cup {s.skipped[i].key})
<1>. DEFINE w == Without(s.skipped, i)
            from == [j \in 1..(Len(s.skipped) - 1) |-> IF j < i THEN j ELSE j + 1]
<1>1. PICK k : k = s.skipped[i].key
  OBVIOUS
<1>2. s \in Session /\ s.skipped \in Seq(KeptKey) /\ Len(s.skipped) \in Nat
      /\ \A j \in 1..Len(s.skipped) : s.skipped[j].key \in Chain
  BY SessionSizes DEF WellFormed
<1>3. k \notin U /\ Behind(p, s, k) /\ \A j \in 1..Len(s.skipped) : s.skipped[j].key = k => j = i
  BY <1>1 DEF Unread, Keeps
<1>4. PICK t : t = Dropped(s, i)
  OBVIOUS
<1>5. t.cks = s.cks /\ t.ckr = s.ckr /\ t.root = s.root /\ t.skipped = w
  BY <1>4, DroppedType
<1>6. t.dhs = s.dhs
  BY <1>2, <1>4 DEF Dropped, Session
<1>7. /\ Len(w) = Len(s.skipped) - 1
      /\ \A j \in 1..Len(w) : from[j] \in 1..Len(s.skipped) /\ from[j] # i /\ w[j] = s.skipped[from[j]]
      /\ \A j, l \in 1..Len(w) : from[j] = from[l] => j = l
  <2>1. /\ Len(w) = Len(s.skipped) - 1
        /\ \A j \in 1..(Len(s.skipped) - 1) : w[j] = IF j < i THEN s.skipped[j] ELSE s.skipped[j + 1]
    BY <1>2, WithoutSeq
  <2>2. i \in Nat /\ i \in 1..Len(s.skipped)
    BY <1>2
  <2>3. \A j \in 1..(Len(s.skipped) - 1) : /\ j \in Nat
                                            /\ from[j] = (IF j < i THEN j ELSE j + 1)
    BY <1>2
  <2>. HIDE DEF w, from
  <2>4. \A j \in 1..Len(w) : from[j] \in 1..Len(s.skipped) /\ from[j] # i
    BY <1>2, <2>1, <2>2, <2>3
  <2>5. \A j \in 1..Len(w) : w[j] = s.skipped[from[j]]
    BY <2>1, <2>3
  <2>6. \A j, l \in 1..Len(w) : from[j] = from[l] => j = l
    BY <1>2, <2>1, <2>2, <2>3
  <2>. QED  BY <2>1, <2>4, <2>5, <2>6
<1>. HIDE DEF w, from
<1>8. \A c : Behind(p, s, c) => Behind(p, t, c)
  BY <1>5 DEF Behind, Old
<1>9. Keeps(p, t)
  <2>1. \A j \in 1..Len(s.skipped) : Behind(p, s, s.skipped[j].key)
    BY DEF Keeps, Unread
  <2>2. \A j, l \in 1..Len(s.skipped) : s.skipped[j].key = s.skipped[l].key => j = l
    BY DEF Keeps, Unread
  <2>3. \A j \in 1..Len(w) : Behind(p, t, w[j].key)
    BY <1>7, <1>8, <2>1
  <2>4. \A j, l \in 1..Len(w) : w[j].key = w[l].key => j = l
    <3>. SUFFICES ASSUME NEW j \in 1..Len(w), NEW l \in 1..Len(w), w[j].key = w[l].key
                  PROVE  j = l
      OBVIOUS
    <3>1. from[j] \in 1..Len(s.skipped) /\ from[l] \in 1..Len(s.skipped)
          /\ s.skipped[from[j]].key = s.skipped[from[l]].key
      BY <1>7
    <3>. HIDE DEF from, w
    <3>2. from[j] = from[l]
      BY <2>2, <3>1
    <3>. QED  BY <1>7, <3>2
  <2>. QED  BY <1>5, <2>3, <2>4 DEF Keeps
<1>10. \A c \in U \cup {k} : Behind(p, t, c) /\ \A j \in 1..Len(t.skipped) : t.skipped[j].key # c
  BY <1>3, <1>5, <1>7, <1>8 DEF Unread
<1>11. Generated(t) /\ t.ckr # None /\ Old(p, t, t.ckr.root)
  <2>1. Len(s.skipped) # 0
    BY <1>2
  <2>2. s.ckr # None /\ Old(p, s, s.ckr.root) /\ Generated(s)
    BY <2>1 DEF Unread
  <2>. QED  BY <1>5, <1>6, <2>2 DEF Generated, Old
<1>12. Unread(p, t, U \cup {k})
  BY <1>9, <1>10, <1>11 DEF Unread
<1>. QED  BY <1>1, <1>3, <1>4, <1>12

\* A decryption reads a key that was not read, and moves the session past it; one
\* that fails leaves the session.
LEMMA DecryptUnread ==
  ASSUME NEW p \in Party, NEW s, WellFormed(s), NEW U \in SUBSET Chain, Unread(p, s, U),
         NEW env, WellSealed(env), env.dh[2] # 0, NEW e \in KeyPair, e[2] # 0
  PROVE  LET d == Decrypt(p, s, env, e) IN
         IF d.why = None THEN env.key \notin U /\ Unread(p, d.session, U \cup {env.key})
         ELSE d.session = s
<1>1. PICK d : d = Decrypt(p, s, env, e)
  OBVIOUS
<1>. DEFINE Good == IF d.why = None THEN env.key \notin U /\ Unread(p, d.session, U \cup {env.key})
                    ELSE d.session = s
<1>2. ASSUME Refused(s, env) # None
      PROVE  Good
  BY <1>1, <1>2, Outcomes DEF Decrypt
<1>3. ASSUME ~(Refused(s, env) # None) /\ ~env.first /\ KeptAt(s, env) # {}
      PROVE  Good
  <2>1. PICK i : i = PlaceOf(s, env)
    OBVIOUS
  <2>2. d = DecryptKept(s, env)
    BY <1>1, <1>3 DEF Decrypt
  <2>3. i \in 1..Len(s.skipped)
    BY <1>3, <2>1 DEF KeptAt, PlaceOf
  <2>4. \/ d.why = "wrong-key" /\ d.session = s
        \/ s.skipped[i].key = env.key /\ d.why = None /\ d.session = Dropped(s, i)
    BY <2>1, <2>2, KeptOutcome
  <2>5. s.skipped[i].key \notin U /\ Unread(p, Dropped(s, i), U \cup {s.skipped[i].key})
    BY <2>3, DroppedUnread
  <2>. QED  BY <2>4, <2>5, RatchetAssumption
<1>4. ASSUME ~(Refused(s, env) # None) /\ (env.first \/ KeptAt(s, env) = {})
      PROVE  Good
  <2>1. PICK turned, ready : turned = Turned(p, s, env, e) /\ ready = Skip(turned, env.n)
    OBVIOUS
  <2>2. d = DecryptNext(p, s, env, e)
    BY <1>1, <1>4 DEF Decrypt
  <2>3. \/ d.why \in {"too-far", "wrong-key"} /\ d.session = s
        \/ ready.ckr = env.key /\ d.why = None /\ d.session = Passed(ready)
    BY <2>1, <2>2, NextOutcome
  <2>4. /\ env.first => s.ckr = None
        /\ ~env.first /\ NewEpoch(s, env) => s.dhs # None /\ env.ct # None
    BY <1>4, NotRefused
  <2>5. WellFormed(turned) /\ Unread(p, turned, U)
    BY <2>1, <2>4, TurnedType, TurnUnread
  <2>6. env.n \in Nat /\ env.key \in Chain
    BY DEF WellSealed, EnvelopeType
  <2>7. WellFormed(ready) /\ Unread(p, ready, U)
    BY <2>1, <2>5, <2>6, SkipType, SkipUnread
  <2>8. ready.ckr = env.key => ready.ckr \notin U /\ Unread(p, Passed(ready), U \cup {ready.ckr})
    BY <2>6, <2>7, PassedUnread
  <2>. QED  BY <2>3, <2>8, RatchetAssumption
<1>5. Good
  BY <1>2, <1>3, <1>4
<1>. QED  BY <1>1, <1>5

\* Preparing to send moves no receiving chain.
LEMMA SendingUnread ==
  ASSUME NEW p \in Party, NEW s, WellFormed(s), NEW U \in SUBSET Chain, Unread(p, s, U),
         NEW e \in KeyPair, e[2] # 0
  PROVE  Unread(p, Sending(p, s, e), U)
<1>1. PICK t : t = Sending(p, s, e)
  OBVIOUS
<1>2. WellFormed(t) /\ t.root = s.root /\ t.ckr = s.ckr /\ t.skipped = s.skipped /\ (s.cks # None => t = s)
  BY <1>1, SendingType
<1>3. CASE s.cks # None
  BY <1>1, <1>2, <1>3
<1>4. CASE s.cks = None
  <2>. DEFINE ct == <<e, Prekey(Peer(p))>>
              ck == ChainOf(Mix(s.root, {e, Prekey(Peer(p))}, ct))
  <2>1. t = [s EXCEPT !.firstBuilt = TRUE, !.isFirst = TRUE, !.dhs = e, !.ct = ct, !.cks = ck]
    BY <1>1, <1>4 DEF Sending, FirstSend
  <2>. HIDE DEF ct, ck
  <2>2. t.dhs = e
    BY <2>1 DEF WellFormed, Session
  <2>3. Generated(t) /\ s \in Session /\ Len(s.root.secrets) \in Nat
    BY <2>2, SessionSizes DEF Generated, WellFormed
  <2>4. Unread(p, t, U)
    BY <1>2, <2>3, SessionSizes, ChainSizes, GrownUnread
  <2>. QED  BY <1>1, <2>4
<1>. QED  BY <1>3, <1>4

\* Nor does what encrypt leaves behind; the key pair of the envelope was generated.
LEMMA SentUnread ==
  ASSUME NEW p \in Party, NEW s, WellFormed(s), s.cks \in Chain, NEW U \in SUBSET Chain, Unread(p, s, U),
         NEW text
  PROVE  Unread(p, Sent(s), U) /\ Envelope(p, s, text).dh[2] # 0
<1>1. PICK t : t = Sent(s)
  OBVIOUS
<1>2. WellFormed(t) /\ t.root = s.root /\ t.ckr = s.ckr /\ t.skipped = s.skipped
  BY <1>1, SentType
<1>3. t.dhs = s.dhs
  <2>1. DOMAIN s = DOMAIN t /\ "dhs" \in DOMAIN s
    BY <1>2 DEF WellFormed, Session
  <2>. QED  BY <1>1, <2>1 DEF Sent
<1>4. s.dhs[2] # 0
  BY NoneIsNoChain DEF Unread, Generated
<1>5. Generated(t) /\ s \in Session /\ Len(s.root.secrets) \in Nat
  BY <1>3, <1>4, SessionSizes DEF Generated, WellFormed
<1>6. Unread(p, t, U)
  BY <1>2, <1>5, SessionSizes, ChainSizes, GrownUnread
<1>7. Envelope(p, s, text).dh = s.dhs
  BY DEF Envelope
<1>. QED  BY <1>1, <1>4, <1>6, <1>7

\* The keys that p read, and no two of them are the same.
ReadKeys(p) == {ReadEnvelope(p, i).key : i \in 1..Len(read[p])}

KeysApart(p) ==
  \A i, j \in 1..Len(read[p]) : ReadEnvelope(p, i).key = ReadEnvelope(p, j).key => i = j

\* Which keys a party read that has not read another envelope.
LEMMA KeysStay ==
  ASSUME ReadInv, IsSeq(wire), wire' = wire \/ \E env : wire' = Append(wire, env),
         NEW q \in Party, read'[q] = read[q]
  PROVE  ReadKeys(q)' = ReadKeys(q) /\ (KeysApart(q) => KeysApart(q)')
<1>1. \A i \in To(q) : wire'[i] = wire[i]
  BY ToGrows DEF To
<1>2. \A i \in 1..Len(read[q]) : read[q][i] \in To(q)
  BY ElementOfSeq DEF ReadInv, ReadsOf
<1>3. \A i \in 1..Len(read[q]) : ReadEnvelope(q, i)' = ReadEnvelope(q, i)
  BY <1>1, <1>2 DEF ReadEnvelope
<1>. QED  BY <1>3 DEF ReadKeys, KeysApart

\* And one that has read one with a key of its own.
LEMMA KeysMore ==
  ASSUME ReadInv, IsSeq(wire), wire' = wire \/ \E env : wire' = Append(wire, env),
         NEW p \in Party, NEW id \in To(p), read' = [read EXCEPT ![p] = Append(@, id)],
         KeysApart(p), wire[id].key \notin ReadKeys(p)
  PROVE  ReadKeys(p)' = ReadKeys(p) \cup {wire[id].key} /\ KeysApart(p)'
<1>1. \A i \in To(p) : wire'[i] = wire[i]
  BY ToGrows DEF To
<1>2. read[p] \in Seq(To(p)) /\ \A i \in 1..Len(read[p]) : read[p][i] \in To(p)
  BY ElementOfSeq DEF ReadInv, ReadsOf
<1>. PICK n : n = Len(read[p])
  OBVIOUS
<1>3. read'[p] = Append(read[p], id)
  BY DEF ReadInv
<1>4. /\ Len(read'[p]) = n + 1 /\ n \in Nat
      /\ read'[p][n + 1] = id /\ \A i \in 1..n : read'[p][i] = read[p][i]
  BY <1>2, <1>3, AppendProperties, LenProperties
<1>5. \A i \in 1..n : ReadEnvelope(p, i)' = ReadEnvelope(p, i)
  BY <1>1, <1>2, <1>4 DEF ReadEnvelope
<1>6. ReadEnvelope(p, n + 1)' = wire[id]
  BY <1>1, <1>4 DEF ReadEnvelope
<1>7. 1..Len(read'[p]) = (1..n) \cup {n + 1}
  BY <1>4
<1>8. ReadKeys(p)' = ReadKeys(p) \cup {wire[id].key}
  BY <1>5, <1>6, <1>7 DEF ReadKeys
<1>9. KeysApart(p)'
  <2>. SUFFICES ASSUME NEW i \in 1..Len(read'[p]), NEW j \in 1..Len(read'[p]),
                       ReadEnvelope(p, i)'.key = ReadEnvelope(p, j)'.key
                PROVE  i = j
    BY DEF KeysApart
  <2>1. \A k \in 1..n : ReadEnvelope(p, k).key # wire[id].key
    BY DEF ReadKeys
  <2>2. CASE i \in 1..n /\ j \in 1..n
    BY <1>5, <2>2 DEF KeysApart
  <2>3. CASE i = n + 1 /\ j \in 1..n
    BY <1>5, <1>6, <2>1, <2>3
  <2>4. CASE i \in 1..n /\ j = n + 1
    BY <1>5, <1>6, <2>1, <2>4
  <2>. QED  BY <1>7, <2>2, <2>3, <2>4
<1>. QED  BY <1>8, <1>9

\* What keeps p from reading twice as long as nobody is killed: nothing was saved
\* that a process began with, and the session is past the keys that were read.
OnceOf(p) ==
  /\ up[p] = "down" => mem[p] = None /\ disk[p] = None
  /\ job[p].do = "establish" => mem[p] = None /\ up[p] # "down"
  /\ HasEnvelope(p) => job[p].arg.dh[2] # 0
  /\ mem[p] = None => read[p] = <<>>
  /\ mem[p] # None => Unread(p, mem[p], ReadKeys(p))
  /\ KeysApart(p)

OnceInv ==
  /\ crashes \in Nat
  /\ crashes = 0 => /\ \A i \in 1..Len(wire) : wire[i].dh[2] # 0
                    /\ \A p \in Party : OnceOf(p)

\* Nobody who makes no step reads anything.
LEMMA OthersOnce ==
  ASSUME ReadInv, IsSeq(wire), wire' = wire \/ \E env : wire' = Append(wire, env), NEW q \in Party, OnceOf(q),
         up'[q] = up[q], mem'[q] = mem[q], disk'[q] = disk[q], job'[q] = job[q], read'[q] = read[q]
  PROVE  OnceOf(q)'
<1>1. ReadKeys(q)' = ReadKeys(q) /\ KeysApart(q)'
  BY KeysStay DEF OnceOf
<1>. QED  BY <1>1 DEF OnceOf, HasEnvelope

\* What is on the wire stays, with one more envelope maybe.
LEMMA WireOnce ==
  ASSUME IsSeq(wire), \A i \in 1..Len(wire) : wire[i].dh[2] # 0,
         wire' = wire \/ \E env : env.dh[2] # 0 /\ wire' = Append(wire, env)
  PROVE  \A i \in 1..Len(wire') : wire'[i].dh[2] # 0
<1>1. CASE wire' = wire
  BY <1>1
<1>2. ASSUME NEW env, env.dh[2] # 0, wire' = Append(wire, env)
      PROVE  \A i \in 1..Len(wire') : wire'[i].dh[2] # 0
  <2>1. Len(wire') = Len(wire) + 1 /\ Len(wire) \in Nat /\ wire'[Len(wire) + 1] = env
        /\ \A i \in 1..Len(wire) : wire'[i] = wire[i]
    BY <1>2, AppendSeq
  <2>2. \A i \in 1..Len(wire') : i \in 1..Len(wire) \/ i = Len(wire) + 1
    BY <2>1
  <2>. QED  BY <1>2, <2>1, <2>2
<1>. QED  BY <1>1, <1>2

\* Who read nothing read no key.
LEMMA NoKeys ==
  ASSUME NEW p \in Party, read[p] = <<>>
  PROVE  ReadKeys(p) = {}
<1>1. Len(read[p]) = 0
  BY EmptySeq
<1>2. 1..Len(read[p]) = {}
  BY <1>1
<1>. QED  BY <1>2 DEF ReadKeys

\* Every step of a client keeps it from reading twice, if it is not killed.
LEMMA OnceStep ==
  ASSUME IInv, OnceInv, crashes = 0, crashes' = 0, NEW p \in Party, Act(p)
  PROVE  /\ \A i \in 1..Len(wire') : wire'[i].dh[2] # 0
         /\ \A q \in Party : OnceOf(q)'
<1>0. /\ DOMAIN up = Party /\ DOMAIN mem = Party /\ DOMAIN disk = Party /\ DOMAIN job = Party
      /\ read = [q \in Party |-> read[q]] /\ IsSeq(wire) /\ OpensFirst(p)
      /\ \A i \in 1..Len(wire) : wire[i].dh[2] # 0
      /\ \A q \in Party : OnceOf(q)
      /\ KeyInv /\ SessionInv /\ MailInv /\ ReadInv
      /\ HasEnvelope(p) => up[p] = "ready"
      /\ Ephemeral(p) \in KeyPair
  BY EphemeralType DEF IInv, KeyInv, KeyTypes, MailInv, ReadInv, OnceInv
<1>00. Ephemeral(p)[2] # 0
  <2>1. fresh[p] \in Nat
    BY DEF IInv, KeyInv, KeyTypes
  <2>. QED  BY <2>1 DEF Ephemeral
<1>k. ReadKeys(p) \in SUBSET Chain
  <2>1. \A i \in 1..Len(read[p]) : read[p][i] \in To(p)
    BY <1>0, ElementOfSeq DEF ReadInv, ReadsOf
  <2>2. \A id \in To(p) : wire[id].key \in Chain
    BY <1>0 DEF SessionInv, Sealed, WellSealed, EnvelopeType, To
  <2>. QED  BY <2>1, <2>2 DEF ReadKeys, ReadEnvelope
<1>. USE <1>0
<1>. DEFINE Goal == /\ \A i \in 1..Len(wire') : wire'[i].dh[2] # 0
                    /\ \A q \in Party : OnceOf(q)'
            Rest == \A q \in Party \ {p} : /\ up'[q] = up[q] /\ mem'[q] = mem[q] /\ disk'[q] = disk[q]
                                             /\ job'[q] = job[q] /\ read'[q] = read[q]
            Grows == wire' = wire \/ \E env : env.dh[2] # 0 /\ wire' = Append(wire, env)
\* It is enough to look at p.
<1>a. ASSUME Rest, Grows, OnceOf(p)'
      PROVE  Goal
  <2>1. \A i \in 1..Len(wire') : wire'[i].dh[2] # 0
    BY <1>a, WireOnce
  <2>2. \A q \in Party \ {p} : OnceOf(q)'
    <3>. SUFFICES ASSUME NEW q \in Party \ {p} PROVE OnceOf(q)'
      OBVIOUS
    <3>1. wire' = wire \/ \E env : wire' = Append(wire, env)
      BY <1>a
    <3>2. up'[q] = up[q] /\ mem'[q] = mem[q] /\ disk'[q] = disk[q] /\ job'[q] = job[q] /\ read'[q] = read[q]
      BY <1>a
    <3>. QED  BY <3>1, <3>2, OthersOnce
  <2>. QED  BY <1>a, <2>1, <2>2
\* A step in which p reads nothing, and its session stays or is a new one.
<1>b. ASSUME Rest, Grows, read'[p] = read[p],
             up'[p] = "down" => mem'[p] = None /\ disk'[p] = None,
             job'[p].do = "establish" => mem'[p] = None /\ up'[p] # "down",
             HasEnvelope(p)' => job'[p].arg.dh[2] # 0,
             mem'[p] = None => mem[p] = None,
             mem'[p] # None => Unread(p, mem'[p], ReadKeys(p))
      PROVE  Goal
  <2>1. ReadKeys(p)' = ReadKeys(p) /\ KeysApart(p)'
    BY <1>b, KeysStay DEF OnceOf
  <2>2. OnceOf(p)'
    BY <1>b, <2>1 DEF OnceOf
  <2>. QED  BY <1>a, <1>b, <2>2
<1>1. CASE Start(p)
  <2>1. /\ up[p] = "down" /\ up' = [up EXCEPT ![p] = "starting"] /\ mem' = [mem EXCEPT ![p] = Restore(disk[p])]
        /\ UNCHANGED <<job, disk, wire, read>>
    BY <1>1 DEF Start, relayVars, historyVars
  <2>2. mem[p] = None /\ disk[p] = None /\ mem'[p] = None /\ ~(job[p].do = "establish") /\ ~HasEnvelope(p)
    BY <2>1 DEF OnceOf, Restore
  <2>. QED  BY <1>b, <2>1, <2>2 DEF HasEnvelope
<1>2. CASE Resolve(p) \/ Publish(p) \/ \E k \in pool[p] : OtherFirst(p, k)
  <2>1. /\ UNCHANGED <<mem, job, disk, wire, read>> /\ up[p] # "down" /\ up'[p] # "down"
        /\ \A q \in Party \ {p} : up'[q] = up[q]
    BY <1>2 DEF Resolve, Publish, OtherFirst, BurnPrekey, peerVars, memoryVars, fileVars, relayVars, countVars,
                historyVars
  <2>. QED  BY <1>b, <2>1 DEF OnceOf, HasEnvelope
<1>3. CASE Encrypt(p)
  <2>1. PICK s, u, a : /\ s = SessionOr(p, chosen[p]) /\ u = Sending(p, s, Ephemeral(p))
                       /\ a = Envelope(p, u, "text")
    OBVIOUS
  <2>2. /\ up[p] = "ready" /\ job[p] = Idle /\ mem' = [mem EXCEPT ![p] = Sent(u)]
        /\ job' = [job EXCEPT ![p] = [do |-> "persist", arg |-> a]]
        /\ UNCHANGED <<up, disk, wire, read>>
    BY <1>3, <2>1 DEF Encrypt, EncryptText, Busy, fileVars, relayVars, historyVars
  <2>3. WellFormed(s) /\ Unread(p, s, ReadKeys(p))
    <3>1. CASE mem[p] # None
      BY <2>1, <3>1 DEF SessionOr, OnceOf, SessionInv, Stored
    <3>2. CASE mem[p] = None
      <4>. DEFINE otk == IF chosen[p] = None THEN None ELSE <<Peer(p), chosen[p]>>
      <4>1. s = NewSession(otk)
        BY <2>1, <3>2 DEF SessionOr
      <4>2. chosen[p] \in Nat \cup {None}
        BY <1>3 DEF Encrypt, IInv, ChosenInv
      <4>3. otk \in KeyPair \cup {None}
        BY <4>2, PeerParty DEF KeyPair
      <4>4. ReadKeys(p) = {}
        BY <3>2, NoKeys DEF OnceOf
      <4>. QED  BY <4>1, <4>3, <4>4, NewType, NewUnread
    <3>. QED  BY <3>1, <3>2
  <2>4. WellFormed(u) /\ u.cks \in Chain /\ Unread(p, u, ReadKeys(p))
    BY <1>00, <1>k, <2>1, <2>3, SendingType, SendingUnread
  <2>5. Unread(p, Sent(u), ReadKeys(p)) /\ a.dh[2] # 0
    BY <1>k, <2>1, <2>4, SentUnread
  <2>6. Sent(u) # None
    BY <2>4, SentType, NoneIsNoSession DEF WellFormed
  <2>. QED  BY <1>b, <2>2, <2>5, <2>6 DEF HasEnvelope
<1>4. CASE PersistText(p)
  <2>1. /\ job[p].do = "persist" /\ disk' = [disk EXCEPT ![p] = mem[p]]
        /\ job' = [job EXCEPT ![p] = [do |-> "write", arg |-> job[p].arg]]
        /\ UNCHANGED <<up, mem, wire, read>>
    BY <1>4 DEF PersistText, Busy, relayVars, historyVars
  <2>. QED  BY <1>b, <2>1 DEF OnceOf, HasEnvelope
<1>5. CASE WriteText(p)
  <2>1. /\ job[p].do = "write" /\ wire' = Append(wire, job[p].arg) /\ job' = [job EXCEPT ![p] = Idle]
        /\ UNCHANGED <<up, mem, disk, read>>
    BY <1>5 DEF WriteText, Write, Done, fileVars
  <2>2. job[p].arg.dh[2] # 0
    BY <2>1 DEF OnceOf, HasEnvelope
  <2>. QED  BY <1>b, <2>1, <2>2 DEF OnceOf, HasEnvelope, Idle
<1>6. ASSUME NEW i, ReceiveInSession(p, i)
      PROVE  Goal
  <2>1. PICK id, env, d : /\ id = mail[p][i] /\ env = wire[id]
                          /\ d = Decrypt(p, mem[p], env, Ephemeral(p))
    OBVIOUS
  <2>2. /\ Delivers(p, i) /\ mem[p] # None /\ mem' = [mem EXCEPT ![p] = d.session]
        /\ IF d.why = None THEN read' = [read EXCEPT ![p] = Append(@, id)] ELSE read' = read
        /\ job' = [job EXCEPT ![p] = [do |-> "save", arg |-> None]] /\ UNCHANGED <<up, disk, wire>>
    BY <1>6, <2>1 DEF ReceiveInSession, Delivered, Accept, Refuse, Busy, fileVars
  <2>3. id \in To(p) /\ up[p] = "ready"
    BY <2>1, <2>2, DeliveredOnWire DEF Delivers
  <2>4. WellSealed(env) /\ env.dh[2] # 0
    BY <2>1, <2>3 DEF SessionInv, Sealed, To
  <2>5. WellFormed(mem[p]) /\ Unread(p, mem[p], ReadKeys(p))
    BY <2>2 DEF SessionInv, Stored, OnceOf
  <2>6. WellFormed(d.session) /\ d.session # None
    BY <2>1, <2>4, <2>5, DecryptType, NoneIsNoSession DEF WellFormed
  <2>7. IF d.why = None THEN env.key \notin ReadKeys(p) /\ Unread(p, d.session, ReadKeys(p) \cup {env.key})
        ELSE d.session = mem[p]
    <3>1. PICK s, e, U : s = mem[p] /\ e = Ephemeral(p) /\ U = ReadKeys(p)
      OBVIOUS
    <3>2. /\ WellFormed(s) /\ U \in SUBSET Chain /\ Unread(p, s, U)
          /\ e \in KeyPair /\ e[2] # 0 /\ d = Decrypt(p, s, env, e)
      BY <1>00, <1>k, <2>1, <2>5, <3>1
    <3>. HIDE <1>0
    <3>3. IF d.why = None THEN env.key \notin U /\ Unread(p, d.session, U \cup {env.key})
          ELSE d.session = s
      BY <2>4, <3>2, DecryptUnread
    <3>. QED  BY <3>1, <3>3
  <2>8. Rest /\ Grows
    BY <2>2
  <2>9. mem'[p] = d.session /\ job'[p].do = "save" /\ up'[p] = "ready"
    BY <2>2, <2>3
  <2>10. CASE d.why = None
    <3>1. ReadKeys(p)' = ReadKeys(p) \cup {env.key} /\ KeysApart(p)'
      BY <2>1, <2>2, <2>3, <2>7, <2>10, KeysMore DEF OnceOf
    <3>2. OnceOf(p)'
      BY <2>6, <2>7, <2>9, <2>10, <3>1 DEF OnceOf, HasEnvelope
    <3>. QED  BY <1>a, <2>8, <3>2
  <2>11. CASE ~(d.why = None)
    BY <1>b, <2>2, <2>5, <2>7, <2>8, <2>9, <2>11 DEF OnceOf, HasEnvelope
  <2>. QED  BY <2>10, <2>11
<1>7. ASSUME NEW i, DropUnknown(p, i)
      PROVE  Goal
  <2>1. /\ up[p] = "ready" /\ UNCHANGED <<up, mem, disk, wire, read>> /\ job[p] = Idle
        /\ (job' = [job EXCEPT ![p] = [do |-> "save", arg |-> None]] \/ job' = job)
    BY <1>7 DEF DropUnknown, Delivers, Refuse, Busy, fileVars, countVars
  <2>2. Rest /\ Grows
    BY <2>1
  <2>3. job'[p].do \in {"save", "nothing"}
    BY <2>1 DEF Idle
  <2>. QED  BY <1>b, <2>1, <2>2, <2>3 DEF OnceOf, HasEnvelope
<1>8. ASSUME NEW i, ReceiveFirst(p, i)
      PROVE  Goal
  <2>1. /\ up[p] = "ready" /\ mem[p] = None /\ UNCHANGED <<up, mem, disk, wire, read>>
        /\ job' = [job EXCEPT ![p] = [do |-> "establish", arg |-> mail[p][i]]]
    BY <1>8 DEF ReceiveFirst, FirstContact, Delivers, Busy, countVars
  <2>. QED  BY <1>b, <2>1 DEF OnceOf, HasEnvelope
<1>9. CASE Establish(p)
  <2>1. PICK id, env, s, d : /\ id = job[p].arg /\ env = wire[id] /\ s = NewSession(env.otk)
                             /\ d = Decrypt(p, s, env, Ephemeral(p))
    OBVIOUS
  <2>2. /\ job[p].do = "establish" /\ UNCHANGED <<up, disk>>
        /\ job' = [job EXCEPT ![p] = [do |-> "save", arg |-> None]]
        /\ \/ /\ d.why = None /\ mem' = [mem EXCEPT ![p] = Sent(d.session)]
              /\ wire' = Append(wire, Envelope(p, d.session, "receipt"))
              /\ read' = [read EXCEPT ![p] = Append(@, id)]
           \/ UNCHANGED <<mem, wire, read>>
    BY <1>9, <2>1 DEF Establish, EstablishSession, Busy, Write, Accept, Refuse, fileVars
  <2>3. id \in To(p) /\ env.first /\ mem[p] = None /\ up[p] # "down"
    BY <2>1, <2>2 DEF OpensFirst, Opening, OnceOf
  <2>4. WellSealed(env) /\ env.dh[2] # 0 /\ env.otk \in KeyPair \cup {None}
    BY <2>1, <2>3 DEF SessionInv, Sealed, WellSealed, EnvelopeType, To
  <2>5. ReadKeys(p) = {}
    BY <2>3, NoKeys DEF OnceOf
  <2>6. WellFormed(s) /\ Unread(p, s, {})
    BY <2>1, <2>4, NewType, NewUnread
  <2>7. d.why = None => /\ WellFormed(d.session) /\ d.session.cks \in Chain
                        /\ Unread(p, d.session, {env.key})
    <3>1. d.why = None => WellFormed(d.session) /\ d.session.cks \in Chain
      BY <2>1, <2>3, <2>4, <2>6, DecryptType
    <3>2. d.why = None => Unread(p, d.session, {} \cup {env.key})
      <4>1. PICK e, U : e = Ephemeral(p) /\ U = {}
        OBVIOUS
      <4>2. /\ WellFormed(s) /\ U \in SUBSET Chain /\ Unread(p, s, U)
            /\ e \in KeyPair /\ e[2] # 0 /\ d = Decrypt(p, s, env, e)
            /\ WellSealed(env) /\ env.dh[2] # 0
        BY <1>00, <2>1, <2>4, <2>6, <4>1
      <4>. HIDE <1>0
      <4>3. IF d.why = None THEN env.key \notin U /\ Unread(p, d.session, U \cup {env.key})
            ELSE d.session = s
        BY <4>2, DecryptUnread
      <4>. QED  BY <4>1, <4>3
    <3>. QED  BY <3>1, <3>2
  <2>8. CASE UNCHANGED <<mem, wire, read>>
    <3>1. Rest /\ Grows
      BY <2>2, <2>8
    <3>2. job'[p].do = "save"
      BY <2>2
    <3>. QED  BY <1>b, <2>2, <2>3, <2>8, <3>1, <3>2 DEF OnceOf, HasEnvelope
  <2>9. CASE /\ d.why = None /\ mem' = [mem EXCEPT ![p] = Sent(d.session)]
             /\ wire' = Append(wire, Envelope(p, d.session, "receipt"))
             /\ read' = [read EXCEPT ![p] = Append(@, id)]
    <3>1. env.key \in Chain
      BY <2>4 DEF WellSealed, EnvelopeType
    <3>2. Unread(p, Sent(d.session), {env.key}) /\ Envelope(p, d.session, "receipt").dh[2] # 0
      <4>1. PICK u, U : u = d.session /\ U = {env.key}
        OBVIOUS
      <4>2. U \in SUBSET Chain /\ WellFormed(u) /\ u.cks \in Chain /\ Unread(p, u, U)
        BY <2>7, <2>9, <3>1, <4>1
      <4>3. Unread(p, Sent(u), U) /\ Envelope(p, u, "receipt").dh[2] # 0
        BY <4>2, SentUnread
      <4>. QED  BY <4>1, <4>3
    <3>3. Sent(d.session) # None
      BY <2>7, <2>9, SentType, NoneIsNoSession DEF WellFormed
    <3>4. ReadKeys(p)' = ReadKeys(p) \cup {env.key} /\ KeysApart(p)'
      BY <2>1, <2>3, <2>5, <2>9, KeysMore DEF OnceOf
    <3>5. Rest /\ Grows
      BY <2>2, <2>9, <3>2
    <3>6. OnceOf(p)'
      <4>1. mem'[p] = Sent(d.session) /\ job'[p].do = "save" /\ up'[p] # "down" /\ ReadKeys(p)' = {env.key}
        BY <2>2, <2>3, <2>5, <2>9, <3>4
      <4>. QED  BY <3>2, <3>3, <3>4, <4>1 DEF OnceOf, HasEnvelope
    <3>. QED  BY <1>a, <3>5, <3>6
  <2>. QED  BY <2>2, <2>8, <2>9
<1>10. CASE Save(p)
  <2>1. /\ job[p].do = "save" /\ disk' = [disk EXCEPT ![p] = mem[p]] /\ job' = [job EXCEPT ![p] = Idle]
        /\ UNCHANGED <<up, mem, wire, read>>
    BY <1>10 DEF Save, Done, relayVars, historyVars
  <2>. QED  BY <1>b, <2>1 DEF OnceOf, HasEnvelope, Idle
<1>11. CASE Crash(p)
  BY <1>11 DEF Crash, Kill
<1>. QED  BY <1>1, <1>2, <1>3, <1>4, <1>5, <1>6, <1>7, <1>8, <1>9, <1>10, <1>11
          DEF Act, Typing, Receiving

\* A kill is counted and never forgotten.
LEMMA CrashesGrow ==
  ASSUME NEW p \in Party, Act(p), crashes \in Nat
  PROVE  crashes' \in Nat /\ (crashes' = 0 => crashes = 0)
<1>1. CASE Crash(p)
  BY <1>1 DEF Crash, Kill
<1>2. CASE crashes' = crashes
  BY <1>2
<1>. QED  BY <1>1, <1>2 DEF Act, Start, Resolve, Publish, Typing, Encrypt, PersistText, WriteText, Receiving,
          ReceiveInSession, DropUnknown, ReceiveFirst, Establish, Save, OtherFirst, peerVars, countVars

\* What keeps everybody from reading twice holds at the beginning.
LEMMA OnceInit ==
  ASSUME Init
  PROVE  OnceInv
<1>1. /\ crashes = 0 /\ wire = <<>> /\ Len(wire) = 0
      /\ \A p \in Party : /\ up[p] = "down" /\ mem[p] = None /\ disk[p] = None /\ job[p] = Idle
                         /\ read[p] = <<>> /\ Len(read[p]) = 0
  BY EmptySeq DEF Init, PeersInit
<1>2. \A p \in Party : OnceOf(p)
  BY <1>1 DEF OnceOf, HasEnvelope, Idle, KeysApart
<1>. QED  BY <1>1, <1>2 DEF OnceInv

\* And every step keeps it.
LEMMA OnceKept ==
  ASSUME IInv, OnceInv, [Next]_vars
  PROVE  OnceInv'
<1>1. CASE Next
  <2>1. PICK p \in Party : Act(p)
    BY <1>1 DEF Next, Act
  <2>2. crashes' \in Nat /\ (crashes' = 0 => crashes = 0)
    BY <2>1, CrashesGrow DEF OnceInv
  <2>3. crashes' = 0 => /\ \A i \in 1..Len(wire') : wire'[i].dh[2] # 0
                        /\ \A q \in Party : OnceOf(q)'
    BY <2>1, <2>2, OnceStep
  <2>. QED  BY <2>2, <2>3 DEF OnceInv
<1>2. CASE UNCHANGED vars
  <2>1. UNCHANGED <<up, mem, disk, job, crashes, wire, read>>
    BY <1>2 DEF vars, peerVars, memoryVars, fileVars, countVars, historyVars
  <2>2. ASSUME NEW q \in Party, OnceOf(q)
        PROVE  OnceOf(q)'
    <3>1. ReadKeys(q)' = ReadKeys(q) /\ (KeysApart(q)' <=> KeysApart(q))
      BY <2>1 DEF KeysApart, ReadKeys, ReadEnvelope
    <3>. QED  BY <2>1, <2>2, <3>1 DEF OnceOf, HasEnvelope
  <2>. QED  BY <2>1, <2>2 DEF OnceInv
<1>. QED  BY <1>1, <1>2

\* So it always holds.
LEMMA OnceAlways == Spec => []OnceInv
<1>1. Init => OnceInv
  BY OnceInit
<1>2. IInv /\ OnceInv /\ [Next]_vars => OnceInv'
  BY OnceKept
<1>. QED  BY <1>1, <1>2, Inductive, PTL DEF Spec

\* Nobody reads twice, until a process is killed.
THEOREM ReadOnceAlways == Spec => []ReadOnce
<1>1. OnceInv => ReadOnce
  BY DEF OnceInv, OnceOf, KeysApart, ReadEnvelope, ReadOnce
<1>. QED  BY <1>1, OnceAlways, PTL

=============================================================================
