--------------------------- MODULE MessengerProofs ---------------------------
(***************************************************************************)
(* Module Messenger proved about, for every instance of it.                *)
(***************************************************************************)
EXTENDS Messenger, PeersProofs

\* What waits for the directory, the answers on their way, and the handlers that
\* are suspended.
TabInv ==
  /\ up \in [Party -> {"down", "starting", "ready"}]
  /\ served = [p \in Party |-> served[p]]
  /\ \A p \in Party : served[p] # None => served[p] \subseteq Nat
  /\ asked \in [Party -> {None, "connect", "send"}]
  /\ answers \in [Party -> Seq((SUBSET Nat) \cup {None})]
  /\ active \in [Party -> BOOLEAN] /\ rendering \in [Party -> Nat]

PeersHold == KeyInv /\ SessionInv /\ MailInv /\ PoolInv /\ ReadInv /\ TabInv

\* The actions of p that are not shared with module CliClient.
Act(p) ==
  \/ Load(p) \/ Open(p) \/ Sends(p) \/ Receives(p) \/ Reload(p)
  \/ \E k \in pool[p] : OtherFirst(p, k)

\* The prekey that is chosen when the directory has answered is one of those in its
\* answer.
LEMMA AnswerOffers ==
  ASSUME TabInv, NEW p \in Party, AnswerArrives(p)
  PROVE  \/ UNCHANGED <<mem, fresh, job>>
         \/ \E k \in Nat \cup {None} :
              /\ k # None => Head(answers[p]) # None /\ k \in Head(answers[p])
              /\ EncryptText(p, SessionOfAnswer(p, k))
<1>1. answers[p] \in Seq((SUBSET Nat) \cup {None}) /\ answers[p] # <<>>
  BY DEF TabInv, AnswerArrives
<1>2. PICK entry : entry = Head(answers[p])
  OBVIOUS
<1>3. entry \in (SUBSET Nat) \cup {None}
  BY <1>1, <1>2, HeadTailProperties
<1>4. CASE /\ asked[p] = "send" /\ entry # None
           /\ \E k \in Selected(entry) : EncryptText(p, SessionOfAnswer(p, k))
  <2>1. PICK k \in Selected(entry) : EncryptText(p, SessionOfAnswer(p, k))
    BY <1>4
  <2>2. k \in Nat \cup {None} /\ (k # None => k \in entry)
    BY <1>3, <1>4 DEF Selected
  <2>. QED  BY <1>2, <1>4, <2>1, <2>2
<1>5. UNCHANGED <<mem, fresh, job>> \/ (/\ asked[p] = "send" /\ entry # None
                                       /\ \E k \in Selected(entry) : EncryptText(p, SessionOfAnswer(p, k)))
  BY <1>2 DEF AnswerArrives
<1>. QED  BY <1>4, <1>5

\* Every step of a messenger does one of the things PeersProofs names to the keys,
\* and one to the mail.
LEMMA StepKinds ==
  ASSUME PeersHold, NEW p \in Party, Act(p)
  PROVE  /\ (KeyStep(p) /\ StaysUp(p)) \/ UNCHANGED <<up, mem, disk, job, fresh, wire>>
         /\ MailStep(p) /\ OpensFirst(p)'
<1>0. /\ DOMAIN up = Party /\ DOMAIN mem = Party /\ DOMAIN disk = Party /\ DOMAIN job = Party
      /\ OpensFirst(p)
      /\ HasEnvelope(p) => up[p] = "ready"
      /\ wire' = wire => To(p)' = To(p)
  BY DEF PeersHold, KeyInv, KeyTypes, MailInv, To
<1>. USE <1>0
<1>. DEFINE Kinds == /\ (KeyStep(p) /\ StaysUp(p)) \/ UNCHANGED <<up, mem, disk, job, fresh, wire>>
                     /\ MailStep(p) /\ OpensFirst(p)'
<1>1. CASE Load(p)
  <2>1. up[p] = "down" /\ up' = [up EXCEPT ![p] = "starting"] /\ mem' = [mem EXCEPT ![p] = Restore(disk[p])]
        /\ UNCHANGED <<job, disk, fresh, wire, mail>>
    BY <1>1 DEF Load, relayVars, historyVars
  <2>2. KeyStep(p)
    BY <2>1 DEF KeyStep, OthersKeep, Restores, NothingToSend, HasEnvelope
  <2>. QED  BY <2>1, <2>2 DEF StaysUp, MailStep, OpensFirst, Opening, HasEnvelope
<1>2. CASE Open(p)
  <2>1. up[p] = "starting" /\ up' = [up EXCEPT ![p] = "ready"] /\ UNCHANGED <<mem, job, disk, fresh, wire, mail>>
    BY <1>2 DEF Open, fileVars, countVars, historyVars
  <2>2. KeyStep(p)
    BY <2>1 DEF KeyStep, OthersKeep, Stays, NothingToSend, HasEnvelope
  <2>. QED  BY <2>1, <2>2 DEF StaysUp, MailStep, OpensFirst, Opening, HasEnvelope
<1>3. ASSUME NEW s, EncryptText(p, s),
             \/ s = mem[p] /\ s # None
             \/ \E otk \in KeyPair \cup {None} : Addressed(p, otk) /\ s = NewSession(otk),
             up[p] = "ready", UNCHANGED <<up, disk, wire, mail>>
      PROVE  Kinds
  <2>1. Encrypts(p)
    BY <1>3 DEF Encrypts
  <2>2. OthersKeep(p) /\ job'[p].do = "persist"
    BY <1>3 DEF OthersKeep, EncryptText, Busy
  <2>. QED  BY <1>3, <2>1, <2>2 DEF KeyStep, StaysUp, MailStep, OpensFirst, Opening, OthersKeep
<1>4. CASE SendNow(p)
  <2>1. PICK s : s = SessionOr(p, None)
    OBVIOUS
  <2>2. \/ s = mem[p] /\ s # None
        \/ \E otk \in KeyPair \cup {None} : Addressed(p, otk) /\ s = NewSession(otk)
    BY <2>1 DEF SessionOr, Addressed
  <2>3. EncryptText(p, s) /\ up[p] = "ready" /\ UNCHANGED <<up, disk, wire, mail>>
    BY <1>4, <2>1 DEF SendNow, Submit, fileVars, relayVars, historyVars
  <2>. QED  BY <2>2, <2>3, <1>3
<1>5. CASE UNCHANGED <<up, mem, disk, job, fresh, wire, mail>>
  BY <1>5 DEF MailStep, OpensFirst, Opening
<1>6. CASE Connect(p) \/ SendAsking(p)
  BY <1>6, <1>5 DEF Connect, SendAsking, peerVars, memoryVars, fileVars, relayVars, countVars, historyVars
<1>7. CASE AnswerArrives(p)
  <2>1. up[p] = "ready" /\ UNCHANGED <<up, disk, wire, mail>>
    BY <1>7 DEF AnswerArrives, fileVars, relayVars, historyVars
  <2>2. UNCHANGED <<mem, fresh, job>> \/ \E k \in Nat \cup {None} : EncryptText(p, SessionOfAnswer(p, k))
    BY <1>7, AnswerOffers DEF PeersHold
  <2>3. ASSUME NEW k \in Nat \cup {None}, EncryptText(p, SessionOfAnswer(p, k))
        PROVE  Kinds
    <3>1. PICK s, otk : s = NewSession(otk) /\ otk = IF k = None THEN None ELSE <<Peer(p), k>>
      OBVIOUS
    <3>2. EncryptText(p, s)
      BY <3>1, <2>3 DEF SessionOfAnswer
    <3>3. otk \in KeyPair \cup {None} /\ Addressed(p, otk)
      BY <3>1, PeerParty DEF KeyPair, Addressed
    <3>. QED  BY <3>1, <3>2, <3>3, <2>1, <1>3
  <2>. QED  BY <2>1, <2>2, <2>3, <1>5
<1>8. CASE PersistText(p)
  <2>1. up' = up /\ disk' = [disk EXCEPT ![p] = mem[p]] /\ UNCHANGED <<mem, wire, mail>>
        /\ job' = [job EXCEPT ![p] = [do |-> "write", arg |-> job[p].arg]] /\ job[p].do = "persist"
    BY <1>8 DEF PersistText, Busy, relayVars, historyVars
  <2>2. OthersKeep(p)
    BY <2>1 DEF OthersKeep
  <2>. QED  BY <1>8, <2>1, <2>2 DEF KeyStep, StaysUp, MailStep, OpensFirst, Opening, HasEnvelope
<1>9. CASE WriteText(p)
  <2>1. up' = up /\ UNCHANGED <<mem, disk>> /\ job' = [job EXCEPT ![p] = Idle] /\ Write(p, job[p].arg)
    BY <1>9 DEF WriteText, Done, fileVars
  <2>2. OthersKeep(p)
    BY <2>1 DEF OthersKeep
  <2>3. job[p].arg.from = p
    BY <1>9 DEF WriteText, PeersHold, KeyInv, Pending, HasEnvelope
  <2>. QED  BY <1>9, <2>1, <2>2, <2>3 DEF KeyStep, StaysUp, MailStep, OpensFirst, Opening, HasEnvelope, Idle
<1>10. ASSUME NEW i, ReceiveInSession(p, i)
       PROVE  Kinds
  <2>1. PICK d : d = Decrypt(p, mem[p], Delivered(p, i), Ephemeral(p))
    OBVIOUS
  <2>2. /\ Delivers(p, i) /\ mem[p] # None /\ UNCHANGED <<up, disk, wire>> /\ job[p] = Idle
        /\ \/ /\ mem' = [mem EXCEPT ![p] = d.session] /\ Uses(p, d.session)
              /\ \/ job' = [job EXCEPT ![p] = [do |-> "save", arg |-> None]]
                 \/ job' = [job EXCEPT ![p] = Idle]
           \/ mem' = [mem EXCEPT ![p] = None] /\ UNCHANGED <<fresh, job>>
    BY <1>10, <2>1 DEF ReceiveInSession, RenderOrSave, Evict, Done, Busy, fileVars, Delivers
  <2>3. OthersKeep(p) /\ job'[p].do \in {"save", "nothing"}
    BY <2>2 DEF OthersKeep, Idle
  <2>4. Reads(p) \/ Forgets(p)
    <3>1. mail[p][i] \in To(p)
      BY <2>2, DeliveredOnWire DEF PeersHold
    <3>. QED  BY <2>1, <2>2, <2>3, <3>1 DEF Reads, Forgets, NothingToSend, Delivered
  <2>. QED  BY <2>2, <2>3, <2>4 DEF KeyStep, StaysUp, MailStep, OpensFirst, Opening, HasEnvelope, OthersKeep
<1>11. ASSUME NEW i, DropUnknown(p, i)
       PROVE  Kinds
  <2>1. Delivers(p, i) /\ UNCHANGED <<up, mem, disk, wire, fresh, job>>
    BY <1>11 DEF DropUnknown, memoryVars, fileVars, countVars
  <2>. QED  BY <2>1 DEF MailStep, OpensFirst, Opening
<1>12. ASSUME NEW i, ReceiveFirst(p, i)
       PROVE  Kinds
  <2>1. /\ Delivers(p, i) /\ UNCHANGED <<up, mem, disk, wire, fresh>>
        /\ wire[mail[p][i]].first
        /\ \E what \in {"establish", "republish"} :
             job' = [job EXCEPT ![p] = [do |-> what, arg |-> mail[p][i]]]
    BY <1>12 DEF ReceiveFirst, FirstContact, Delivered, Busy, countVars
  <2>2. OthersKeep(p) /\ NothingToSend(p) /\ job'[p].arg = mail[p][i]
    BY <2>1 DEF OthersKeep, NothingToSend
  <2>3. Stays(p)
    BY <2>1, <2>2 DEF Stays
  <2>4. mail[p][i] \in To(p)
    BY <2>1, DeliveredOnWire DEF PeersHold
  <2>. QED  BY <2>1, <2>2, <2>3, <2>4
            DEF KeyStep, StaysUp, MailStep, OpensFirst, Opening, HasEnvelope, OthersKeep, NothingToSend
<1>13. CASE Republish(p)
  <2>1. /\ UNCHANGED <<up, mem, disk, wire, fresh, mail>> /\ job[p].do = "republish"
        /\ \/ job' = [job EXCEPT ![p] = Idle]
           \/ job[p].arg # None /\ job' = [job EXCEPT ![p] = [do |-> "establish", arg |-> job[p].arg]]
    BY <1>13 DEF Republish, Done, Busy, countVars, fileVars, historyVars
  <2>2. OthersKeep(p) /\ NothingToSend(p)
    BY <2>1 DEF OthersKeep, NothingToSend, Idle
  <2>3. OpensFirst(p)'
    BY <2>1 DEF OpensFirst, Opening, Idle
  <2>. QED  BY <2>1, <2>2, <2>3 DEF KeyStep, Stays, StaysUp, MailStep, HasEnvelope, OthersKeep, NothingToSend
<1>14. CASE Establish(p)
  <2>1. PICK id, env, d : id = job[p].arg /\ env = wire[id]
                          /\ d = Decrypt(p, NewSession(env.otk), env, Ephemeral(p))
    OBVIOUS
  <2>2. /\ env.first /\ UNCHANGED <<up, disk>>
        /\ \/ job' = [job EXCEPT ![p] = [do |-> "save", arg |-> None]]
           \/ job' = [job EXCEPT ![p] = Idle]
        /\ \/ /\ d.why = None /\ mem' = [mem EXCEPT ![p] = Sent(d.session)]
              /\ Uses(p, d.session) /\ Write(p, Envelope(p, d.session, "receipt"))
           \/ UNCHANGED <<mem, fresh, wire, mail>>
    <3>1. job[p].do = "establish" /\ EstablishSession(p, id) /\ UNCHANGED <<up, disk>>
          /\ \/ job' = [job EXCEPT ![p] = [do |-> "save", arg |-> None]]
             \/ job' = [job EXCEPT ![p] = Idle]
      BY <1>14, <2>1 DEF Establish, RenderOrSave, Busy, Done, fileVars
    <3>2. env.first
      BY <2>1, <3>1 DEF OpensFirst, Opening
    <3>3. \/ /\ d.why = None /\ mem' = [mem EXCEPT ![p] = Sent(d.session)]
             /\ Uses(p, d.session) /\ Write(p, Envelope(p, d.session, "receipt"))
          \/ UNCHANGED <<mem, fresh, wire, mail>>
      BY <2>1, <3>1 DEF EstablishSession
    <3>. QED  BY <3>1, <3>2, <3>3
  <2>3. OthersKeep(p) /\ NothingToSend(p) /\ job'[p].do \in {"save", "nothing"}
    BY <2>2 DEF OthersKeep, NothingToSend, Idle
  <2>4. Answers(p) \/ Stays(p)
    <3>1. id \in To(p)
      BY <1>14, <2>1 DEF Establish, OpensFirst, Opening
    <3>. QED  BY <2>1, <2>2, <2>3, <3>1 DEF Answers, Stays, Write
  <2>5. Envelope(p, d.session, "receipt").from = p
    BY DEF Envelope
  <2>. QED  BY <2>2, <2>3, <2>4, <2>5 DEF KeyStep, StaysUp, MailStep, OpensFirst, Opening, HasEnvelope, OthersKeep
<1>15. CASE Save(p) \/ Rendered(p)
  <2>1. up' = up /\ disk' = [disk EXCEPT ![p] = mem[p]] /\ UNCHANGED <<mem, wire, mail, fresh>>
        /\ (job' = [job EXCEPT ![p] = Idle] \/ (job[p] = Idle /\ job' = job))
    BY <1>15 DEF Save, Rendered, SaveSessions, Done, memoryVars, relayVars, historyVars, countVars
  <2>2. OthersKeep(p) /\ SavesSession(p) /\ job'[p] = Idle
    BY <2>1 DEF OthersKeep, SavesSession, NothingToSend, Idle
  <2>. QED  BY <2>1, <2>2 DEF KeyStep, StaysUp, MailStep, OpensFirst, Opening, HasEnvelope, Idle, OthersKeep
<1>16. CASE Reload(p)
  <2>1. up' = [up EXCEPT ![p] = "down"] /\ mem' = [mem EXCEPT ![p] = None] /\ job' = [job EXCEPT ![p] = Idle]
        /\ UNCHANGED <<disk, wire, mail, fresh>>
    BY <1>16 DEF Reload, Kill, Done, fileVars, relayVars, historyVars
  <2>2. OthersKeep(p) /\ Forgets(p)
    BY <2>1 DEF OthersKeep, Forgets, NothingToSend, Idle
  <2>. QED  BY <2>1, <2>2 DEF KeyStep, StaysUp, MailStep, OpensFirst, Opening, HasEnvelope, Idle
<1>17. ASSUME NEW k, OtherFirst(p, k)
       PROVE  Kinds
  <2>1. job' = [job EXCEPT ![p] = [do |-> "republish", arg |-> None]]
        /\ UNCHANGED <<up, mem, disk, wire, fresh, mail>>
    BY <1>17 DEF OtherFirst, Busy, relayVars, countVars
  <2>2. OthersKeep(p) /\ Stays(p)
    BY <2>1 DEF OthersKeep, Stays, NothingToSend
  <2>. QED  BY <2>1, <2>2 DEF KeyStep, StaysUp, MailStep, OpensFirst, Opening, HasEnvelope
<1>. QED  BY <1>1, <1>2, <1>4, <1>6, <1>7, <1>8, <1>9, <1>10, <1>11, <1>12, <1>13, <1>14, <1>15, <1>16, <1>17
          DEF Act, Sends, Receives

\* And one of those to the prekeys, and to what was read.
LEMMA PrekeyKinds ==
  ASSUME PeersHold, NEW p \in Party, Act(p)
  PROVE  PoolStep(p) /\ ReadStep(p)
<1>0. /\ DOMAIN up = Party /\ DOMAIN job = Party /\ OpensFirst(p)
  BY DEF PeersHold, KeyInv, KeyTypes, MailInv
<1>. USE <1>0
<1>. DEFINE Kinds == PoolStep(p) /\ ReadStep(p)
            Rest == /\ DOMAIN up' = DOMAIN up /\ \A q \in Party \ {p} : up'[q] = up[q]
                    /\ \A q \in Party \ {p} : job'[q] = job[q]
\* A step that concerns neither.
<1>a. ASSUME Rest, UNCHANGED <<pool, poolFile, made, spent, read>>, up'[p] = "down" <=> up[p] = "down",
             wire' = wire \/ \E env : wire' = Append(wire, env),
             Opening(p)' => Opening(p) /\ job'[p].arg = job[p].arg
      PROVE  Kinds
  BY <1>a DEF PoolStep, ReadStep, GoesOn
<1>1. CASE Load(p)
  <2>1. /\ up[p] = "down" /\ up' = [up EXCEPT ![p] = "starting"] /\ UNCHANGED <<job, wire, spent, read>>
        /\ LoadPool(p, poolFile[p])
    BY <1>1 DEF Load, KeptPool, historyVars
  <2>2. Loads(p)
    BY <2>1 DEF Loads
  <2>. QED  BY <2>1, <2>2 DEF PoolStep, ReadStep, GoesOn, Opening
<1>2. CASE Open(p) \/ Sends(p)
  <2>1. CASE Open(p) \/ Connect(p) \/ SendNow(p) \/ SendAsking(p) \/ PersistText(p) \/ WriteText(p)
    <3>1. /\ Rest /\ UNCHANGED <<pool, poolFile, made, spent, read>>
          /\ up'[p] = "down" <=> up[p] = "down"
          /\ wire' = wire \/ \E env : wire' = Append(wire, env)
          /\ job' = job \/ job'[p].do \in {"persist", "write", "nothing"}
      BY <2>1 DEF Open, Connect, SendNow, SendAsking, PersistText, WriteText, EncryptText, Busy, Done,
                  Idle, Write, peerVars, memoryVars, fileVars, relayVars, countVars, historyVars
    <3>. QED  BY <3>1, <1>a DEF Opening
  <2>2. CASE AnswerArrives(p)
    <3>1. UNCHANGED <<up, pool, poolFile, made, spent, read, wire>>
      BY <2>2 DEF AnswerArrives, fileVars, relayVars, historyVars
    <3>2. job' = job \/ \E k : EncryptText(p, SessionOfAnswer(p, k))
      BY <2>2, AnswerOffers DEF PeersHold
    <3>3. Rest /\ (job' = job \/ job'[p].do = "persist")
      BY <3>1, <3>2 DEF EncryptText, Busy
    <3>. QED  BY <3>1, <3>3, <1>a DEF Opening
  <2>. QED  BY <1>2, <2>1, <2>2 DEF Sends
<1>3. ASSUME NEW i, ReceiveInSession(p, i)
      PROVE  Kinds
  <2>0. PICK id : id = mail[p][i]
    OBVIOUS
  <2>1. /\ Delivers(p, i) /\ mem[p] # None /\ UNCHANGED <<up, pool, poolFile, made, spent, wire>>
        /\ \/ job' = [job EXCEPT ![p] = [do |-> "save", arg |-> None]]
           \/ job' = [job EXCEPT ![p] = Idle]
           \/ job' = job /\ job[p] = Idle
        /\ \/ /\ Decrypt(p, mem[p], wire[id], Ephemeral(p)).why = None
              /\ read' = [read EXCEPT ![p] = Append(@, id)]
           \/ read' = read
    BY <1>3, <2>0 DEF ReceiveInSession, RenderOrSave, Busy, Done, fileVars, Delivered, Delivers, Accept, Refuse
  <2>2. id \in To(p) /\ ~Opening(p)'
    BY <2>0, <2>1, DeliveredOnWire DEF PeersHold, Opening, Idle
  <2>3. GoesOn(p) \/ ReadsInSession(p)
    BY <2>1, <2>2 DEF GoesOn, ReadsInSession
  <2>. QED  BY <2>1, <2>3 DEF PoolStep, ReadStep
<1>4. ASSUME NEW i, DropUnknown(p, i)
      PROVE  Kinds
  <2>1. UNCHANGED <<up, pool, poolFile, made, spent, wire, read, job>>
    BY <1>4 DEF DropUnknown, Refuse, memoryVars, fileVars, countVars
  <2>. QED  BY <2>1, <1>a DEF Opening
<1>5. ASSUME NEW i, ReceiveFirst(p, i)
      PROVE  Kinds
  <2>0. PICK id : id = mail[p][i]
    OBVIOUS
  <2>1. /\ Delivers(p, i) /\ UNCHANGED <<up, made, wire, read>>
        /\ \E what \in {"establish", "republish"} :
             job' = [job EXCEPT ![p] = [do |-> what, arg |-> id]]
        /\ FirstContact(p, wire[id]) /\ BurnPrekeyOf(p, wire[id])
    BY <1>5, <2>0 DEF ReceiveFirst, Delivered, Busy, countVars
  <2>2. id \in To(p)
    BY <2>0, <2>1, DeliveredOnWire DEF PeersHold
  <2>3. Begins(p)
    BY <2>1, <2>2 DEF Begins
  <2>4. UNCHANGED <<pool, poolFile, spent>> \/ (Burns(p) /\ spent \subseteq spent')
    BY <2>1 DEF BurnPrekeyOf, FirstContact, Burns, BurnPrekey
  <2>. QED  BY <2>1, <2>3, <2>4 DEF PoolStep, ReadStep
<1>6. CASE Republish(p)
  <2>1. /\ job[p].do = "republish" /\ UNCHANGED <<up, pool, poolFile, made, spent, wire, read>>
        /\ \/ job' = [job EXCEPT ![p] = Idle]
           \/ job[p].arg # None /\ job' = [job EXCEPT ![p] = [do |-> "establish", arg |-> job[p].arg]]
    BY <1>6 DEF Republish, Done, Busy, countVars, fileVars, historyVars
  <2>2. Opening(p)' => Opening(p) /\ job'[p].arg = job[p].arg
    BY <2>1 DEF Opening, Idle
  <2>. QED  BY <2>1, <2>2, <1>a
<1>7. CASE Establish(p)
  <2>1. /\ job[p].do = "establish" /\ UNCHANGED <<up, pool, poolFile, made, spent>>
        /\ \/ job' = [job EXCEPT ![p] = [do |-> "save", arg |-> None]]
           \/ job' = [job EXCEPT ![p] = Idle]
        /\ wire' = wire \/ \E env : wire' = Append(wire, env)
        /\ read' = read \/ read' = [read EXCEPT ![p] = Append(@, job[p].arg)]
    BY <1>7 DEF Establish, EstablishSession, RenderOrSave, Busy, Done, fileVars, Write, Accept, Refuse
  <2>2. Opening(p) /\ ~Opening(p)'
    BY <2>1 DEF Opening, Idle
  <2>3. GoesOn(p) \/ ReadsFirst(p)
    BY <2>1, <2>2 DEF GoesOn, ReadsFirst
  <2>. QED  BY <2>1, <2>3 DEF PoolStep, ReadStep
<1>8. CASE Save(p) \/ Rendered(p)
  <2>1. /\ UNCHANGED <<up, pool, poolFile, made, spent, wire, read>>
        /\ job' = job \/ job' = [job EXCEPT ![p] = Idle]
    BY <1>8 DEF Save, Rendered, Done, memoryVars, relayVars, countVars, historyVars
  <2>. QED  BY <2>1, <1>a DEF Opening, Idle
<1>9. CASE Reload(p)
  <2>1. /\ UNCHANGED <<poolFile, made, spent, wire, read>> /\ pool' = [pool EXCEPT ![p] = {}]
        /\ job' = [job EXCEPT ![p] = Idle] /\ up' = [up EXCEPT ![p] = "down"]
    BY <1>9 DEF Reload, Kill, Done, fileVars, historyVars
  <2>. QED  BY <2>1 DEF PoolStep, ReadStep, GoesOn, Opening, Idle
<1>10. ASSUME NEW k \in pool[p], OtherFirst(p, k)
       PROVE  Kinds
  <2>1. /\ BurnPrekey(p, k) /\ UNCHANGED <<up, made, wire, read>>
        /\ job' = [job EXCEPT ![p] = [do |-> "republish", arg |-> None]]
    BY <1>10 DEF OtherFirst, Busy, countVars
  <2>2. Burns(p) /\ spent \subseteq spent' /\ ~Opening(p)'
    BY <2>1 DEF Burns, BurnPrekey, Opening
  <2>. QED  BY <2>1, <2>2 DEF PoolStep, ReadStep, GoesOn
<1>. QED  BY <1>1, <1>2, <1>3, <1>4, <1>5, <1>6, <1>7, <1>8, <1>9, <1>10 DEF Act, Receives

\* A function whose value at one argument is replaced by one of its range.
LEMMA UpdateType ==
  ASSUME NEW D, NEW S, NEW f \in [D -> S], NEW p, NEW v \in S
  PROVE  [f EXCEPT ![p] = v] \in [D -> S]
OBVIOUS

\* The directory and the tab stay of their types.
LEMMA TabKeeps ==
  ASSUME PeersHold, NEW p \in Party, Act(p)
  PROVE  TabInv'
<1>0. /\ TabInv /\ pool[p] \subseteq Nat /\ Peer(p) \in Party
      /\ served[Peer(p)] \in (SUBSET Nat) \cup {None}
      /\ answers[p] \in Seq((SUBSET Nat) \cup {None}) /\ rendering[p] \in Nat
  BY PeerParty DEF PeersHold, TabInv, PoolInv, PoolTypes
<1>. USE <1>0
<1>1. CASE UNCHANGED <<up, served>> /\ UNCHANGED tabVars
  BY <1>1 DEF TabInv, tabVars
<1>2. CASE Load(p) \/ Open(p) \/ Reload(p) \/ Republish(p)
  <2>1. /\ up' = up \/ \E u \in {"down", "starting", "ready"} : up' = [up EXCEPT ![p] = u]
        /\ served' = served \/ served' = [served EXCEPT ![p] = pool[p]]
        /\ \/ UNCHANGED tabVars
           \/ /\ asked' = [asked EXCEPT ![p] = None] /\ answers' = [answers EXCEPT ![p] = <<>>]
              /\ active' = [active EXCEPT ![p] = FALSE] /\ rendering' = [rendering EXCEPT ![p] = 0]
    BY <1>2 DEF Load, Open, Reload, Kill, Republish, ServePool, relayVars
  <2>2. up' \in [Party -> {"down", "starting", "ready"}]
    BY <2>1, UpdateType DEF TabInv
  <2>3. /\ served' = [q \in Party |-> served'[q]]
        /\ \A q \in Party : served'[q] # None => served'[q] \subseteq Nat
    <3>1. served \in [Party -> (SUBSET Nat) \cup {None}] /\ pool[p] \in (SUBSET Nat) \cup {None}
      BY DEF TabInv
    <3>2. [served EXCEPT ![p] = pool[p]] \in [Party -> (SUBSET Nat) \cup {None}]
      BY <3>1, UpdateType
    <3>3. served' \in [Party -> (SUBSET Nat) \cup {None}]
      BY <2>1, <3>1, <3>2
    <3>4. DOMAIN served' = Party /\ \A q \in Party : served'[q] \in (SUBSET Nat) \cup {None}
      BY <3>3
    <3>5. served' = [q \in Party |-> served'[q]]
      BY <3>3
    <3>. QED  BY <3>4, <3>5
  <2>4. asked' \in [Party -> {None, "connect", "send"}] /\ rendering' \in [Party -> Nat]
    <3>1. asked \in [Party -> {None, "connect", "send"}] /\ rendering \in [Party -> Nat]
      BY DEF TabInv
    <3>2. /\ [asked EXCEPT ![p] = None] \in [Party -> {None, "connect", "send"}]
          /\ [rendering EXCEPT ![p] = 0] \in [Party -> Nat]
      BY <3>1, UpdateType
    <3>. QED  BY <2>1, <3>1, <3>2 DEF tabVars
  <2>5. active' \in [Party -> BOOLEAN]
    <3>1. active \in [Party -> BOOLEAN] /\ FALSE \in BOOLEAN
      BY DEF TabInv
    <3>2. [active EXCEPT ![p] = FALSE] \in [Party -> BOOLEAN]
      BY <3>1, UpdateType
    <3>3. active' = active \/ active' = [active EXCEPT ![p] = FALSE]
      BY <2>1 DEF tabVars
    <3>. QED  BY <3>1, <3>2, <3>3, Zenon
  <2>6. answers' \in [Party -> Seq((SUBSET Nat) \cup {None})]
    <3>1. <<>> \in Seq((SUBSET Nat) \cup {None})
      BY EmptySeq
    <3>. QED  BY <2>1, <3>1 DEF TabInv, tabVars
  <2>. QED  BY <2>2, <2>3, <2>4, <2>5, <2>6 DEF TabInv
<1>3. ASSUME NEW what \in {"connect", "send"}, Ask(p, what), UNCHANGED <<up, served, active, rendering>>
      PROVE  TabInv'
  <2>1. Append(answers[p], served[Peer(p)]) \in Seq((SUBSET Nat) \cup {None})
    BY AppendProperties
  <2>. QED  BY <1>3, <2>1 DEF TabInv, Ask
<1>4. CASE Connect(p)
  BY <1>3, <1>4 DEF Connect, Opens, TabInv, peerVars, memoryVars, relayVars
<1>5. CASE SendNow(p) \/ (PersistText(p) /\ UNCHANGED tabVars) \/ (WriteText(p) /\ UNCHANGED tabVars)
  BY <1>1, <1>5 DEF SendNow, PersistText, WriteText, relayVars
<1>6. CASE SendAsking(p)
  BY <1>3, <1>6 DEF SendAsking, memoryVars, relayVars
<1>7. CASE AnswerArrives(p)
  <2>1. Tail(answers[p]) \in Seq((SUBSET Nat) \cup {None})
    BY <1>7, HeadTailProperties DEF AnswerArrives
  <2>2. /\ answers' = [answers EXCEPT ![p] = Tail(answers[p])] /\ asked' = [asked EXCEPT ![p] = None]
        /\ active' = active \/ active' = [active EXCEPT ![p] = TRUE]
        /\ UNCHANGED <<up, served, rendering>>
    BY <1>7 DEF AnswerArrives, Opens, relayVars
  <2>. QED  BY <2>1, <2>2 DEF TabInv
<1>8. ASSUME UNCHANGED <<up, served, asked, answers>>,
             active' = active \/ active' = [active EXCEPT ![p] = TRUE],
             \/ rendering' = rendering
             \/ rendering' = [rendering EXCEPT ![p] = @ + 1]
             \/ rendering[p] > 0 /\ rendering' = [rendering EXCEPT ![p] = @ - 1]
      PROVE  TabInv'
  <2>1. active' \in [Party -> BOOLEAN]
    <3>1. active \in [Party -> BOOLEAN] /\ TRUE \in BOOLEAN
      BY DEF TabInv
    <3>2. [active EXCEPT ![p] = TRUE] \in [Party -> BOOLEAN]
      BY <3>1, UpdateType
    <3>. QED  BY <1>8, <3>1, <3>2, Zenon
  <2>2. rendering' \in [Party -> Nat]
    <3>1. rendering \in [Party -> Nat] /\ rendering[p] \in Nat
      BY DEF TabInv
    <3>2. PICK n : n = rendering[p]
      OBVIOUS
    <3>3. rendering' = rendering \/ \E m \in Nat : rendering' = [rendering EXCEPT ![p] = m]
      BY <1>8, <3>1, <3>2
    <3>. QED  BY <3>1, <3>3, UpdateType
  <2>. QED  BY <1>8, <2>1, <2>2 DEF TabInv
<1>9. ASSUME NEW i, ReceiveInSession(p, i)
      PROVE  TabInv'
  BY <1>8, <1>9 DEF ReceiveInSession, RenderOrSave, Opens
<1>10. ASSUME NEW i, DropUnknown(p, i) \/ ReceiveFirst(p, i)
       PROVE  TabInv'
  BY <1>1, <1>10 DEF DropUnknown, ReceiveFirst, memoryVars
<1>11. CASE Establish(p)
  <2>1. /\ UNCHANGED <<up, served, asked, answers>> /\ active' = [active EXCEPT ![p] = TRUE]
        /\ rendering' = rendering \/ rendering' = [rendering EXCEPT ![p] = @ + 1]
    BY <1>11 DEF Establish, RenderOrSave, Opens
  <2>. QED  BY <2>1, <1>8
<1>12. CASE Save(p) \/ Rendered(p)
  <2>1. /\ UNCHANGED <<up, served, asked, answers, active>>
        /\ rendering' = rendering \/ (rendering[p] > 0 /\ rendering' = [rendering EXCEPT ![p] = @ - 1])
    BY <1>12 DEF Save, Rendered, memoryVars, relayVars, tabVars
  <2>. QED  BY <2>1, <1>8
<1>13. ASSUME NEW k, OtherFirst(p, k)
       PROVE  TabInv'
  BY <1>1, <1>13 DEF OtherFirst, relayVars
<1>. QED  BY <1>2, <1>4, <1>5, <1>6, <1>7, <1>9, <1>10, <1>11, <1>12, <1>13 DEF Act, Sends, Receives

\* Every step keeps all of it.
LEMMA StepKeeps ==
  ASSUME PeersHold, NEW p \in Party, Act(p)
  PROVE  PeersHold'
<1>1. KeyInv'
  BY StepKinds, KeyStepKeeps, KeyStutter DEF PeersHold
<1>2. SessionInv'
  BY StepKinds, SessionStepKeeps, SessionStutter DEF PeersHold
<1>3. MailInv'
  BY StepKinds, MailKeeps DEF PeersHold
<1>4. PoolInv' /\ ReadInv'
  BY PrekeyKinds, PoolKeeps, ReadKeeps DEF PeersHold
<1>. QED  BY <1>1, <1>2, <1>3, <1>4, TabKeeps DEF PeersHold

------------------------------------------------------------------------------
(* What the directory offers, and what the storage holds.                    *)

\* The directory offers what is in the pool, except while the smaller pool waits
\* to be published.
ServedInv(p) ==
  (up[p] = "ready" /\ job[p].do # "republish") => served[p] \subseteq pool[p]

\* The storage holds the session of the tab, except while a handler that saves it
\* is on its way.
SavedInv(p) ==
  (up[p] # "down" /\ rendering[p] = 0 /\ job[p].do \notin {"persist", "save"} /\ mem[p] # None) =>
    Restore(disk[p]) = Restore(mem[p])

\* A step concerns one tab only.
LEMMA OthersUntouched ==
  ASSUME PeersHold, NEW p \in Party, Act(p), NEW q \in Party \ {p}
  PROVE  /\ up'[q] = up[q] /\ mem'[q] = mem[q] /\ disk'[q] = disk[q] /\ job'[q] = job[q]
         /\ served'[q] = served[q] /\ pool'[q] = pool[q] /\ rendering'[q] = rendering[q]
<1>1. /\ up'[q] = up[q] /\ mem'[q] = mem[q] /\ disk'[q] = disk[q] /\ job'[q] = job[q]
  BY StepKinds DEF KeyStep, OthersKeep
<1>2. pool'[q] = pool[q]
  <2>1. PoolStep(p)
    BY PrekeyKinds
  <2>2. DOMAIN up' = Party /\ pool \in [Party -> SUBSET Nat]
    BY <2>1 DEF PoolStep, PeersHold, PoolInv, PoolTypes
  <2>3. \/ pool' = pool
        \/ \E x : pool' = [pool EXCEPT ![p] = x]
    BY <2>1 DEF PoolStep, Burns, BurnPrekey, Loads, LoadPool
  <2>. QED  BY <2>2, <2>3
<1>3. served'[q] = served[q] /\ rendering'[q] = rendering[q]
  <2>1. \/ UNCHANGED <<served, rendering>>
        \/ served' = served /\ \E n : rendering' = [rendering EXCEPT ![p] = n]
        \/ rendering' = rendering /\ \E n : served' = [served EXCEPT ![p] = n]
    <3>1. ASSUME NEW k, OtherFirst(p, k)
          PROVE  UNCHANGED <<served, rendering>>
      BY <3>1 DEF OtherFirst, relayVars, tabVars
    <3>2. CASE Load(p) \/ Connect(p) \/ SendNow(p) \/ SendAsking(p) \/ AnswerArrives(p)
               \/ (PersistText(p) /\ UNCHANGED tabVars) \/ (WriteText(p) /\ UNCHANGED tabVars) \/ Save(p)
      BY <3>2 DEF Load, Connect, SendNow, SendAsking, AnswerArrives, PersistText, WriteText, Save,
                  peerVars, relayVars, tabVars
    <3>3. ASSUME NEW i, DropUnknown(p, i) \/ ReceiveFirst(p, i)
          PROVE  UNCHANGED <<served, rendering>>
      BY <3>3 DEF DropUnknown, ReceiveFirst, tabVars
    <3>4. ASSUME NEW i, ReceiveInSession(p, i)
          PROVE  served' = served /\ (rendering' = rendering \/ \E n : rendering' = [rendering EXCEPT ![p] = n])
      BY <3>4 DEF ReceiveInSession, RenderOrSave
    <3>5. CASE Establish(p)
      BY <3>5 DEF Establish, RenderOrSave
    <3>6. CASE Rendered(p) \/ Reload(p)
      BY <3>6 DEF Rendered, Reload, Kill, relayVars
    <3>7. CASE Open(p) \/ Republish(p)
      BY <3>7 DEF Open, Republish, ServePool, tabVars
    <3>. QED  BY <3>1, <3>2, <3>3, <3>4, <3>5, <3>6, <3>7 DEF Act, Sends, Receives
  <2>2. DOMAIN served = Party /\ DOMAIN rendering = Party
    BY DEF PeersHold, TabInv
  <2>. QED  BY <2>1, <2>2
<1>. QED  BY <1>1, <1>2, <1>3

\* Restoring a session again changes nothing.
LEMMA RestoreAgain ==
  ASSUME NEW p \in Party, NEW s, Stored(p, s)
  PROVE  Restore(Restore(s)) = Restore(s)
<1>1. CASE s = None
  BY <1>1 DEF Restore
<1>2. CASE s # None
  <2>. DEFINE a == ~s.firstBuilt /\ s.ckr = None
              t == [s EXCEPT !.lastDh = None, !.isFirst = a]
  <2>1. s \in Session /\ Restore(s) = t
    BY <1>2 DEF Restore, Stored, WellFormed
  <2>2. t.firstBuilt = s.firstBuilt /\ t.ckr = s.ckr
    BY <2>1 DEF Session
  <2>3. [t EXCEPT !.lastDh = None, !.isFirst = a] = t
    <3>. HIDE DEF a
    <3>. QED  BY <2>1 DEF Session
  <2>. QED  BY <2>1, <2>2, <2>3 DEF Restore
<1>. QED  BY <1>1, <1>2

\* It publishes the pool before it is ready for the next message.
LEMMA ServedKeeps ==
  ASSUME PeersHold, NEW p \in Party, Act(p), ServedInv(p)
  PROVE  ServedInv(p)'
<1>0. /\ DOMAIN up = Party /\ DOMAIN job = Party /\ DOMAIN served = Party /\ DOMAIN pool = Party
      /\ pool[p] \subseteq Nat
  BY DEF PeersHold, KeyInv, KeyTypes, TabInv, PoolInv, PoolTypes
<1>. USE <1>0
\* A step that concerns neither, and leaves no pool unpublished.
<1>a. ASSUME UNCHANGED <<up, pool, served>>, job[p].do # "republish"
      PROVE  ServedInv(p)'
  BY <1>a DEF ServedInv
<1>1. CASE Load(p) \/ Reload(p)
  <2>1. up'[p] # "ready"
    BY <1>1 DEF Load, Reload, Kill
  <2>. QED  BY <2>1 DEF ServedInv
<1>2. CASE Open(p) \/ Republish(p)
  <2>1. served'[p] = pool[p] /\ pool' = pool
    BY <1>2 DEF Open, Republish, ServePool
  <2>. QED  BY <2>1 DEF ServedInv
<1>3. CASE Connect(p) \/ SendNow(p) \/ SendAsking(p) \/ AnswerArrives(p) \/ (PersistText(p) /\ UNCHANGED tabVars)
           \/ (WriteText(p) /\ UNCHANGED tabVars) \/ Establish(p) \/ Save(p) \/ Rendered(p)
  <2>1. UNCHANGED <<up, pool, served>>
    BY <1>3 DEF Connect, SendNow, SendAsking, AnswerArrives, PersistText, WriteText, Establish, Save, Rendered,
                peerVars, memoryVars, relayVars
  <2>2. job[p].do # "republish"
    BY <1>3 DEF Connect, SendNow, SendAsking, Submit, AnswerArrives, PersistText, WriteText, Establish, Save,
                Rendered, Idle
  <2>. QED  BY <2>1, <2>2, <1>a
<1>4. ASSUME NEW i, ReceiveInSession(p, i) \/ DropUnknown(p, i)
      PROVE  ServedInv(p)'
  <2>1. UNCHANGED <<up, pool, served>> /\ job[p] = Idle
    BY <1>4 DEF ReceiveInSession, DropUnknown, Delivers, memoryVars
  <2>. QED  BY <2>1, <1>a DEF Idle
<1>5. ASSUME NEW i, ReceiveFirst(p, i)
      PROVE  ServedInv(p)'
  <2>. PICK env : env = Delivered(p, i)
    OBVIOUS
  <2>1. /\ UNCHANGED <<up, served>> /\ job[p] = Idle /\ BurnPrekeyOf(p, env)
        /\ job' = [job EXCEPT ![p] = [do |-> IF env.otk = None THEN "establish" ELSE "republish",
                                      arg |-> mail[p][i]]]
    BY <1>5 DEF ReceiveFirst, Delivers, Busy
  <2>2. CASE env.otk = None
    BY <2>1, <2>2, <1>a DEF BurnPrekeyOf, Idle
  <2>3. CASE env.otk # None
    BY <2>1, <2>3 DEF ServedInv
  <2>. QED  BY <2>2, <2>3
<1>6. ASSUME NEW k, OtherFirst(p, k)
      PROVE  ServedInv(p)'
  BY <1>6 DEF OtherFirst, Busy, ServedInv
<1>. QED  BY <1>1, <1>2, <1>3, <1>4, <1>5, <1>6 DEF Act, Sends, Receives

\* And it saves its session before it does.
LEMMA SavedKeeps ==
  ASSUME PeersHold, NEW p \in Party, Act(p), SavedInv(p)
  PROVE  SavedInv(p)'
<1>0. /\ DOMAIN up = Party /\ DOMAIN job = Party /\ DOMAIN mem = Party /\ DOMAIN disk = Party
      /\ DOMAIN rendering = Party /\ rendering[p] \in Nat /\ Stored(p, disk[p])
  BY DEF PeersHold, KeyInv, KeyTypes, TabInv, SessionInv
<1>. USE <1>0
\* A step that concerns none of this, and one with which the handler has to save,
\* or goes on to.
<1>a. ASSUME UNCHANGED <<up, mem, disk, rendering>>, job[p].do \notin {"persist", "save"}
      PROVE  SavedInv(p)'
  BY <1>a DEF SavedInv
<1>b. ASSUME job'[p].do \in {"persist", "save"} \/ rendering'[p] # 0 \/ mem'[p] = None \/ up'[p] = "down"
      PROVE  SavedInv(p)'
  BY <1>b DEF SavedInv
<1>c. ASSUME disk'[p] = mem'[p]
      PROVE  SavedInv(p)'
  BY <1>c DEF SavedInv
<1>1. CASE Load(p)
  <2>. PICK s : s = disk[p]
    OBVIOUS
  <2>1. mem'[p] = Restore(s) /\ disk'[p] = s
    BY <1>1 DEF Load
  <2>2. Restore(Restore(s)) = Restore(s)
    BY RestoreAgain
  <2>. QED  BY <2>1, <2>2 DEF SavedInv
<1>2. CASE Open(p)
  <2>1. /\ up[p] = "starting" /\ up' = [up EXCEPT ![p] = "ready"]
        /\ UNCHANGED <<mem, disk, rendering, job>>
    BY <1>2 DEF Open, fileVars, tabVars
  <2>. QED  BY <2>1 DEF SavedInv
<1>3. CASE Connect(p) \/ SendAsking(p) \/ (WriteText(p) /\ UNCHANGED tabVars) \/ Republish(p)
  <2>1. UNCHANGED <<up, mem, disk, rendering>>
    BY <1>3 DEF Connect, SendAsking, WriteText, Republish, peerVars, memoryVars, fileVars, tabVars
  <2>2. job[p].do \notin {"persist", "save"}
    BY <1>3 DEF Connect, SendAsking, Submit, WriteText, Republish, Idle
  <2>. QED  BY <2>1, <2>2, <1>a
<1>4. CASE SendNow(p)
  <2>1. job'[p].do = "persist"
    BY <1>4 DEF SendNow, EncryptText, Busy
  <2>. QED  BY <2>1, <1>b
<1>5. CASE AnswerArrives(p)
  <2>1. UNCHANGED <<mem, fresh, job>> \/ job'[p].do = "persist"
    <3>1. ASSUME NEW k, EncryptText(p, SessionOfAnswer(p, k))
          PROVE  job'[p].do = "persist"
      BY <3>1 DEF EncryptText, Busy
    <3>. QED  BY <1>5, <3>1, AnswerOffers DEF PeersHold
  <2>2. UNCHANGED <<up, disk, rendering>> /\ job[p].do \notin {"persist", "save"}
    BY <1>5 DEF AnswerArrives, fileVars, Idle
  <2>. QED  BY <2>1, <2>2, <1>a, <1>b
<1>6. CASE PersistText(p) \/ Save(p) \/ Rendered(p)
  <2>1. disk'[p] = mem[p] /\ mem' = mem
    BY <1>6 DEF PersistText, Save, Rendered, SaveSessions, memoryVars
  <2>. QED  BY <2>1, <1>c
<1>7. ASSUME NEW env, RenderOrSave(p, env)
      PROVE  SavedInv(p)'
  <2>1. job'[p].do \in {"persist", "save"} \/ rendering'[p] # 0
    BY <1>7 DEF RenderOrSave, Busy
  <2>. QED  BY <2>1, <1>b
<1>8. ASSUME NEW i, ReceiveInSession(p, i)
      PROVE  SavedInv(p)'
  <2>1. RenderOrSave(p, Delivered(p, i)) \/ Evict(p)
    BY <1>8 DEF ReceiveInSession
  <2>. QED  BY <2>1, <1>7, <1>b DEF Evict
<1>9. ASSUME NEW i, DropUnknown(p, i) \/ ReceiveFirst(p, i)
      PROVE  SavedInv(p)'
  <2>1. mem'[p] = None
    BY <1>9 DEF DropUnknown, ReceiveFirst, FirstContact, memoryVars
  <2>. QED  BY <2>1, <1>b
<1>10. CASE Establish(p)
  <2>1. mem'[p] = None \/ \E env : RenderOrSave(p, env)
    BY <1>10 DEF Establish
  <2>. QED  BY <2>1, <1>7, <1>b
<1>11. CASE Reload(p)
  <2>1. up'[p] = "down"
    BY <1>11 DEF Reload, Kill
  <2>. QED  BY <2>1, <1>b
<1>12. ASSUME NEW k, OtherFirst(p, k)
       PROVE  SavedInv(p)'
  <2>1. UNCHANGED <<up, mem, disk, rendering>> /\ job[p] = Idle
    BY <1>12 DEF OtherFirst, tabVars
  <2>. QED  BY <2>1, <1>a DEF Idle
<1>. QED  BY <1>1, <1>2, <1>3, <1>4, <1>5, <1>6, <1>8, <1>9, <1>10, <1>11, <1>12 DEF Act, Sends, Receives

------------------------------------------------------------------------------
(* Which prekeys are named.  Whoever names a prekey of q has it from q's     *)
(* directory entry, so it is in q's pool or was used.                        *)

Offered(q, k) == k \in poolFile[q] \/ <<q, k>> \in spent

Names(env) == UsesPrekey(env) => Offered(env.otk[1], env.otk[2])

Excused(r) == r[2] = "no-prekey" => (r[1] \in 1..Len(wire) /\ wire[r[1]].otk \in spent)

OffersInv ==
  /\ \A q \in Party : served[q] # None => \A k \in served[q] : Offered(q, k)
  /\ \A p \in Party : \A i \in 1..Len(answers[p]) :
       answers[p][i] # None => \A k \in answers[p][i] : Offered(Peer(p), k)
  /\ \A i \in 1..Len(wire) : Names(wire[i])
  /\ \A p \in Party : HasEnvelope(p) => Names(job[p].arg)
  /\ \A r \in refused : Excused(r)

\* A prekey leaves the key file only when it is used.
LEMMA OfferedStays ==
  ASSUME PeersHold, NEW p \in Party, Act(p)
  PROVE  /\ spent \subseteq spent'
         /\ \A q \in Party : \A k : Offered(q, k) => Offered(q, k)'
<1>0. PoolInv /\ DOMAIN up' = Party /\ PoolStep(p) /\ ReadStep(p)
  BY PrekeyKinds DEF PeersHold, PoolStep, PoolInv, PoolTypes
<1>1. spent \subseteq spent'
  BY <1>0 DEF ReadStep
<1>2. CASE UNCHANGED <<poolFile, spent>>
  BY <1>2 DEF Offered
<1>3. ASSUME NEW k \in pool[p], BurnPrekey(p, k), UNCHANGED <<up, made>>
      PROVE  \A q \in Party : \A j : Offered(q, j) => Offered(q, j)'
  <2>0. PoolInv /\ UNCHANGED <<up, made>> /\ BurnPrekey(p, k)
    BY <1>0, <1>3
  <2>1. /\ PoolTypes' /\ Pools(p)' /\ <<p, k>> \notin spent
        /\ \A q \in Party \ {p} : pool'[q] = pool[q] /\ poolFile'[q] = poolFile[q] /\ made'[q] = made[q]
        /\ poolFile'[p] = poolFile[p] \ {k} /\ spent' = spent \cup {<<p, k>>}
    BY <2>0, BurnKeeps
  <2>. QED  BY <2>1 DEF Offered
<1>4. CASE Load(p)
  <2>1. up[p] = "down" /\ up' = [up EXCEPT ![p] = "starting"] /\ spent' = spent
        /\ LoadPool(p, poolFile[p])
    BY <1>4 DEF Load, KeptPool, historyVars
  <2>2. Loads(p)
    BY <1>0, <2>1 DEF Loads, PoolInv, PoolTypes
  <2>3. \A q \in Party \ {p} : poolFile'[q] = poolFile[q]
    BY <1>0, <2>2, LoadKeeps
  <2>4. poolFile[p] \subseteq poolFile'[p]
    BY <1>0, <2>1 DEF LoadPool, PoolInv, PoolTypes
  <2>. QED  BY <2>1, <2>3, <2>4 DEF Offered
<1>5. ASSUME NEW i, ReceiveFirst(p, i)
      PROVE  \A q \in Party : \A k : Offered(q, k) => Offered(q, k)'
  <2>. PICK env : env = Delivered(p, i)
    OBVIOUS
  <2>1. BurnPrekeyOf(p, env) /\ FirstContact(p, env) /\ UNCHANGED <<up, made>>
    BY <1>5 DEF ReceiveFirst, countVars
  <2>. QED  BY <2>1, <1>2, <1>3 DEF BurnPrekeyOf, FirstContact
<1>6. ASSUME NEW k \in pool[p], OtherFirst(p, k)
      PROVE  \A q \in Party : \A j : Offered(q, j) => Offered(q, j)'
  BY <1>3, <1>6 DEF OtherFirst, countVars
<1>7. ASSUME NEW i, ReceiveInSession(p, i) \/ DropUnknown(p, i)
      PROVE  UNCHANGED <<poolFile, spent>>
  BY <1>7 DEF ReceiveInSession, DropUnknown, Accept, Refuse, fileVars
<1>8. CASE Open(p) \/ Connect(p) \/ SendNow(p) \/ SendAsking(p) \/ AnswerArrives(p) \/ PersistText(p)
           \/ WriteText(p)
  BY <1>2, <1>8 DEF Open, Connect, SendNow, SendAsking, AnswerArrives, PersistText, WriteText,
                    peerVars, fileVars, historyVars
<1>9. CASE Republish(p) \/ Establish(p) \/ Save(p) \/ Rendered(p) \/ Reload(p)
  BY <1>2, <1>9 DEF Republish, Establish, Save, Rendered, Reload, Kill, fileVars, historyVars
<1>. QED  BY <1>1, <1>2, <1>4, <1>5, <1>6, <1>7, <1>8, <1>9 DEF Act, Sends, Receives

\* A text names the prekey its new session was made with, and none in a session
\* that is kept.
LEMMA TextNames ==
  ASSUME NEW p \in Party, NEW s, NEW e \in KeyPair,
         \/ s # None /\ Stored(p, s)
         \/ \E otk \in KeyPair \cup {None} :
              (otk # None => Offered(otk[1], otk[2])) /\ s = NewSession(otk)
  PROVE  Names(Envelope(p, Sending(p, s, e), "text"))
<1>. DEFINE u == Sending(p, s, e)
<1>0. /\ Envelope(p, u, "text").first = u.isFirst
      /\ Envelope(p, u, "text").otk = IF u.isFirst THEN u.root.otk ELSE None
  BY DEF Envelope
<1>1. CASE s # None /\ Stored(p, s)
  <2>1. u = s /\ ~s.isFirst
    BY <1>1, NoneIsNoChain DEF Sending, Stored
  <2>. QED  BY <1>0, <2>1 DEF Names, UsesPrekey
<1>2. ASSUME NEW otk \in KeyPair \cup {None}, otk # None => Offered(otk[1], otk[2]), s = NewSession(otk)
      PROVE  Names(Envelope(p, Sending(p, s, e), "text"))
  <2>1. u.root.otk = otk
    BY <1>2 DEF Sending, FirstSend, NewSession
  <2>. QED  BY <1>0, <1>2, <2>1 DEF Names, UsesPrekey
<1>. QED  BY <1>1, <1>2

\* Where a step gets what it publishes, and what it is told by the directory.
LEMMA ServesOffered ==
  ASSUME PeersHold, OffersInv, NEW p \in Party, Act(p)
  PROVE  /\ \A q \in Party : served'[q] # None => \A k \in served'[q] : Offered(q, k)
         /\ \A q \in Party : \A i \in 1..Len(answers'[q]) :
              answers'[q][i] # None => \A k \in answers'[q][i] : Offered(Peer(q), k)
<1>0. /\ DOMAIN served = Party /\ DOMAIN answers = Party /\ pool[p] \subseteq poolFile[p]
      /\ Peer(p) \in Party /\ answers[p] \in Seq((SUBSET Nat) \cup {None})
      /\ served[Peer(p)] \in (SUBSET Nat) \cup {None}
  BY PeerParty DEF PeersHold, TabInv, PoolInv, Pools
<1>1. served' = served \/ served' = [served EXCEPT ![p] = pool[p]]
  <2>1. ASSUME NEW i, ReceiveInSession(p, i) \/ DropUnknown(p, i) \/ ReceiveFirst(p, i)
        PROVE  served' = served
    BY <2>1 DEF ReceiveInSession, DropUnknown, ReceiveFirst
  <2>2. ASSUME NEW k, OtherFirst(p, k)
        PROVE  served' = served
    BY <2>2 DEF OtherFirst, relayVars
  <2>3. CASE Load(p) \/ Sends(p) \/ Establish(p) \/ Save(p) \/ Rendered(p) \/ Reload(p)
    BY <2>3 DEF Load, Sends, Connect, SendNow, SendAsking, AnswerArrives, PersistText, WriteText, Establish,
                Save, Rendered, Reload, Kill, peerVars, relayVars
  <2>4. CASE Open(p) \/ Republish(p)
    BY <2>4 DEF Open, Republish, ServePool
  <2>. QED  BY <2>1, <2>2, <2>3, <2>4 DEF Act, Receives
<1>2. \/ answers' = answers
      \/ answers' = [answers EXCEPT ![p] = <<>>]
      \/ answers[p] # <<>> /\ answers' = [answers EXCEPT ![p] = Tail(answers[p])]
      \/ answers' = [answers EXCEPT ![p] = Append(answers[p], served[Peer(p)])]
  <2>1. ASSUME NEW i, ReceiveInSession(p, i) \/ DropUnknown(p, i) \/ ReceiveFirst(p, i)
        PROVE  answers' = answers
    BY <2>1 DEF ReceiveInSession, DropUnknown, ReceiveFirst, tabVars
  <2>2. ASSUME NEW k, OtherFirst(p, k)
        PROVE  answers' = answers
    BY <2>2 DEF OtherFirst, tabVars
  <2>3. CASE Load(p) \/ Open(p) \/ SendNow(p) \/ (PersistText(p) /\ UNCHANGED tabVars) \/ Republish(p)
             \/ (WriteText(p) /\ UNCHANGED tabVars) \/ Establish(p) \/ Save(p) \/ Rendered(p)
    BY <2>3 DEF Load, Open, SendNow, Establish, Republish, Save, Rendered, tabVars
  <2>4. CASE Connect(p) \/ SendAsking(p)
    BY <2>4 DEF Connect, SendAsking, Ask
  <2>5. CASE AnswerArrives(p) \/ Reload(p)
    BY <2>5 DEF AnswerArrives, Reload
  <2>. QED  BY <2>1, <2>2, <2>3, <2>4, <2>5 DEF Act, Sends, Receives
<1>3. \A q \in Party : served'[q] # None => \A k \in served'[q] : Offered(q, k)
  BY <1>0, <1>1 DEF OffersInv, Offered
<1>. DEFINE Told(q, seq) == \A i \in 1..Len(seq) : seq[i] # None => \A k \in seq[i] : Offered(Peer(q), k)
<1>4. \A q \in Party : Told(q, answers[q])
  BY DEF OffersInv
<1>5. Told(p, answers'[p])
  <2>. PICK seq, new : seq = answers[p] /\ new = served[Peer(p)]
    OBVIOUS
  <2>0. Told(p, seq) /\ seq \in Seq((SUBSET Nat) \cup {None}) /\ new \in (SUBSET Nat) \cup {None}
    BY <1>0, <1>4
  <2>1. CASE answers'[p] = seq
    BY <1>4, <2>1
  <2>2. CASE answers'[p] = <<>>
    BY <2>2
  <2>3. CASE seq # <<>> /\ answers'[p] = Tail(seq)
    <3>1. Len(Tail(seq)) = Len(seq) - 1 /\ \A i \in 1..Len(Tail(seq)) : Tail(seq)[i] = seq[i + 1]
      BY <2>0, <2>3, HeadTailProperties
    <3>2. \A i \in 1..Len(Tail(seq)) : i + 1 \in 1..Len(seq)
      BY <2>0, <3>1
    <3>. QED  BY <2>0, <2>3, <3>1, <3>2
  <2>4. CASE answers'[p] = Append(seq, new)
    <3>1. /\ Len(Append(seq, new)) = Len(seq) + 1 /\ Append(seq, new)[Len(seq) + 1] = new
          /\ \A i \in 1..Len(seq) : Append(seq, new)[i] = seq[i]
      BY <2>0, AppendProperties
    <3>2. new # None => \A k \in new : Offered(Peer(p), k)
      BY <1>0 DEF OffersInv
    <3>3. \A i \in 1..Len(seq) + 1 : i \in 1..Len(seq) \/ i = Len(seq) + 1
      BY <2>0
    <3>. QED  BY <2>0, <2>4, <3>1, <3>2, <3>3
  <2>. QED  BY <1>0, <1>2, <2>1, <2>2, <2>3, <2>4
<1>6. \A q \in Party \ {p} : answers'[q] = answers[q]
  BY <1>0, <1>2
<1>7. \A q \in Party : Told(q, answers'[q])
  BY <1>4, <1>5, <1>6
<1>. QED  BY <1>3, <1>7

\* The envelopes that a step encrypts, and hands to the relay.
LEMMA SendsNamed ==
  ASSUME PeersHold, OffersInv, NEW p \in Party, Act(p)
  PROVE  /\ HasEnvelope(p)' => Names(job'[p].arg)
         /\ wire' = wire \/ \E env : (wire' = Append(wire, env) /\ Names(env))
<1>0. /\ DOMAIN job = Party /\ (HasEnvelope(p) => Names(job[p].arg)) /\ OpensFirst(p)
      /\ Ephemeral(p) \in KeyPair /\ Stored(p, mem[p])
  BY EphemeralType DEF PeersHold, KeyInv, KeyTypes, MailInv, OffersInv, SessionInv
<1>. USE <1>0
<1>. DEFINE Kinds == /\ HasEnvelope(p)' => Names(job'[p].arg)
                     /\ wire' = wire \/ \E env : wire' = Append(wire, env) /\ Names(env)
\* A text is encrypted.
<1>a. ASSUME NEW s, EncryptText(p, s), wire' = wire,
             \/ s # None /\ Stored(p, s)
             \/ \E otk \in KeyPair \cup {None} :
                  (otk # None => Offered(otk[1], otk[2])) /\ s = NewSession(otk)
      PROVE  Kinds
  <2>. PICK e : e = Ephemeral(p)
    OBVIOUS
  <2>1. job'[p].arg = Envelope(p, Sending(p, s, e), "text")
    BY <1>a DEF EncryptText, Busy
  <2>2. Names(Envelope(p, Sending(p, s, e), "text"))
    BY <1>a, TextNames
  <2>. QED  BY <1>a, <2>1, <2>2
\* Nothing is.
<1>b. ASSUME wire' = wire,
             \/ job' = job \/ job' = [job EXCEPT ![p] = Idle]
             \/ \E what, arg : /\ job' = [job EXCEPT ![p] = [do |-> what, arg |-> arg]]
                               /\ what \notin {"persist", "write"}
      PROVE  Kinds
  BY <1>b DEF HasEnvelope, Idle
<1>1. CASE Load(p) \/ Open(p) \/ Connect(p) \/ SendAsking(p) \/ Republish(p) \/ Save(p) \/ Rendered(p) \/ Reload(p)
  <2>1. wire' = wire
    BY <1>1 DEF Load, Open, Connect, SendAsking, Republish, Save, Rendered, Reload, Kill,
                peerVars, historyVars
  <2>2. job' = job \/ job' = [job EXCEPT ![p] = Idle]
        \/ \E what, arg : /\ job' = [job EXCEPT ![p] = [do |-> what, arg |-> arg]]
                          /\ what \notin {"persist", "write"}
    BY <1>1 DEF Load, Open, Connect, SendAsking, Republish, Save, Rendered, Reload, Kill, Busy, Done,
                peerVars, memoryVars
  <2>. QED  BY <2>1, <2>2, <1>b
<1>2. CASE SendNow(p)
  <2>1. EncryptText(p, SessionOr(p, None)) /\ wire' = wire
    BY <1>2 DEF SendNow, historyVars, relayVars
  <2>. PICK s : s = SessionOr(p, None)
    OBVIOUS
  <2>2. (s = mem[p] /\ s # None) \/ s = NewSession(None)
    BY DEF SessionOr
  <2>. QED  BY <2>1, <2>2, <1>a
<1>3. CASE AnswerArrives(p)
  <2>1. wire' = wire
    BY <1>3 DEF AnswerArrives, historyVars
  <2>2. ASSUME NEW k \in Nat \cup {None}, k # None => Head(answers[p]) # None /\ k \in Head(answers[p]),
               EncryptText(p, SessionOfAnswer(p, k))
        PROVE  Kinds
    <3>. PICK s, otk : s = SessionOfAnswer(p, k) /\ otk = IF k = None THEN None ELSE <<Peer(p), k>>
      OBVIOUS
    <3>1. answers[p] # <<>> /\ answers[p] \in Seq((SUBSET Nat) \cup {None})
      BY <1>3 DEF AnswerArrives, PeersHold, TabInv
    <3>2. Head(answers[p]) = answers[p][1] /\ 1 \in 1..Len(answers[p])
      BY <3>1, HeadTailProperties, EmptySeq
    <3>3. k # None => Offered(Peer(p), k)
      BY <2>2, <3>2 DEF OffersInv
    <3>4. otk \in KeyPair \cup {None} /\ (otk # None => Offered(otk[1], otk[2]))
      BY <3>3, PeerParty DEF KeyPair
    <3>5. s = NewSession(otk) /\ EncryptText(p, s)
      BY <2>2 DEF SessionOfAnswer
    <3>. QED  BY <2>1, <3>4, <3>5, <1>a
  <2>. QED  BY <1>3, <2>1, <2>2, AnswerOffers, <1>b DEF PeersHold
<1>4. CASE PersistText(p)
  <2>1. job[p].do = "persist" /\ job' = [job EXCEPT ![p] = [do |-> "write", arg |-> job[p].arg]] /\ wire' = wire
    BY <1>4 DEF PersistText, Busy, historyVars
  <2>. QED  BY <2>1 DEF HasEnvelope
<1>5. CASE WriteText(p)
  <2>1. job[p].do = "write" /\ job' = [job EXCEPT ![p] = Idle] /\ wire' = Append(wire, job[p].arg)
    BY <1>5 DEF WriteText, Done, Write
  <2>. QED  BY <2>1 DEF HasEnvelope, Idle
<1>6. ASSUME NEW i, ReceiveInSession(p, i)
      PROVE  Kinds
  <2>1. /\ wire' = wire
        /\ \/ job' = job \/ job' = [job EXCEPT ![p] = Idle]
           \/ job' = [job EXCEPT ![p] = [do |-> "save", arg |-> None]]
    BY <1>6 DEF ReceiveInSession, RenderOrSave, Busy, Done
  <2>. QED  BY <2>1, <1>b
<1>7. ASSUME NEW i, DropUnknown(p, i) \/ ReceiveFirst(p, i)
      PROVE  Kinds
  <2>1. /\ wire' = wire
        /\ \/ job' = job
           \/ \E what, arg : /\ job' = [job EXCEPT ![p] = [do |-> what, arg |-> arg]]
                             /\ what \notin {"persist", "write"}
    BY <1>7 DEF DropUnknown, ReceiveFirst, Busy, memoryVars
  <2>. QED  BY <2>1, <1>b
<1>8. CASE Establish(p)
  <2>. PICK id, env, d : id = job[p].arg /\ env = wire[id]
                         /\ d = Decrypt(p, NewSession(env.otk), env, Ephemeral(p))
    OBVIOUS
  <2>1. /\ job[p].do = "establish"
        /\ \/ job' = [job EXCEPT ![p] = [do |-> "save", arg |-> None]]
           \/ job' = [job EXCEPT ![p] = Idle]
        /\ wire' = wire \/ wire' = Append(wire, Envelope(p, d.session, "receipt"))
    BY <1>8 DEF Establish, EstablishSession, RenderOrSave, Busy, Done, Write
  <2>2. id \in To(p)
    BY <2>1 DEF OpensFirst, Opening
  <2>3. WellSealed(env) /\ env.otk \in KeyPair \cup {None}
    BY <2>2 DEF To, PeersHold, SessionInv, Sealed, WellSealed, EnvelopeType
  <2>4. WellFormed(NewSession(env.otk)) /\ NewSession(env.otk).isFirst = FALSE
    BY <2>3, NewType DEF NewSession
  <2>5. d.session.isFirst = FALSE
    <3>. PICK new : new = NewSession(env.otk)
      OBVIOUS
    <3>1. d.session.isFirst = new.isFirst
      BY <2>3, <2>4, DecryptType
    <3>. QED  BY <2>4, <3>1
  <2>6. Names(Envelope(p, d.session, "receipt"))
    BY <2>5 DEF Names, UsesPrekey, Envelope
  <2>. QED  BY <2>1, <2>6 DEF HasEnvelope, Idle
<1>9. ASSUME NEW k, OtherFirst(p, k)
      PROVE  Kinds
  <2>1. wire' = wire /\ job' = [job EXCEPT ![p] = [do |-> "republish", arg |-> None]]
    BY <1>9 DEF OtherFirst, Busy
  <2>. QED  BY <2>1 DEF HasEnvelope
<1>. QED  BY <1>1, <1>2, <1>3, <1>4, <1>5, <1>6, <1>7, <1>8, <1>9 DEF Act, Sends, Receives

\* A first message is refused for its prekey when that was used.
LEMMA RefusesUsed ==
  ASSUME PeersHold, OffersInv, NEW p \in Party, Act(p)
  PROVE  \/ refused' = refused
         \/ \E r : refused' = refused \cup {r} /\ Excused(r)
<1>1. ASSUME NEW id \in To(p), NEW d,
             \/ mem[p] # None /\ d = Decrypt(p, mem[p], wire[id], Ephemeral(p))
             \/ d = Decrypt(p, NewSession(wire[id].otk), wire[id], Ephemeral(p)),
             d.why # None
      PROVE  Excused(<<id, d.why>>)
  <2>. PICK s, env, e : /\ env = wire[id] /\ e = Ephemeral(p)
                        /\ s = IF mem[p] # None /\ d = Decrypt(p, mem[p], wire[id], Ephemeral(p)) THEN mem[p]
                               ELSE NewSession(env.otk)
    OBVIOUS
  <2>1. WellSealed(env) /\ env.otk \in KeyPair \cup {None} /\ e \in KeyPair
    BY EphemeralType DEF To, PeersHold, SessionInv, Sealed, WellSealed, EnvelopeType
  <2>2. WellFormed(s)
    BY <2>1, NewType DEF PeersHold, SessionInv, Stored
  <2>3. d.why \in {"unknown-epoch", "duplicate-first", "stale-epoch", "no-session", "too-far",
                   "wrong-key", None}
    <3>1. d = Decrypt(p, s, env, e)
      BY <1>1
    <3>. QED  BY <2>1, <2>2, <3>1, DecryptType
  <2>4. d.why # "no-prekey"
    BY <1>1, <2>3
  <2>. QED  BY <2>4 DEF Excused
<1>2. ASSUME NEW i, ReceiveInSession(p, i)
      PROVE  refused' = refused \/ \E r : refused' = refused \cup {r} /\ Excused(r)
  <2>. PICK id, d : id = mail[p][i] /\ d = Decrypt(p, mem[p], Delivered(p, i), Ephemeral(p))
    OBVIOUS
  <2>1. /\ Delivers(p, i) /\ mem[p] # None
        /\ refused' = refused \/ (d.why # None /\ refused' = refused \cup {<<id, d.why>>})
    BY <1>2 DEF ReceiveInSession, Accept, Refuse
  <2>2. id \in To(p)
    BY <2>1, DeliveredOnWire DEF PeersHold
  <2>. QED  BY <1>1, <2>1, <2>2 DEF Delivered
<1>3. ASSUME NEW i, DropUnknown(p, i)
      PROVE  \E r : refused' = refused \cup {r} /\ Excused(r)
  <2>. PICK id, env : id = mail[p][i] /\ env = wire[id]
    OBVIOUS
  <2>1. /\ Delivers(p, i) /\ mem[p] = None /\ ~FirstContact(p, env)
        /\ refused' = refused \cup {<<id, WhyNotFirst(env)>>}
    BY <1>3 DEF DropUnknown, Delivered, Refuse
  <2>2. id \in To(p) /\ id \in 1..Len(wire) /\ env.from = Peer(p)
    BY <2>1, DeliveredOnWire DEF PeersHold, To
  <2>3. ASSUME env.first
        PROVE  env.otk \in spent
    <3>1. env.otk # None /\ env.otk[2] \notin pool[p]
      BY <2>1, <2>3 DEF FirstContact
    <3>2. Sealed(env) /\ Names(env)
      BY <2>2 DEF PeersHold, SessionInv, OffersInv
    <3>3. env.otk \in KeyPair /\ env.otk[1] = Peer(Peer(p))
      BY <2>2, <2>3, <3>1, <3>2 DEF Sealed, WellSealed, EnvelopeType, Addressed
    <3>4. env.otk = <<p, env.otk[2]>>
      BY <3>3, PeerOfPeer DEF KeyPair
    <3>5. Offered(p, env.otk[2])
      BY <2>3, <3>1, <3>2, <3>4 DEF Names, UsesPrekey
    <3>6. pool[p] = poolFile[p]
      BY <2>1 DEF Delivers, PeersHold, PoolInv, Pools
    <3>. QED  BY <3>1, <3>4, <3>5, <3>6 DEF Offered
  <2>4. Excused(<<id, WhyNotFirst(env)>>)
    BY <2>2, <2>3 DEF Excused, WhyNotFirst
  <2>. QED  BY <2>1, <2>4
<1>4. CASE Establish(p)
  <2>. PICK id, d : id = job[p].arg /\ d = Decrypt(p, NewSession(wire[id].otk), wire[id], Ephemeral(p))
    OBVIOUS
  <2>1. /\ job[p].do = "establish"
        /\ refused' = refused \/ (d.why # None /\ refused' = refused \cup {<<id, d.why>>})
    <3>1. job[p].do = "establish" /\ EstablishSession(p, id)
      BY <1>4 DEF Establish
    <3>2. Accept(p, id) \/ (d.why # None /\ Refuse(id, d.why))
      BY <3>1 DEF EstablishSession
    <3>. QED  BY <3>1, <3>2 DEF Accept, Refuse
  <2>2. id \in To(p)
    BY <2>1 DEF PeersHold, MailInv, OpensFirst, Opening
  <2>. QED  BY <1>1, <2>1, <2>2
<1>5. CASE Load(p) \/ Open(p) \/ Sends(p) \/ Republish(p) \/ Save(p) \/ Rendered(p) \/ Reload(p)
  BY <1>5 DEF Load, Open, Sends, Connect, SendNow, SendAsking, AnswerArrives, PersistText, WriteText, Republish,
              Save, Rendered, Reload, Kill, peerVars, historyVars
<1>6. ASSUME NEW i, ReceiveFirst(p, i)
      PROVE  refused' = refused
  BY <1>6 DEF ReceiveFirst
<1>7. ASSUME NEW k, OtherFirst(p, k)
      PROVE  refused' = refused
  BY <1>7 DEF OtherFirst
<1>. QED  BY <1>2, <1>3, <1>4, <1>5, <1>6, <1>7 DEF Act, Receives

\* So every prekey that is named was offered, and stays so.
LEMMA OffersKeep ==
  ASSUME PeersHold, OffersInv, NEW p \in Party, Act(p)
  PROVE  OffersInv'
<1>0. /\ IsSeq(wire) /\ SessionInv /\ SessionInv' /\ KeyInv' /\ MailInv' /\ Peer(p) \in Party
      /\ spent \subseteq spent' /\ \A q \in Party : \A k : Offered(q, k) => Offered(q, k)'
  BY OfferedStays, StepKeeps, PeerParty DEF PeersHold, MailInv
<1>1. ASSUME NEW env, Sealed(env), Names(env)
      PROVE  Names(env)'
  <2>1. env.otk \in KeyPair \cup {None}
    BY <1>1 DEF Sealed, WellSealed, EnvelopeType
  <2>2. env.otk # None => env.otk[1] \in Party
    BY <2>1 DEF KeyPair
  <2>. QED  BY <1>0, <1>1, <2>2 DEF Names, UsesPrekey
<1>2. /\ \A q \in Party : served'[q] # None => \A k \in served'[q] : Offered(q, k)'
      /\ \A q \in Party : \A i \in 1..Len(answers'[q]) :
           answers'[q][i] # None => \A k \in answers'[q][i] : Offered(Peer(q), k)'
  BY <1>0, ServesOffered, PeerParty
<1>3. wire' = wire \/ \E env : wire' = Append(wire, env) /\ Names(env)
  BY SendsNamed
<1>4. /\ Len(wire) \in Nat /\ 1..Len(wire) \subseteq 1..Len(wire')
      /\ \A i \in 1..Len(wire) : wire'[i] = wire[i]
      /\ \A i \in 1..Len(wire') : Names(wire'[i])
  <2>1. CASE wire' = wire
    BY <1>0, <2>1, LenProperties DEF IsSeq, OffersInv
  <2>2. ASSUME NEW env, wire' = Append(wire, env), Names(env)
        PROVE  /\ Len(wire) \in Nat /\ 1..Len(wire) \subseteq 1..Len(wire')
               /\ \A i \in 1..Len(wire) : wire'[i] = wire[i]
               /\ \A i \in 1..Len(wire') : Names(wire'[i])
    <3>1. /\ Len(wire) \in Nat /\ Len(wire') = Len(wire) + 1 /\ wire'[Len(wire) + 1] = env
          /\ \A i \in 1..Len(wire) : wire'[i] = wire[i]
      BY <1>0, <2>2, AppendSeq
    <3>2. \A i \in 1..Len(wire') : i \in 1..Len(wire) \/ i = Len(wire) + 1
      BY <3>1
    <3>. QED  BY <2>2, <3>1, <3>2 DEF OffersInv
  <2>. QED  BY <1>3, <2>1, <2>2
<1>5. (\A i \in 1..Len(wire) : Names(wire[i]))'
  <2>. SUFFICES ASSUME NEW i \in 1..Len(wire') PROVE (Names(wire[i]))'
    OBVIOUS
  <2>1. PICK env : env = wire'[i]
    OBVIOUS
  <2>2. Sealed(env) /\ Names(env)
    BY <1>0, <1>4, <2>1 DEF SessionInv
  <2>3. Names(env)'
    BY <1>1, <2>2
  <2>. QED  BY <2>1, <2>3 DEF Names, UsesPrekey, Offered
<1>6. (\A q \in Party : HasEnvelope(q) => Names(job[q].arg))'
  <2>. SUFFICES ASSUME NEW q \in Party, HasEnvelope(q)' PROVE (Names(job[q].arg))'
    OBVIOUS
  <2>1. PICK env : env = job'[q].arg
    OBVIOUS
  <2>2. Sealed(env)
    BY <1>0, <2>1 DEF SessionInv
  <2>3. Names(env)
    <3>1. CASE q = p
      BY <2>1, <3>1, SendsNamed
    <3>2. CASE q # p
      <4>1. job'[q] = job[q]
        BY <3>2, OthersUntouched
      <4>. QED  BY <2>1, <4>1 DEF OffersInv, HasEnvelope
    <3>. QED  BY <3>1, <3>2
  <2>4. Names(env)'
    BY <1>1, <2>2, <2>3
  <2>. QED  BY <2>1, <2>4 DEF Names, UsesPrekey, Offered
<1>7. \A r \in refused' : Excused(r)'
  <2>1. ASSUME NEW r, Excused(r)
        PROVE  Excused(r)'
    BY <1>0, <1>4, <2>1 DEF Excused
  <2>2. \A r \in refused' : Excused(r)
    BY RefusesUsed DEF OffersInv
  <2>. QED  BY <2>1, <2>2
<1>. QED  BY <1>2, <1>5, <1>6, <1>7 DEF OffersInv

------------------------------------------------------------------------------

IInv == PeersHold /\ OffersInv /\ \A p \in Party : ServedInv(p) /\ SavedInv(p)

\* The invariant of two messengers, for every instance of the module.
THEOREM Inductive == Spec => []IInv
<1>1. Init => IInv
  <2>. SUFFICES ASSUME Init PROVE IInv
    OBVIOUS
  <2>1. PeersInit
    BY DEF Init
  <2>2. TabInv
    <3>1. <<>> \in Seq((SUBSET Nat) \cup {None})
      BY EmptySeq
    <3>2. active \in [Party -> BOOLEAN]
      BY DEF Init
    <3>. QED  BY <3>1, <3>2 DEF Init, PeersInit, TabInv
  <2>3. PeersHold
    BY <2>1, <2>2, KeyInit, SessionInit, MailInit, PoolInit, ReadInit DEF PeersHold
  <2>4. OffersInv
    <3>1. Len(<<>>) = 0
      BY EmptySeq
    <3>. QED  BY <3>1 DEF Init, PeersInit, OffersInv, HasEnvelope, Idle
  <2>5. \A p \in Party : ServedInv(p) /\ SavedInv(p)
    BY DEF Init, PeersInit, ServedInv, SavedInv
  <2>. QED  BY <2>3, <2>4, <2>5 DEF IInv
<1>2. IInv /\ [Next]_vars => IInv'
  <2>. SUFFICES ASSUME IInv, [Next]_vars PROVE IInv'
    OBVIOUS
  <2>1. CASE Next
    <3>1. PICK p \in Party : Act(p)
      BY <2>1 DEF Next, Act
    <3>2. PeersHold' /\ OffersInv' /\ ServedInv(p)' /\ SavedInv(p)'
      BY <3>1, StepKeeps, OffersKeep, ServedKeeps, SavedKeeps DEF IInv
    <3>3. \A q \in Party \ {p} : ServedInv(q)' /\ SavedInv(q)'
      BY <3>1, OthersUntouched DEF IInv, ServedInv, SavedInv
    <3>. QED  BY <3>2, <3>3 DEF IInv
  <2>2. CASE UNCHANGED vars
    <3>1. /\ UNCHANGED <<up, mem, disk, pool, poolFile, served, job, mail, fresh, made, wire, read, refused, spent>>
          /\ UNCHANGED <<asked, answers, active, rendering>>
      BY <2>2 DEF vars, peerVars, memoryVars, fileVars, relayVars, countVars, historyVars, tabVars
    <3>2. TabInv'
      BY <3>1 DEF IInv, PeersHold, TabInv
    <3>3. PeersHold'
      BY <3>1, <3>2, KeyStutter, SessionStutter, MailStutter, PoolStutter, ReadStutter DEF IInv, PeersHold
    <3>4. OffersInv'
      BY <3>1 DEF IInv, OffersInv, Offered, Names, HasEnvelope, Excused
    <3>5. \A p \in Party : ServedInv(p)' /\ SavedInv(p)'
      BY <3>1 DEF IInv, ServedInv, SavedInv
    <3>. QED  BY <3>3, <3>4, <3>5 DEF IInv
  <2>. QED  BY <2>1, <2>2
<1>. QED  BY <1>1, <1>2, PTL DEF Spec

\* No message key encrypts two envelopes, whenever a tab is reloaded, with the
\* handlers of a message suspended or not.
THEOREM NoKeyReuseAlways == Spec => []NoKeyReuse
<1>1. IInv => NoKeyReuse
  BY DEF IInv, PeersHold, KeyInv
<1>. QED  BY <1>1, Inductive, PTL

\* A one-time prekey opens one envelope only, whenever the tab that used it is
\* reloaded.
THEOREM PrekeyOnceAlways == Spec => []PrekeyOnce
<1>1. IInv => PrekeyOnce
  BY ReadPrekeysOnce DEF IInv, PeersHold
<1>. QED  BY <1>1, Inductive, PTL

\* Between two handlers of a tab the directory offers none of the prekeys it used.
THEOREM ServedUnspentAlways == Spec => []ServedUnspent
<1>1. ASSUME IInv
      PROVE  ServedUnspent
  <2>. SUFFICES ASSUME NEW p \in Party, up[p] = "ready", job[p] = Idle, NEW k \in served[p],
                       <<p, k>> \in spent
                PROVE  FALSE
    BY DEF ServedUnspent
  <2>1. k \in pool[p]
    BY <1>1 DEF IInv, ServedInv, Idle
  <2>2. Pools(p)
    BY <1>1 DEF IInv, PeersHold, PoolInv
  <2>. QED  BY <2>1, <2>2 DEF Pools
<1>2. IInv => ServedUnspent
  BY <1>1
<1>. QED  BY <1>2, Inductive, PTL

\* A first message is refused for its prekey only when that was used, whatever
\* became of the directory's answer it was chosen from.
THEOREM UnusedPrekeysOpenAlways == Spec => []UnusedPrekeysOpen
<1>1. IInv => UnusedPrekeysOpen
  BY DEF IInv, OffersInv, Excused, UnusedPrekeysOpen
<1>. QED  BY <1>1, Inductive, PTL

\* Between two handlers the storage holds the session of the tab, and sessions,
\* mail, reads, pools and answers are of their types.
THEOREM TabsSoundAlways == Spec => []TabsSound
<1>1. IInv => TabTypeOK
  BY TypesFollow DEF IInv, PeersHold, TabInv, TabTypeOK
<1>2. IInv => SavedWhenIdle
  BY DEF IInv, SavedInv, SavedWhenIdle, Idle
<1>3. IInv => TabsSound
  BY <1>1, <1>2 DEF TabsSound
<1>. QED  BY <1>3, Inductive, PTL

=============================================================================
