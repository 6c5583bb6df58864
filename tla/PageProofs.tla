----------------------------- MODULE PageProofs -----------------------------
(***************************************************************************)
(* Proofs about the parts of the pages: the group channels (Group), for    *)
(* every instance of it, and the boot gate, the memory of a chat, the log  *)
(* of attempts, the verdict, the conversations of a tab and base64url, as  *)
(* MCPage puts them side by side, for every value of its constants.        *)
(***************************************************************************)
EXTENDS MCPage, FiniteSetTheorems, FunctionTheorems, SequenceTheorems, WellFoundedInduction, TLAPS

---------------------------------------------------------------------------
(* The group channels.                                                     *)

Envelope == [sender : Member, epoch : Nat, n : Nat, key : Key, commit : CommitOf \cup {None}]

\* The actions of m.
Act(m) ==
  \/ Send(m) \/ Join(m) \/ Reload(m)
  \/ \E a \in Member : Commit(m, a)
  \/ \E i \in 1..Len(mail[m]) : Receive(m, i)

------------------------------------------------------------------------------
(* The operators of GroupSession.                                            *)

\* A function whose value at one argument is replaced by one of its range.
LEMMA UpdateType ==
  ASSUME NEW D, NEW S, NEW f \in [D -> S], NEW x, NEW v \in S
  PROVE  [f EXCEPT ![x] = v] \in [D -> S]
OBVIOUS

\* What is appended to a sequence is its last element, and the others stay.
LEMMA OneMore ==
  ASSUME NEW S, NEW seq \in Seq(S), NEW v \in S
  PROVE  /\ Append(seq, v) \in Seq(S) /\ Len(seq) \in Nat /\ Len(Append(seq, v)) = Len(seq) + 1
         /\ Append(seq, v)[Len(seq) + 1] = v
         /\ \A i \in 1..Len(seq) : Append(seq, v)[i] = seq[i]
         /\ \A i \in 1..Len(Append(seq, v)) : i \in 1..Len(seq) \/ i = Len(seq) + 1
<1>1. Append(seq, v) \in Seq(S) /\ Len(seq) \in Nat /\ Len(Append(seq, v)) = Len(seq) + 1
  BY AppendProperties, LenProperties
<1>2. Append(seq, v)[Len(seq) + 1] = v /\ \A i \in 1..Len(seq) : Append(seq, v)[i] = seq[i]
  BY AppendProperties
<1>. QED  BY <1>1, <1>2

\* Sending moves the counter of a session on by one and leaves the rest.
LEMMA SentFields ==
  ASSUME NEW s \in Session
  PROVE  /\ Sent(s) \in Session
         /\ Sent(s).epoch = s.epoch /\ Sent(s).key = s.key /\ Sent(s).prev = s.prev
         /\ Sent(s).members = s.members /\ Sent(s).seen = s.seen /\ Sent(s).sent = s.sent + 1
<1>. DEFINE n == s.sent + 1
<1>1. n \in Nat
  BY DEF Session
<1>2. Sent(s) = [s EXCEPT !.sent = n]
  BY DEF Sent
<1>. HIDE DEF n
<1>3. Sent(s) \in Session /\ Sent(s).sent = n
  BY <1>1, <1>2 DEF Session
<1>4. /\ Sent(s).epoch = s.epoch /\ Sent(s).key = s.key /\ Sent(s).prev = s.prev
      /\ Sent(s).members = s.members /\ Sent(s).seen = s.seen
  BY <1>2 DEF Session
<1>. QED  BY <1>3, <1>4 DEF n

\* A commit of a later epoch makes the key one longer, keeps the old one, and starts
\* the counter and the guard again.
LEMMA ApplyFields ==
  ASSUME NEW s \in Session, NEW c \in CommitOf, c.to > s.epoch
  PROVE  LET t == ApplyCommit(s, c) IN
         /\ t \in Session /\ t.epoch = c.to /\ t.key = Append(s.key, c) /\ t.prev = s.key
         /\ t.sent = 0 /\ t.seen = {}
<1>1. c.to \in Nat /\ s.epoch \in Nat /\ s.key \in Key /\ c.members \in SUBSET Member
  BY DEF Session, CommitOf
<1>2. ~(c.to <= s.epoch) /\ Append(s.key, c) \in Key
  BY <1>1, OneMore DEF Key
<1>3. ApplyCommit(s, c) = [epoch |-> c.to, key |-> Append(s.key, c), prev |-> s.key,
                           members |-> c.members, sent |-> 0, seen |-> {}]
  BY <1>2 DEF ApplyCommit
<1>. QED  BY <1>1, <1>2, <1>3 DEF Session

\* A welcome carries the epoch and the key of the session it is made of.
LEMMA WelcomeFields ==
  ASSUME NEW s \in Session
  PROVE  WelcomeOf(s) \in Welcome /\ WelcomeOf(s).epoch = s.epoch /\ WelcomeOf(s).key = s.key
BY DEF WelcomeOf, Welcome, Session

\* A session made of a welcome has its epoch and key, has sent and seen nothing.
LEMMA FromFields ==
  ASSUME NEW w \in Welcome
  PROVE  LET s == FromWelcome(w) IN
         /\ s \in Session /\ s.epoch = w.epoch /\ s.key = w.key /\ s.sent = 0 /\ s.seen = {}
BY DEF FromWelcome, Welcome, Session

\* Commit c begins the next epoch of session s; an envelope is put in its guard.
Turns(s, t, c) ==
  t.epoch = c.to /\ t.key = Append(s.key, c) /\ t.prev = s.key /\ t.sent = 0 /\ t.seen = {}

Guards(s, t, env) ==
  /\ t.epoch = s.epoch /\ t.key = s.key /\ t.prev = s.prev /\ t.sent = s.sent
  /\ t.seen = s.seen \cup {<<env.sender, env.epoch, env.n>>}

\* What an envelope that opens leaves behind: its place is in the guard, or a commit
\* has begun a later epoch.
LEMMA HandleFields ==
  ASSUME NEW s \in Session, NEW env \in Envelope
  PROVE  /\ HandleIncoming(s, env) \in Session
         /\ env.commit # None => HandleIncoming(s, env).epoch >= env.commit.to
         /\ \/ Guards(s, HandleIncoming(s, env), env)
            \/ /\ env.commit # None /\ env.commit.to > s.epoch
               /\ Turns(s, HandleIncoming(s, env), env.commit)
<1>. DEFINE opened == [s EXCEPT !.seen = @ \cup {<<env.sender, env.epoch, env.n>>}]
<1>1. /\ opened \in Session /\ opened.epoch = s.epoch /\ opened.key = s.key /\ opened.prev = s.prev
      /\ opened.sent = s.sent /\ opened.seen = s.seen \cup {<<env.sender, env.epoch, env.n>>}
  <2>. DEFINE seen == s.seen \cup {<<env.sender, env.epoch, env.n>>}
  <2>1. opened = [s EXCEPT !.seen = seen] /\ seen \in SUBSET (Member \X Nat \X Nat)
    BY DEF Session, Envelope
  <2>. HIDE DEF opened, seen
  <2>2. opened \in Session /\ opened.seen = seen
    BY <2>1 DEF Session
  <2>3. opened.epoch = s.epoch /\ opened.key = s.key /\ opened.prev = s.prev /\ opened.sent = s.sent
    BY <2>1 DEF Session
  <2>. QED  BY <2>2, <2>3 DEF seen
<1>2. s.epoch \in Nat
  BY DEF Session
<1>3. HandleIncoming(s, env) = IF env.commit = None THEN opened ELSE ApplyCommit(opened, env.commit)
  BY DEF HandleIncoming
<1>. HIDE DEF opened
<1>4. CASE env.commit = None
  BY <1>1, <1>3, <1>4 DEF Guards
<1>5. CASE env.commit # None /\ env.commit.to <= s.epoch
  <2>1. env.commit.to \in Nat
    BY <1>5 DEF Envelope, CommitOf
  <2>2. HandleIncoming(s, env) = opened
    BY <1>1, <1>3, <1>5 DEF ApplyCommit
  <2>. QED  BY <1>1, <1>2, <1>5, <2>1, <2>2 DEF Guards
<1>6. CASE env.commit # None /\ ~(env.commit.to <= s.epoch)
  <2>. PICK c : c = env.commit
    OBVIOUS
  <2>1. c \in CommitOf /\ c.to \in Nat
    BY <1>6 DEF Envelope, CommitOf
  <2>2. c.to > opened.epoch
    BY <1>1, <1>2, <1>6, <2>1
  <2>3. HandleIncoming(s, env) = ApplyCommit(opened, c)
    BY <1>3, <1>6
  <2>4. LET t == ApplyCommit(opened, c) IN
        /\ t \in Session /\ t.epoch = c.to /\ t.key = Append(opened.key, c) /\ t.prev = opened.key
        /\ t.sent = 0 /\ t.seen = {}
    BY <1>1, <2>1, <2>2, ApplyFields
  <2>. QED  BY <1>1, <1>6, <2>1, <2>2, <2>3, <2>4 DEF Turns
<1>. QED  BY <1>4, <1>5, <1>6

------------------------------------------------------------------------------
(* The steps of a member.                                                    *)

Types ==
  /\ session \in [Member -> Session \cup {None}]
  /\ file \in [Member -> Welcome \cup {None}] /\ welcome \in [Member -> Welcome \cup {None}]
  /\ wire \in Seq(Envelope)
  /\ mail \in [Member -> Seq(1..Len(wire))] /\ read \in [Member -> Seq(1..Len(wire))]
  /\ joinedAt \in [Member -> Nat] /\ reloads \in Nat
  /\ refused \subseteq Member \X (1..Len(wire)) \X Nat
  /\ \A m \in Member : session[m] # None => file[m] # None

OthersStay(m) ==
  \A k \in Member \ {m} :
    session'[k] = session[k] /\ file'[k] = file[k] /\ read'[k] = read[k] /\ joinedAt'[k] = joinedAt[k]

\* A welcome of the epoch of session s.
Tells(w, s) == w \in Welcome /\ w.epoch = s.epoch /\ w.key = s.key

\* A text or a commit is written by m.
Counts(s, t) ==
  t.epoch = s.epoch /\ t.key = s.key /\ t.prev = s.prev /\ t.seen = s.seen /\ t.sent = s.sent + 1

FromSession(m, s, env) ==
  env \in Envelope /\ env.sender = m /\ env.epoch = s.epoch /\ env.key = s.key /\ env.n = s.sent + 1

Writes(m) ==
  /\ UNCHANGED <<read, refused, joinedAt, reloads>>
  /\ \E s, t \in Session, env \in Envelope :
       /\ session[m] = s /\ session'[m] = t
       /\ FromSession(m, s, env) /\ wire' = Append(wire, env)
       /\ \/ env.commit = None /\ Counts(s, t)
          \/ /\ env.commit \in CommitOf /\ env.commit.to = s.epoch + 1 /\ Turns(s, t, env.commit)
             /\ m \in Committers /\ Cardinality(Commits) < MaxCommits
       /\ file'[m] = file[m] \/ Tells(file'[m], t)
       /\ \A a \in Member : welcome'[a] = welcome[a] \/ Tells(welcome'[a], t)

\* m reads the i-th of its mail.
Reads(m) ==
  /\ UNCHANGED <<wire, refused, joinedAt, reloads, welcome>>
  /\ \E s, t \in Session, id \in 1..Len(wire) :
       /\ session[m] = s /\ session'[m] = t
       /\ read' = [read EXCEPT ![m] = Append(@, id)]
       /\ Opens(s, wire[id])
       /\ \/ Guards(s, t, wire[id])
          \/ wire[id].commit # None /\ wire[id].commit.to > s.epoch /\ Turns(s, t, wire[id].commit)
       /\ IF wire[id].commit = None THEN file'[m] = file[m]
          ELSE Tells(file'[m], t) /\ t.epoch >= wire[id].commit.to

Drops(m) ==
  /\ UNCHANGED <<session, file, wire, read, joinedAt, reloads, welcome>>
  /\ session[m] # None
  /\ \E id \in 1..Len(wire) :
       /\ refused' = refused \cup {<<m, id, session[m].epoch>>} /\ ~Opens(session[m], wire[id])

Begins(m) ==
  /\ UNCHANGED <<wire, read, refused, reloads, welcome>>
  /\ session[m] = None
  /\ \E w \in Welcome : /\ welcome[m] = w /\ session'[m] = FromWelcome(w) /\ file'[m] = w
                        /\ joinedAt' = [joinedAt EXCEPT ![m] = w.epoch]

Restores(m) ==
  /\ UNCHANGED <<file, wire, read, refused, joinedAt, welcome>>
  /\ reloads < MaxReloads /\ reloads' = reloads + 1 /\ session[m] # None
  /\ \E w \in Welcome : file[m] = w /\ session'[m] = FromWelcome(w)

\* What is sealed under a session is an envelope of that session.
LEMMA EncryptedType ==
  ASSUME NEW m \in Member, NEW s \in Session, NEW c \in CommitOf \cup {None}
  PROVE  FromSession(m, s, Encrypted(m, s, c)) /\ Encrypted(m, s, c).commit = c
<1>1. s.sent + 1 \in Nat
  BY DEF Session
<1>2. Encrypted(m, s, c) \in Envelope
  BY <1>1 DEF Encrypted, Envelope, Session
<1>. QED  BY <1>2 DEF Encrypted, FromSession

\* Every step is one of these.
LEMMA StepKinds ==
  ASSUME Types, NEW m \in Member, Act(m)
  PROVE  /\ OthersStay(m)
         /\ Writes(m) \/ Reads(m) \/ Drops(m) \/ Begins(m) \/ Restores(m)
<1>0. /\ DOMAIN session = Member /\ DOMAIN file = Member /\ DOMAIN welcome = Member /\ DOMAIN joinedAt = Member
      /\ DOMAIN read = Member
      /\ session[m] \in Session \cup {None} /\ file[m] \in Welcome \cup {None}
      /\ welcome[m] \in Welcome \cup {None} /\ wire \in Seq(Envelope) /\ Len(wire) \in Nat
      /\ session[m] # None => file[m] # None
  BY LenProperties DEF Types
<1>. USE <1>0
<1>1. CASE Send(m)
  <2>. PICK s, t, env : s = session[m] /\ t = Sent(s) /\ env = Encrypted(m, s, None)
    OBVIOUS
  <2>1. /\ s # None /\ session' = [session EXCEPT ![m] = t] /\ file' = [file EXCEPT ![m] = WelcomeOf(session'[m])]
        /\ wire' = Append(wire, env) /\ UNCHANGED <<welcome, read, refused, joinedAt, reloads>>
    BY <1>1 DEF Send, FanOut
  <2>2. s \in Session /\ t \in Session /\ Counts(s, t)
    BY <2>1, SentFields DEF Counts
  <2>3. FromSession(m, s, env) /\ env.commit = None
    BY <2>2, EncryptedType
  <2>4. session'[m] = t /\ Tells(file'[m], t)
    BY <2>1, <2>2, WelcomeFields DEF Tells
  <2>. QED  BY <2>1, <2>2, <2>3, <2>4 DEF Writes, OthersStay, FromSession
<1>2. ASSUME NEW a \in Member, Commit(m, a)
      PROVE  OthersStay(m) /\ Writes(m)
  <2>. PICK s, c : /\ s = session[m]
                   /\ c = [to |-> s.epoch + 1, secret |-> Len(wire) + 1, members |-> s.members \cup {a}]
    OBVIOUS
  <2>. PICK t, env : t = ApplyCommit(Sent(s), c) /\ env = Encrypted(m, s, c)
    OBVIOUS
  <2>1. /\ s # None /\ session' = [session EXCEPT ![m] = t] /\ welcome' = [welcome EXCEPT ![a] = WelcomeOf(t)]
        /\ wire' = Append(wire, env) /\ UNCHANGED <<file, read, refused, joinedAt, reloads>>
        /\ m \in Committers /\ Cardinality(Commits) < MaxCommits
    BY <1>2 DEF Commit, FanOut
  <2>2. s \in Session /\ s.epoch \in Nat /\ s.members \in SUBSET Member
    BY <2>1 DEF Session
  <2>3. c \in CommitOf /\ c.to = s.epoch + 1
    BY <2>2 DEF CommitOf
  <2>4. t \in Session /\ Turns(s, t, c)
    <3>. PICK u : u = Sent(s)
      OBVIOUS
    <3>1. u \in Session /\ u.epoch = s.epoch /\ u.key = s.key
      BY <2>2, SentFields
    <3>2. c.to > u.epoch
      BY <2>2, <2>3, <3>1
    <3>3. LET v == ApplyCommit(u, c) IN
          /\ v \in Session /\ v.epoch = c.to /\ v.key = Append(u.key, c) /\ v.prev = u.key
          /\ v.sent = 0 /\ v.seen = {}
      BY <2>3, <3>1, <3>2, ApplyFields
    <3>. QED  BY <3>1, <3>3 DEF Turns
  <2>5. FromSession(m, s, env) /\ env.commit = c
    BY <2>2, <2>3, EncryptedType
  <2>6. session'[m] = t /\ \A b \in Member : welcome'[b] = welcome[b] \/ Tells(welcome'[b], t)
    BY <2>1, <2>4, WelcomeFields DEF Tells
  <2>7. OthersStay(m)
    BY <2>1 DEF OthersStay
  <2>8. env.commit \in CommitOf /\ env.commit.to = s.epoch + 1 /\ Turns(s, t, env.commit)
    BY <2>3, <2>4, <2>5
  <2>9. env \in Envelope
    BY <2>5 DEF FromSession
  <2>10. Writes(m)
    BY <2>1, <2>2, <2>4, <2>5, <2>6, <2>8, <2>9 DEF Writes
  <2>. QED  BY <2>7, <2>10
<1>3. CASE Join(m)
  <2>1. welcome[m] \in Welcome
    BY <1>3 DEF Join
  <2>. QED  BY <1>3, <2>1 DEF Join, Begins, OthersStay
<1>4. CASE Reload(m)
  <2>1. file[m] \in Welcome
    BY <1>4 DEF Reload
  <2>. QED  BY <1>4, <2>1 DEF Reload, Restores, OthersStay
<1>5. ASSUME NEW i \in 1..Len(mail[m]), Receive(m, i)
      PROVE  OthersStay(m) /\ (Reads(m) \/ Drops(m))
  <2>. PICK s, id : s = session[m] /\ id = mail[m][i]
    OBVIOUS
  <2>. PICK env : env = wire[id]
    OBVIOUS
  <2>1. id \in 1..Len(wire) /\ s \in Session /\ env \in Envelope /\ s # None
    <3>1. mail[m] \in Seq(1..Len(wire))
      BY DEF Types
    <3>2. id \in 1..Len(wire)
      BY <3>1, ElementOfSeq
    <3>. QED  BY <1>5, <3>2, ElementOfSeq DEF Receive
  <2>2. CASE Opens(s, env) /\ session' = [session EXCEPT ![m] = HandleIncoming(@, env)]
             /\ SaveCommit(m, env) /\ read' = [read EXCEPT ![m] = Append(@, id)] /\ refused' = refused
    <3>. PICK t : t = HandleIncoming(s, env)
      OBVIOUS
    <3>1. /\ t \in Session /\ (env.commit # None => t.epoch >= env.commit.to)
          /\ Guards(s, t, env) \/ (env.commit # None /\ env.commit.to > s.epoch /\ Turns(s, t, env.commit))
      BY <2>1, HandleFields
    <3>2. session'[m] = t
      BY <2>2
    <3>3. IF env.commit = None THEN file' = file ELSE file' = [file EXCEPT ![m] = WelcomeOf(t)]
      BY <2>2, <3>2 DEF SaveCommit
    <3>4. IF env.commit = None THEN file'[m] = file[m] ELSE Tells(file'[m], t) /\ t.epoch >= env.commit.to
      BY <3>1, <3>3, WelcomeFields DEF Tells
    <3>5. UNCHANGED <<wire, refused, joinedAt, reloads, welcome>>
      BY <1>5, <2>2 DEF Receive
    <3>6. OthersStay(m)
      BY <2>2, <3>3, <3>5 DEF OthersStay
    <3>. QED  BY <2>1, <2>2, <3>1, <3>2, <3>4, <3>5, <3>6 DEF Reads
  <2>3. CASE ~Opens(s, env) /\ refused' = refused \cup {<<m, id, s.epoch>>} /\ UNCHANGED <<session, file, read>>
    <3>1. UNCHANGED <<wire, joinedAt, reloads, welcome>>
      BY <1>5 DEF Receive
    <3>. QED  BY <2>1, <2>3, <3>1 DEF Drops, OthersStay
  <2>. QED  BY <1>5, <2>2, <2>3 DEF Receive
<1>. QED  BY <1>1, <1>2, <1>3, <1>4, <1>5 DEF Act

------------------------------------------------------------------------------
(* Types.                                                                    *)

\* A sequence over a set is one over every larger set.
LEMMA SeqWiden ==
  ASSUME NEW S, NEW T, S \subseteq T, NEW seq \in Seq(S)
  PROVE  seq \in Seq(T)
<1>1. Len(seq) \in Nat /\ seq \in [1..Len(seq) -> S]
  BY LenProperties
<1>2. seq \in [1..Len(seq) -> T]
  BY <1>1
<1>. QED  BY <1>1, <1>2, SeqDef

\* Every step leaves functions of the members behind, and mail that is on the wire.
LEMMA Shapes ==
  ASSUME Types, NEW m \in Member, Act(m)
  PROVE  /\ session' = [k \in Member |-> session'[k]] /\ file' = [k \in Member |-> file'[k]]
         /\ welcome' = [k \in Member |-> welcome'[k]] /\ joinedAt' = [k \in Member |-> joinedAt'[k]]
         /\ read' = [k \in Member |-> read'[k]]
         /\ mail' \in [Member -> Seq(1..Len(wire'))]
<1>0. /\ session = [k \in Member |-> session[k]] /\ file = [k \in Member |-> file[k]]
      /\ welcome = [k \in Member |-> welcome[k]] /\ joinedAt = [k \in Member |-> joinedAt[k]]
      /\ read = [k \in Member |-> read[k]] /\ mail \in [Member -> Seq(1..Len(wire))]
      /\ Len(wire) \in Nat
  BY LenProperties DEF Types
<1>1. ASSUME NEW env, FanOut(env)
      PROVE  mail' \in [Member -> Seq(1..Len(wire'))]
  <2>1. Len(wire') = Len(wire) + 1 /\ mail' = [k \in Member |-> IF k \in Subscribed THEN Append(mail[k], Len(wire) + 1) ELSE mail[k]]
    <3>1. wire' = Append(wire, env) /\ wire \in Seq(Envelope)
      BY <1>1 DEF FanOut, Types
    <3>2. wire \in Seq(Envelope \cup {env})
      BY <3>1, SeqWiden
    <3>3. Len(Append(wire, env)) = Len(wire) + 1
      BY <3>2, OneMore
    <3>. QED  BY <1>1, <3>1, <3>3 DEF FanOut
  <2>2. ASSUME NEW k \in Member
        PROVE  (IF k \in Subscribed THEN Append(mail[k], Len(wire) + 1) ELSE mail[k]) \in Seq(1..Len(wire'))
    <3>1. mail[k] \in Seq(1..Len(wire))
      BY <1>0
    <3>2. 1..Len(wire) \subseteq 1..Len(wire') /\ Len(wire) + 1 \in 1..Len(wire')
      BY <1>0, <2>1
    <3>3. mail[k] \in Seq(1..Len(wire'))
      BY <3>1, <3>2, SeqWiden
    <3>4. Append(mail[k], Len(wire) + 1) \in Seq(1..Len(wire'))
      BY <3>2, <3>3, AppendProperties
    <3>. QED  BY <3>3, <3>4
  <2>. QED  BY <2>1, <2>2
<1>2. CASE Send(m)
  <2>1. PICK env : FanOut(env)
    BY <1>2 DEF Send
  <2>. QED  BY <1>0, <1>1, <1>2, <2>1 DEF Send
<1>3. ASSUME NEW a \in Member, Commit(m, a)
      PROVE  /\ session' = [k \in Member |-> session'[k]] /\ welcome' = [k \in Member |-> welcome'[k]]
             /\ UNCHANGED <<file, joinedAt, read>> /\ mail' \in [Member -> Seq(1..Len(wire'))]
  <2>1. PICK env, after : /\ FanOut(env) /\ session' = [session EXCEPT ![m] = after]
                          /\ welcome' = [welcome EXCEPT ![a] = WelcomeOf(after)]
    BY <1>3 DEF Commit
  <2>. QED  BY <1>0, <1>1, <1>3, <2>1 DEF Commit
<1>4. CASE Join(m)
  BY <1>0, <1>4 DEF Join
<1>5. CASE Reload(m)
  BY <1>0, <1>5 DEF Reload
<1>6. ASSUME NEW i \in 1..Len(mail[m]), Receive(m, i)
      PROVE  /\ session' = [k \in Member |-> session'[k]] /\ file' = [k \in Member |-> file'[k]]
             /\ read' = [k \in Member |-> read'[k]]
             /\ UNCHANGED <<welcome, joinedAt>> /\ mail' \in [Member -> Seq(1..Len(wire'))]
  <2>1. mail' = (IF Channel = "replay" THEN mail ELSE [mail EXCEPT ![m] = Tail(@)]) /\ wire' = wire
        /\ UNCHANGED <<welcome, joinedAt>>
    BY <1>6 DEF Receive
  <2>2. mail[m] \in Seq(1..Len(wire)) /\ mail[m] # <<>>
    BY <1>0, <1>6, EmptySeq
  <2>3. Tail(mail[m]) \in Seq(1..Len(wire))
    BY <2>2, HeadTailProperties
  <2>4. mail' \in [Member -> Seq(1..Len(wire'))]
    BY <1>0, <2>1, <2>3, UpdateType
  <2>5. /\ session' = session \/ \E v : session' = [session EXCEPT ![m] = v]
        /\ file' = file \/ \E v : file' = [file EXCEPT ![m] = v]
        /\ read' = read \/ \E v : read' = [read EXCEPT ![m] = v]
    BY <1>6 DEF Receive, SaveCommit
  <2>. QED  BY <1>0, <2>1, <2>4, <2>5
<1>. QED  BY <1>0, <1>2, <1>3, <1>4, <1>5, <1>6 DEF Act

Grows(env) ==
  /\ Len(wire) \in Nat /\ Len(wire') = Len(wire) + 1 /\ wire'[Len(wire) + 1] = env
  /\ \A i \in 1..Len(wire) : wire'[i] = wire[i] /\ i \in 1..Len(wire')
  /\ \A i \in 1..Len(wire') : i \in 1..Len(wire) \/ i = Len(wire) + 1

\* The wire keeps what it has.
LEMMA WireGrows ==
  ASSUME wire \in Seq(Envelope), NEW env \in Envelope, wire' = Append(wire, env)
  PROVE  Grows(env)
<1>1. /\ Len(wire) \in Nat /\ Len(Append(wire, env)) = Len(wire) + 1
      /\ Append(wire, env)[Len(wire) + 1] = env
      /\ \A i \in 1..Len(wire) : Append(wire, env)[i] = wire[i]
  BY OneMore
<1>2. Len(wire) \in Nat /\ Len(wire') = Len(wire) + 1 /\ wire'[Len(wire) + 1] = env
  BY <1>1
<1>3. \A i \in 1..Len(wire) : wire'[i] = wire[i] /\ i \in 1..Len(wire')
  BY <1>1
<1>4. \A i \in 1..Len(wire') : i \in 1..Len(wire) \/ i = Len(wire) + 1
  BY <1>2
<1>. QED  BY <1>2, <1>3, <1>4 DEF Grows

\* Types are kept.
LEMMA TypesKeep ==
  ASSUME Types, NEW m \in Member, Act(m)
  PROVE  Types'
<1>0. /\ session \in [Member -> Session \cup {None}] /\ file \in [Member -> Welcome \cup {None}]
      /\ welcome \in [Member -> Welcome \cup {None}] /\ wire \in Seq(Envelope)
      /\ read \in [Member -> Seq(1..Len(wire))] /\ joinedAt \in [Member -> Nat] /\ reloads \in Nat
      /\ refused \subseteq Member \X (1..Len(wire)) \X Nat
      /\ \A k \in Member : session[k] # None => file[k] # None
      /\ Len(wire) \in Nat
  BY LenProperties DEF Types
<1>1. /\ session' = [k \in Member |-> session'[k]] /\ file' = [k \in Member |-> file'[k]]
      /\ welcome' = [k \in Member |-> welcome'[k]] /\ joinedAt' = [k \in Member |-> joinedAt'[k]]
      /\ read' = [k \in Member |-> read'[k]]
      /\ mail' \in [Member -> Seq(1..Len(wire'))]
  BY Shapes
<1>2. OthersStay(m) /\ (Writes(m) \/ Reads(m) \/ Drops(m) \/ Begins(m) \/ Restores(m))
  BY StepKinds
<1>. DEFINE Good ==
       /\ session'[m] \in Session \cup {None} /\ file'[m] \in Welcome \cup {None}
       /\ session'[m] # None => file'[m] # None
       /\ \A k \in Member : welcome'[k] \in Welcome \cup {None}
       /\ wire' \in Seq(Envelope) /\ read'[m] \in Seq(1..Len(wire')) /\ 1..Len(wire) \subseteq 1..Len(wire')
       /\ joinedAt'[m] \in Nat /\ reloads' \in Nat
       /\ refused' \subseteq Member \X (1..Len(wire')) \X Nat
<1>. HIDE DEF Good
<1>3. ASSUME Writes(m) PROVE Good
  <2>1. PICK s \in Session, t \in Session, env \in Envelope :
             /\ session[m] = s /\ session'[m] = t /\ wire' = Append(wire, env)
             /\ file'[m] = file[m] \/ Tells(file'[m], t)
             /\ \A a \in Member : welcome'[a] = welcome[a] \/ Tells(welcome'[a], t)
    BY <1>3 DEF Writes
  <2>2. UNCHANGED <<read, refused, joinedAt, reloads>>
    BY <1>3 DEF Writes
  <2>3. wire' \in Seq(Envelope) /\ 1..Len(wire) \subseteq 1..Len(wire')
    BY <1>0, <2>1, WireGrows, AppendProperties DEF Grows
  <2>4. read'[m] \in Seq(1..Len(wire')) /\ refused' \subseteq Member \X (1..Len(wire')) \X Nat
    <3>1. read[m] \in Seq(1..Len(wire))
      BY <1>0
    <3>2. read[m] \in Seq(1..Len(wire'))
      BY <2>3, <3>1, SeqWiden
    <3>3. Member \X (1..Len(wire)) \X Nat \subseteq Member \X (1..Len(wire')) \X Nat
      BY <2>3
    <3>. QED  BY <1>0, <2>2, <3>2, <3>3
  <2>5. file[m] # None /\ file'[m] \in Welcome /\ \A a \in Member : welcome'[a] \in Welcome \cup {None}
    BY <1>0, <2>1, NoneIsNothing DEF Tells
  <2>. QED  BY <1>0, <2>1, <2>2, <2>3, <2>4, <2>5, NoneIsNothing DEF Good
<1>4. ASSUME Reads(m) PROVE Good
  <2>1. PICK s \in Session, t \in Session, id \in 1..Len(wire) :
             /\ session[m] = s /\ session'[m] = t /\ read' = [read EXCEPT ![m] = Append(@, id)]
             /\ IF wire[id].commit = None THEN file'[m] = file[m] ELSE Tells(file'[m], t)
    BY <1>4 DEF Reads
  <2>2. UNCHANGED <<wire, refused, joinedAt, reloads, welcome>>
    BY <1>4 DEF Reads
  <2>3. read'[m] \in Seq(1..Len(wire'))
    BY <1>0, <2>1, <2>2, AppendProperties
  <2>4. file[m] # None /\ file'[m] \in Welcome
    BY <1>0, <2>1, NoneIsNothing DEF Tells
  <2>. QED  BY <1>0, <2>1, <2>2, <2>3, <2>4, NoneIsNothing DEF Good
<1>5. ASSUME Drops(m) PROVE Good
  <2>1. PICK id \in 1..Len(wire) : refused' = refused \cup {<<m, id, session[m].epoch>>}
    BY <1>5 DEF Drops
  <2>2. UNCHANGED <<session, file, wire, read, joinedAt, reloads, welcome>> /\ session[m] # None
    BY <1>5 DEF Drops
  <2>3. session[m].epoch \in Nat
    BY <1>0, <2>2 DEF Session
  <2>4. <<m, id, session[m].epoch>> \in Member \X (1..Len(wire)) \X Nat
    BY <2>1, <2>3
  <2>5. refused' \subseteq Member \X (1..Len(wire')) \X Nat
    BY <1>0, <2>1, <2>2, <2>4
  <2>. QED  BY <1>0, <2>2, <2>5 DEF Good
<1>6. ASSUME Begins(m) PROVE Good
  <2>1. PICK w \in Welcome : /\ session'[m] = FromWelcome(w) /\ file'[m] = w
                             /\ joinedAt' = [joinedAt EXCEPT ![m] = w.epoch]
    BY <1>6 DEF Begins
  <2>2. UNCHANGED <<wire, read, refused, reloads, welcome>>
    BY <1>6 DEF Begins
  <2>3. session'[m] \in Session /\ w.epoch \in Nat
    BY <2>1, FromFields DEF Welcome
  <2>4. joinedAt'[m] = w.epoch
    BY <1>0, <2>1
  <2>. QED  BY <1>0, <2>1, <2>2, <2>3, <2>4, NoneIsNothing DEF Good
<1>7. ASSUME Restores(m) PROVE Good
  <2>1. PICK w \in Welcome : file[m] = w /\ session'[m] = FromWelcome(w)
    BY <1>7 DEF Restores
  <2>2. UNCHANGED <<file, wire, read, refused, joinedAt, welcome>> /\ reloads' = reloads + 1
    BY <1>7 DEF Restores
  <2>3. session'[m] \in Session
    BY <2>1, FromFields
  <2>. QED  BY <1>0, <2>1, <2>2, <2>3, NoneIsNothing DEF Good
<1>8. Good
  BY <1>2, <1>3, <1>4, <1>5, <1>6, <1>7
<1>9. ASSUME NEW k \in Member
      PROVE  /\ session'[k] \in Session \cup {None} /\ file'[k] \in Welcome \cup {None}
             /\ session'[k] # None => file'[k] # None
             /\ read'[k] \in Seq(1..Len(wire')) /\ joinedAt'[k] \in Nat
  <2>1. CASE k = m
    BY <1>8, <2>1 DEF Good
  <2>2. CASE k # m
    <3>1. session'[k] = session[k] /\ file'[k] = file[k] /\ read'[k] = read[k] /\ joinedAt'[k] = joinedAt[k]
      BY <1>2, <2>2 DEF OthersStay
    <3>2. read[k] \in Seq(1..Len(wire)) /\ 1..Len(wire) \subseteq 1..Len(wire')
      BY <1>0, <1>8 DEF Good
    <3>3. read[k] \in Seq(1..Len(wire'))
      BY <3>2, SeqWiden
    <3>. QED  BY <1>0, <3>1, <3>3
  <2>. QED  BY <2>1, <2>2
<1>10. /\ session' \in [Member -> Session \cup {None}] /\ file' \in [Member -> Welcome \cup {None}]
       /\ welcome' \in [Member -> Welcome \cup {None}]
  BY <1>1, <1>8, <1>9 DEF Good
<1>11. read' \in [Member -> Seq(1..Len(wire'))] /\ joinedAt' \in [Member -> Nat]
  BY <1>1, <1>9
<1>. QED  BY <1>1, <1>8, <1>9, <1>10, <1>11 DEF Types, Good

\* What was sent, and what was read, stays.
LEMMA WireStays ==
  ASSUME Types, NEW m \in Member, Act(m)
  PROVE  Len(wire) \in Nat /\ \A i \in 1..Len(wire) : i \in 1..Len(wire') /\ wire'[i] = wire[i]
<1>1. wire \in Seq(Envelope) /\ Len(wire) \in Nat
  BY LenProperties DEF Types
<1>2. Writes(m) \/ wire' = wire
  BY StepKinds DEF Reads, Drops, Begins, Restores
<1>3. ASSUME Writes(m) PROVE \A i \in 1..Len(wire) : i \in 1..Len(wire') /\ wire'[i] = wire[i]
  <2>1. PICK env \in Envelope : wire' = Append(wire, env)
    BY <1>3 DEF Writes
  <2>. QED  BY <1>1, <2>1, WireGrows DEF Grows
<1>. QED  BY <1>1, <1>2, <1>3

\* What was read stays read; a step reads at most one envelope more, for its member.
LEMMA ReadStays ==
  ASSUME Types, NEW m \in Member, Act(m), NEW k \in Member
  PROVE  /\ Len(read[k]) \in Nat
         /\ \A i \in 1..Len(read[k]) : /\ i \in 1..Len(read'[k]) /\ read'[k][i] = read[k][i]
                                       /\ read[k][i] \in 1..Len(wire)
         /\ \/ read'[k] = read[k]
            \/ /\ k = m /\ Reads(m) /\ Len(read'[m]) = Len(read[m]) + 1
               /\ \A i \in 1..Len(read'[m]) : i \in 1..Len(read[m]) \/ i = Len(read[m]) + 1
<1>1. read \in [Member -> Seq(1..Len(wire))]
  BY DEF Types
<1>2. /\ Len(read[k]) \in Nat
      /\ \A i \in 1..Len(read[k]) : read[k][i] \in 1..Len(wire)
  BY <1>1, LenProperties, ElementOfSeq
<1>3. read'[k] = read[k] \/ (k = m /\ Reads(m))
  <2>1. CASE k # m
    BY <2>1, StepKinds DEF OthersStay
  <2>2. CASE k = m
    BY <2>2, StepKinds DEF Writes, Drops, Begins, Restores
  <2>. QED  BY <2>1, <2>2
<1>4. ASSUME k = m, Reads(m)
      PROVE  /\ Len(read'[m]) = Len(read[m]) + 1
             /\ \A i \in 1..Len(read'[m]) : i \in 1..Len(read[m]) \/ i = Len(read[m]) + 1
             /\ \A i \in 1..Len(read[m]) : i \in 1..Len(read'[m]) /\ read'[m][i] = read[m][i]
  <2>1. PICK id \in 1..Len(wire) : read' = [read EXCEPT ![m] = Append(@, id)]
    BY <1>4 DEF Reads
  <2>2. PICK seq \in Seq(1..Len(wire)) : seq = read[m]
    BY <1>1
  <2>3. read'[m] = Append(seq, id)
    BY <1>1, <2>1, <2>2
  <2>4. /\ Len(seq) \in Nat /\ Len(Append(seq, id)) = Len(seq) + 1
        /\ \A i \in 1..Len(seq) : Append(seq, id)[i] = seq[i]
        /\ \A i \in 1..Len(Append(seq, id)) : i \in 1..Len(seq) \/ i = Len(seq) + 1
    BY OneMore
  <2>5. \A i \in 1..Len(seq) : i \in 1..Len(Append(seq, id))
    BY <2>4
  <2>. QED  BY <2>2, <2>3, <2>4, <2>5
<1>. QED  BY <1>2, <1>3, <1>4

------------------------------------------------------------------------------
(* Keys.                                                                     *)

\* Key k is that of epoch e: its elements are commits of wire w, one for each epoch.
KeyOn(w, k, e) ==
  Len(k) = e /\ \A i \in 1..Len(k) : k[i].to = i /\ \E j \in 1..Len(w) : w[j].commit = k[i]

Keyed ==
  /\ \A m \in Member :
       /\ session[m] # None => KeyOn(wire, session[m].key, session[m].epoch)
       /\ file[m] # None => KeyOn(wire, file[m].key, file[m].epoch)
       /\ welcome[m] # None => KeyOn(wire, welcome[m].key, welcome[m].epoch)
  /\ \A j \in 1..Len(wire) :
       /\ KeyOn(wire, wire[j].key, wire[j].epoch)
       /\ wire[j].commit # None => wire[j].commit.to = wire[j].epoch + 1

\* A key on the wire stays on it when the wire grows.
LEMMA KeyStays ==
  ASSUME NEW w, NEW v, \A i \in 1..Len(w) : i \in 1..Len(v) /\ v[i] = w[i],
         NEW k, NEW e, KeyOn(w, k, e)
  PROVE  KeyOn(v, k, e)
BY DEF KeyOn

\* A key on the wire that a commit of the wire extends is on the wire, of the next epoch.
LEMMA KeyGrows ==
  ASSUME NEW w, NEW k \in Key, NEW e \in Nat, KeyOn(w, k, e), NEW c \in CommitOf, c.to = e + 1,
         NEW j \in 1..Len(w), w[j].commit = c
  PROVE  KeyOn(w, Append(k, c), e + 1)
<1>1. /\ Len(k) \in Nat /\ Len(Append(k, c)) = Len(k) + 1 /\ Append(k, c)[Len(k) + 1] = c
      /\ \A i \in 1..Len(k) : Append(k, c)[i] = k[i]
      /\ \A i \in 1..Len(Append(k, c)) : i \in 1..Len(k) \/ i = Len(k) + 1
  BY OneMore DEF Key
<1>2. Len(k) = e /\ \A i \in 1..Len(k) : k[i].to = i /\ \E l \in 1..Len(w) : w[l].commit = k[i]
  BY DEF KeyOn
<1>3. ASSUME NEW i \in 1..Len(Append(k, c))
      PROVE  Append(k, c)[i].to = i /\ \E l \in 1..Len(w) : w[l].commit = Append(k, c)[i]
  <2>1. CASE i \in 1..Len(k)
    BY <1>1, <1>2, <2>1
  <2>2. CASE i = Len(k) + 1
    BY <1>1, <1>2, <2>2
  <2>. QED  BY <1>1, <2>1, <2>2
<1>. QED  BY <1>1, <1>2, <1>3 DEF KeyOn

\* An envelope that opens, and begins a later epoch, begins the next one.
LEMMA OpensNext ==
  ASSUME NEW s \in Session, NEW env \in Envelope, Opens(s, env)
  PROVE  /\ env.epoch \in Nat /\ s.epoch \in Nat /\ (env.epoch = s.epoch \/ env.epoch + 1 = s.epoch)
         /\ ~Seen(s, env)
         /\ env.commit # None /\ env.commit.to = env.epoch + 1 /\ env.commit.to > s.epoch
              => env.epoch = s.epoch /\ env.commit.to = s.epoch + 1
<1>1. env.epoch \in Nat /\ s.epoch \in Nat
  BY DEF Envelope, Session
<1>2. env.epoch = s.epoch \/ env.epoch + 1 = s.epoch
  BY DEF Opens, KeyFor
<1>. QED  BY <1>1, <1>2 DEF Opens

\* Keys and epochs keep pace: a session moves to the next epoch only with the commit
\* that names it.
LEMMA KeyedKeep ==
  ASSUME Types, Keyed, NEW m \in Member, Act(m)
  PROVE  Keyed'
<1>0. /\ session \in [Member -> Session \cup {None}] /\ file \in [Member -> Welcome \cup {None}]
      /\ welcome \in [Member -> Welcome \cup {None}] /\ wire \in Seq(Envelope)
      /\ \A k \in Member : session[k] # None => file[k] # None
  BY DEF Types
<1>1. \A k, e : KeyOn(wire, k, e) => KeyOn(wire', k, e)
  BY WireStays, KeyStays
<1>2. \A k \in Member : /\ session[k] # None => KeyOn(wire', session[k].key, session[k].epoch)
                        /\ file[k] # None => KeyOn(wire', file[k].key, file[k].epoch)
                        /\ welcome[k] # None => KeyOn(wire', welcome[k].key, welcome[k].epoch)
  BY <1>1 DEF Keyed
<1>3. \A j \in 1..Len(wire) : /\ KeyOn(wire', wire[j].key, wire[j].epoch)
                              /\ wire[j].commit # None => wire[j].commit.to = wire[j].epoch + 1
  BY <1>1 DEF Keyed
<1>. DEFINE Good ==
       /\ session'[m] # None => KeyOn(wire', session'[m].key, session'[m].epoch)
       /\ file'[m] # None => KeyOn(wire', file'[m].key, file'[m].epoch)
       /\ \A k \in Member : welcome'[k] # None => KeyOn(wire', welcome'[k].key, welcome'[k].epoch)
       /\ \A j \in 1..Len(wire') :
            /\ KeyOn(wire', wire'[j].key, wire'[j].epoch)
            /\ wire'[j].commit # None => wire'[j].commit.to = wire'[j].epoch + 1
<1>. HIDE DEF Good
<1>4. \A w, t : Tells(w, t) /\ KeyOn(wire', t.key, t.epoch) => KeyOn(wire', w.key, w.epoch)
  BY DEF Tells
<1>5. ASSUME Writes(m) PROVE Good
  <2>1. PICK s \in Session, t \in Session, env \in Envelope :
             /\ session[m] = s /\ session'[m] = t
             /\ FromSession(m, s, env) /\ wire' = Append(wire, env)
             /\ \/ env.commit = None /\ Counts(s, t)
                \/ env.commit \in CommitOf /\ env.commit.to = s.epoch + 1 /\ Turns(s, t, env.commit)
             /\ file'[m] = file[m] \/ Tells(file'[m], t)
             /\ \A a \in Member : welcome'[a] = welcome[a] \/ Tells(welcome'[a], t)
    BY <1>5 DEF Writes
  <2>2. Grows(env) /\ Len(wire) + 1 \in 1..Len(wire')
    BY <1>0, <2>1, WireGrows DEF Grows
  <2>3. s # None /\ KeyOn(wire', s.key, s.epoch) /\ s.epoch \in Nat /\ s.key \in Key
    BY <1>2, <2>1, NoneIsNothing DEF Session
  <2>4. KeyOn(wire', t.key, t.epoch)
    <3>1. CASE env.commit = None /\ Counts(s, t)
      BY <2>3, <3>1 DEF Counts
    <3>2. CASE env.commit \in CommitOf /\ env.commit.to = s.epoch + 1 /\ Turns(s, t, env.commit)
      <4>. PICK c : c = env.commit
        OBVIOUS
      <4>. PICK j, w : j = Len(wire) + 1 /\ w = wire'
        OBVIOUS
      <4>1. j \in 1..Len(w) /\ w[j].commit = c
        BY <2>2 DEF Grows
      <4>2. KeyOn(w, Append(s.key, c), s.epoch + 1)
        BY <2>3, <3>2, <4>1, KeyGrows
      <4>. QED  BY <3>2, <4>2 DEF Turns
    <3>. QED  BY <2>1, <3>1, <3>2
  <2>5. file'[m] # None => KeyOn(wire', file'[m].key, file'[m].epoch)
    BY <1>2, <1>4, <2>1, <2>4
  <2>6. \A k \in Member : welcome'[k] # None => KeyOn(wire', welcome'[k].key, welcome'[k].epoch)
    BY <1>2, <1>4, <2>1, <2>4
  <2>7. ASSUME NEW j \in 1..Len(wire')
        PROVE  /\ KeyOn(wire', wire'[j].key, wire'[j].epoch)
               /\ wire'[j].commit # None => wire'[j].commit.to = wire'[j].epoch + 1
    <3>1. CASE j \in 1..Len(wire)
      <4>1. wire'[j] = wire[j]
        BY <2>2, <3>1 DEF Grows
      <4>. QED  BY <1>3, <3>1, <4>1
    <3>2. CASE j = Len(wire) + 1
      <4>1. wire'[j] = env
        BY <2>2, <3>2 DEF Grows
      <4>2. KeyOn(wire', env.key, env.epoch) /\ (env.commit # None => env.commit.to = env.epoch + 1)
        BY <2>1, <2>3 DEF FromSession
      <4>. QED  BY <4>1, <4>2
    <3>. QED  BY <2>2, <3>1, <3>2 DEF Grows
  <2>. QED  BY <2>1, <2>4, <2>5, <2>6, <2>7 DEF Good
<1>6. ASSUME Reads(m) PROVE Good
  <2>1. PICK s \in Session, t \in Session, id \in 1..Len(wire) :
             /\ session[m] = s /\ session'[m] = t
             /\ Opens(s, wire[id])
             /\ \/ Guards(s, t, wire[id])
                \/ wire[id].commit # None /\ wire[id].commit.to > s.epoch /\ Turns(s, t, wire[id].commit)
             /\ IF wire[id].commit = None THEN file'[m] = file[m] ELSE Tells(file'[m], t)
    BY <1>6 DEF Reads
  <2>2. UNCHANGED <<wire, welcome>>
    BY <1>6 DEF Reads
  <2>3. s # None /\ KeyOn(wire', s.key, s.epoch) /\ s.epoch \in Nat /\ s.key \in Key
    BY <1>2, <2>1, NoneIsNothing DEF Session
  <2>4. KeyOn(wire', t.key, t.epoch)
    <3>1. CASE Guards(s, t, wire[id])
      BY <2>3, <3>1 DEF Guards
    <3>2. CASE wire[id].commit # None /\ wire[id].commit.to > s.epoch /\ Turns(s, t, wire[id].commit)
      <4>. PICK c, env, w : env = wire[id] /\ c = env.commit /\ w = wire
        OBVIOUS
      <4>0. env \in Envelope
        BY <1>0, ElementOfSeq
      <4>1. c \in CommitOf
        BY <3>2, <4>0 DEF Envelope
      <4>2. c.to = env.epoch + 1
        BY <1>3, <3>2
      <4>3. c.to = s.epoch + 1
        BY <2>1, <3>2, <4>0, <4>2, OpensNext
      <4>4. KeyOn(w, s.key, s.epoch) /\ w[id].commit = c /\ id \in 1..Len(w)
        BY <2>2, <2>3
      <4>5. KeyOn(w, Append(s.key, c), s.epoch + 1)
        BY <2>3, <4>1, <4>3, <4>4, KeyGrows
      <4>. QED  BY <2>2, <3>2, <4>3, <4>5 DEF Turns
    <3>. QED  BY <2>1, <3>1, <3>2
  <2>5. file'[m] # None => KeyOn(wire', file'[m].key, file'[m].epoch)
    BY <1>2, <1>4, <2>1, <2>4
  <2>. QED  BY <1>2, <1>3, <2>1, <2>2, <2>4, <2>5 DEF Good
<1>7. ASSUME Drops(m) PROVE Good
  BY <1>2, <1>3, <1>7 DEF Good, Drops
<1>8. ASSUME Begins(m) PROVE Good
  <2>1. PICK w \in Welcome : welcome[m] = w /\ session'[m] = FromWelcome(w) /\ file'[m] = w
    BY <1>8 DEF Begins
  <2>2. UNCHANGED <<wire, welcome>>
    BY <1>8 DEF Begins
  <2>3. w # None /\ KeyOn(wire', w.key, w.epoch)
    BY <1>2, <2>1, NoneIsNothing
  <2>4. FromWelcome(w).epoch = w.epoch /\ FromWelcome(w).key = w.key
    BY FromFields
  <2>. QED  BY <1>2, <1>3, <2>1, <2>2, <2>3, <2>4 DEF Good
<1>9. ASSUME Restores(m) PROVE Good
  <2>1. PICK w \in Welcome : file[m] = w /\ session'[m] = FromWelcome(w)
    BY <1>9 DEF Restores
  <2>2. UNCHANGED <<wire, welcome, file>>
    BY <1>9 DEF Restores
  <2>3. w # None /\ KeyOn(wire', w.key, w.epoch)
    BY <1>2, <2>1, NoneIsNothing
  <2>4. FromWelcome(w).epoch = w.epoch /\ FromWelcome(w).key = w.key
    BY FromFields
  <2>. QED  BY <1>2, <1>3, <2>1, <2>2, <2>3, <2>4 DEF Good
<1>10. Good /\ OthersStay(m)
  BY <1>5, <1>6, <1>7, <1>8, <1>9, StepKinds
<1>11. ASSUME NEW k \in Member
       PROVE  /\ session'[k] # None => KeyOn(wire', session'[k].key, session'[k].epoch)
              /\ file'[k] # None => KeyOn(wire', file'[k].key, file'[k].epoch)
              /\ welcome'[k] # None => KeyOn(wire', welcome'[k].key, welcome'[k].epoch)
  <2>1. CASE k = m
    BY <1>10, <2>1 DEF Good
  <2>2. CASE k # m
    BY <1>2, <1>10, <2>2 DEF Good, OthersStay
  <2>. QED  BY <2>1, <2>2
<1>. QED  BY <1>10, <1>11 DEF Keyed, Good

------------------------------------------------------------------------------
(* Counters and guards, while no tab is reloaded.                            *)

\* Session t has all that s counted and noted, or is of a later epoch.
Later(s, t) ==
  \/ t.epoch > s.epoch
  \/ t.epoch = s.epoch /\ t.key = s.key /\ t.sent >= s.sent /\ s.seen \subseteq t.seen

\* The counter of s has passed an envelope; its guard, or the end of its epoch, keeps it.
Passed(env, s) == env.epoch < s.epoch \/ (env.epoch = s.epoch /\ env.n <= s.sent)
GuardedBy(env, s) == env.epoch < s.epoch \/ (env.epoch = s.epoch /\ Seen(s, env))

Past(m) ==
  \A i \in 1..Len(wire) : wire[i].sender = m => session[m] # None /\ Passed(wire[i], session[m])

Guarded(m) ==
  \A i \in 1..Len(read[m]) : session[m] # None /\ GuardedBy(wire[read[m][i]], session[m])

Twice(m) ==
  \A i, j \in 1..Len(read[m]) :
    (read[m][i] = read[m][j] /\ i # j) => wire[read[m][i]].epoch < session[m].epoch

Fresh == reloads = 0 => NonceOnce /\ \A m \in Member : Past(m)

Replays == reloads = 0 => \A m \in Member : Guarded(m) /\ Twice(m)

\* What a session has passed or holds in its guard stays so in a later session.
LEMMA LaterKeeps ==
  ASSUME NEW s \in Session, NEW t \in Session, Later(s, t), NEW env \in Envelope
  PROVE  /\ Passed(env, s) => Passed(env, t)
         /\ GuardedBy(env, s) => GuardedBy(env, t)
         /\ env.epoch < s.epoch => env.epoch < t.epoch
<1>1. /\ s.epoch \in Nat /\ t.epoch \in Nat /\ env.epoch \in Nat
      /\ s.sent \in Nat /\ t.sent \in Nat /\ env.n \in Nat
  BY DEF Session, Envelope
<1>. QED  BY <1>1 DEF Later, Passed, GuardedBy, Seen

\* A session only goes on, unless its tab is reloaded.
LEMMA StepLater ==
  ASSUME Types, NEW m \in Member, Act(m), session[m] # None, reloads' = reloads
  PROVE  session[m] \in Session /\ session'[m] \in Session /\ Later(session[m], session'[m])
<1>1. session[m] \in Session /\ reloads \in Nat
  BY DEF Types
<1>2. CASE Writes(m)
  <2>1. PICK s \in Session, t \in Session, env \in Envelope :
             /\ session[m] = s /\ session'[m] = t
             /\ \/ env.commit = None /\ Counts(s, t)
                \/ env.commit \in CommitOf /\ env.commit.to = s.epoch + 1 /\ Turns(s, t, env.commit)
    BY <1>2 DEF Writes
  <2>2. s.epoch \in Nat /\ s.sent \in Nat
    BY DEF Session
  <2>3. Later(s, t)
    BY <2>1, <2>2 DEF Later, Counts, Turns
  <2>. QED  BY <2>1, <2>3
<1>3. CASE Reads(m)
  <2>1. PICK s \in Session, t \in Session, id \in 1..Len(wire) :
             /\ session[m] = s /\ session'[m] = t
             /\ \/ Guards(s, t, wire[id])
                \/ wire[id].commit # None /\ wire[id].commit.to > s.epoch /\ Turns(s, t, wire[id].commit)
    BY <1>3 DEF Reads
  <2>2. s.epoch \in Nat /\ s.sent \in Nat
    BY DEF Session
  <2>3. CASE Guards(s, t, wire[id])
    BY <2>1, <2>2, <2>3 DEF Later, Guards
  <2>4. CASE wire[id].commit # None /\ wire[id].commit.to > s.epoch /\ Turns(s, t, wire[id].commit)
    BY <2>1, <2>2, <2>4 DEF Later, Turns
  <2>. QED  BY <2>1, <2>3, <2>4
<1>4. CASE Drops(m)
  <2>1. session[m].epoch \in Nat /\ session[m].sent \in Nat
    BY <1>1 DEF Session
  <2>. QED  BY <1>1, <1>4, <2>1 DEF Drops, Later
<1>5. ~Begins(m) /\ ~Restores(m)
  BY <1>1 DEF Begins, Restores
<1>. QED  BY <1>2, <1>3, <1>4, <1>5, StepKinds

\* The nonce of what is written has not been used: the writer's counter had passed
\* every nonce of its present key.
LEMMA FreshKeep ==
  ASSUME Types, Keyed, Fresh, NEW m \in Member, Act(m)
  PROVE  Fresh'
<1>. SUFFICES ASSUME reloads' = 0
              PROVE  NonceOnce' /\ \A k \in Member : Past(k)'
  BY DEF Fresh
<1>0. /\ wire \in Seq(Envelope) /\ reloads \in Nat /\ session \in [Member -> Session \cup {None}]
      /\ \A i \in 1..Len(wire) : wire[i] \in Envelope
  BY ElementOfSeq DEF Types
<1>1. reloads = 0 /\ reloads' = reloads
  BY <1>0, StepKinds DEF Writes, Reads, Drops, Begins, Restores
<1>2. NonceOnce /\ \A k \in Member : Past(k)
  BY <1>1 DEF Fresh
<1>3. Len(wire) \in Nat /\ \A i \in 1..Len(wire) : i \in 1..Len(wire') /\ wire'[i] = wire[i]
  BY WireStays
<1>4. ASSUME Writes(m)
      PROVE  /\ \A i \in 1..Len(wire') : i \in 1..Len(wire) \/ i = Len(wire) + 1
             /\ wire'[Len(wire) + 1].sender = m
             /\ session'[m] # None /\ Passed(wire'[Len(wire) + 1], session'[m])
             /\ \A i \in 1..Len(wire) :
                  ~(/\ wire[i].key = wire'[Len(wire) + 1].key /\ wire[i].sender = wire'[Len(wire) + 1].sender
                    /\ wire[i].n = wire'[Len(wire) + 1].n)
  <2>1. PICK s \in Session, t \in Session, env \in Envelope :
             /\ session[m] = s /\ session'[m] = t
             /\ FromSession(m, s, env) /\ wire' = Append(wire, env)
             /\ \/ env.commit = None /\ Counts(s, t)
                \/ env.commit \in CommitOf /\ env.commit.to = s.epoch + 1 /\ Turns(s, t, env.commit)
    BY <1>4 DEF Writes
  <2>2. Grows(env)
    BY <1>0, <2>1, WireGrows
  <2>3. s.epoch \in Nat /\ s.sent \in Nat /\ s # None /\ t # None
    BY NoneIsNothing DEF Session
  <2>4. Passed(env, t)
    BY <2>1, <2>3 DEF FromSession, Counts, Turns, Passed
  <2>5. ASSUME NEW i \in 1..Len(wire), wire[i].sender = m, wire[i].key = s.key
        PROVE  wire[i].n # s.sent + 1
    <3>1. Passed(wire[i], s)
      BY <1>2, <2>1, <2>5 DEF Past
    <3>2. Len(wire[i].key) = wire[i].epoch /\ Len(s.key) = s.epoch
      BY <2>1, <2>3 DEF Keyed, KeyOn
    <3>3. wire[i].n \in Nat
      BY <1>0 DEF Envelope
    <3>. QED  BY <2>3, <2>5, <3>1, <3>2, <3>3 DEF Passed
  <2>6. env.sender = m /\ env.key = s.key /\ env.n = s.sent + 1
    BY <2>1 DEF FromSession
  <2>7. wire'[Len(wire) + 1] = env /\ \A i \in 1..Len(wire') : i \in 1..Len(wire) \/ i = Len(wire) + 1
    BY <2>2 DEF Grows
  <2>. QED  BY <2>1, <2>3, <2>4, <2>5, <2>6, <2>7
<1>5. Writes(m) \/ wire' = wire
  BY StepKinds DEF Reads, Drops, Begins, Restores
<1>6. NonceOnce'
  <2>1. ASSUME NEW i \in 1..Len(wire'), NEW j \in 1..Len(wire'),
               wire'[i].key = wire'[j].key, wire'[i].sender = wire'[j].sender, wire'[i].n = wire'[j].n
        PROVE  i = j
    <3>1. CASE i \in 1..Len(wire) /\ j \in 1..Len(wire)
      BY <1>2, <1>3, <2>1, <3>1 DEF NonceOnce
    <3>2. CASE ~(i \in 1..Len(wire) /\ j \in 1..Len(wire))
      <4>1. Writes(m)
        BY <1>5, <2>1, <3>2
      <4>. QED  BY <1>3, <1>4, <2>1, <3>2, <4>1
    <3>. QED  BY <3>1, <3>2
  <2>. QED  BY <2>1 DEF NonceOnce
<1>7. ASSUME NEW k \in Member
      PROVE  Past(k)'
  <2>1. ASSUME NEW i \in 1..Len(wire'), wire'[i].sender = k
        PROVE  session'[k] # None /\ Passed(wire'[i], session'[k])
    <3>1. CASE i \in 1..Len(wire)
      <4>1. wire'[i] = wire[i] /\ session[k] # None /\ Passed(wire[i], session[k])
        BY <1>2, <1>3, <2>1, <3>1 DEF Past
      <4>2. CASE k = m
        <5>1. session[m] \in Session /\ session'[m] \in Session /\ Later(session[m], session'[m])
          BY <1>1, <4>1, <4>2, StepLater
        <5>. QED  BY <1>0, <3>1, <4>1, <4>2, <5>1, LaterKeeps, NoneIsNothing
      <4>3. CASE k # m
        BY <4>1, <4>3, StepKinds DEF OthersStay
      <4>. QED  BY <4>2, <4>3
    <3>2. CASE i \notin 1..Len(wire)
      <4>1. Writes(m)
        BY <1>5, <2>1, <3>2
      <4>. QED  BY <1>4, <2>1, <3>2, <4>1
    <3>. QED  BY <3>1, <3>2
  <2>. QED  BY <2>1 DEF Past
<1>. QED  BY <1>6, <1>7

\* What was read is in the guard or of an ended epoch, so that an envelope that opens
\* again is of an ended epoch.
LEMMA ReplaysKeep ==
  ASSUME Types, Replays, NEW m \in Member, Act(m)
  PROVE  Replays'
<1>. SUFFICES ASSUME reloads' = 0, NEW k \in Member
              PROVE  Guarded(k)' /\ Twice(k)'
  BY DEF Replays
<1>0. /\ reloads \in Nat /\ session \in [Member -> Session \cup {None}] /\ read \in [Member -> Seq(1..Len(wire))]
      /\ \A i \in 1..Len(wire) : wire[i] \in Envelope
  BY ElementOfSeq DEF Types
<1>1. reloads = 0 /\ reloads' = reloads
  BY <1>0, StepKinds DEF Writes, Reads, Drops, Begins, Restores
<1>2. Guarded(k) /\ Twice(k)
  BY <1>1 DEF Replays
<1>3. \A i \in 1..Len(wire) : wire'[i] = wire[i]
  BY WireStays
<1>4. /\ Len(read[k]) \in Nat
      /\ \A i \in 1..Len(read[k]) : /\ i \in 1..Len(read'[k]) /\ read'[k][i] = read[k][i]
                                    /\ read[k][i] \in 1..Len(wire)
      /\ \/ read'[k] = read[k]
         \/ /\ k = m /\ Reads(m) /\ Len(read'[m]) = Len(read[m]) + 1
            /\ \A i \in 1..Len(read'[m]) : i \in 1..Len(read[m]) \/ i = Len(read[m]) + 1
  BY ReadStays
<1>5. ASSUME NEW i \in 1..Len(read[k])
      PROVE  /\ session'[k] # None /\ GuardedBy(wire[read[k][i]], session'[k])
             /\ wire[read[k][i]].epoch < session[k].epoch => wire[read[k][i]].epoch < session'[k].epoch
  <2>1. session[k] # None /\ GuardedBy(wire[read[k][i]], session[k]) /\ wire[read[k][i]] \in Envelope
    BY <1>0, <1>2, <1>4 DEF Guarded
  <2>2. CASE k = m
    <3>1. session[m] \in Session /\ session'[m] \in Session /\ Later(session[m], session'[m])
      BY <1>1, <2>1, <2>2, StepLater
    <3>. QED  BY <2>1, <2>2, <3>1, LaterKeeps, NoneIsNothing
  <2>3. CASE k # m
    BY <2>1, <2>3, StepKinds DEF OthersStay
  <2>. QED  BY <2>2, <2>3
<1>6. ASSUME read'[k] # read[k]
      PROVE  /\ session'[k] # None /\ GuardedBy(wire[read'[k][Len(read[k]) + 1]], session'[k])
             /\ \A i \in 1..Len(read[k]) :
                  read[k][i] = read'[k][Len(read[k]) + 1] => wire[read[k][i]].epoch < session'[k].epoch
  <2>1. k = m /\ Reads(m)
    BY <1>4, <1>6
  <2>2. PICK s \in Session, t \in Session, id \in 1..Len(wire) :
             /\ session[m] = s /\ session'[m] = t
             /\ read' = [read EXCEPT ![m] = Append(@, id)]
             /\ Opens(s, wire[id])
             /\ \/ Guards(s, t, wire[id])
                \/ wire[id].commit # None /\ wire[id].commit.to > s.epoch /\ Turns(s, t, wire[id].commit)
    BY <2>1 DEF Reads
  <2>. PICK env : env = wire[id]
    OBVIOUS
  <2>3. env \in Envelope /\ t # None
    BY <1>0, NoneIsNothing
  <2>4. /\ env.epoch \in Nat /\ s.epoch \in Nat /\ (env.epoch = s.epoch \/ env.epoch + 1 = s.epoch)
        /\ ~Seen(s, env)
    BY <2>2, <2>3, OpensNext
  <2>5. GuardedBy(env, t)
    <3>1. CASE Guards(s, t, env)
      BY <2>4, <3>1 DEF Guards, GuardedBy, Seen
    <3>2. CASE env.commit # None /\ env.commit.to > s.epoch /\ Turns(s, t, env.commit)
      <4>1. env.commit.to \in Nat
        BY <2>3, <3>2 DEF Envelope, CommitOf
      <4>. QED  BY <2>4, <3>2, <4>1 DEF Turns, GuardedBy
    <3>. QED  BY <2>2, <3>1, <3>2
  <2>6. read'[m][Len(read[m]) + 1] = id
    <3>. PICK seq \in Seq(1..Len(wire)) : seq = read[m]
      BY <1>0
    <3>1. read'[m] = Append(seq, id)
      BY <1>0, <2>2
    <3>2. Append(seq, id)[Len(seq) + 1] = id
      BY OneMore
    <3>. QED  BY <3>1, <3>2
  <2>7. ASSUME NEW i \in 1..Len(read[k]), read[k][i] = id
        PROVE  env.epoch < t.epoch
    <3>1. GuardedBy(env, s)
      BY <1>2, <2>1, <2>2, <2>7 DEF Guarded
    <3>2. env.epoch < s.epoch
      BY <2>4, <3>1 DEF GuardedBy
    <3>3. Later(s, t)
      BY <1>1, <2>1, <2>2, NoneIsNothing, StepLater
    <3>. QED  BY <2>3, <3>2, <3>3, LaterKeeps
  <2>. QED  BY <2>1, <2>2, <2>3, <2>5, <2>6, <2>7
<1>7. Guarded(k)'
  <2>1. ASSUME NEW i \in 1..Len(read'[k])
        PROVE  session'[k] # None /\ GuardedBy(wire'[read'[k][i]], session'[k])
    <3>1. CASE i \in 1..Len(read[k])
      BY <1>3, <1>4, <1>5, <3>1
    <3>2. CASE i \notin 1..Len(read[k])
      <4>1. read'[k] # read[k] /\ i = Len(read[k]) + 1 /\ wire' = wire
        BY <1>4, <2>1, <3>2 DEF Reads
      <4>. QED  BY <1>6, <4>1
    <3>. QED  BY <3>1, <3>2
  <2>. QED  BY <2>1 DEF Guarded
<1>8. Twice(k)'
  <2>1. ASSUME NEW i \in 1..Len(read'[k]), NEW j \in 1..Len(read'[k]), read'[k][i] = read'[k][j], i # j
        PROVE  wire'[read'[k][i]].epoch < session'[k].epoch
    <3>1. CASE i \in 1..Len(read[k]) /\ j \in 1..Len(read[k])
      <4>1. wire[read[k][i]].epoch < session[k].epoch
        BY <1>2, <1>4, <2>1, <3>1 DEF Twice
      <4>. QED  BY <1>3, <1>4, <1>5, <3>1, <4>1
    <3>2. CASE ~(i \in 1..Len(read[k]) /\ j \in 1..Len(read[k]))
      <4>1. read'[k] # read[k] /\ wire' = wire
        BY <1>4, <2>1, <3>2 DEF Reads
      <4>2. \/ i \in 1..Len(read[k]) /\ j = Len(read[k]) + 1
            \/ j \in 1..Len(read[k]) /\ i = Len(read[k]) + 1
        BY <1>4, <2>1, <3>2, <4>1
      <4>. QED  BY <1>4, <1>6, <2>1, <4>1, <4>2
    <3>. QED  BY <3>1, <3>2
  <2>. QED  BY <2>1 DEF Twice
<1>. QED  BY <1>7, <1>8

------------------------------------------------------------------------------
(* The file.                                                                 *)

\* The commits m read are in its file, and its session is not behind its file.
Saves(m) ==
  /\ session[m] # None => file[m].epoch <= session[m].epoch
  /\ \A i \in 1..Len(read[m]) :
       /\ session[m] # None
       /\ wire[read[m][i]].commit # None => file[m].epoch >= wire[read[m][i]].commit.to

Kept == \A m \in Member : Saves(m)

\* A file is only replaced by one of the same or a later epoch.
LEMMA FileLater ==
  ASSUME Types, NEW m \in Member, Act(m), session[m] # None, file[m].epoch <= session[m].epoch
  PROVE  /\ session'[m] # None /\ file'[m].epoch <= session'[m].epoch
         /\ file[m].epoch \in Nat /\ file'[m].epoch \in Nat /\ file[m].epoch <= file'[m].epoch
<1>1. /\ session[m] \in Session /\ session[m].epoch \in Nat /\ file[m] \in Welcome /\ file[m].epoch \in Nat
      /\ \A s \in Session : s # None /\ s.epoch \in Nat
  BY NoneIsNothing DEF Types, Session, Welcome
<1>2. ASSUME NEW t \in Session, session'[m] = t, t.epoch >= session[m].epoch,
             file'[m] = file[m] \/ Tells(file'[m], t)
      PROVE  /\ session'[m] # None /\ file'[m].epoch <= session'[m].epoch
             /\ file'[m].epoch \in Nat /\ file[m].epoch <= file'[m].epoch
  BY <1>1, <1>2 DEF Tells
<1>3. CASE Writes(m)
  <2>1. PICK s \in Session, t \in Session, env \in Envelope :
             /\ session[m] = s /\ session'[m] = t
             /\ \/ env.commit = None /\ Counts(s, t)
                \/ env.commit \in CommitOf /\ env.commit.to = s.epoch + 1 /\ Turns(s, t, env.commit)
             /\ file'[m] = file[m] \/ Tells(file'[m], t)
    BY <1>3 DEF Writes
  <2>2. t.epoch >= s.epoch
    BY <1>1, <2>1 DEF Counts, Turns
  <2>. QED  BY <1>1, <1>2, <2>1, <2>2
<1>4. CASE Reads(m)
  <2>1. PICK s \in Session, t \in Session, id \in 1..Len(wire) :
             /\ session[m] = s /\ session'[m] = t
             /\ \/ Guards(s, t, wire[id])
                \/ wire[id].commit # None /\ wire[id].commit.to > s.epoch /\ Turns(s, t, wire[id].commit)
             /\ file'[m] = file[m] \/ Tells(file'[m], t)
    BY <1>4 DEF Reads
  <2>2. t.epoch >= s.epoch
    BY <1>1, <2>1 DEF Guards, Turns
  <2>. QED  BY <1>1, <1>2, <2>1, <2>2
<1>5. CASE Drops(m)
  BY <1>1, <1>5 DEF Drops
<1>6. ~Begins(m)
  BY DEF Begins
<1>7. CASE Restores(m)
  BY <1>1, <1>7, FromFields DEF Restores
<1>. QED  BY <1>3, <1>4, <1>5, <1>6, <1>7, StepKinds

\* A commit is saved in the step that reads it.
LEMMA KeptKeep ==
  ASSUME Types, Kept, NEW m \in Member, Act(m)
  PROVE  Kept'
<1>. SUFFICES ASSUME NEW k \in Member
              PROVE  Saves(k)'
  BY DEF Kept
<1>0. /\ read \in [Member -> Seq(1..Len(wire))]
      /\ \A i \in 1..Len(wire) : wire[i] \in Envelope
  BY ElementOfSeq DEF Types
<1>1. Saves(k)
  BY DEF Kept
<1>2. \A i \in 1..Len(wire) : wire'[i] = wire[i]
  BY WireStays
<1>3. /\ Len(read[k]) \in Nat
      /\ \A i \in 1..Len(read[k]) : /\ i \in 1..Len(read'[k]) /\ read'[k][i] = read[k][i]
                                    /\ read[k][i] \in 1..Len(wire)
      /\ \/ read'[k] = read[k]
         \/ /\ k = m /\ Reads(m) /\ Len(read'[m]) = Len(read[m]) + 1
            /\ \A i \in 1..Len(read'[m]) : i \in 1..Len(read[m]) \/ i = Len(read[m]) + 1
  BY ReadStays
<1>4. CASE k # m
  <2>1. session'[k] = session[k] /\ file'[k] = file[k] /\ read'[k] = read[k]
    BY <1>4, StepKinds DEF OthersStay
  <2>. QED  BY <1>1, <1>2, <1>3, <2>1 DEF Saves
<1>5. CASE k = m /\ session[m] = None
  <2>1. Begins(m)
    <3>1. session[m] \notin Session
      BY <1>5, NoneIsNothing
    <3>. QED  BY <1>5, <3>1, StepKinds DEF Writes, Reads, Drops, Restores
  <2>2. PICK w \in Welcome : session'[m] = FromWelcome(w) /\ file'[m] = w /\ read' = read
    BY <2>1 DEF Begins
  <2>3. session'[m].epoch = w.epoch /\ w.epoch \in Nat
    BY <2>2, FromFields DEF Welcome
  <2>4. ~\E i : i \in 1..Len(read[m])
    BY <1>1, <1>5 DEF Saves
  <2>. QED  BY <1>5, <2>2, <2>3, <2>4 DEF Saves
<1>6. CASE k = m /\ session[m] # None
  <2>1. /\ session'[m] # None /\ file'[m].epoch <= session'[m].epoch
        /\ file[m].epoch \in Nat /\ file'[m].epoch \in Nat /\ file[m].epoch <= file'[m].epoch
    BY <1>1, <1>6, FileLater DEF Saves
  <2>2. ASSUME NEW i \in 1..Len(read'[m]), wire'[read'[m][i]].commit # None
        PROVE  file'[m].epoch >= wire'[read'[m][i]].commit.to
    <3>1. CASE i \in 1..Len(read[m])
      <4>1. wire'[read'[m][i]] = wire[read[m][i]] /\ wire[read[m][i]] \in Envelope
        BY <1>0, <1>2, <1>3, <1>6, <3>1
      <4>2. wire[read[m][i]].commit.to \in Nat
        BY <2>2, <4>1 DEF Envelope, CommitOf
      <4>3. file[m].epoch >= wire[read[m][i]].commit.to
        BY <1>1, <1>6, <2>2, <3>1, <4>1 DEF Saves
      <4>. QED  BY <2>1, <4>1, <4>2, <4>3
    <3>2. CASE i \notin 1..Len(read[m])
      <4>1. Reads(m) /\ i = Len(read[m]) + 1
        BY <1>3, <1>6, <2>2, <3>2
      <4>2. PICK s \in Session, t \in Session, id \in 1..Len(wire) :
                 /\ session'[m] = t /\ read' = [read EXCEPT ![m] = Append(@, id)] /\ wire' = wire
                 /\ wire[id].commit # None => Tells(file'[m], t) /\ t.epoch >= wire[id].commit.to
        BY <4>1 DEF Reads
      <4>3. read'[m][i] = id
        <5>. PICK seq \in Seq(1..Len(wire)) : seq = read[m]
          BY <1>0
        <5>1. read'[m] = Append(seq, id)
          BY <1>0, <4>2
        <5>2. Append(seq, id)[Len(seq) + 1] = id
          BY OneMore
        <5>. QED  BY <4>1, <5>1, <5>2
      <4>. QED  BY <2>2, <4>2, <4>3 DEF Tells
    <3>. QED  BY <3>1, <3>2
  <2>. QED  BY <1>6, <2>1, <2>2 DEF Saves
<1>. QED  BY <1>4, <1>5, <1>6

------------------------------------------------------------------------------
(* One commit for an epoch.                                                  *)

\* No two commits begin the same epoch.
NoFork ==
  \A i, j \in 1..Len(wire) :
    (/\ wire[i].commit # None /\ wire[j].commit # None
     /\ wire[i].commit.to = wire[j].commit.to) => wire[i].commit = wire[j].commit

OneCommit == \A i, j \in 1..Len(wire) : wire[i].commit # None /\ wire[j].commit # None => i = j

\* A committer is past the epochs it ended.
Ahead ==
  \A i \in 1..Len(wire) : wire[i].commit # None =>
    /\ wire[i].sender \in Committers /\ session[wire[i].sender] # None
    /\ wire[i].commit.to <= session[wire[i].sender].epoch

\* While at most one commit may be built, the one that is built is the first.
LEMMA OneCommitKeep ==
  ASSUME Types, OneCommit, MaxCommits <= 1, NEW m \in Member, Act(m)
  PROVE  OneCommit'
<1>1. Len(wire) \in Nat /\ \A i \in 1..Len(wire) : i \in 1..Len(wire') /\ wire'[i] = wire[i]
  BY WireStays
<1>2. CASE wire' = wire
  BY <1>2 DEF OneCommit
<1>3. CASE Writes(m)
  <2>1. PICK s \in Session, env \in Envelope :
             /\ wire' = Append(wire, env)
             /\ env.commit # None => Cardinality(Commits) < MaxCommits
    BY <1>3, NoneIsNothing DEF Writes
  <2>2. Grows(env)
    BY <2>1, WireGrows DEF Types
  <2>3. env.commit # None => Commits = {}
    <3>1. IsFiniteSet(1..Len(wire)) /\ Commits \subseteq 1..Len(wire)
      BY <1>1, FS_Interval DEF Commits
    <3>2. IsFiniteSet(Commits) /\ Cardinality(Commits) \in Nat
      BY <3>1, FS_Subset, FS_CardinalityType
    <3>3. MaxCommits \in Nat
      BY GroupAssumption
    <3>4. Cardinality(Commits) < MaxCommits => Cardinality(Commits) = 0
      BY <3>2, <3>3
    <3>. QED  BY <2>1, <3>2, <3>4, FS_EmptySet
  <2>4. ASSUME NEW i \in 1..Len(wire'), NEW j \in 1..Len(wire'),
               wire'[i].commit # None, wire'[j].commit # None
        PROVE  i = j
    <3>1. CASE i \in 1..Len(wire) /\ j \in 1..Len(wire)
      BY <1>1, <2>4, <3>1 DEF OneCommit
    <3>2. CASE env.commit = None
      BY <2>2, <2>4, <3>1, <3>2 DEF Grows
    <3>3. CASE env.commit # None
      <4>1. \A l \in 1..Len(wire) : wire[l].commit = None
        BY <2>3, <3>3 DEF Commits
      <4>. QED  BY <1>1, <2>2, <2>4, <4>1 DEF Grows
    <3>. QED  BY <3>2, <3>3
  <2>. QED  BY <2>4 DEF OneCommit
<1>. QED  BY <1>2, <1>3, StepKinds DEF Reads, Drops, Begins, Restores

\* While no tab is ever reloaded and a single member commits, it has ended the epochs
\* of its commits, and its next commit ends a later one.
LEMMA AheadKeep ==
  ASSUME Types, NoFork, Ahead, MaxReloads = 0, \A a, b \in Committers : a = b,
         NEW m \in Member, Act(m)
  PROVE  NoFork' /\ Ahead'
<1>0. /\ Len(wire) \in Nat /\ \A i \in 1..Len(wire) : i \in 1..Len(wire') /\ wire'[i] = wire[i]
      /\ \A i \in 1..Len(wire) : wire[i] \in Envelope
      /\ reloads \in Nat
  BY WireStays, ElementOfSeq DEF Types
<1>1. reloads' = reloads
  BY <1>0, StepKinds DEF Writes, Reads, Drops, Begins, Restores
<1>2. ASSUME NEW i \in 1..Len(wire), wire[i].commit # None
      PROVE  /\ wire[i].sender \in Committers /\ session'[wire[i].sender] # None
             /\ wire[i].commit.to <= session'[wire[i].sender].epoch
  <2>. PICK k : k = wire[i].sender
    OBVIOUS
  <2>1. k \in Committers /\ k \in Member /\ session[k] # None /\ wire[i].commit.to <= session[k].epoch
    BY <1>0, <1>2 DEF Ahead, Envelope
  <2>2. CASE k # m
    BY <2>1, <2>2, StepKinds DEF OthersStay
  <2>3. CASE k = m
    <3>1. session[m] \in Session /\ session'[m] \in Session /\ Later(session[m], session'[m])
      BY <1>1, <2>1, <2>3, StepLater
    <3>2. session[m].epoch \in Nat /\ session'[m].epoch \in Nat /\ session'[m] # None
      BY <3>1, NoneIsNothing DEF Session
    <3>3. wire[i].commit.to \in Nat
      BY <1>0, <1>2 DEF Envelope, CommitOf
    <3>. QED  BY <2>1, <2>3, <3>1, <3>2, <3>3 DEF Later
  <2>. QED  BY <2>2, <2>3
<1>3. CASE wire' = wire
  BY <1>2, <1>3 DEF NoFork, Ahead
<1>4. CASE Writes(m)
  <2>1. PICK s \in Session, t \in Session, env \in Envelope :
             /\ session[m] = s /\ session'[m] = t
             /\ FromSession(m, s, env) /\ wire' = Append(wire, env)
             /\ \/ env.commit = None /\ Counts(s, t)
                \/ /\ env.commit \in CommitOf /\ env.commit.to = s.epoch + 1 /\ Turns(s, t, env.commit)
                   /\ m \in Committers
    BY <1>4 DEF Writes
  <2>2. Grows(env)
    BY <2>1, WireGrows DEF Types
  <2>3. env.commit # None => /\ env.commit.to = s.epoch + 1 /\ m \in Committers /\ env.sender = m
                             /\ s.epoch \in Nat /\ t.epoch = env.commit.to /\ t # None
    BY <2>1, NoneIsNothing DEF FromSession, Turns, Session
  <2>4. ASSUME NEW i \in 1..Len(wire), wire[i].commit # None, env.commit # None
        PROVE  wire[i].commit.to # env.commit.to
    <3>1. wire[i].sender = m /\ wire[i].commit.to <= s.epoch
      BY <2>1, <2>3, <2>4 DEF Ahead
    <3>2. wire[i].commit.to \in Nat
      BY <1>0, <2>4 DEF Envelope, CommitOf
    <3>. QED  BY <2>3, <2>4, <3>1, <3>2
  <2>5. NoFork'
    <3>1. ASSUME NEW i \in 1..Len(wire'), NEW j \in 1..Len(wire'),
                 wire'[i].commit # None, wire'[j].commit # None, wire'[i].commit.to = wire'[j].commit.to
          PROVE  wire'[i].commit = wire'[j].commit
      <4>1. CASE i \in 1..Len(wire) /\ j \in 1..Len(wire)
        BY <1>0, <3>1, <4>1 DEF NoFork
      <4>2. CASE i \in 1..Len(wire) /\ j = Len(wire) + 1
        BY <1>0, <2>2, <2>4, <3>1, <4>2 DEF Grows
      <4>3. CASE i = Len(wire) + 1 /\ j \in 1..Len(wire)
        BY <1>0, <2>2, <2>4, <3>1, <4>3 DEF Grows
      <4>4. CASE i = Len(wire) + 1 /\ j = Len(wire) + 1
        BY <4>4
      <4>. QED  BY <2>2, <3>1, <4>1, <4>2, <4>3, <4>4 DEF Grows
    <3>. QED  BY <3>1 DEF NoFork
  <2>6. ASSUME NEW i \in 1..Len(wire'), wire'[i].commit # None
        PROVE  /\ wire'[i].sender \in Committers /\ session'[wire'[i].sender] # None
               /\ wire'[i].commit.to <= session'[wire'[i].sender].epoch
    <3>1. CASE i \in 1..Len(wire)
      BY <1>0, <1>2, <2>6, <3>1
    <3>2. CASE i = Len(wire) + 1
      BY <2>1, <2>2, <2>3, <2>6, <3>2 DEF Grows
    <3>. QED  BY <2>2, <2>6, <3>1, <3>2 DEF Grows
  <2>. QED  BY <2>5, <2>6 DEF Ahead
<1>. QED  BY <1>3, <1>4, StepKinds DEF Reads, Drops, Begins, Restores

\* A single commit is the only one of its epoch.
LEMMA OneNoFork ==
  ASSUME OneCommit
  PROVE  NoFork
BY DEF OneCommit, NoFork

\* Without forks, an epoch has one key.
LEMMA SameKey ==
  ASSUME NoFork, NEW k \in Key, NEW l \in Key, NEW e, KeyOn(wire, k, e), KeyOn(wire, l, e),
         \A i \in 1..Len(wire) : wire[i] \in Envelope
  PROVE  k = l
<1>1. k \in Seq(CommitOf) /\ l \in Seq(CommitOf) /\ Len(k) = Len(l) /\ Len(k) \in Nat
  BY LenProperties DEF Key, KeyOn
<1>2. ASSUME NEW i \in 1..Len(k)
      PROVE  k[i] = l[i]
  <2>1. PICK j \in 1..Len(wire) : wire[j].commit = k[i]
    BY DEF KeyOn
  <2>2. PICK h \in 1..Len(wire) : wire[h].commit = l[i]
    BY <1>1 DEF KeyOn
  <2>3. k[i].to = i /\ l[i].to = i
    BY <1>1 DEF KeyOn
  <2>4. k[i] # None /\ l[i] # None
    <3>1. k[i] \in CommitOf /\ l[i] \in CommitOf
      BY <1>1, ElementOfSeq
    <3>. QED  BY <3>1, NoneIsNothing
  <2>. QED  BY <2>1, <2>2, <2>3, <2>4 DEF NoFork
<1>. QED  BY <1>1, <1>2, SeqEqual

------------------------------------------------------------------------------
(* What always holds.                                                        *)

GInv == Types /\ Keyed /\ Fresh /\ Replays /\ Kept

\* The group as it is created.
LEMMA GroupBegins ==
  ASSUME Init
  PROVE  GInv
<1>. PICK w : w = [epoch |-> 0, key |-> <<>>, members |-> Founders]
  OBVIOUS
<1>1. w \in Welcome /\ KeyOn(wire, w.key, w.epoch)
  BY GroupAssumption, EmptySeq DEF Welcome, Key, KeyOn
<1>2. /\ Created \in Session /\ Created.epoch = w.epoch /\ Created.key = w.key
  BY <1>1, FromFields DEF Created
<1>3. WelcomeOf(Created) \in Welcome /\ WelcomeOf(Created).epoch = w.epoch /\ WelcomeOf(Created).key = w.key
  BY <1>2, WelcomeFields
<1>4. /\ session = [m \in Member |-> IF m \in Founders THEN Created ELSE None]
      /\ file = [m \in Member |-> IF m \in Founders THEN WelcomeOf(Created) ELSE None]
      /\ welcome = [m \in Member |-> None]
      /\ mail = [m \in Member |-> <<>>] /\ wire = <<>> /\ read = [m \in Member |-> <<>>]
      /\ refused = {} /\ joinedAt = [m \in Member |-> 0] /\ reloads = 0
  BY DEF Init
<1>5. Types
  <2>1. \A m \in Member : /\ session[m] \in Session \cup {None} /\ file[m] \in Welcome \cup {None}
                          /\ session[m] # None => file[m] # None
    BY <1>2, <1>3, <1>4, NoneIsNothing
  <2>2. session \in [Member -> Session \cup {None}] /\ file \in [Member -> Welcome \cup {None}]
    BY <1>4, <2>1
  <2>3. welcome \in [Member -> Welcome \cup {None}] /\ joinedAt \in [Member -> Nat] /\ reloads \in Nat
    BY <1>4
  <2>4. wire \in Seq(Envelope) /\ <<>> \in Seq(1..Len(wire))
    BY <1>4, EmptySeq
  <2>5. mail \in [Member -> Seq(1..Len(wire))] /\ read \in [Member -> Seq(1..Len(wire))]
    BY <1>4, <2>4
  <2>. QED  BY <1>4, <2>1, <2>2, <2>3, <2>4, <2>5 DEF Types
<1>6. Len(wire) = 0 /\ 1..Len(wire) = {} /\ \A m \in Member : 1..Len(read[m]) = {}
  BY <1>4, EmptySeq
<1>7. Keyed
  <2>1. ASSUME NEW m \in Member
        PROVE  /\ session[m] # None => KeyOn(wire, session[m].key, session[m].epoch)
               /\ file[m] # None => KeyOn(wire, file[m].key, file[m].epoch)
               /\ welcome[m] # None => KeyOn(wire, welcome[m].key, welcome[m].epoch)
    BY <1>1, <1>2, <1>3, <1>4
  <2>. QED  BY <1>6, <2>1 DEF Keyed
<1>8. Fresh /\ Replays
  BY <1>6 DEF Fresh, Replays, NonceOnce, Past, Guarded, Twice
<1>9. Kept
  <2>1. ASSUME NEW m \in Member, session[m] # None
        PROVE  file[m].epoch <= session[m].epoch
    <3>1. session[m] = Created /\ file[m] = WelcomeOf(Created) /\ Created.epoch \in Nat
      BY <1>2, <1>4, <2>1 DEF Session
    <3>. QED  BY <1>2, <1>3, <3>1
  <2>. QED  BY <1>6, <2>1 DEF Kept, Saves
<1>. QED  BY <1>5, <1>7, <1>8, <1>9 DEF GInv

\* A step of nobody.
LEMMA GroupStutters ==
  ASSUME UNCHANGED vars
  PROVE  /\ GInv => GInv'
         /\ OneCommit => OneCommit'
         /\ NoFork => NoFork'
         /\ Ahead => Ahead'
<1>1. UNCHANGED <<session, file, welcome, mail, wire, read, refused, joinedAt, reloads>>
  BY DEF vars, historyVars
<1>2. Types => Types'
  BY <1>1 DEF Types
<1>3. Keyed => Keyed'
  BY <1>1 DEF Keyed
<1>4. Fresh => Fresh'
  BY <1>1 DEF Fresh, NonceOnce, Past
<1>5. Replays => Replays'
  BY <1>1 DEF Replays, Guarded, Twice
<1>6. Kept => Kept'
  BY <1>1 DEF Kept, Saves
<1>7. (OneCommit => OneCommit') /\ (NoFork => NoFork') /\ (Ahead => Ahead')
  BY <1>1 DEF OneCommit, NoFork, Ahead
<1>. QED  BY <1>2, <1>3, <1>4, <1>5, <1>6, <1>7 DEF GInv

\* A step of the group is a step of a member.
LEMMA NextActs ==
  ASSUME Next
  PROVE  \E m \in Member : Act(m)
BY DEF Next, Act

\* GInv is preserved by every step.
LEMMA GroupKeeps ==
  ASSUME GInv, [Next]_vars
  PROVE  GInv'
<1>1. CASE Next
  <2>. PICK m \in Member : Act(m)
    BY <1>1, NextActs
  <2>. QED  BY TypesKeep, KeyedKeep, FreshKeep, ReplaysKeep, KeptKeep DEF GInv
<1>2. CASE UNCHANGED vars
  BY <1>2, GroupStutters
<1>. QED  BY <1>1, <1>2

\* Sessions, files and welcomes are of the epochs their keys are of; counters and guards
\* cover what was sent and read while no tab is reloaded; files hold the commits read.
THEOREM GroupInductive == Spec => []GInv
<1>1. Init => GInv
  BY GroupBegins
<1>2. GInv /\ [Next]_vars => GInv'
  BY GroupKeeps
<1>. QED  BY <1>1, <1>2, PTL DEF Spec

\* The nonces of a group are used once, and its replay guard holds for the present
\* epoch, for every group, schedule and channel, while no tab is reloaded.
THEOREM EpochNoncesAlways == Spec => []EpochNonces
<1>1. GInv => EpochNonces
  BY DEF GInv, Fresh, Replays, Twice, EpochNonces, NoncesFresh, ReadOncePerEpoch
<1>. QED  BY <1>1, GroupInductive, PTL

\* What the run checks of epochs, but for the keys of two members.
LEMMA EpochsHold ==
  ASSUME GInv
  PROVE  TypeOK /\ CommitSurvivesReload
<1>1. Types /\ Keyed /\ Kept
  BY DEF GInv
<1>2. TypeOK
  <2>1. ASSUME NEW m \in Member, session[m] # None
        PROVE  /\ session[m].epoch = Len(session[m].key) /\ session[m].sent \in Nat
               /\ session[m].members \subseteq Member /\ file[m] # None
    <3>1. session[m] \in Session /\ file[m] # None
      BY <1>1, <2>1 DEF Types
    <3>. QED  BY <1>1, <2>1, <3>1 DEF Keyed, KeyOn, Session
  <2>. QED  BY <1>1, <2>1 DEF Types, TypeOK
<1>3. ASSUME NEW m \in Member, session[m] # None, NEW i \in 1..Len(read[m]),
             wire[read[m][i]].commit # None
      PROVE  session[m].epoch >= wire[read[m][i]].commit.to
  <2>1. file[m].epoch <= session[m].epoch /\ file[m].epoch >= wire[read[m][i]].commit.to
    BY <1>1, <1>3 DEF Kept, Saves
  <2>2. session[m] \in Session /\ file[m] \in Welcome /\ wire[read[m][i]] \in Envelope
    BY <1>1, <1>3, ElementOfSeq DEF Types
  <2>3. session[m].epoch \in Nat /\ file[m].epoch \in Nat /\ wire[read[m][i]].commit.to \in Nat
    BY <1>3, <2>2 DEF Session, Welcome, Envelope, CommitOf
  <2>. QED  BY <2>1, <2>3
<1>. QED  BY <1>2, <1>3 DEF CommitSurvivesReload, Subscribed

\* With one commit for an epoch, members at the same epoch have the same key.
LEMMA EpochsNamed ==
  ASSUME GInv, NoFork
  PROVE  EpochNamesKey
<1>1. Types /\ Keyed /\ \A i \in 1..Len(wire) : wire[i] \in Envelope
  BY ElementOfSeq DEF GInv, Types
<1>2. ASSUME NEW m \in Member, NEW k \in Member, session[m] # None, session[k] # None,
             session[m].epoch = session[k].epoch
      PROVE  session[m].key = session[k].key
  <2>1. session[m] \in Session /\ session[k] \in Session
    BY <1>1, <1>2 DEF Types
  <2>2. session[m].key \in Key /\ session[k].key \in Key
    BY <2>1 DEF Session
  <2>3. KeyOn(wire, session[m].key, session[m].epoch) /\ KeyOn(wire, session[k].key, session[m].epoch)
    BY <1>1, <1>2 DEF Keyed
  <2>. QED  BY <1>1, <2>2, <2>3, SameKey
<1>. QED  BY <1>2 DEF EpochNamesKey, Subscribed

\* Two commits never begin the same epoch where one commit is built, or where one member
\* commits and no tab is reloaded.
Led == MaxCommits <= 1 \/ (MaxReloads = 0 /\ \A a, b \in Committers : a = b)

\* Where the commits are led, no two commits begin one epoch.
LEMMA NoForkAlways ==
  ASSUME Led
  PROVE  Spec => []NoFork
<1>1. Init => OneCommit /\ NoFork /\ Ahead
  <2>1. Init => 1..Len(wire) = {}
    BY EmptySeq DEF Init
  <2>. QED  BY <2>1 DEF OneCommit, NoFork, Ahead
<1>2. CASE MaxCommits <= 1
  <2>1. ASSUME GInv, OneCommit, [Next]_vars PROVE OneCommit'
    <3>1. CASE Next
      <4>. PICK m \in Member : Act(m)
        BY <3>1, NextActs
      <4>. QED  BY <1>2, <2>1, OneCommitKeep DEF GInv
    <3>2. CASE UNCHANGED vars
      BY <2>1, <3>2, GroupStutters
    <3>. QED  BY <2>1, <3>1, <3>2
  <2>2. GInv /\ OneCommit /\ [Next]_vars => OneCommit'
    BY <2>1
  <2>3. OneCommit => NoFork
    BY OneNoFork
  <2>. QED  BY <1>1, <2>2, <2>3, GroupInductive, PTL DEF Spec
<1>3. CASE MaxReloads = 0 /\ \A a, b \in Committers : a = b
  <2>1. ASSUME GInv, NoFork, Ahead, [Next]_vars PROVE NoFork' /\ Ahead'
    <3>1. CASE Next
      <4>. PICK m \in Member : Act(m)
        BY <3>1, NextActs
      <4>. QED  BY <1>3, <2>1, AheadKeep DEF GInv
    <3>2. CASE UNCHANGED vars
      BY <2>1, <3>2, GroupStutters
    <3>. QED  BY <2>1, <3>1, <3>2
  <2>2. GInv /\ (NoFork /\ Ahead) /\ [Next]_vars => (NoFork /\ Ahead)'
    BY <2>1
  <2>. QED  BY <1>1, <2>2, GroupInductive, PTL DEF Spec
<1>. QED  BY <1>2, <1>3 DEF Led

\* Members at the same epoch have the same key, and a commit that was received survives
\* a reload, where one commit is built, whoever reloads, or where one member commits and
\* no tab is reloaded.
THEOREM EpochsAgreeAlways ==
  ASSUME Led
  PROVE  Spec => []EpochsAgree
<1>1. GInv /\ NoFork => EpochsAgree
  BY EpochsHold, EpochsNamed DEF EpochsAgree
<1>. QED  BY <1>1, GroupInductive, NoForkAlways, PTL

------------------------------------------------------------------------------
(* What is refused for good.                                                 *)

PlaceOf(env) == <<env.sender, env.epoch, env.n>>

\* The guard of m holds the places of what m read.
Notes(m) ==
  session[m] # None =>
    \A p \in session[m].seen : \E i \in 1..Len(read[m]) : p = PlaceOf(wire[read[m][i]])

\* m, once past the epoch it joined at, holds the key of the epoch before.
HoldsPrevious(m) ==
  (session[m] # None /\ session[m].epoch > joinedAt[m]) =>
    /\ session[m].prev \in Key
    /\ \E e \in Nat : session[m].epoch = e + 1 /\ KeyOn(wire, session[m].prev, e)

Recalls ==
  /\ \A m \in Member : Notes(m)
  /\ reloads = 0 => \A m \in Member : HoldsPrevious(m)
  /\ \A r \in refused : session[r[1]] # None

\* The guard of a session goes on holding only places of what its member has read.
LEMMA NotesKeep ==
  ASSUME Types, \A k \in Member : Notes(k), NEW m \in Member, Act(m)
  PROVE  \A k \in Member : Notes(k)'
<1>. SUFFICES ASSUME NEW k \in Member, session'[k] # None, NEW p \in session'[k].seen
              PROVE  \E i \in 1..Len(read'[k]) : p = PlaceOf(wire'[read'[k][i]])
  BY DEF Notes
<1>0. /\ read \in [Member -> Seq(1..Len(wire))]
      /\ \A i \in 1..Len(wire) : wire'[i] = wire[i]
      /\ \A i \in 1..Len(read[k]) : /\ i \in 1..Len(read'[k]) /\ read'[k][i] = read[k][i]
                                    /\ read[k][i] \in 1..Len(wire)
  BY WireStays, ReadStays DEF Types
<1>1. ASSUME session[k] # None, p \in session[k].seen
      PROVE  \E i \in 1..Len(read'[k]) : p = PlaceOf(wire'[read'[k][i]])
  <2>1. PICK i \in 1..Len(read[k]) : p = PlaceOf(wire[read[k][i]])
    BY <1>1 DEF Notes
  <2>2. i \in 1..Len(read'[k]) /\ wire'[read'[k][i]] = wire[read[k][i]]
    BY <1>0
  <2>. QED  BY <2>1, <2>2
<1>2. CASE k # m \/ Drops(m)
  <2>1. session'[k] = session[k]
    BY <1>2, StepKinds DEF OthersStay, Drops
  <2>. QED  BY <1>1, <2>1
<1>3. CASE k = m /\ Writes(m)
  <2>1. PICK s \in Session, t \in Session, env \in Envelope :
             /\ session[m] = s /\ session'[m] = t
             /\ \/ env.commit = None /\ Counts(s, t)
                \/ env.commit \in CommitOf /\ env.commit.to = s.epoch + 1 /\ Turns(s, t, env.commit)
    BY <1>3 DEF Writes
  <2>2. p \in s.seen /\ s # None
    BY <1>3, <2>1, NoneIsNothing DEF Counts, Turns
  <2>. QED  BY <1>1, <1>3, <2>1, <2>2
<1>4. CASE k = m /\ Reads(m)
  <2>1. PICK s \in Session, t \in Session, id \in 1..Len(wire) :
             /\ session[m] = s /\ session'[m] = t
             /\ read' = [read EXCEPT ![m] = Append(@, id)]
             /\ \/ Guards(s, t, wire[id])
                \/ wire[id].commit # None /\ wire[id].commit.to > s.epoch /\ Turns(s, t, wire[id].commit)
    BY <1>4 DEF Reads
  <2>2. p \in s.seen \/ p = PlaceOf(wire[id])
    BY <1>4, <2>1 DEF Guards, Turns, PlaceOf
  <2>3. CASE p \in s.seen
    BY <1>1, <1>4, <2>1, <2>3, NoneIsNothing
  <2>4. CASE p = PlaceOf(wire[id])
    <3>. PICK seq \in Seq(1..Len(wire)) : seq = read[m]
      BY <1>0
    <3>1. read'[m] = Append(seq, id)
      BY <1>0, <2>1
    <3>2. Len(seq) \in Nat /\ Len(Append(seq, id)) = Len(seq) + 1 /\ Append(seq, id)[Len(seq) + 1] = id
      BY OneMore
    <3>3. Len(seq) + 1 \in 1..Len(read'[m]) /\ wire'[read'[m][Len(seq) + 1]] = wire[id]
      BY <1>0, <3>1, <3>2
    <3>. QED  BY <1>4, <2>4, <3>3
  <2>. QED  BY <2>2, <2>3, <2>4
<1>5. CASE k = m /\ (Begins(m) \/ Restores(m))
  <2>1. PICK w \in Welcome : session'[m] = FromWelcome(w)
    BY <1>5 DEF Begins, Restores
  <2>. QED  BY <1>5, <2>1, FromFields
<1>. QED  BY <1>2, <1>3, <1>4, <1>5, StepKinds

\* A session past the epoch it joined at goes on holding the key before its own.
LEMMA PreviousKeep ==
  ASSUME Types, Keyed, \A k \in Member : HoldsPrevious(k), NEW m \in Member, Act(m), reloads' = reloads
  PROVE  \A k \in Member : HoldsPrevious(k)'
<1>. SUFFICES ASSUME NEW k \in Member, session'[k] # None, session'[k].epoch > joinedAt'[k]
              PROVE  /\ session'[k].prev \in Key
                     /\ \E e \in Nat : session'[k].epoch = e + 1 /\ KeyOn(wire', session'[k].prev, e)
  BY DEF HoldsPrevious
<1>0. /\ \A i \in 1..Len(wire) : wire[i] \in Envelope
      /\ reloads \in Nat /\ joinedAt \in [Member -> Nat]
      /\ \A l, e : KeyOn(wire, l, e) => KeyOn(wire', l, e)
  BY WireStays, KeyStays, ElementOfSeq DEF Types
<1>1. CASE k # m \/ Drops(m)
  <2>1. session'[k] = session[k] /\ joinedAt'[k] = joinedAt[k]
    BY <1>1, StepKinds DEF OthersStay, Drops
  <2>. QED  BY <1>0, <2>1 DEF HoldsPrevious
<1>2. ASSUME NEW s \in Session, NEW t \in Session, session[m] = s, session'[m] = t, joinedAt' = joinedAt, k = m,
             \/ t.epoch = s.epoch /\ t.prev = s.prev
             \/ t.epoch = s.epoch + 1 /\ t.prev = s.key
      PROVE  /\ session'[k].prev \in Key
             /\ \E e \in Nat : session'[k].epoch = e + 1 /\ KeyOn(wire', session'[k].prev, e)
  <2>1. s # None /\ s.epoch \in Nat /\ s.key \in Key
    BY NoneIsNothing DEF Session
  <2>2. CASE t.epoch = s.epoch /\ t.prev = s.prev
    BY <1>0, <1>2, <2>1, <2>2 DEF HoldsPrevious
  <2>3. CASE t.epoch = s.epoch + 1 /\ t.prev = s.key
    BY <1>0, <1>2, <2>1, <2>3 DEF Keyed
  <2>. QED  BY <1>2, <2>2, <2>3
<1>3. CASE k = m /\ Writes(m)
  <2>1. PICK s \in Session, t \in Session, env \in Envelope :
             /\ session[m] = s /\ session'[m] = t
             /\ \/ env.commit = None /\ Counts(s, t)
                \/ env.commit \in CommitOf /\ env.commit.to = s.epoch + 1 /\ Turns(s, t, env.commit)
    BY <1>3 DEF Writes
  <2>2. joinedAt' = joinedAt
    BY <1>3 DEF Writes
  <2>. QED  BY <1>2, <1>3, <2>1, <2>2 DEF Counts, Turns
<1>4. CASE k = m /\ Reads(m)
  <2>1. PICK s \in Session, t \in Session, id \in 1..Len(wire) :
             /\ session[m] = s /\ session'[m] = t /\ Opens(s, wire[id])
             /\ \/ Guards(s, t, wire[id])
                \/ wire[id].commit # None /\ wire[id].commit.to > s.epoch /\ Turns(s, t, wire[id].commit)
    BY <1>4 DEF Reads
  <2>2. joinedAt' = joinedAt
    BY <1>4 DEF Reads
  <2>3. CASE Guards(s, t, wire[id])
    BY <1>2, <1>4, <2>1, <2>2, <2>3 DEF Guards
  <2>4. CASE wire[id].commit # None /\ wire[id].commit.to > s.epoch /\ Turns(s, t, wire[id].commit)
    <3>. PICK env : env = wire[id]
      OBVIOUS
    <3>1. env \in Envelope /\ env.commit.to = env.epoch + 1
      BY <1>0, <2>4 DEF Keyed
    <3>2. env.commit.to = s.epoch + 1
      BY <2>1, <2>4, <3>1, OpensNext
    <3>. QED  BY <1>2, <1>4, <2>1, <2>2, <2>4, <3>2 DEF Turns
  <2>. QED  BY <2>1, <2>3, <2>4
<1>5. CASE k = m /\ Begins(m)
  <2>1. PICK w \in Welcome : session'[m] = FromWelcome(w) /\ joinedAt' = [joinedAt EXCEPT ![m] = w.epoch]
    BY <1>5 DEF Begins
  <2>2. session'[m].epoch = w.epoch /\ joinedAt'[m] = w.epoch /\ w.epoch \in Nat
    BY <1>0, <2>1, FromFields DEF Welcome
  <2>. QED  BY <1>5, <2>2
<1>6. ~Restores(m)
  BY <1>0 DEF Restores
<1>. QED  BY <1>1, <1>3, <1>4, <1>5, <1>6, StepKinds

\* An envelope of the epoch of a key m has that m does not open is one m has read.
LEMMA RefusedIsRead ==
  ASSUME GInv, NoFork, reloads = 0, NEW m \in Member, session[m] # None, Notes(m),
         NEW id \in 1..Len(wire), ~Opens(session[m], wire[id]),
         KeyFor(session[m], wire[id]) \in Key,
         KeyOn(wire, KeyFor(session[m], wire[id]), wire[id].epoch)
  PROVE  \E i \in 1..Len(read[m]) : read[m][i] = id
<1>. PICK env, held : env = wire[id] /\ held = KeyFor(session[m], env)
  OBVIOUS
<1>0. Types /\ Keyed /\ NonceOnce /\ \A i \in 1..Len(wire) : wire[i] \in Envelope /\ wire[i].key \in Key
  <2>1. Types /\ \A i \in 1..Len(wire) : wire[i] \in Envelope
    BY ElementOfSeq DEF GInv, Types
  <2>. QED  BY <2>1 DEF GInv, Fresh, Envelope
<1>1. \A i \in 1..Len(wire) : wire[i].epoch = env.epoch => wire[i].key = held
  <2>1. ASSUME NEW i \in 1..Len(wire), wire[i].epoch = env.epoch
        PROVE  wire[i].key = held
    <3>1. KeyOn(wire, wire[i].key, env.epoch) /\ wire[i].key \in Key /\ held \in Key /\ KeyOn(wire, held, env.epoch)
      BY <1>0, <2>1 DEF Keyed
    <3>. QED  BY <1>0, <3>1, SameKey
  <2>. QED  BY <2>1
<1>2. held # None /\ held = env.key
  BY <1>1, NoneIsNothing
<1>3. Seen(session[m], env)
  BY <1>2 DEF Opens
<1>4. PICK i \in 1..Len(read[m]) : PlaceOf(env) = PlaceOf(wire[read[m][i]])
  BY <1>3 DEF Seen, PlaceOf, Notes
<1>5. read[m][i] \in 1..Len(wire)
  BY <1>0, ElementOfSeq DEF Types
<1>6. /\ wire[read[m][i]].sender = env.sender /\ wire[read[m][i]].epoch = env.epoch
      /\ wire[read[m][i]].n = env.n
  BY <1>4 DEF PlaceOf
<1>7. read[m][i] = id
  BY <1>0, <1>1, <1>2, <1>5, <1>6 DEF NonceOnce
<1>. QED  BY <1>7

\* What a member drops now.
LEMMA DropsWell ==
  ASSUME GInv, NoFork, reloads = 0, NEW m \in Member, session[m] # None, Notes(m), HoldsPrevious(m),
         NEW id \in 1..Len(wire), ~Opens(session[m], wire[id])
  PROVE  \/ \E i \in 1..Len(read[m]) : read[m][i] = id
         \/ wire[id].epoch < joinedAt[m]
         \/ wire[id].epoch > session[m].epoch
         \/ wire[id].epoch + 1 < session[m].epoch
<1>. PICK env, s : env = wire[id] /\ s = session[m]
  OBVIOUS
<1>0. Types /\ Keyed /\ env \in Envelope /\ s \in Session
  BY ElementOfSeq DEF GInv, Types
<1>1. env.epoch \in Nat /\ s.epoch \in Nat /\ s.key \in Key /\ joinedAt[m] \in Nat /\ KeyOn(wire, s.key, s.epoch)
  BY <1>0 DEF Envelope, Session, Types, Keyed
<1>3. CASE env.epoch = s.epoch
  <2>1. KeyFor(s, env) = s.key
    BY <1>3 DEF KeyFor
  <2>. QED  BY <1>1, <1>3, <2>1, RefusedIsRead
<1>4. CASE env.epoch + 1 = s.epoch /\ ~(env.epoch < joinedAt[m])
  <2>1. env.epoch + 1 = s.epoch /\ s.epoch > joinedAt[m] /\ env.epoch # s.epoch
    BY <1>1, <1>4
  <2>2. s.prev \in Key /\ \E e \in Nat : s.epoch = e + 1 /\ KeyOn(wire, s.prev, e)
    BY <2>1 DEF HoldsPrevious
  <2>3. KeyOn(wire, s.prev, env.epoch)
    <3>1. PICK e \in Nat : s.epoch = e + 1 /\ KeyOn(wire, s.prev, e)
      BY <2>2
    <3>2. e = env.epoch
      BY <1>1, <2>1, <3>1
    <3>. QED  BY <3>1, <3>2
  <2>4. KeyFor(s, env) = s.prev
    BY <2>1 DEF KeyFor
  <2>. QED  BY <2>2, <2>3, <2>4, RefusedIsRead
<1>. QED  BY <1>1, <1>3, <1>4

RInv == GInv /\ Recalls /\ OnlyOtherEpochsRefused

\* RInv is preserved by every step: what is refused is accounted for.
LEMMA RefusedKeep ==
  ASSUME RInv, NoFork, NEW m \in Member, Act(m)
  PROVE  RInv'
<1>0. /\ GInv /\ Types /\ Keyed /\ Recalls /\ \A k \in Member : Notes(k)
      /\ \A r \in refused : session[r[1]] # None
  BY DEF RInv, GInv, Recalls
<1>1. GInv'
  BY <1>0, TypesKeep, KeyedKeep, FreshKeep, ReplaysKeep, KeptKeep DEF GInv
<1>3. \A k \in Member : Notes(k)'
  BY <1>0, NotesKeep
<1>4. reloads \in Nat /\ (reloads' = 0 => reloads = 0 /\ reloads' = reloads)
  <2>1. reloads \in Nat
    BY <1>0 DEF Types
  <2>2. reloads' = reloads \/ reloads' = reloads + 1
    BY <1>0, StepKinds DEF Writes, Reads, Drops, Begins, Restores
  <2>. QED  BY <2>1, <2>2
<1>5. reloads' = 0 => \A k \in Member : HoldsPrevious(k)'
  BY <1>0, <1>4, PreviousKeep DEF Recalls
<1>6. \A k \in Member : session[k] # None => session'[k] # None /\ joinedAt'[k] = joinedAt[k]
  <2>1. \A k \in Member : k # m => session'[k] = session[k] /\ joinedAt'[k] = joinedAt[k]
    BY <1>0, StepKinds DEF OthersStay
  <2>2. ASSUME session[m] # None
        PROVE  session'[m] # None /\ joinedAt'[m] = joinedAt[m]
    <3>1. ~Begins(m)
      BY <2>2 DEF Begins
    <3>2. joinedAt' = joinedAt
      BY <1>0, <3>1, StepKinds DEF Writes, Reads, Drops, Restores
    <3>3. session'[m] \in Session \/ session'[m] = session[m]
      BY <1>0, <3>1, StepKinds, FromFields DEF Writes, Reads, Drops, Restores
    <3>. QED  BY <2>2, <3>2, <3>3, NoneIsNothing
  <2>. QED  BY <2>1, <2>2
<1>7. ASSUME NEW r \in refused'
      PROVE  \/ r \in refused /\ r[1] \in Member /\ r[2] \in 1..Len(wire)
             \/ /\ Drops(m) /\ r[1] = m /\ r[2] \in 1..Len(wire) /\ r[3] = session[m].epoch
                /\ ~Opens(session[m], wire[r[2]])
  <2>1. CASE r \in refused
    BY <1>0, <2>1 DEF Types
  <2>2. CASE r \notin refused
    <3>1. Drops(m)
      BY <1>0, <1>7, <2>2, StepKinds DEF Writes, Reads, Begins, Restores
    <3>2. PICK id \in 1..Len(wire) :
               refused' = refused \cup {<<m, id, session[m].epoch>>} /\ ~Opens(session[m], wire[id])
      BY <3>1 DEF Drops
    <3>3. r = <<m, id, session[m].epoch>>
      BY <1>7, <2>2, <3>2
    <3>. QED  BY <3>1, <3>2, <3>3
  <2>. QED  BY <2>1, <2>2
<1>8. \A r \in refused' : session'[r[1]] # None
  BY <1>0, <1>6, <1>7 DEF Drops
<1>9. ASSUME reloads' = 0, NEW r \in refused'
      PROVE  \/ \E i \in 1..Len(read'[r[1]]) : read'[r[1]][i] = r[2]
             \/ wire'[r[2]].epoch < joinedAt'[r[1]]
             \/ wire'[r[2]].epoch > r[3]
             \/ wire'[r[2]].epoch + 1 < r[3]
  <2>. PICK k : k = r[1]
    OBVIOUS
  <2>0. k \in Member /\ session[k] # None /\ r[2] \in 1..Len(wire)
    BY <1>0, <1>7 DEF Drops
  <2>1. \/ \E i \in 1..Len(read[k]) : read[k][i] = r[2]
        \/ wire[r[2]].epoch < joinedAt[k]
        \/ wire[r[2]].epoch > r[3]
        \/ wire[r[2]].epoch + 1 < r[3]
    <3>1. CASE r \in refused
      BY <1>4, <1>9, <3>1 DEF RInv, OnlyOtherEpochsRefused
    <3>2. CASE r \notin refused
      <4>1. k = m /\ r[3] = session[m].epoch /\ ~Opens(session[m], wire[r[2]])
        BY <1>7, <3>2
      <4>2. reloads = 0 /\ Notes(m) /\ HoldsPrevious(m)
        BY <1>0, <1>4, <1>9 DEF Recalls
      <4>. QED  BY <1>0, <2>0, <4>1, <4>2, DropsWell
    <3>. QED  BY <3>1, <3>2
  <2>2. wire'[r[2]] = wire[r[2]] /\ joinedAt'[k] = joinedAt[k]
    BY <1>0, <1>6, <2>0, WireStays
  <2>3. \A i \in 1..Len(read[k]) : i \in 1..Len(read'[k]) /\ read'[k][i] = read[k][i]
    BY <1>0, <2>0, ReadStays
  <2>. QED  BY <2>1, <2>2, <2>3
<1>10. OnlyOtherEpochsRefused'
  BY <1>9 DEF OnlyOtherEpochsRefused
<1>11. Recalls'
  BY <1>3, <1>5, <1>8 DEF Recalls
<1>. QED  BY <1>1, <1>10, <1>11 DEF RInv

\* While no tab was reloaded, what a member refused for good is what it has read, what is
\* from before it joined, what came ahead of the commit that began its epoch, or what is
\* more than one epoch old: members on both sides of a commit read each other.
THEOREM OnlyOtherEpochsRefusedAlways ==
  ASSUME Led
  PROVE  Spec => []OnlyOtherEpochsRefused
<1>1. ASSUME Init PROVE RInv
  <2>1. GInv
    BY <1>1, GroupBegins
  <2>2. refused = {} /\ \A m \in Member : joinedAt[m] = 0
    BY <1>1 DEF Init
  <2>3. ASSUME NEW m \in Member, session[m] # None
        PROVE  session[m].seen = {} /\ session[m].epoch = 0
    <3>. PICK w : w = [epoch |-> 0, key |-> <<>>, members |-> Founders]
      OBVIOUS
    <3>1. w \in Welcome
      BY GroupAssumption, EmptySeq DEF Welcome, Key
    <3>2. session[m] = FromWelcome(w)
      BY <1>1, <2>3 DEF Init, Created
    <3>. QED  BY <3>1, <3>2, FromFields
  <2>4. \A m \in Member : Notes(m) /\ HoldsPrevious(m)
    BY <2>2, <2>3 DEF Notes, HoldsPrevious
  <2>. QED  BY <2>1, <2>2, <2>4 DEF RInv, Recalls, OnlyOtherEpochsRefused
<1>2. ASSUME RInv, NoFork, [Next]_vars PROVE RInv'
  <2>1. CASE Next
    BY <1>2, <2>1, NextActs, RefusedKeep
  <2>2. CASE UNCHANGED vars
    <3>1. UNCHANGED <<session, wire, read, refused, joinedAt, reloads>>
      BY <2>2 DEF vars, historyVars
    <3>2. GInv'
      BY <1>2, <2>2, GroupStutters DEF RInv
    <3>3. Recalls'
      BY <1>2, <3>1 DEF RInv, Recalls, Notes, HoldsPrevious
    <3>4. OnlyOtherEpochsRefused'
      BY <1>2, <3>1 DEF RInv, OnlyOtherEpochsRefused
    <3>. QED  BY <3>2, <3>3, <3>4 DEF RInv
  <2>. QED  BY <1>2, <2>1, <2>2
<1>3. RInv /\ NoFork /\ [Next]_vars => RInv'
  BY <1>2
<1>4. RInv => OnlyOtherEpochsRefused
  BY DEF RInv
<1>. QED  BY <1>1, <1>3, <1>4, NoForkAlways, PTL DEF Spec

---------------------------------------------------------------------------
(* The boot gate.                                                          *)

\* What a bootstrap has reached, by its step: libsodium is bound after the first, the page has
\* an identity of v6 before it connects, and one is stored then.
Reached ==
  /\ gate \in {"identity", "generate", "top-up", "connect", "ready"} => sodium = "bound"
  /\ gate \in {"top-up", "connect", "ready"} => page.id \in Boot!Current
  /\ gate \in {"top-up", "connect", "ready"} => store.id \in Boot!Current
  /\ gate = "generate" => store.id = found /\ store.id \notin Boot!Current
  /\ gate = "ready" => page.ws # "none" \/ found = "v3"

\* Only a page that is ready has a socket, an import or callers that were told so; sessions are
\* stored beside a v6 identity; an answer counts as clean only while the server answers.
OnlyReady ==
  /\ page.ws # "none" \/ import # "none" => gate = "ready"
  /\ \A c \in Caller : told[c] = "ready" => gate = "ready"
  /\ callers # {} => gate \notin {"idle", "ready"}
  /\ store.id \notin Boot!Current => store.sessions \notin Boot!Current
  /\ sodium # "failed" /\ (clean => net)

BootInv == Boot!TypeOK /\ Reached /\ OnlyReady

\* Whoever waited is told the outcome, and nobody waits any more.
LEMMA TellTells ==
  ASSUME NEW outcome \in {"ready", "failed"}, Boot!TypeOK, Boot!Tell(outcome)
  PROVE  /\ told' \in [Caller -> {"nothing", "ready", "failed"}] /\ callers' = {}
         /\ \A c \in Caller : told'[c] = "ready" => outcome = "ready" \/ told[c] = "ready"
BY DEF Boot!TypeOK, Boot!Tell

\* What the store holds of an identity.
StoreRecord == [id : Boot!Identities, full : BOOLEAN, bundle : Boot!Identities, sessions : Boot!Identities]

\* What the page keeps in memory.
PageRecord == [id : Boot!Identities, sessions : Boot!Identities, ws : {"none", "dialled", "registered"}]

\* A new identity, an adopted one and a filled pool are stored as such.
LEMMA StoreIs ==
  ASSUME Boot!TypeOK, NEW id \in Boot!Identities, NEW sealed \in Boot!Identities
  PROVE  /\ Boot!Store(id, TRUE, store.bundle, sealed) \in StoreRecord
         /\ Boot!Store(id, TRUE, store.bundle, sealed).id = id
         /\ Boot!Store(id, TRUE, store.bundle, sealed).sessions = sealed
<1>. DEFINE yes == TRUE
<1>1. yes \in BOOLEAN
  OBVIOUS
<1>. HIDE DEF yes
<1>2. /\ Boot!Store(id, yes, store.bundle, sealed) \in StoreRecord
      /\ Boot!Store(id, yes, store.bundle, sealed).id = id
      /\ Boot!Store(id, yes, store.bundle, sealed).sessions = sealed
  BY <1>1 DEF Boot!Store, Boot!TypeOK, StoreRecord
<1>. QED  BY <1>2 DEF yes

\* The page's steps of the boot gate keep its invariant.
LEMMA BootKeeps ==
  ASSUME BootInv, Boot!Next
  PROVE  BootInv'
<1>6. CASE Boot!Generate
  <2>0. Boot!TypeOK /\ "own" \in Boot!Identities /\ "none" \in Boot!Identities
    BY DEF BootInv, Boot!Identities, Boot!Current, Boot!Nobody
  <2>1. CASE modules = "failed"
    <3>1. gate' = "idle" /\ Boot!Tell("failed") /\ UNCHANGED <<net, store, sodium, modules, page, import, clean, arrived, found, visits>>
      BY <1>6, <2>1 DEF Boot!Generate, Boot!Rejected
    <3>2. /\ told' \in [Caller -> {"nothing", "ready", "failed"}] /\ callers' = {}
          /\ \A c \in Caller : told'[c] = "ready" => told[c] = "ready"
      BY <2>0, <3>1, TellTells
    <3>. QED  BY <3>1, <3>2, <1>6 DEF Boot!Generate, BootInv, Boot!TypeOK, Reached, OnlyReady, Boot!Identities, Boot!Current, Boot!Nobody
  <2>2. CASE modules = "bound" /\ store.id = "v4"
    <3>1. /\ store' = [store EXCEPT !.sessions = "none"] /\ page' = [page EXCEPT !.id = "v4"]
          /\ gate' = "idle" /\ Boot!Tell("failed") /\ UNCHANGED <<net, sodium, modules, import, clean, arrived, found, visits>>
      BY <1>6, <2>2 DEF Boot!Generate, Boot!Rejected, Boot!Nobody
    <3>2. /\ told' \in [Caller -> {"nothing", "ready", "failed"}] /\ callers' = {}
          /\ \A c \in Caller : told'[c] = "ready" => told[c] = "ready"
      BY <2>0, <3>1, TellTells
    <3>. QED  BY <3>1, <3>2, <1>6, <2>2 DEF Boot!Generate, BootInv, Boot!TypeOK, Reached, OnlyReady, Boot!Identities, Boot!Current, Boot!Nobody
  <2>3. CASE modules = "bound" /\ store.id # "v4"
    <3>1. /\ store' = Boot!Store("own", TRUE, store.bundle, "none") /\ page' = [page EXCEPT !.id = "own", !.sessions = "none"]
          /\ store.id = "v3" => gate' = "ready" /\ Boot!Tell("ready")
          /\ store.id # "v3" => gate' = "connect" /\ UNCHANGED <<told, callers>>
          /\ UNCHANGED <<net, sodium, modules, import, clean, arrived, found, visits>>
      BY <1>6, <2>3 DEF Boot!Generate, Boot!Resolved, Boot!Go, Boot!NewIdentity, Boot!Nobody
    <3>2. /\ store' \in StoreRecord /\ store'.id = "own" /\ store'.sessions = "none"
      BY <2>0, <3>1, StoreIs
    <3>3. store.id = "v3" => /\ told' \in [Caller -> {"nothing", "ready", "failed"}] /\ callers' = {}
      BY <2>0, <3>1, TellTells
    <3>4. page' \in PageRecord /\ page'.id = "own" /\ page'.ws = page.ws
      BY <2>0, <3>1 DEF PageRecord, Boot!TypeOK
    <3>5. gate = "generate" /\ store.id = found /\ sodium = "bound"
      BY <1>6 DEF Boot!Generate, BootInv, Reached
    <3>6. CASE store.id = "v3"
      BY <3>1, <3>2, <3>3, <3>4, <3>5, <3>6 DEF StoreRecord, PageRecord, BootInv, Boot!TypeOK, Reached, OnlyReady, Boot!Identities, Boot!Current, Boot!Nobody
    <3>7. CASE store.id # "v3"
      BY <3>1, <3>2, <3>4, <3>5, <3>7 DEF StoreRecord, PageRecord, BootInv, Boot!TypeOK, Reached, OnlyReady, Boot!Identities, Boot!Current, Boot!Nobody
    <3>. QED  BY <3>6, <3>7
  <2>. QED  BY <1>6, <2>1, <2>2, <2>3 DEF Boot!Generate, Boot!Settled
<1>7. CASE Boot!TopUp
  <2>1. CASE modules = "failed"
    <3>1. gate' = "idle" /\ Boot!Tell("failed") /\ UNCHANGED <<net, store, sodium, modules, page, import, clean, arrived, found, visits>>
      BY <1>7, <2>1 DEF Boot!TopUp, Boot!Rejected
    <3>2. /\ told' \in [Caller -> {"nothing", "ready", "failed"}] /\ callers' = {}
          /\ \A c \in Caller : told'[c] = "ready" => told[c] = "ready"
      BY <3>1, TellTells DEF BootInv
    <3>. QED  BY <3>1, <3>2, <1>7 DEF Boot!TopUp, BootInv, Boot!TypeOK, Reached, OnlyReady, Boot!Identities, Boot!Current, Boot!Nobody
  <2>2. CASE modules # "failed"
    <3>1. gate' = "connect" /\ UNCHANGED <<told, callers, net, sodium, modules, page, import, clean, arrived, found, visits>>
      BY <1>7, <2>2 DEF Boot!TopUp, Boot!Go
    <3>. DEFINE yes == TRUE
    <3>2. store' = [store EXCEPT !.full = yes] /\ yes \in BOOLEAN
      BY <1>7, <2>2 DEF Boot!TopUp
    <3>. HIDE DEF yes
    <3>. QED  BY <3>1, <3>2, <1>7 DEF Boot!TopUp, BootInv, Boot!TypeOK, Reached, OnlyReady, Boot!Identities, Boot!Current, Boot!Nobody
  <2>. QED  BY <2>1, <2>2
<1>8. CASE Boot!Connect
  <2>1. PICK owner \in Boot!Identities : page' = [page EXCEPT !.sessions = owner, !.ws = "dialled"]
    BY <1>8 DEF Boot!Connect, BootInv, Boot!TypeOK
  <2>2. gate = "connect" /\ gate' = "ready" /\ Boot!Tell("ready") /\ UNCHANGED <<net, store, sodium, modules, import, clean, arrived, found, visits>>
    BY <1>8 DEF Boot!Connect, Boot!Resolved
  <2>3. /\ told' \in [Caller -> {"nothing", "ready", "failed"}] /\ callers' = {}
    BY <2>2, TellTells DEF BootInv
  <2>4. page' \in PageRecord /\ page'.id = page.id /\ page'.ws = "dialled"
    BY <2>1 DEF PageRecord, BootInv, Boot!TypeOK
  <2>. QED  BY <2>2, <2>3, <2>4 DEF PageRecord, BootInv, Boot!TypeOK, Reached, OnlyReady, Boot!Identities, Boot!Current, Boot!Nobody
<1>13. CASE Boot!EndImport
  <2>1. CASE modules = "failed"
    BY <1>13, <2>1 DEF Boot!EndImport, BootInv, Boot!TypeOK, Reached, OnlyReady, Boot!Identities, Boot!Current, Boot!Nobody
  <2>2. CASE modules # "failed"
    <3>0. PICK id \in {"fresh", "vault"} : Boot!Adopt(id)
      BY <1>13, <2>2 DEF Boot!EndImport
    <3>1. gate = "ready" /\ UNCHANGED <<net, gate, callers, told, sodium, modules, clean, arrived, found, visits>>
      BY <1>13 DEF Boot!EndImport, BootInv, OnlyReady
    <3>2. store' = Boot!Store(id, TRUE, store.bundle, "none")
      BY <3>0 DEF Boot!Adopt, Boot!Nobody
    <3>3. /\ store' \in StoreRecord /\ store'.id = id /\ store'.sessions = "none"
      BY <3>2, StoreIs DEF Boot!Identities, Boot!Current, Boot!Nobody, BootInv
    <3>4. /\ page' \in [id : Boot!Identities, sessions : Boot!Identities, ws : {"none", "dialled", "registered"}]
          /\ page'.id = id /\ (page'.ws = "none" <=> page.ws = "none") /\ import' = "none"
      BY <3>0 DEF Boot!Adopt, Boot!Identities, Boot!Current, Boot!Nobody
    <3>. QED  BY <3>1, <3>3, <3>4 DEF StoreRecord, BootInv, Boot!TypeOK, Reached, OnlyReady, Boot!Identities, Boot!Current, Boot!Nobody
  <2>. QED  BY <2>1, <2>2
<1>15. CASE Boot!Deliver
  <2>1. PICK fate : fate \in {"read", "refused"} /\ arrived' = fate
    BY <1>15 DEF Boot!Deliver
  <2>2. gate = "ready" /\ UNCHANGED <<net, gate, told, callers, sodium, modules, import, clean, found, visits>>
    BY <1>15 DEF Boot!Deliver, BootInv, OnlyReady
  <2>3. page' \in PageRecord /\ page'.id = page.id /\ page'.ws = page.ws
    <3>1. PICK owner \in {page.sessions, page.id} : page' = page \/ page' = [page EXCEPT !.sessions = owner]
      BY <1>15 DEF Boot!Deliver, Boot!FirstMessage
    <3>. QED  BY <3>1 DEF PageRecord, BootInv, Boot!TypeOK
  <2>4. store' \in StoreRecord
    <3>0. store \in StoreRecord /\ page.id \in Boot!Identities /\ store.bundle \in Boot!Identities
      BY DEF StoreRecord, BootInv, Boot!TypeOK
    <3>. DEFINE no == FALSE
    <3>. DEFINE owner == page.id
    <3>1. \/ store' = store \/ store' = [store EXCEPT !.sessions = owner]
          \/ store' = Boot!Store(page.id, no, store.bundle, page.id)
      BY <1>15 DEF Boot!Deliver, Boot!FirstMessage
    <3>2. CASE store' = Boot!Store(page.id, no, store.bundle, page.id)
      <4>1. no \in BOOLEAN
        OBVIOUS
      <4>. HIDE DEF no
      <4>. QED  BY <3>0, <3>2, <4>1 DEF StoreRecord, Boot!Store
    <3>3. CASE store' = [store EXCEPT !.sessions = owner]
      BY <3>0, <3>3 DEF StoreRecord
    <3>. QED  BY <3>0, <3>1, <3>2, <3>3
  <2>5. store'.id \in Boot!Current
    <3>. DEFINE no == FALSE
    <3>0. store.id \in Boot!Current /\ page.id \in Boot!Current
      BY <1>15 DEF Boot!Deliver, BootInv, Reached, OnlyReady
    <3>1. \/ store' = store \/ store' = [store EXCEPT !.sessions = page.id]
          \/ store' = [id |-> page.id, full |-> no, bundle |-> store.bundle, sessions |-> page.id]
      BY <1>15 DEF Boot!Deliver, Boot!FirstMessage, Boot!Store
    <3>. HIDE DEF no
    <3>2. store \in StoreRecord
      BY DEF StoreRecord, BootInv, Boot!TypeOK
    <3>. QED  BY <3>0, <3>1, <3>2 DEF StoreRecord
  <2>. QED  BY <2>1, <2>2, <2>3, <2>4, <2>5 DEF StoreRecord, PageRecord, BootInv, Boot!TypeOK, Reached, OnlyReady, Boot!Identities, Boot!Current, Boot!Nobody
<1>. USE BootAssumption DEF BootInv, Boot!TypeOK, Reached, OnlyReady, Boot!Identities, Boot!Current, Boot!Nobody
<1>0. CASE \E c \in Caller : Boot!Await(c)
  BY <1>0 DEF Boot!Await
<1>1. CASE Boot!Visit
  BY <1>1 DEF Boot!Visit, Boot!Store
<1>2. CASE Boot!LoadSodium
  BY <1>2 DEF Boot!LoadSodium, Boot!Go, Boot!Rejected, Boot!Tell, Boot!AfterFailure
<1>3. CASE Boot!loadPQ
  BY <1>3 DEF Boot!loadPQ
<1>4. CASE Boot!PQSettles
  BY <1>4 DEF Boot!PQSettles
<1>5. CASE Boot!LoadIdentity
  BY <1>5 DEF Boot!LoadIdentity, Boot!Usable, Boot!Go
<1>9. CASE Boot!Register
  BY <1>9 DEF Boot!Register
<1>10. CASE Boot!Rotate
  BY <1>10 DEF Boot!Rotate
<1>11. CASE Boot!ImportFull
  BY <1>11 DEF Boot!ImportFull, Boot!Adopt, Boot!Store
<1>12. CASE Boot!ImportShort
  BY <1>12 DEF Boot!ImportShort
<1>14. CASE Boot!OpenSession
  BY <1>14 DEF Boot!OpenSession
<1>16. CASE Boot!NetFlips
  <2>1. net' \in BOOLEAN /\ clean' = FALSE
    BY <1>16, Zenon DEF Boot!NetFlips
  <2>2. UNCHANGED <<store, gate, callers, told, sodium, modules, page, import, arrived, found, visits>>
    BY <1>16 DEF Boot!NetFlips
  <2>3. clean' \in BOOLEAN /\ ~clean'
    BY <2>1
  <2>. QED  BY <2>1, <2>2, <2>3
<1>17. CASE Boot!Reload
  BY <1>17 DEF Boot!Reload, Boot!NoPage
<1>. QED  BY <1>0, <1>1, <1>2, <1>3, <1>4, <1>5, <1>6, <1>7, <1>8, <1>9, <1>10, <1>11, <1>12, <1>13, <1>14, <1>15, <1>16, <1>17 DEF Boot!Next

\* A step of the pages is a step of one part or leaves it alone, whichever part.
LEMMA PageSteps ==
  ASSUME [PageNext]_pageVars
  PROVE  /\ [Next]_vars /\ [Boot!Next]_(Boot!vars) /\ [Memory!Next]_(Memory!vars)
         /\ [Attempts!Next]_(Attempts!vars) /\ [Verdict!Next]_(Verdict!vars)
         /\ [Conversation!Next]_(Conversation!vars)
BY DEF PageNext, pageVars, vars, boot, memory, attempts, verdict, codec, talk,
       Boot!vars, Memory!vars, Attempts!vars, Verdict!vars, Conversation!vars

\* The page's first visit finds the invariant of the boot gate.
LEMMA BootBegins ==
  ASSUME PageInit
  PROVE  BootInv
<1>1. Boot!Init
  BY DEF PageInit
<1>. DEFINE no == FALSE
<1>2. store = [id |-> "none", full |-> no, bundle |-> "none", sessions |-> "none"] /\ no \in BOOLEAN
  BY <1>1 DEF Boot!Init, Boot!Store, Boot!Nobody
<1>. HIDE DEF no
<1>3. net \in BOOLEAN /\ clean \in BOOLEAN /\ (clean => net)
  BY <1>1, Zenon DEF Boot!Init
<1>4. store \in StoreRecord /\ store.id = "none" /\ store.sessions = "none"
  BY <1>2 DEF StoreRecord, Boot!Identities, Boot!Nobody
<1>5. page = [id |-> "none", sessions |-> "none", ws |-> "none"]
  BY <1>1 DEF Boot!Init, Boot!NoPage, Boot!Nobody
<1>6. /\ gate = "idle" /\ callers = {} /\ told = [c \in Caller |-> "nothing"] /\ sodium = "none"
      /\ modules = "none" /\ import = "none" /\ arrived = "none" /\ found = "none" /\ visits = 0
  BY <1>1 DEF Boot!Init, Boot!Nobody
<1>. QED  BY <1>3, <1>4, <1>5, <1>6 DEF StoreRecord, BootInv, Boot!TypeOK, Reached, OnlyReady, Boot!Identities, Boot!Current, Boot!Nobody

\* Steps of the other parts leave the boot gate alone.
LEMMA BootInductive == BootInv /\ [PageNext]_pageVars => BootInv'
<1>. SUFFICES ASSUME BootInv, [PageNext]_pageVars PROVE BootInv'
  OBVIOUS
<1>1. CASE Boot!Next
  BY <1>1, BootKeeps
<1>2. CASE UNCHANGED Boot!vars
  BY <1>2 DEF Boot!vars, BootInv, Boot!TypeOK, Reached, OnlyReady
<1>. QED  BY <1>1, <1>2, PageSteps

\* Whoever was told the page is ready finds an identity, libsodium and, unless an identity
\* of v3 was replaced, a relay that was dialled; nobody waits on a bootstrap that does not
\* run, through failures, retries, rotations, imports and reloads.
THEOREM ReadyMeansReadyAlways == PageSpec => []ReadyMeansReady
<1>1. BootInv => ReadyMeansReady
  BY DEF BootInv, Reached, OnlyReady, ReadyMeansReady, Boot!ReadyMeansReady, Boot!Current, Boot!Nobody
<1>. QED  BY BootBegins, BootInductive, <1>1, PTL DEF PageSpec

\* Who waited and was told that the bootstrap failed finds a cause that lasts: the server did not
\* answer, the modules had failed, or the identity is of v4.
FailedForCause ==
  (\E c \in callers : told'[c] = "failed" /\ c \notin callers') => ~clean \/ modules = "failed" \/ found = "v4"

\* What a step does to the identity and the sessions that are stored.
KeptIdentity ==
  /\ (store.id \in Boot!Current /\ store'.id # store.id) => gate = "ready"
  /\ (page.id = store.id /\ store'.sessions # store.sessions) => store'.sessions \in {Boot!Nobody, store'.id}
  /\ (store.sessions \in Boot!Current /\ store'.sessions = Boot!Nobody) => gate = "ready"

\* A bootstrap fails in three places only.
LEMMA FailsInThree ==
  ASSUME BootInv, Boot!Next
  PROVE  FailedForCause
<1>. SUFFICES ASSUME NEW c \in callers, told'[c] = "failed", c \notin callers'
              PROVE  ~clean \/ modules = "failed" \/ found = "v4"
  BY DEF FailedForCause
<1>1. c \in Caller /\ Boot!Nobody = "none" /\ Boot!TypeOK
  BY DEF BootInv, Boot!TypeOK, Boot!Nobody
<1>2. CASE Boot!LoadSodium
  <2>1. gate = "sodium" /\ sodium \in {"none", "bound"} /\ (clean => net)
    BY <1>2, <1>1 DEF Boot!LoadSodium, BootInv, OnlyReady, Boot!TypeOK
  <2>2. ~(sodium = "bound" \/ (sodium = "none" /\ net))
    BY <1>2 DEF Boot!LoadSodium, Boot!Go
  <2>. QED  BY <2>1, <2>2
<1>3. CASE Boot!Generate
  BY <1>1, <1>3 DEF Boot!Generate, Boot!Go, Boot!Resolved, Boot!Tell, BootInv, Reached
<1>4. CASE Boot!TopUp
  BY <1>1, <1>4 DEF Boot!TopUp, Boot!Go
<1>5. ~Boot!Reload
  BY <1>1 DEF Boot!Reload
<1>6. ~Boot!Connect
  BY <1>1 DEF Boot!Connect, Boot!Resolved, Boot!Tell
<1>7. ~\E d \in Caller : Boot!Await(d)
  BY <1>1 DEF Boot!Await
<1>8. ~Boot!LoadIdentity
  BY <1>1 DEF Boot!LoadIdentity, Boot!Go
<1>9. callers' # callers
  BY <1>1
<1>. QED
  BY <1>2, <1>3, <1>4, <1>5, <1>6, <1>7, <1>8, <1>9
  DEF Boot!Next, Boot!Visit, Boot!loadPQ, Boot!PQSettles, Boot!Register, Boot!Rotate, Boot!ImportFull,
      Boot!ImportShort, Boot!EndImport, Boot!OpenSession, Boot!Deliver, Boot!NetFlips

\* Only the user's own rotation or import replaces a v6 identity.
LEMMA IdentityStays ==
  ASSUME BootInv, Boot!Next
  PROVE  KeptIdentity
<1>. USE DEF BootInv, Boot!TypeOK, Reached, OnlyReady, Boot!Identities, Boot!Current, Boot!Nobody, KeptIdentity, Boot!Store
<1>1. CASE Boot!Visit
  BY <1>1 DEF Boot!Visit
<1>2. CASE Boot!Generate
  <2>1. gate = "generate" /\ store.id \notin Boot!Current /\ (store' = store \/ store'.sessions = "none")
    BY <1>2 DEF Boot!Generate, Boot!NewIdentity
  <2>. QED  BY <2>1
<1>3. CASE Boot!TopUp
  <2>1. store'.id = store.id /\ store'.sessions = store.sessions
    BY <1>3 DEF Boot!TopUp
  <2>. QED  BY <2>1
<1>4. CASE Boot!Register
  <2>1. store'.id = store.id /\ store'.sessions = store.sessions
    BY <1>4 DEF Boot!Register
  <2>. QED  BY <2>1
<1>5. CASE Boot!ImportFull \/ Boot!EndImport
  <2>1. gate = "ready" /\ (store' = store \/ store'.sessions = "none")
    BY <1>5 DEF Boot!ImportFull, Boot!EndImport, Boot!Adopt
  <2>. QED  BY <2>1
<1>6. CASE Boot!OpenSession
  <2>1. gate = "ready" /\ store'.id = store.id /\ store'.sessions = page.id
    BY <1>6 DEF Boot!OpenSession
  <2>. QED  BY <2>1
<1>7. CASE Boot!Deliver
  <2>1. gate = "ready"
    BY <1>7 DEF Boot!Deliver
  <2>2. store'.sessions \in {store.sessions, page.id} /\ store'.id \in {store.id, page.id}
    BY <1>7 DEF Boot!Deliver, Boot!FirstMessage
  <2>. QED  BY <2>1, <2>2
<1>8. CASE store' = store
  BY <1>8
<1>. QED
  BY <1>1, <1>2, <1>3, <1>4, <1>5, <1>6, <1>7, <1>8
  DEF Boot!Next, Boot!Await, Boot!LoadSodium, Boot!loadPQ, Boot!PQSettles, Boot!LoadIdentity, Boot!Connect,
      Boot!Rotate, Boot!ImportShort, Boot!NetFlips, Boot!Reload

\* The same over any step of the pages.
LEMMA BootSteps ==
  ASSUME BootInv, [PageNext]_pageVars
  PROVE  [FailedForCause]_(Boot!vars) /\ [KeptIdentity]_(Boot!vars)
<1>1. CASE Boot!Next
  BY <1>1, FailsInThree, IdentityStays
<1>2. CASE UNCHANGED Boot!vars
  BY <1>2
<1>. QED  BY <1>1, <1>2, PageSteps

\* A caller is told of a failure only while the server does not answer, unless the modules failed
\* to load or the stored identity is of v4: a failure leaves nothing else that dooms the next attempt.
THEOREM FailsForCauseAlways == PageSpec => Boot!FailsForCause
<1>1. BootInv /\ [PageNext]_pageVars =>
        [(\E c \in callers : told'[c] = "failed" /\ c \notin callers') => ~clean \/ modules = "failed" \/ found = "v4"]_(Boot!vars)
  BY BootSteps DEF FailedForCause
<1>. QED  BY BootBegins, BootInductive, <1>1, PTL DEF PageSpec, Boot!FailsForCause

\* A bootstrap never gives up the identity or the sessions it finds.
THEOREM KeepsIdentityAlways == PageSpec => Boot!KeepsIdentity
<1>1. BootInv /\ [PageNext]_pageVars =>
        [/\ (store.id \in Boot!Current /\ store'.id # store.id) => gate = "ready"
         /\ (page.id = store.id /\ store'.sessions # store.sessions) => store'.sessions \in {Boot!Nobody, store'.id}
         /\ (store.sessions \in Boot!Current /\ store'.sessions = Boot!Nobody) => gate = "ready"]_(Boot!vars)
  BY BootSteps DEF KeptIdentity
<1>. QED  BY BootBegins, BootInductive, <1>1, PTL DEF PageSpec, Boot!KeepsIdentity

---------------------------------------------------------------------------
(* Memory.                                                                  *)

\* What the daemon holds or will index was retained by the owner of the bank, and so was
\* what a hint quotes.
Own ==
  /\ \A u \in Memory!Users : \A i \in banks[u].items : i.user = u
  /\ \A e \in indexing : e[2].user = e[1]
  /\ \A h \in hints : h.item.user = h.user

\* What is retained is a text, and the client goes on after it only if the retain waited.
Chained(c) == c.op = "retain" => c.text # 0 /\ (c.then => c.wait)

\* What a recall was promised: it knows of no later life of the bank than there is, and finds
\* the item in the life it was promised it.  A recall is chained to retains that wait only.
Promised ==
  /\ \A c \in calls : c.op = "recall" => /\ c.sure <= banks[c.user].life
                                         /\ c.sure = banks[c.user].life => Memory!ItemOf(c) \in banks[c.user].items
  /\ \A c \in calls : Chained(c)

\* Deletions are counted: the one under way fits under the bound.
Deletable ==
  \A c \in calls : c.op = "delete" => c = Memory!BankCall("delete", c.user, FALSE) /\ banks[c.user].life <= MaxDeletes

\* A daemon the sidecar started has a sidecar that knows.
Stoppable ==
  /\ daemon.by = "sidecar" /\ daemon.state # "down" => sidecar.spawned /\ sidecar.phase # "exited"
  /\ sidecar.phase = "probing" => daemon.by = "other"

MemInv == Memory!TypeOK /\ Own /\ Promised /\ Deletable /\ Stoppable

\* The daemon begins empty, and the sidecar without one of its own.
LEMMA MemoryBegins ==
  ASSUME PageInit
  PROVE  MemInv
<1>1. Memory!Init
  BY DEF PageInit
<1>. DEFINE no == FALSE
<1>2. banks = [u \in Memory!Users |-> [life |-> 1, items |-> {}, template |-> no]] /\ no \in BOOLEAN
  BY <1>1 DEF Memory!Init
<1>3. sidecar = [phase |-> "probing", healthy |-> no, spawned |-> no]
  BY <1>1 DEF Memory!Init
<1>. HIDE DEF no
<1>4. banks \in [Memory!Users -> [life : 1 .. MaxDeletes + 1, items : SUBSET Memory!Item, template : BOOLEAN]]
  BY <1>2, MemoryAssumption
<1>5. Memory!TypeOK
  BY <1>1, <1>2, <1>3, <1>4 DEF Memory!Init, Memory!TypeOK, Memory!Users
<1>6. Own
  BY <1>1, <1>2 DEF Memory!Init, Own
<1>7. Promised /\ Deletable
  BY <1>1 DEF Memory!Init, Promised, Deletable
<1>8. Stoppable
  BY <1>1, <1>3 DEF Memory!Init, Stoppable
<1>. QED  BY <1>5, <1>6, <1>7, <1>8 DEF MemInv

\* The requests the clients make.
LEMMA CallTypes ==
  ASSUME NEW u \in Memory!Users, NEW n \in 0..2, NEW wait \in BOOLEAN, NEW then \in BOOLEAN,
         NEW sure \in 0..MaxDeletes + 1
  PROVE  /\ Memory!RetainCall(u, p1, n, wait, then) \in Memory!Call
         /\ Memory!RecallCall(u, p1, n, sure) \in Memory!Call
         /\ Memory!BankCall("put", u, then) \in Memory!Call
         /\ Memory!BankCall("import", u, then) \in Memory!Call
         /\ Memory!BankCall("delete", u, then) \in Memory!Call
<1>. DEFINE yes == TRUE no == FALSE
<1>1. yes \in BOOLEAN /\ no \in BOOLEAN /\ 0 \in 0..MaxDeletes + 1 /\ 0 \in 0..2
  BY MemoryAssumption
<1>2. (CHOOSE p \in {p1} : TRUE) \in {p1}
  OBVIOUS
<1>. DEFINE first == CHOOSE p \in {p1} : TRUE
<1>. HIDE DEF yes, no, first
<1>3. /\ [op |-> "recall", user |-> u, peer |-> p1, text |-> n, wait |-> yes, then |-> no, sure |-> sure] \in Memory!Call
      /\ \A op \in {"put", "import", "delete"} :
           [op |-> op, user |-> u, peer |-> first, text |-> 0, wait |-> yes, then |-> then, sure |-> 0] \in Memory!Call
  BY <1>1, <1>2 DEF Memory!Call, first
<1>4. [op |-> "retain", user |-> u, peer |-> p1, text |-> n, wait |-> wait, then |-> then, sure |-> 0] \in Memory!Call
  BY <1>1 DEF Memory!Call
<1>. QED  BY <1>3, <1>4 DEF yes, no, first, Memory!RetainCall, Memory!RecallCall, Memory!BankCall

\* What they ask for.
LEMMA CallFields ==
  ASSUME NEW u, NEW p, NEW n, NEW wait, NEW then, NEW sure, NEW op
  PROVE  /\ Memory!RetainCall(u, p, n, wait, then).op = "retain" /\ Memory!RetainCall(u, p, n, wait, then).user = u
         /\ Memory!RetainCall(u, p, n, wait, then).text = n /\ Memory!RetainCall(u, p, n, wait, then).peer = p
         /\ Memory!RetainCall(u, p, n, wait, then).wait = wait /\ Memory!RetainCall(u, p, n, wait, then).then = then
         /\ Memory!RecallCall(u, p, n, sure).op = "recall" /\ Memory!RecallCall(u, p, n, sure).user = u
         /\ Memory!RecallCall(u, p, n, sure).sure = sure /\ Memory!RecallCall(u, p, n, sure).peer = p
         /\ Memory!RecallCall(u, p, n, sure).text = n
         /\ Memory!BankCall(op, u, then).op = op /\ Memory!BankCall(op, u, then).user = u
BY DEF Memory!RetainCall, Memory!RecallCall, Memory!BankCall

\* A call that may be made at any time.
Askable(c) ==
  /\ c \in Memory!Call /\ Chained(c)
  /\ c.op = "recall" => c.sure = 0
  /\ c.op = "delete" => c = Memory!BankCall("delete", c.user, FALSE) /\ banks[c.user].life <= MaxDeletes

\* All calls but those that follow one that succeeded are such.
LEMMA CallsAskable ==
  ASSUME MemInv, NEW u \in Memory!Users
  PROVE  /\ \A n \in 1..2 : /\ Askable(Memory!RetainCall(u, p1, n, FALSE, FALSE)) /\ Askable(Memory!RetainCall(u, p1, n, TRUE, TRUE))
                            /\ Askable(Memory!RecallCall(u, p1, n, 0))
         /\ Askable(Memory!BankCall("put", u, TRUE)) /\ Askable(Memory!BankCall("put", u, FALSE))
         /\ Askable(Memory!BankCall("import", u, FALSE))
         /\ banks[u].life <= MaxDeletes => Askable(Memory!BankCall("delete", u, FALSE))
<1>. DEFINE yes == TRUE no == FALSE
<1>1. yes \in BOOLEAN /\ no \in BOOLEAN /\ 0 \in 0..MaxDeletes + 1 /\ 0 \in 0..2
  BY MemoryAssumption
<1>. HIDE DEF yes, no
<1>2. \A n \in 1..2 : /\ Askable(Memory!RetainCall(u, p1, n, no, no)) /\ Askable(Memory!RetainCall(u, p1, n, yes, yes))
                      /\ Askable(Memory!RecallCall(u, p1, n, 0))
  <2>. SUFFICES ASSUME NEW n \in 1..2
                PROVE  /\ Askable(Memory!RetainCall(u, p1, n, no, no)) /\ Askable(Memory!RetainCall(u, p1, n, yes, yes))
                       /\ Askable(Memory!RecallCall(u, p1, n, 0))
    OBVIOUS
  <2>0. n \in 0..2
    OBVIOUS
  <2>1. /\ Memory!RetainCall(u, p1, n, no, no) \in Memory!Call /\ Memory!RetainCall(u, p1, n, yes, yes) \in Memory!Call
        /\ Memory!RecallCall(u, p1, n, 0) \in Memory!Call
    BY <1>1, <2>0, CallTypes
  <2>2. /\ Memory!RetainCall(u, p1, n, no, no).text = n /\ Memory!RetainCall(u, p1, n, yes, yes).text = n
        /\ Memory!RetainCall(u, p1, n, no, no).op = "retain" /\ Memory!RetainCall(u, p1, n, no, no).then = no
        /\ Memory!RetainCall(u, p1, n, yes, yes).op = "retain" /\ Memory!RetainCall(u, p1, n, yes, yes).wait = yes
        /\ Memory!RecallCall(u, p1, n, 0).op = "recall" /\ Memory!RecallCall(u, p1, n, 0).sure = 0
    BY CallFields
  <2>3. Askable(Memory!RetainCall(u, p1, n, no, no))
    <3>1. ~Memory!RetainCall(u, p1, n, no, no).then
      BY <2>2, Zenon DEF no
    <3>2. n # 0
      OBVIOUS
    <3>3. Chained(Memory!RetainCall(u, p1, n, no, no))
      BY <2>2, <3>1, <3>2 DEF Chained
    <3>. QED  BY <2>1, <2>2, <3>3 DEF Askable
  <2>4. Askable(Memory!RetainCall(u, p1, n, yes, yes))
    <3>1. Memory!RetainCall(u, p1, n, yes, yes).wait
      BY <2>2, Zenon DEF yes
    <3>2. n # 0
      OBVIOUS
    <3>3. Chained(Memory!RetainCall(u, p1, n, yes, yes))
      BY <2>2, <3>1, <3>2 DEF Chained
    <3>. QED  BY <2>1, <2>2, <3>3 DEF Askable
  <2>5. Askable(Memory!RecallCall(u, p1, n, 0))
    BY <2>1, <2>2 DEF Askable, Chained
  <2>. QED  BY <2>3, <2>4, <2>5
<1>3. ASSUME NEW b \in BOOLEAN
      PROVE  /\ Askable(Memory!BankCall("put", u, b)) /\ Askable(Memory!BankCall("import", u, b))
             /\ (banks[u].life <= MaxDeletes /\ b = FALSE) => Askable(Memory!BankCall("delete", u, b))
  <2>1. /\ Memory!BankCall("put", u, b) \in Memory!Call /\ Memory!BankCall("import", u, b) \in Memory!Call
        /\ Memory!BankCall("delete", u, b) \in Memory!Call
    BY <1>1, CallTypes
  <2>2. /\ Memory!BankCall("put", u, b).op = "put" /\ Memory!BankCall("import", u, b).op = "import"
        /\ Memory!BankCall("delete", u, b).op = "delete" /\ Memory!BankCall("delete", u, b).user = u
    BY CallFields
  <2>. QED  BY <2>1, <2>2 DEF Askable, Chained
<1>4. /\ Askable(Memory!BankCall("put", u, yes)) /\ Askable(Memory!BankCall("put", u, no))
      /\ Askable(Memory!BankCall("import", u, no))
  BY <1>1, <1>3
<1>5. banks[u].life <= MaxDeletes => Askable(Memory!BankCall("delete", u, no))
  <2>1. no = FALSE
    BY DEF no
  <2>. QED  BY <1>1, <1>3, <2>1
<1>. QED  BY <1>2, <1>4, <1>5 DEF yes, no

\* Calls that are added, while the daemon and the sidecar rest.
LEMMA CallsAdded ==
  ASSUME MemInv, NEW more, calls' = calls \cup more, \A c \in more : Askable(c),
         exchanged' \in 0..2, on' \subseteq Memory!Users,
         UNCHANGED <<banks, indexing, hints, daemon>>,
         sidecar' \in [phase : {"probing", "waiting", "serving", "stopped", "exited", "failed"}, healthy : BOOLEAN, spawned : BOOLEAN],
         sidecar'.phase = sidecar.phase, sidecar'.spawned = sidecar.spawned
  PROVE  MemInv'
<1>0. more \in SUBSET Memory!Call
  BY DEF Askable
<1>1. Memory!TypeOK'
  BY <1>0 DEF MemInv, Memory!TypeOK
<1>2. Own'
  BY DEF MemInv, Own
<1>3. \A c \in more : c.user \in Memory!Users
  BY <1>0 DEF Memory!Call
<1>4. \A u \in Memory!Users : banks[u].life \in 1..MaxDeletes + 1
  BY DEF MemInv, Memory!TypeOK
<1>5. \A c \in more : c.op = "recall" => c.sure = 0
  BY DEF Askable
<1>6. \A c \in more : c.op = "recall" => c.sure <= banks[c.user].life /\ c.sure # banks[c.user].life
  BY <1>3, <1>4, <1>5, MemoryAssumption
<1>7. Promised'
  BY <1>6 DEF MemInv, Promised, Memory!ItemOf, Askable
<1>8. Deletable'
  BY DEF MemInv, Deletable, Memory!BankCall, Askable
<1>9. Stoppable'
  BY DEF MemInv, Stoppable
<1>. QED  BY <1>1, <1>2, <1>7, <1>8, <1>9 DEF MemInv

\* Instances count as this module does.
LEMMA MemoryCounts == \A S : Memory!Cardinality(S) = Cardinality(S)
BY DEF Memory!Cardinality, Cardinality

\* Texts sent and received, a dashboard that finds its sidecar, and the tooling.
LEMMA AskingKeeps ==
  ASSUME MemInv,
         \/ \E u \in Memory!Users, p \in {p1} : Memory!Sent(u, p) \/ Memory!Received(u, p)
         \/ \E u \in Dashboards : Memory!InitMemory(u)
         \/ \E u \in Tenants : Memory!EnsureBank(u) \/ Memory!DeleteBank(u)
  PROVE  MemInv'
<1>0. Memory!TypeOK /\ 0 \in 0..MaxDeletes + 1 /\ TRUE \in BOOLEAN /\ FALSE \in BOOLEAN
  BY MemoryAssumption DEF MemInv
<1>1. exchanged \in 0..2 /\ on \subseteq Memory!Users
      /\ sidecar \in [phase : {"probing", "waiting", "serving", "stopped", "exited", "failed"}, healthy : BOOLEAN, spawned : BOOLEAN]
  BY <1>0 DEF Memory!TypeOK
<1>2. ASSUME NEW u \in Memory!Users, Memory!Sent(u, p1) PROVE MemInv'
  <2>1. exchanged + 1 \in 1..2 /\ exchanged' \in 0..2 /\ exchanged' = exchanged + 1 /\ UNCHANGED <<banks, indexing, daemon, sidecar, on, hints>>
    BY <1>1, <1>2 DEF Memory!Sent, Memory!daemonSide
  <2>. DEFINE more == IF u \in on THEN {Memory!RetainCall(u, p1, exchanged + 1, FALSE, FALSE)} ELSE {}
  <2>2. calls' = calls \cup more
    BY <1>2 DEF Memory!Sent
  <2>4. \A c \in more : Askable(c)
    BY <2>1, CallsAskable
  <2>. HIDE DEF more
  <2>. QED  BY <1>1, <2>1, <2>2, <2>4, CallsAdded
<1>3. ASSUME NEW u \in Memory!Users, Memory!Received(u, p1) PROVE MemInv'
  <2>1. exchanged + 1 \in 1..2 /\ exchanged' \in 0..2 /\ exchanged' = exchanged + 1 /\ UNCHANGED <<banks, indexing, daemon, sidecar, on, hints>>
    BY <1>1, <1>3 DEF Memory!Received, Memory!daemonSide
  <2>. DEFINE more == IF u \in on THEN Memory!CallsOfReceived(u, p1, exchanged + 1) ELSE {}
  <2>2. calls' = calls \cup more
    BY <1>3 DEF Memory!Received
  <2>4. \A c \in more : Askable(c)
    BY <2>1, CallsAskable DEF Memory!CallsOfReceived
  <2>. HIDE DEF more
  <2>. QED  BY <1>1, <2>1, <2>2, <2>4, CallsAdded
<1>4. ASSUME NEW u \in Dashboards, Memory!InitMemory(u) PROVE MemInv'
  <2>1. u \in Memory!Users /\ on' \subseteq Memory!Users /\ UNCHANGED <<banks, indexing, daemon, exchanged, hints>>
    BY <1>1, <1>4 DEF Memory!InitMemory, Memory!daemonSide, Memory!Users
  <2>. DEFINE b == daemon.state = "up"
  <2>2. b \in BOOLEAN /\ sidecar' = [sidecar EXCEPT !.healthy = b]
    BY <1>4 DEF Memory!InitMemory
  <2>. HIDE DEF b
  <2>3. /\ sidecar' \in [phase : {"probing", "waiting", "serving", "stopped", "exited", "failed"}, healthy : BOOLEAN, spawned : BOOLEAN]
        /\ sidecar'.phase = sidecar.phase /\ sidecar'.spawned = sidecar.spawned
    BY <1>1, <2>2
  <2>. DEFINE more == {Memory!BankCall("put", u, FALSE)}
  <2>4. calls' = calls \cup more
    BY <1>4 DEF Memory!InitMemory
  <2>6. \A c \in more : Askable(c)
    BY <1>0, <2>1, CallsAskable
  <2>. HIDE DEF more
  <2>. QED  BY <1>1, <2>1, <2>3, <2>4, <2>6, CallsAdded
<1>5. ASSUME NEW u \in Tenants, Memory!EnsureBank(u) PROVE MemInv'
  <2>1. u \in Memory!Users /\ UNCHANGED <<banks, indexing, daemon, sidecar, on, exchanged, hints>>
    BY <1>5, MemoryAssumption DEF Memory!EnsureBank, Memory!daemonSide
  <2>. DEFINE more == {Memory!BankCall("put", u, TRUE)}
  <2>2. calls' = calls \cup more
    BY <1>5 DEF Memory!EnsureBank
  <2>4. \A c \in more : Askable(c)
    BY <1>0, <2>1, CallsAskable
  <2>. HIDE DEF more
  <2>. QED  BY <1>1, <2>1, <2>2, <2>4, CallsAdded
<1>6. ASSUME NEW u \in Tenants, Memory!DeleteBank(u) PROVE MemInv'
  <2>1. u \in Memory!Users /\ UNCHANGED <<banks, indexing, daemon, sidecar, on, exchanged, hints>>
    BY <1>6, MemoryAssumption DEF Memory!DeleteBank, Memory!daemonSide
  <2>2. banks[u].life \in 1..MaxDeletes + 1
    BY <1>0, <2>1 DEF Memory!TypeOK
  <2>. DEFINE same == {c \in calls : c.op = "delete" /\ c.user = u}
  <2>3. same \subseteq {Memory!BankCall("delete", u, FALSE)}
    BY DEF MemInv, Deletable
  <2>4. Cardinality(same) \in Nat
    <3>1. IsFiniteSet({Memory!BankCall("delete", u, FALSE)})
      BY FS_Singleton
    <3>. HIDE DEF same
    <3>. QED  BY <2>3, <3>1, FS_Subset, FS_CardinalityType
  <2>5. banks[u].life <= MaxDeletes
    <3>1. banks[u].life + Cardinality(same) <= MaxDeletes
      BY <1>6, MemoryCounts DEF Memory!DeleteBank, Memory!BankOf
    <3>. HIDE DEF same
    <3>. QED  BY <2>2, <2>4, <3>1, MemoryAssumption
  <2>. DEFINE more == {Memory!BankCall("delete", u, FALSE)}
  <2>6. calls' = calls \cup more
    BY <1>6 DEF Memory!DeleteBank
  <2>8. \A c \in more : Askable(c)
    BY <1>0, <2>1, <2>5, CallsAskable
  <2>. HIDE DEF more
  <2>. QED  BY <1>1, <2>1, <2>6, <2>8, CallsAdded
<1>. QED  BY <1>2, <1>3, <1>4, <1>5, <1>6

\* What an answered call does to the banks: a deletion begins a new life, and what is retained
\* with a wait is found.
LEMMA EffectIs ==
  ASSUME MemInv, NEW c \in calls, Memory!Effect(c)
  PROVE  /\ banks' \in [Memory!Users -> [life : 1 .. MaxDeletes + 1, items : SUBSET Memory!Item, template : BOOLEAN]]
         /\ \A u \in Memory!Users : /\ banks[u].life <= banks'[u].life
                                    /\ banks'[u].life = banks[u].life => banks[u].items \subseteq banks'[u].items
                                    /\ \A i \in banks'[u].items : i.user = u
         /\ \A u \in Memory!Users : c.op # "delete" \/ u # c.user => banks'[u].life = banks[u].life
         /\ c.op = "retain" /\ c.wait => Memory!ItemOf(c) \in banks'[c.user].items
         /\ indexing' \subseteq Memory!Users \X Memory!Item
         /\ \A e \in indexing' : e[2].user = e[1]
<1>0. c \in Memory!Call /\ c.user \in Memory!Users /\ Chained(c) /\ indexing \subseteq Memory!Users \X Memory!Item
  BY DEF MemInv, Memory!TypeOK, Memory!Call, Promised
<1>1. banks \in [Memory!Users -> [life : 1 .. MaxDeletes + 1, items : SUBSET Memory!Item, template : BOOLEAN]]
      /\ \A u \in Memory!Users : \A i \in banks[u].items : i.user = u
  BY DEF MemInv, Memory!TypeOK, Own
<1>2. ASSUME c.op = "retain" PROVE Memory!ItemOf(c) \in Memory!Item /\ Memory!ItemOf(c).user = c.user
  BY <1>0, <1>2 DEF Memory!Call, Memory!Item, Memory!ItemOf, Chained
<1>3. /\ indexing' \subseteq Memory!Users \X Memory!Item
      /\ \A e \in indexing' : e[2].user = e[1]
  <2>1. \A e \in indexing : e[2].user = e[1]
    BY DEF MemInv, Own
  <2>2. indexing' = indexing \/ (c.op = "retain" /\ indexing' = indexing \cup {<<c.user, Memory!ItemOf(c)>>})
    BY DEF Memory!Effect, Memory!BankOf
  <2>. QED  BY <1>0, <1>2, <2>1, <2>2
<1>4. CASE c.op = "retain" /\ c.wait
  <2>. DEFINE items == banks[c.user].items \cup {Memory!ItemOf(c)}
  <2>1. banks' = [banks EXCEPT ![c.user].items = items]
    BY <1>4 DEF Memory!Effect, Memory!BankOf
  <2>2. items \in SUBSET Memory!Item /\ \A i \in items : i.user = c.user
    BY <1>0, <1>1, <1>2, <1>4
  <2>3. banks[c.user].items \subseteq items /\ Memory!ItemOf(c) \in items
    OBVIOUS
  <2>. HIDE DEF items
  <2>4. /\ banks' \in [Memory!Users -> [life : 1 .. MaxDeletes + 1, items : SUBSET Memory!Item, template : BOOLEAN]]
        /\ banks'[c.user].items = items /\ banks'[c.user].life = banks[c.user].life
        /\ \A u \in Memory!Users : u # c.user => banks'[u] = banks[u]
    BY <1>0, <1>1, <2>1, <2>2
  <2>. QED  BY <1>0, <1>1, <1>3, <1>4, <2>2, <2>3, <2>4
<1>5. CASE c.op = "import"
  <2>. DEFINE yes == TRUE
  <2>1. banks' = [banks EXCEPT ![c.user].template = yes] /\ yes \in BOOLEAN
    BY <1>5 DEF Memory!Effect, Memory!BankOf
  <2>. HIDE DEF yes
  <2>2. /\ banks' \in [Memory!Users -> [life : 1 .. MaxDeletes + 1, items : SUBSET Memory!Item, template : BOOLEAN]]
        /\ banks'[c.user].items = banks[c.user].items /\ banks'[c.user].life = banks[c.user].life
        /\ \A u \in Memory!Users : u # c.user => banks'[u] = banks[u]
    BY <1>0, <1>1, <2>1
  <2>. QED  BY <1>0, <1>1, <1>3, <1>5, <2>2
<1>6. CASE c.op = "delete"
  <2>. DEFINE no == FALSE
  <2>1. banks' = [banks EXCEPT ![c.user] = [life |-> banks[c.user].life + 1, items |-> {}, template |-> no]] /\ no \in BOOLEAN
    BY <1>6 DEF Memory!Effect, Memory!BankOf, Memory!Dropped
  <2>. HIDE DEF no
  <2>2. banks[c.user].life + 1 \in 1..MaxDeletes + 1
    <3>1. banks[c.user].life <= MaxDeletes
      BY <1>6 DEF MemInv, Deletable
    <3>2. banks[c.user].life \in 1..MaxDeletes + 1
      BY <1>0, <1>1
    <3>. QED  BY <3>1, <3>2, MemoryAssumption
  <2>3. /\ banks' \in [Memory!Users -> [life : 1 .. MaxDeletes + 1, items : SUBSET Memory!Item, template : BOOLEAN]]
        /\ banks'[c.user].items = {} /\ banks'[c.user].life = banks[c.user].life + 1
        /\ \A u \in Memory!Users : u # c.user => banks'[u] = banks[u]
    BY <1>0, <1>1, <2>1, <2>2
  <2>. QED  BY <1>0, <1>1, <1>3, <1>6, <2>2, <2>3, MemoryAssumption
<1>7. CASE ~(c.op = "retain" /\ c.wait) /\ c.op # "import" /\ c.op # "delete"
  <2>1. banks' = banks
    BY <1>7 DEF Memory!Effect
  <2>. QED  BY <1>0, <1>1, <1>3, <1>7, <2>1
<1>. QED  BY <1>4, <1>5, <1>6, <1>7

\* A request that passes the sidecar may tell it that the daemon is healthy, no more.
LEMMA SidecarStays ==
  ASSUME MemInv, NEW c, sidecar' = Memory!SidecarAfter(c)
  PROVE  /\ sidecar' \in [phase : {"probing", "waiting", "serving", "stopped", "exited", "failed"}, healthy : BOOLEAN, spawned : BOOLEAN]
         /\ sidecar'.phase = sidecar.phase /\ sidecar'.spawned = sidecar.spawned
<1>. DEFINE b == sidecar.healthy \/ daemon.state = "up"
<1>1. b \in BOOLEAN /\ (sidecar' = [sidecar EXCEPT !.healthy = b] \/ sidecar' = sidecar)
  BY DEF Memory!SidecarAfter
<1>. HIDE DEF b
<1>. QED  BY <1>1 DEF MemInv, Memory!TypeOK

\* What the client does after an answer: it recalls after a retain it was told of, in the life
\* of the bank it was told of, or after one that failed, in none.
LEMMA FollowUpIs ==
  ASSUME MemInv, NEW c \in calls, NEW d
  PROVE  /\ d \in Memory!FollowUp(c, FALSE) => Askable(d)
         /\ d \in Memory!FollowUp(c, TRUE) =>
              \/ Askable(d)
              \/ /\ d \in Memory!Call /\ d.op = "recall" /\ d.user = c.user /\ d.sure = banks[c.user].life
                 /\ Memory!ItemOf(d) = Memory!ItemOf(c) /\ c.op = "retain" /\ c.wait
<1>0. /\ c \in Memory!Call /\ c.user \in Memory!Users /\ Chained(c) /\ c.text \in 0..2
      /\ c.peer = p1 /\ banks[c.user].life \in 0..MaxDeletes + 1
  BY MemoryAssumption DEF MemInv, Memory!TypeOK, Memory!Call, Promised
<1>1. CASE c.op = "retain" /\ c.then
  <2>1. c.wait /\ c.text \in 1..2
    BY <1>0, <1>1 DEF Chained
  <2>2. Memory!FollowUp(c, FALSE) = {Memory!RecallCall(c.user, p1, c.text, 0)}
    BY <1>0, <1>1 DEF Memory!FollowUp
  <2>3. Memory!FollowUp(c, TRUE) = {Memory!RecallCall(c.user, p1, c.text, banks[c.user].life)}
    BY <1>0, <1>1 DEF Memory!FollowUp, Memory!BankOf
  <2>4. Askable(Memory!RecallCall(c.user, p1, c.text, 0))
    BY <1>0, <2>1, CallsAskable
  <2>. DEFINE sure == banks[c.user].life  e == Memory!RecallCall(c.user, p1, c.text, sure)
  <2>5. e \in Memory!Call
    <3>. HIDE DEF sure
    <3>1. sure \in 0..MaxDeletes + 1 /\ TRUE \in BOOLEAN
      BY <1>0 DEF sure
    <3>. QED  BY <1>0, <3>1, CallTypes
  <2>6. e.op = "recall" /\ e.user = c.user /\ e.sure = sure /\ e.peer = p1 /\ e.text = c.text
    <3>. HIDE DEF sure
    <3>. QED  BY CallFields
  <2>. HIDE DEF e
  <2>7. Memory!ItemOf(e) = Memory!ItemOf(c)
    BY <1>0, <2>6 DEF Memory!ItemOf
  <2>. QED  BY <1>1, <2>1, <2>2, <2>3, <2>4, <2>5, <2>6, <2>7 DEF e
<1>2. CASE ~(c.op = "retain" /\ c.then)
  <2>1. Memory!FollowUp(c, FALSE) = {}
    BY <1>2 DEF Memory!FollowUp
  <2>2. Memory!FollowUp(c, TRUE) \subseteq {Memory!BankCall("import", c.user, FALSE)}
    BY <1>2 DEF Memory!FollowUp
  <2>. QED  BY <1>0, <2>1, <2>2, CallsAskable
<1>. QED  BY <1>1, <1>2

\* An answer, or its failure with or without the effect, keeps what a recall was promised.
LEMMA AnswerKeeps ==
  ASSUME MemInv, NEW c \in calls,
         \/ Memory!Effect(c) /\ calls' = (calls \ {c}) \cup Memory!FollowUp(c, TRUE)
         \/ Memory!Effect(c) /\ calls' = (calls \ {c}) \cup Memory!FollowUp(c, FALSE)
         \/ UNCHANGED <<banks, indexing>> /\ calls' = (calls \ {c}) \cup Memory!FollowUp(c, FALSE),
         sidecar' = Memory!SidecarAfter(c), UNCHANGED <<daemon, on, exchanged>>,
         hints' \subseteq [user : Memory!Users, peer : {p1}, item : Memory!Item],
         \A h \in hints' : h.item.user = h.user
  PROVE  MemInv'
<1>0. c \in Memory!Call /\ c.user \in Memory!Users
  BY DEF MemInv, Memory!TypeOK, Memory!Call
<1>1. banks \in [Memory!Users -> [life : 1 .. MaxDeletes + 1, items : SUBSET Memory!Item, template : BOOLEAN]]
  BY DEF MemInv, Memory!TypeOK
<1>2. /\ banks' \in [Memory!Users -> [life : 1 .. MaxDeletes + 1, items : SUBSET Memory!Item, template : BOOLEAN]]
      /\ \A u \in Memory!Users : /\ banks[u].life <= banks'[u].life
                                 /\ banks'[u].life = banks[u].life => banks[u].items \subseteq banks'[u].items
                                 /\ \A i \in banks'[u].items : i.user = u
      /\ \A u \in Memory!Users : c.op # "delete" \/ u # c.user => banks'[u].life = banks[u].life
      /\ indexing' \subseteq Memory!Users \X Memory!Item
      /\ \A e \in indexing' : e[2].user = e[1]
  <2>1. CASE Memory!Effect(c)
    BY <2>1, EffectIs
  <2>2. CASE UNCHANGED <<banks, indexing>>
    BY <1>1, <2>2 DEF MemInv, Memory!TypeOK, Own
  <2>. QED  BY <2>1, <2>2
<1>3. \A d \in calls' :
        \/ d \in calls /\ d # c
        \/ Askable(d)
        \/ /\ d \in Memory!Call /\ d.op = "recall" /\ d.user = c.user /\ d.sure = banks'[c.user].life
           /\ Memory!ItemOf(d) \in banks'[c.user].items
  <2>. SUFFICES ASSUME NEW d \in calls', ~(d \in calls /\ d # c), ~Askable(d)
                PROVE  /\ d \in Memory!Call /\ d.op = "recall" /\ d.user = c.user /\ d.sure = banks'[c.user].life
                       /\ Memory!ItemOf(d) \in banks'[c.user].items
    OBVIOUS
  <2>1. Memory!Effect(c) /\ d \in Memory!FollowUp(c, TRUE)
    BY FollowUpIs
  <2>2. /\ d \in Memory!Call /\ d.op = "recall" /\ d.user = c.user /\ d.sure = banks[c.user].life
        /\ Memory!ItemOf(d) = Memory!ItemOf(c) /\ c.op = "retain" /\ c.wait
    BY <2>1, FollowUpIs
  <2>3. Memory!ItemOf(c) \in banks'[c.user].items /\ banks'[c.user].life = banks[c.user].life
    BY <1>0, <2>1, <2>2, EffectIs
  <2>. QED  BY <2>2, <2>3
<1>4. \A d \in calls' : d \in Memory!Call /\ d.user \in Memory!Users
  <2>1. calls \subseteq Memory!Call
    BY DEF MemInv, Memory!TypeOK
  <2>2. \A d \in calls' : d \in Memory!Call
    BY <1>3, <2>1 DEF Askable
  <2>. QED  BY <2>2 DEF Memory!Call
<1>5. Memory!TypeOK'
  <2>1. calls' \subseteq Memory!Call
    BY <1>4
  <2>. QED  BY <1>2, <2>1, SidecarStays DEF MemInv, Memory!TypeOK
<1>6. Own'
  BY <1>2 DEF Own
<1>7. Promised'
  <2>1. ASSUME NEW d \in calls', d.op = "recall"
        PROVE  /\ d.sure <= banks'[d.user].life
               /\ d.sure = banks'[d.user].life => Memory!ItemOf(d) \in banks'[d.user].items
    <3>0. banks[d.user].life \in 1 .. MaxDeletes + 1 /\ banks'[d.user].life \in 1 .. MaxDeletes + 1 /\ d.sure \in 0 .. MaxDeletes + 1
      BY <1>1, <1>2, <1>4, <2>1 DEF Memory!Call
    <3>1. CASE d \in calls
      <4>1. d.sure <= banks[d.user].life /\ (d.sure = banks[d.user].life => Memory!ItemOf(d) \in banks[d.user].items)
        BY <2>1, <3>1 DEF MemInv, Promised
      <4>2. banks[d.user].life <= banks'[d.user].life
            /\ (banks'[d.user].life = banks[d.user].life => banks[d.user].items \subseteq banks'[d.user].items)
        BY <1>2, <1>4
      <4>. QED  BY <3>0, <4>1, <4>2, MemoryAssumption
    <3>2. CASE Askable(d)
      <4>1. d.sure = 0
        BY <2>1, <3>2 DEF Askable
      <4>. QED  BY <3>0, <4>1, MemoryAssumption
    <3>. QED  BY <1>3, <3>0, <3>1, <3>2, MemoryAssumption
  <2>2. ASSUME NEW d \in calls' PROVE Chained(d)
    BY <1>3 DEF MemInv, Promised, Askable, Chained
  <2>. QED  BY <2>1, <2>2 DEF Promised, Memory!ItemOf
<1>8. Deletable'
  <2>. SUFFICES ASSUME NEW d \in calls', d.op = "delete"
                PROVE  d = Memory!BankCall("delete", d.user, FALSE) /\ banks'[d.user].life <= MaxDeletes
    BY DEF Deletable, Memory!BankCall
  <2>1. d = Memory!BankCall("delete", d.user, FALSE) /\ banks[d.user].life <= MaxDeletes
    BY <1>3 DEF MemInv, Deletable, Askable
  <2>2. c.op # "delete" \/ d.user # c.user
    <3>. SUFFICES ASSUME c.op = "delete", d.user = c.user PROVE FALSE
      OBVIOUS
    <3>1. c = Memory!BankCall("delete", c.user, FALSE)
      BY DEF MemInv, Deletable
    <3>2. (d \in calls /\ d # c) \/ Askable(d)
      BY <1>3
    <3>3. d = c
      BY <2>1, <3>1
    <3>4. d \notin Memory!FollowUp(c, TRUE) /\ d \notin Memory!FollowUp(c, FALSE)
      BY DEF Memory!FollowUp
    <3>. QED  BY <3>3, <3>4
  <2>. QED  BY <1>2, <1>4, <2>1, <2>2
<1>9. Stoppable'
  BY SidecarStays DEF MemInv, Stoppable
<1>. QED  BY <1>5, <1>6, <1>7, <1>8, <1>9 DEF MemInv

\* The memory's other steps: the daemon indexes, the sidecar starts, waits and is stopped, the
\* daemon comes and goes.
LEMMA DaemonKeeps ==
  ASSUME MemInv,
         (\E e \in indexing : Memory!Index(e)) \/ Memory!Main \/ Memory!Wait \/ Memory!Signal \/ Memory!DaemonTurns
  PROVE  MemInv'
<1>0. /\ banks \in [Memory!Users -> [life : 1 .. MaxDeletes + 1, items : SUBSET Memory!Item, template : BOOLEAN]]
      /\ indexing \subseteq Memory!Users \X Memory!Item
      /\ daemon \in [state : {"down", "starting", "up"}, by : {"sidecar", "other"}]
      /\ sidecar \in [phase : {"probing", "waiting", "serving", "stopped", "exited", "failed"}, healthy : BOOLEAN, spawned : BOOLEAN]
  BY DEF MemInv, Memory!TypeOK
<1>1. ASSUME NEW e \in indexing, Memory!Index(e) PROVE MemInv'
  <2>. DEFINE u == e[1]  items == banks[u].items \cup {e[2]}
  <2>1. u \in Memory!Users /\ items \in SUBSET Memory!Item /\ \A i \in items : i.user = u
    BY <1>0 DEF MemInv, Own
  <2>2. banks' = [banks EXCEPT ![u].items = items] /\ banks[u].items \subseteq items
    BY <1>1 DEF Memory!Index
  <2>3. indexing' \subseteq indexing /\ UNCHANGED <<daemon, sidecar, on, calls, exchanged, hints>>
    BY <1>1 DEF Memory!Index, Memory!clientSide
  <2>. HIDE DEF items, u
  <2>4. /\ banks' \in [Memory!Users -> [life : 1 .. MaxDeletes + 1, items : SUBSET Memory!Item, template : BOOLEAN]]
        /\ banks'[u].items = items /\ banks'[u].life = banks[u].life
        /\ \A v \in Memory!Users : v # u => banks'[v] = banks[v]
    BY <1>0, <2>1, <2>2
  <2>5. \A v \in Memory!Users : banks'[v].life = banks[v].life /\ banks[v].items \subseteq banks'[v].items
    BY <2>2, <2>4
  <2>6. \A c \in calls : c.user \in Memory!Users
    BY DEF MemInv, Memory!TypeOK, Memory!Call
  <2>7. Memory!TypeOK'
    BY <2>3, <2>4 DEF MemInv, Memory!TypeOK
  <2>8. Own'
    BY <2>1, <2>3, <2>4 DEF MemInv, Own
  <2>9. Promised'
    BY <2>3, <2>5, <2>6 DEF MemInv, Promised, Memory!ItemOf
  <2>10. Deletable'
    BY <2>3, <2>5, <2>6 DEF MemInv, Deletable, Memory!BankCall
  <2>11. Stoppable'
    BY <2>3 DEF MemInv, Stoppable
  <2>. QED  BY <2>7, <2>8, <2>9, <2>10, <2>11 DEF MemInv
<1>2. ASSUME UNCHANGED <<banks, indexing, on, calls, exchanged, hints>>,
             daemon' \in [state : {"down", "starting", "up"}, by : {"sidecar", "other"}],
             sidecar' \in [phase : {"probing", "waiting", "serving", "stopped", "exited", "failed"}, healthy : BOOLEAN, spawned : BOOLEAN],
             Stoppable'
      PROVE  MemInv'
  BY <1>2 DEF MemInv, Memory!TypeOK, Own, Promised, Deletable, Chained, Memory!ItemOf, Memory!BankCall
<1>3. Stoppable
  BY DEF MemInv
<1>4. CASE Memory!Main
  <2>1. UNCHANGED <<banks, indexing, on, calls, exchanged, hints>>
    BY <1>4 DEF Memory!Main, Memory!daemonSide, Memory!clientSide
  <2>. DEFINE yes == TRUE no == FALSE
  <2>1a. yes
    OBVIOUS
  <2>2. yes \in BOOLEAN /\ no \in BOOLEAN /\ sidecar.phase = "probing"
    BY <1>4 DEF Memory!Main
  <2>3. \/ daemon' = daemon /\ \E phase \in {"serving", "failed"} : sidecar' = [phase |-> phase, healthy |-> yes, spawned |-> no]
        \/ daemon' = daemon /\ \E phase \in {"serving", "failed"} : sidecar' = [phase |-> phase, healthy |-> no, spawned |-> no]
        \/ daemon' = daemon /\ sidecar' = [sidecar EXCEPT !.phase = "failed"]
        \/ sidecar' = [phase |-> "waiting", healthy |-> no, spawned |-> yes] /\ daemon' = [state |-> "starting", by |-> "sidecar"]
    BY <1>4 DEF Memory!Main, Memory!Serving, Memory!Spawned
  <2>. HIDE DEF yes, no
  <2>4. /\ daemon' \in [state : {"down", "starting", "up"}, by : {"sidecar", "other"}]
        /\ sidecar' \in [phase : {"probing", "waiting", "serving", "stopped", "exited", "failed"}, healthy : BOOLEAN, spawned : BOOLEAN]
    BY <1>0, <2>2, <2>3
  <2>5. \/ sidecar'.phase \in {"serving", "failed"} /\ daemon' = daemon
        \/ sidecar'.phase = "waiting" /\ sidecar'.spawned = yes
    BY <1>0, <2>3
  <2>6. Stoppable'
    BY <1>3, <2>1a, <2>2, <2>5 DEF Stoppable
  <2>. QED  BY <1>2, <2>1, <2>4, <2>6
<1>5. CASE Memory!Wait
  <2>1. UNCHANGED <<banks, indexing, on, calls, exchanged, hints, daemon>> /\ sidecar.phase = "waiting"
    BY <1>5 DEF Memory!Wait, Memory!daemonSide, Memory!clientSide
  <2>. DEFINE yes == TRUE
  <2>2. /\ yes \in BOOLEAN
        /\ \/ \E phase \in {"serving", "failed"} : sidecar' = [phase |-> phase, healthy |-> yes, spawned |-> sidecar.spawned]
           \/ sidecar' = [sidecar EXCEPT !.phase = "failed"]
    BY <1>5 DEF Memory!Wait, Memory!Serving
  <2>. HIDE DEF yes
  <2>3. /\ sidecar' \in [phase : {"probing", "waiting", "serving", "stopped", "exited", "failed"}, healthy : BOOLEAN, spawned : BOOLEAN]
        /\ sidecar'.spawned = sidecar.spawned /\ sidecar'.phase \in {"serving", "failed"}
    BY <1>0, <2>2
  <2>4. Stoppable'
    BY <1>3, <2>1, <2>3 DEF Stoppable
  <2>. QED  BY <1>0, <1>2, <2>1, <2>3, <2>4
<1>6. CASE Memory!Signal
  <2>1. /\ UNCHANGED <<banks, indexing, on, calls, exchanged, hints>>
        /\ sidecar.spawned => sidecar' = [sidecar EXCEPT !.phase = "stopped"]
        /\ ~sidecar.spawned => sidecar' = [sidecar EXCEPT !.phase = "exited"] /\ daemon' = daemon
        /\ daemon' = daemon \/ daemon' = [daemon EXCEPT !.state = "down"]
    BY <1>6 DEF Memory!Signal, Memory!daemonSide, Memory!clientSide
  <2>2. /\ daemon' \in [state : {"down", "starting", "up"}, by : {"sidecar", "other"}]
        /\ sidecar' \in [phase : {"probing", "waiting", "serving", "stopped", "exited", "failed"}, healthy : BOOLEAN, spawned : BOOLEAN]
        /\ daemon'.by = "sidecar" /\ daemon'.state # "down" => daemon.by = "sidecar" /\ daemon.state # "down"
    BY <1>0, <2>1
  <2>3. /\ sidecar'.phase \in {"stopped", "exited"} /\ sidecar'.spawned = sidecar.spawned
        /\ sidecar.spawned => sidecar'.phase = "stopped"
    BY <1>0, <2>1
  <2>4. Stoppable'
    BY <1>3, <2>2, <2>3 DEF Stoppable
  <2>. QED  BY <1>2, <2>1, <2>2, <2>4
<1>7. CASE Memory!DaemonTurns
  <2>1. UNCHANGED <<banks, indexing, on, calls, exchanged, hints, sidecar>>
    BY <1>7 DEF Memory!DaemonTurns, Memory!daemonSide, Memory!clientSide
  <2>2. /\ daemon' \in [state : {"down", "starting", "up"}, by : {"sidecar", "other"}]
        /\ daemon'.by = "sidecar" /\ daemon'.state # "down" => daemon.by = "sidecar" /\ daemon.state # "down"
        /\ daemon.by = "other" => daemon'.by = "other"
    BY <1>0, <1>7 DEF Memory!DaemonTurns
  <2>3. Stoppable'
    BY <1>3, <2>1, <2>2 DEF Stoppable
  <2>. QED  BY <1>0, <1>2, <2>1, <2>2, <2>3
<1>. QED  BY <1>1, <1>4, <1>5, <1>6, <1>7

\* Every step of the memory's parts, and the others' leave them alone.
LEMMA MemoryInductive == MemInv /\ [PageNext]_pageVars => MemInv'
<1>. SUFFICES ASSUME MemInv, [PageNext]_pageVars PROVE MemInv'
  OBVIOUS
<1>1. CASE Memory!Next
  <2>0. hints \subseteq [user : Memory!Users, peer : {p1}, item : Memory!Item] /\ \A h \in hints : h.item.user = h.user
    BY DEF MemInv, Memory!TypeOK, Own
  <2>1. ASSUME NEW c \in calls, Memory!Succeeds(c) PROVE MemInv'
    <3>1. /\ Memory!Effect(c) /\ calls' = (calls \ {c}) \cup Memory!FollowUp(c, TRUE)
          /\ sidecar' = Memory!SidecarAfter(c) /\ UNCHANGED <<daemon, on, exchanged>> /\ Memory!Hinted(c)
      BY <2>1 DEF Memory!Succeeds
    <3>2. c.user \in Memory!Users /\ c.peer = p1
      BY DEF MemInv, Memory!TypeOK, Memory!Call
    <3>3. banks[c.user].items \subseteq Memory!Item /\ \A i \in banks[c.user].items : i.user = c.user
      BY <3>2 DEF MemInv, Memory!TypeOK, Own
    <3>4. hints' = hints \/ \E i \in banks[c.user].items : hints' = hints \cup {[user |-> c.user, peer |-> c.peer, item |-> i]}
      BY <3>1 DEF Memory!Hinted, Memory!BankOf
    <3>5. hints' \subseteq [user : Memory!Users, peer : {p1}, item : Memory!Item] /\ \A h \in hints' : h.item.user = h.user
      BY <2>0, <3>2, <3>3, <3>4
    <3>. QED  BY <3>1, <3>5, AnswerKeeps
  <2>2. ASSUME NEW c \in calls, Memory!Fails(c) PROVE MemInv'
    <3>1. /\ Memory!Effect(c) \/ UNCHANGED <<banks, indexing>>
          /\ calls' = (calls \ {c}) \cup Memory!FollowUp(c, FALSE)
          /\ sidecar' = Memory!SidecarAfter(c) /\ UNCHANGED <<daemon, on, exchanged, hints>>
      BY <2>2 DEF Memory!Fails, Memory!daemonSide
    <3>. QED  BY <2>0, <3>1, AnswerKeeps
  <2>. QED  BY <1>1, <2>1, <2>2, AskingKeeps, DaemonKeeps DEF Memory!Next
<1>2. CASE UNCHANGED Memory!vars
  <2>1. UNCHANGED <<banks, indexing, daemon, sidecar, on, calls, exchanged, hints>>
    BY <1>2 DEF Memory!vars
  <2>. QED  BY <2>1 DEF MemInv, Memory!TypeOK, Own, Promised, Deletable, Stoppable, Chained, Memory!ItemOf, Memory!BankCall
<1>. QED  BY <1>1, <1>2, PageSteps

\* A user's hints come from that user's own memories, the recall after an acknowledged retain
\* finds what was retained unless the bank was deleted since, and a sidecar that a signal ends
\* has asked the daemon it started to stop: whichever calls fail with or without their effect, for any users.
THEOREM MemoriesHonestAlways == PageSpec => []MemoriesHonest
<1>1. MemInv => MemoriesHonest
  BY DEF MemInv, Own, Promised, Stoppable, MemoriesHonest, Memory!OwnMemories, Memory!SeesItIndexed, Memory!StopsItsOwn,
         Memory!BankOf
<1>. QED  BY MemoryBegins, MemoryInductive, <1>1, PTL DEF PageSpec

---------------------------------------------------------------------------
(* Conversations.                                                           *)

\* A flagged text that was sent was confirmed.
Confirmed == \A s \in sent : s.text = "flagged" => s.confirmed

\* In its first life the tab knows the address of everyone it has a session with.
Routed ==
  tabs = 0 => sessions \subseteq known /\ \A s \in sent : s.addressed

\* A cached binding is its owner's, and a rebuttal is shown as verified exactly when it is taken
\* to come from where its author made it, which in a session is who sent it.
Bound ==
  /\ \A p \in Peers : binding[p].issuer = p => binding[p].proof = p
  /\ \A r \in shown : (r.ok <=> r.from = r.made) /\ (r.ok /\ r.by # None => r.by = r.made)

\* Bindings are of peers, and addresses are the first or the second.
TalkTypes ==
  /\ binding \in [Peers -> [issuer : Peers \cup {None}, routingAddress : Conversation!Who \cup {None}, proof : Peers \cup {None}]]
  /\ address \in [Peers -> {0, 1}] /\ tabs \in Nat

TalkInv == TalkTypes /\ Confirmed /\ Routed /\ Bound

\* A text that is delivered is marked as it was confirmed, and has an address if its
\* correspondent is known; the group's address is its name.
LEMMA DeliverKeeps ==
  ASSUME Confirmed, Routed, NEW t, NEW sure, t.text = "flagged" => sure,
         Conversation!Deliver(t, sure), UNCHANGED <<known, tabs>>
  PROVE  Confirmed' /\ Routed'
<1>1. CASE UNCHANGED <<sessions, sent>>
  BY <1>1 DEF Confirmed, Routed
<1>2. ASSUME NEW b, tabs = 0 => b, sent' = sent \cup {Conversation!Sent(t, b, sure)},
             tabs = 0 => sessions' \subseteq known
      PROVE  Confirmed' /\ Routed'
  <2>. DEFINE s == Conversation!Sent(t, b, sure)
  <2>1. s.text = t.text /\ s.addressed = b /\ s.confirmed = sure
    BY DEF Conversation!Sent
  <2>. HIDE DEF s
  <2>2. s.text = "flagged" => s.confirmed
    BY <2>1
  <2>3. tabs = 0 => s.addressed
    BY <1>2, <2>1
  <2>4. sent' = sent \cup {s}
    BY <1>2 DEF s
  <2>5. Confirmed'
    BY <2>2, <2>4 DEF Confirmed
  <2>6. Routed'
    BY <1>2, <2>3, <2>4 DEF Routed
  <2>. QED  BY <2>5, <2>6
<1>3. CASE active = room /\ sent' = sent \cup {Conversation!Sent(t, TRUE, sure)} /\ UNCHANGED <<sessions, saved>>
  <2>1. tabs = 0 => sessions' \subseteq known
    BY <1>3 DEF Routed
  <2>. QED  BY <1>2, <1>3, <2>1
<1>4. CASE /\ active \in sessions \cup known /\ sessions' = sessions \cup {active}
           /\ sent' = sent \cup {Conversation!Sent(t, active \in known, sure)}
  <2>. DEFINE b == active \in known
  <2>1. (tabs = 0 => b) /\ (tabs = 0 => sessions' \subseteq known)
    BY <1>4 DEF Routed
  <2>2. sent' = sent \cup {Conversation!Sent(t, b, sure)}
    BY <1>4
  <2>. HIDE DEF b
  <2>. QED  BY <1>2, <2>1, <2>2
<1>. QED  BY <1>1, <1>3, <1>4 DEF Conversation!Deliver

\* A rebuttal verifies against an address exactly when its author made it under that one:
\* what is cached counts for the address it names only.
LEMMA VerifiesOwn ==
  ASSUME TalkTypes, Bound, NEW author \in Peers, NEW fresh \in BOOLEAN, NEW from \in Conversation!Who \cup {None}
  PROVE  /\ Conversation!verifyRebuttal(Conversation!Rebuttal(author, fresh), from) <=> from = Conversation!MadeAs(author, fresh)
         /\ Conversation!Binding(author) \in [issuer : Peers \cup {None}, routingAddress : Conversation!Who \cup {None}, proof : Peers \cup {None}]
         /\ Conversation!Binding(author).proof = author
<1>. DEFINE b == Conversation!Binding(author)  whose == Conversation!MadeAs(author, fresh)
<1>1. <<author, address[author]>> \in Conversation!Who /\ author # None
  BY ConversationAssumption DEF TalkTypes, Conversation!Who
<1>2. /\ b \in [issuer : Peers \cup {None}, routingAddress : Conversation!Who \cup {None}, proof : Peers \cup {None}]
      /\ b.issuer = author /\ b.proof = author /\ b.routingAddress = <<author, address[author]>>
  <2>1. CASE Conversation!Current(author)
    BY <2>1 DEF Conversation!Binding, Conversation!Current, Conversation!Identity, TalkTypes, Bound
  <2>2. CASE ~Conversation!Current(author)
    <3>1. b = [issuer |-> author, routingAddress |-> <<author, address[author]>>, proof |-> author]
      BY <2>2 DEF Conversation!Binding, Conversation!signKeyBinding, Conversation!Identity
    <3>. QED  BY <1>1, <3>1
  <2>. QED  BY <2>1, <2>2
<1>. DEFINE r == Conversation!Rebuttal(author, fresh)  c == r.binding
<1>3. r.did = author /\ r.jws = author
  BY DEF Conversation!Rebuttal
<1>4. c.issuer = author /\ c.proof = author /\ c.routingAddress = whose
  <2>. HIDE DEF b
  <2>1. CASE fresh
    <3>1. c = b /\ whose = <<author, address[author]>>
      BY <2>1 DEF b, Conversation!Rebuttal, Conversation!MadeAs, Conversation!Identity
    <3>. QED  BY <1>2, <3>1
  <2>2. CASE ~fresh
    <3>1. c = [issuer |-> author, routingAddress |-> <<author, 0>>, proof |-> author] /\ whose = <<author, 0>>
      BY <2>2 DEF Conversation!Rebuttal, Conversation!MadeAs, Conversation!signKeyBinding
    <3>. QED  BY <3>1
  <2>. QED  BY <2>1, <2>2
<1>5. Conversation!verifyRebuttal(r, from) <=> from = whose
  <2>. HIDE DEF r, whose
  <2>. QED  BY <1>1, <1>3, <1>4 DEF Conversation!verifyRebuttal, Conversation!verifyKeyBinding
<1>. QED  BY <1>2, <1>5

\* The tab begins with no session and nothing sent.
LEMMA TalkBegins ==
  ASSUME PageInit
  PROVE  TalkInv
<1>1. Conversation!Init
  BY DEF PageInit
<1>2. TalkTypes
  BY <1>1 DEF Conversation!Init, Conversation!NoBinding, TalkTypes
<1>3. Confirmed /\ Routed
  BY <1>1 DEF Conversation!Init, Confirmed, Routed
<1>4. Bound
  BY <1>1, ConversationAssumption DEF Conversation!Init, Conversation!NoBinding, Bound
<1>. QED  BY <1>2, <1>3, <1>4 DEF TalkInv

\* A message that opens makes its sender known or finds it known.
LEMMA OpensKeeps ==
  ASSUME TalkInv, NEW i, NEW first \in BOOLEAN, Conversation!Opens(i, first)
  PROVE  Confirmed' /\ Routed'
<1>1. /\ sessions' = sessions \cup {i} /\ UNCHANGED <<sent, tabs>>
      /\ known' = IF first THEN known \cup {i} ELSE known
      /\ ~first => i \in sessions
  BY DEF Conversation!Opens, Conversation!Remembered
<1>2. Confirmed'
  BY <1>1 DEF TalkInv, Confirmed
<1>3. Routed'
  BY <1>1 DEF TalkInv, Routed
<1>. QED  BY <1>2, <1>3

\* A rebuttal is shown for what it is.
LEMMA ShownKeeps ==
  ASSUME TalkInv, NEW by, NEW from \in Conversation!Who \cup {None}, from = by \/ from = None \/ by = None,
         NEW author \in Peers, NEW fresh \in BOOLEAN, Conversation!Shown(by, from, author, fresh), tabs' = tabs
  PROVE  TalkTypes' /\ Bound'
<1>. DEFINE whose == Conversation!MadeAs(author, fresh)
            ok == Conversation!verifyRebuttal(Conversation!Rebuttal(author, fresh), from)
<1>0. TalkTypes /\ Bound
  BY DEF TalkInv
<1>1. /\ ok <=> from = whose
      /\ Conversation!Binding(author) \in [issuer : Peers \cup {None}, routingAddress : Conversation!Who \cup {None}, proof : Peers \cup {None}]
      /\ Conversation!Binding(author).proof = author
  BY <1>0, VerifiesOwn
<1>2. whose # None
  BY <1>0, ConversationAssumption DEF TalkTypes, Conversation!Who, Conversation!MadeAs, Conversation!Identity
<1>3. PICK r : r = [by |-> by, from |-> from, made |-> whose, ok |-> ok] /\ shown' = shown \cup {r}
  BY DEF Conversation!Shown
<1>4. address' = address
      /\ (binding' = binding \/ binding' = [binding EXCEPT ![author] = Conversation!Binding(author)])
  BY DEF Conversation!Shown
<1>. HIDE DEF whose, ok
<1>5. r.by = by /\ r.from = from /\ r.made = whose /\ r.ok = ok
  BY <1>3
<1>6. r.ok <=> r.from = r.made
  BY <1>1, <1>5
<1>7. r.ok /\ r.by # None => r.by = r.made
  BY <1>2, <1>5, <1>6
<1>8. TalkTypes'
  BY <1>0, <1>1, <1>4 DEF TalkTypes
<1>9. \A p \in Peers : binding'[p].issuer = p => binding'[p].proof = p
  BY <1>0, <1>1, <1>4 DEF TalkTypes, Bound
<1>10. Bound'
  BY <1>0, <1>3, <1>6, <1>7, <1>9 DEF Bound
<1>. QED  BY <1>8, <1>10

\* Every step of the conversations.
LEMMA TalkKeeps ==
  ASSUME TalkInv, Conversation!Next
  PROVE  TalkInv'
<1>0. TalkTypes /\ Confirmed /\ Routed /\ Bound
  BY DEF TalkInv
<1>1. ASSUME UNCHANGED <<binding, address, shown, tabs>>, Confirmed', Routed' PROVE TalkInv'
  BY <1>0, <1>1 DEF TalkInv, TalkTypes, Bound
<1>2. ASSUME NEW i, Conversation!Connect(i) PROVE TalkInv'
  BY <1>0, <1>1, <1>2 DEF Conversation!Connect, Conversation!peerVars, Confirmed, Routed
<1>3. ASSUME NEW i, Conversation!ReceiveRefused(i) PROVE TalkInv'
  BY <1>0, <1>1, <1>3 DEF Conversation!ReceiveRefused, Conversation!peerVars, Confirmed, Routed
<1>4. CASE Conversation!SwitchGroup
  BY <1>0, <1>1, <1>4 DEF Conversation!SwitchGroup, Conversation!peerVars, Confirmed, Routed
<1>5. ASSUME NEW named \in Conversation!Who, NEW author \in Peers, NEW fresh \in BOOLEAN,
             Conversation!ReceiveInGroup(named, author, fresh)
      PROVE  TalkInv'
  <2>1. Conversation!Shown(None, named, author, fresh) /\ UNCHANGED <<sessions, known, sent, tabs>>
    BY <1>5 DEF Conversation!ReceiveInGroup
  <2>2. Confirmed' /\ Routed'
    BY <1>0, <2>1 DEF Confirmed, Routed
  <2>3. TalkTypes' /\ Bound'
    BY <2>1, ShownKeeps
  <2>. QED  BY <2>2, <2>3 DEF TalkInv
<1>6. ASSUME NEW t \in {"plain", "flagged"}, Conversation!SendMessage(t) PROVE TalkInv'
  <2>. DEFINE typed == [text |-> t, for |-> active]
  <2>1. UNCHANGED <<known, tabs, binding, address, shown>>
    BY <1>6 DEF Conversation!SendMessage, Conversation!peerVars
  <2>2. CASE t = "flagged"
    <3>1. UNCHANGED <<sessions, sent>>
      BY <1>6, <2>2 DEF Conversation!SendMessage, Conversation!Held
    <3>. QED  BY <1>0, <1>1, <2>1, <3>1 DEF Confirmed, Routed
  <2>3. CASE t # "flagged"
    <3>1. Conversation!Deliver(typed, FALSE)
      BY <1>6, <2>3 DEF Conversation!SendMessage, Conversation!Held
    <3>2. typed.text # "flagged"
      BY <2>3
    <3>. HIDE DEF typed
    <3>. QED  BY <1>0, <1>1, <2>1, <3>1, <3>2, DeliverKeeps
  <2>. QED  BY <2>2, <2>3
<1>7. ASSUME NEW b \in blocked, Conversation!Confirm(b) PROVE TalkInv'
  <2>1. Conversation!Deliver(b, TRUE) /\ UNCHANGED <<known, tabs, binding, address, shown>>
    BY <1>7 DEF Conversation!Confirm, Conversation!peerVars
  <2>. QED  BY <1>0, <1>1, <2>1, DeliverKeeps
<1>8. ASSUME NEW b \in blocked, Conversation!Cancel(b) PROVE TalkInv'
  BY <1>0, <1>1, <1>8 DEF Conversation!Cancel, Conversation!peerVars, Confirmed, Routed
<1>9. ASSUME NEW i \in buttons, Conversation!SendRebuttal(i) PROVE TalkInv'
  <2>. DEFINE t == [text |-> "rebuttal", for |-> i]
  <2>1. Conversation!Deliver(t, FALSE) /\ UNCHANGED <<known, tabs, binding, address, shown>>
    BY <1>9 DEF Conversation!SendRebuttal, Conversation!peerVars
  <2>2. t.text # "flagged"
    OBVIOUS
  <2>. HIDE DEF t
  <2>. QED  BY <1>0, <1>1, <2>1, <2>2, DeliverKeeps
<1>10. ASSUME NEW p \in Peers, NEW first \in BOOLEAN, NEW flagged \in BOOLEAN, Conversation!ReceiveText(p, first, flagged)
       PROVE  TalkInv'
  <2>1. Conversation!Opens(<<p, address[p]>>, first) /\ UNCHANGED <<binding, address, shown, tabs>>
    BY <1>10 DEF Conversation!ReceiveText, Conversation!Opens, Conversation!peerVars, Conversation!Identity
  <2>. QED  BY <1>1, <2>1, OpensKeeps
<1>11. ASSUME NEW p \in Peers, NEW first \in BOOLEAN, NEW author \in Peers, NEW fresh \in BOOLEAN,
              Conversation!ReceiveRebuttal(p, first, author, fresh)
       PROVE  TalkInv'
  <2>. DEFINE who == <<p, address[p]>>  from == Conversation!Source(who)
  <2>1. Conversation!Opens(who, first) /\ Conversation!Shown(who, from, author, fresh)
    BY <1>11 DEF Conversation!ReceiveRebuttal, Conversation!Identity
  <2>2. who \in Conversation!Who /\ (from = who \/ from = None)
    BY <1>0 DEF TalkTypes, Conversation!Who, Conversation!Source
  <2>3. tabs' = tabs
    BY <2>1 DEF Conversation!Opens
  <2>. HIDE DEF who, from
  <2>4. from \in Conversation!Who \cup {None}
    BY <2>2
  <2>5. TalkTypes' /\ Bound'
    BY <2>1, <2>2, <2>3, <2>4, ShownKeeps
  <2>. QED  BY <2>1, <2>5, OpensKeeps DEF TalkInv
<1>12. CASE Conversation!Reload
  <2>1. tabs' = tabs + 1 /\ UNCHANGED <<sent, binding, address, shown>>
    BY <1>12 DEF Conversation!Reload, Conversation!peerVars
  <2>2. tabs' \in Nat /\ tabs' # 0
    BY <1>0, <2>1 DEF TalkTypes
  <2>. QED  BY <1>0, <2>1, <2>2 DEF TalkInv, TalkTypes, Confirmed, Routed, Bound
<1>13. ASSUME NEW p \in Peers, Conversation!Rotate(p) PROVE TalkInv'
  <2>1. address' = [address EXCEPT ![p] = 1] /\ UNCHANGED <<sessions, known, sent, binding, shown, tabs>>
    BY <1>13 DEF Conversation!Rotate, Conversation!tabVars
  <2>. QED  BY <1>0, <2>1 DEF TalkInv, TalkTypes, Confirmed, Routed, Bound
<1>. QED
  BY <1>2, <1>3, <1>4, <1>5, <1>6, <1>7, <1>8, <1>9, <1>10, <1>11, <1>12, <1>13 DEF Conversation!Next

\* Steps of the other parts leave the conversations alone.
LEMMA TalkInductive == TalkInv /\ [PageNext]_pageVars => TalkInv'
<1>. SUFFICES ASSUME TalkInv, [PageNext]_pageVars PROVE TalkInv'
  OBVIOUS
<1>1. CASE Conversation!Next
  BY <1>1, TalkKeeps
<1>2. CASE UNCHANGED Conversation!vars
  BY <1>2 DEF Conversation!vars, TalkInv, TalkTypes, Confirmed, Routed, Bound
<1>. QED  BY <1>1, <1>2, PageSteps

\* A text the gate held is sent only once it was confirmed; before a reload every message has
\* its correspondent's address; and a rebuttal is shown as verified exactly when its author made
\* it under the address it is taken to come from, through rotations, caches and reloads.  In a
\* session that is who sent it; in a group it is whom the envelope names, and no more is shown.
THEOREM ConversationsHoldAlways == PageSpec => []ConversationsHold
<1>1. TalkInv => ConversationsHold
  BY DEF TalkInv, Confirmed, Routed, Bound, ConversationsHold, Conversation!HeldIsConfirmed,
         Conversation!RoutedBeforeReload, Conversation!RepliesRouted, Conversation!VerifiedIsBound
<1>. QED  BY TalkBegins, TalkInductive, <1>1, PTL DEF PageSpec

---------------------------------------------------------------------------
(* The log of attempts.                                                     *)

\* The records the log, a file or an import holds.
Carried == UNION {i.records : i \in importing}
Held == log \cup exported.records \cup Carried

\* Attempts are numbered as they are made; records from other devices have other numbers.
N == Cardinality(made)

\* A record has an id, a schema and a skill.
Entry(r) == r.id \in Attempts!Ids /\ r.v \in {1, 2} /\ r.skill \in Skill

\* One record per id.
OnePerId(records) == \A r, s \in records : r.id = s.id => r = s

\* An import is at one of its transactions, and writes some of what it read.
Import(i) ==
  /\ i = [n |-> i.n, pc |-> i.pc, records |-> i.records, fresh |-> i.fresh] /\ i.pc \in {"keys", "write"}
  /\ OnePerId(i.records) /\ i.fresh \subseteq i.records
Imports == \A i \in importing : Import(i)

LogTypes ==
  /\ now \in 1..MaxTime /\ level \in Attempts!CONFIDENCE_VALUES
  /\ imports \in 0..MaxImports /\ confirmed \subseteq Attempts!Ids /\ exported.loose = FALSE
  /\ IsFiniteSet(made) /\ N <= MaxAttempts
  /\ \A r \in Held \cup appending : Entry(r)

\* Who has which number, and an attempt made here has an id of its time.
Numbered ==
  /\ \A r \in Held : r.id[2] < N \/ r.id[2] >= MaxAttempts
  /\ \A r \in appending : r.id[2] < N
  /\ \A a \in made : a.id[2] \in Nat /\ a.id[2] < N /\ a.ts = a.id[1]

\* A record of an attempt made here is that attempt, as it was answered.
AsMade == \A r \in Held \cup appending, a \in made : r.id = a.id => r = a

\* An id is in the log and in a file once.
OneRecord == OnePerId(log) /\ OnePerId(exported.records)

LogInv ==
  /\ LogTypes /\ Numbered /\ AsMade /\ OneRecord /\ Imports
  /\ confirmed \subseteq Attempts!IdsOf(log)

\* What is put takes the place of what had its id; what is there as it is changes nothing.
LEMMA PutIs ==
  ASSUME OnePerId(log), NEW R, OnePerId(R)
  PROVE  /\ Attempts!Put(R) \subseteq log \cup R /\ OnePerId(Attempts!Put(R))
         /\ Attempts!IdsOf(Attempts!Put(R)) = Attempts!IdsOf(log) \cup Attempts!IdsOf(R)
         /\ R \subseteq log => Attempts!Put(R) = log
<1>1. Attempts!Put(R) \subseteq log \cup R /\ OnePerId(Attempts!Put(R))
  BY DEF Attempts!Put, Attempts!IdsOf, OnePerId
<1>2. Attempts!IdsOf(Attempts!Put(R)) \subseteq Attempts!IdsOf(log) \cup Attempts!IdsOf(R)
  BY <1>1 DEF Attempts!IdsOf
<1>3. \A r \in log : r.id \in Attempts!IdsOf(Attempts!Put(R))
  <2>. SUFFICES ASSUME NEW r \in log PROVE \E q \in Attempts!Put(R) : q.id = r.id
    BY DEF Attempts!IdsOf
  <2>1. CASE r.id \in Attempts!IdsOf(R)
    BY <2>1 DEF Attempts!Put, Attempts!IdsOf
  <2>2. CASE r.id \notin Attempts!IdsOf(R)
    BY <2>2 DEF Attempts!Put
  <2>. QED  BY <2>1, <2>2
<1>4. \A r \in R : r.id \in Attempts!IdsOf(Attempts!Put(R))
  BY DEF Attempts!Put, Attempts!IdsOf
<1>5. Attempts!IdsOf(log) \cup Attempts!IdsOf(R) \subseteq Attempts!IdsOf(Attempts!Put(R))
  BY <1>3, <1>4 DEF Attempts!IdsOf
<1>6. R \subseteq log => Attempts!Put(R) = log
  <2>. SUFFICES ASSUME R \subseteq log PROVE Attempts!Put(R) = log
    OBVIOUS
  <2>1. \A r \in log : r \in Attempts!Put(R)
    BY DEF Attempts!Put, Attempts!IdsOf, OnePerId
  <2>. QED  BY <1>1, <2>1
<1>. QED  BY <1>1, <1>2, <1>5, <1>6

\* The log begins empty.
LEMMA LogBegins ==
  ASSUME PageInit
  PROVE  LogInv
<1>1. Attempts!Init
  BY DEF PageInit
<1>2. /\ log = {} /\ appending = {} /\ exported.records = {} /\ exported.loose = FALSE /\ importing = {}
      /\ imports = 0 /\ made = {} /\ confirmed = {} /\ now = 1 /\ level = "unsure"
  BY <1>1 DEF Attempts!Init, Attempts!NoFile, Attempts!DefaultLevel
<1>3. N = 0 /\ IsFiniteSet(made)
  BY <1>2, FS_EmptySet DEF N
<1>4. Held = {}
  BY <1>2 DEF Held, Carried
<1>5. LogTypes
  BY <1>2, <1>3, <1>4, AttemptsAssumption DEF LogTypes, Attempts!CONFIDENCE_VALUES
<1>6. Numbered /\ AsMade /\ Imports /\ confirmed \subseteq Attempts!IdsOf(log)
  BY <1>2, <1>4 DEF Numbered, AsMade, Imports
<1>7. OneRecord
  BY <1>2 DEF OneRecord, OnePerId
<1>. QED  BY <1>5, <1>6, <1>7 DEF LogInv

\* The records of an answer: numbered on from those there are, one for each skill.
LEMMA NewRecords ==
  ASSUME LogInv, NEW skills \in SUBSET Skill, NEW given \in {"undefined", "null"},
         Attempts!recordAttempt(skills, given)
  PROVE  \E records :
           /\ appending' = appending \cup records /\ made' = made \cup records
           /\ IsFiniteSet(made') /\ Cardinality(made') <= MaxAttempts /\ N <= Cardinality(made')
           /\ \A r \in records : /\ Entry(r) /\ r.id[2] \in Nat /\ N <= r.id[2] /\ r.id[2] < Cardinality(made')
                                 /\ r.ts = r.id[1]
           /\ OnePerId(records)
<1>. DEFINE k == Cardinality(skills)
            numbers == N .. (N + k - 1)
            number == CHOOSE f \in [skills -> numbers] : \A s, t \in skills : f[s] = f[t] => s = t
            sure == Attempts!confidenceOf(given)
            stated == IF given = "undefined" THEN level ELSE given
            rec(s) == Attempts!Record(2, Attempts!makeId(now, number[s]), now, s, sure)
            records == {rec(s) : s \in skills}
            more == {[r EXCEPT !.confidence = stated] : r \in records}
<1>0. LogTypes /\ now \in 1..MaxTime /\ IsFiniteSet(made) /\ N \in Nat
  BY FS_CardinalityType DEF LogInv, LogTypes, N
<1>1. IsFiniteSet(skills) /\ k \in Nat /\ k # 0
  BY AttemptsAssumption, FS_Subset, FS_CardinalityType, FS_EmptySet DEF Attempts!recordAttempt
<1>2. N + k <= MaxAttempts
  BY DEF Attempts!recordAttempt, N, Attempts!Cardinality, Cardinality
<1>3. appending' = appending \cup records /\ made' = made \cup more
  BY DEF Attempts!recordAttempt, N, Attempts!Cardinality, Cardinality
<1>4. number \in [skills -> numbers] /\ \A s, t \in skills : number[s] = number[t] => s = t
  <2>1. IsFiniteSet(numbers) /\ Cardinality(numbers) = k
    <3>. HIDE DEF k
    <3>. QED  BY <1>0, <1>1, FS_Interval
  <2>2. ExistsBijection(skills, numbers)
    <3>. HIDE DEF numbers
    <3>. QED  BY <1>1, <2>1, FS_SameCardinalityBij DEF k
  <2>3. PICK f \in [skills -> numbers] : \A s, t \in skills : f[s] = f[t] => s = t
    <3>. HIDE DEF numbers
    <3>. QED  BY <2>2 DEF ExistsBijection, Bijection, Injection, IsInjective
  <2>. QED  BY <2>3
<1>5. sure = stated /\ Attempts!normaliseConfidence(sure) = stated
  BY <1>0 DEF LogTypes, Attempts!confidenceOf, Attempts!normaliseConfidence, Attempts!CONFIDENCE_VALUES, Attempts!NotStated
<1>. HIDE DEF number, sure, stated, k
<1>6. ASSUME NEW s \in skills
      PROVE  /\ rec(s).id = <<now, number[s]>> /\ rec(s).ts = now /\ rec(s).v = 2 /\ rec(s).skill = s
             /\ rec(s).confidence = stated /\ number[s] \in Nat /\ N <= number[s] /\ number[s] < N + k
  BY <1>0, <1>1, <1>4, <1>5 DEF Attempts!Record, Attempts!makeId
<1>7. \A r \in records : Entry(r) /\ r.id[2] \in Nat /\ N <= r.id[2] /\ r.id[2] < N + k /\ r.ts = r.id[1]
  <2>. SUFFICES ASSUME NEW s \in skills PROVE Entry(rec(s)) /\ rec(s).id[2] = number[s] /\ rec(s).ts = rec(s).id[1]
    BY <1>6
  <2>1. number[s] \in 0..(MaxAttempts + MaxImports)
    BY <1>0, <1>1, <1>2, <1>6, AttemptsAssumption
  <2>2. rec(s).id \in Attempts!Ids
    <3>1. PICK n \in 0..(MaxAttempts + MaxImports) : n = number[s]
      BY <2>1
    <3>2. PICK id : id = rec(s).id
      OBVIOUS
    <3>3. id = <<now, n>>
      <4>. HIDE DEF rec
      <4>. QED  BY <1>6, <3>1, <3>2
    <3>4. id \in Attempts!Ids
      <4>. HIDE DEF rec, records
      <4>. QED  BY <1>0, <3>1, <3>3 DEF Attempts!Ids
    <3>. QED  BY <3>2, <3>4
  <2>. HIDE DEF rec
  <2>. QED  BY <1>6, <2>2 DEF Entry
<1>8. OnePerId(records)
  <2>. SUFFICES ASSUME NEW s \in skills, NEW t \in skills, rec(s).id = rec(t).id PROVE s = t
    BY DEF OnePerId
  <2>1. number[s] = number[t]
    <3>. HIDE DEF rec
    <3>. QED  BY <1>6
  <2>. QED  BY <1>4, <2>1
<1>9. more = records
  <2>1. \A s \in skills : [rec(s) EXCEPT !.confidence = stated] = rec(s)
    BY <1>5 DEF Attempts!Record
  <2>2. \A r \in records : [r EXCEPT !.confidence = stated] = r
    BY <2>1
  <2>. HIDE DEF records
  <2>. QED  BY <2>2
<1>10. IsFiniteSet(records) /\ Cardinality(records) = k
  <2>. DEFINE g == [s \in skills |-> rec(s)]
  <2>1. g \in [skills -> records]
    OBVIOUS
  <2>2. \A s, t \in skills : g[s] = g[t] => s = t
    <3>. SUFFICES ASSUME NEW s \in skills, NEW t \in skills, g[s] = g[t] PROVE s = t
      OBVIOUS
    <3>1. rec(s).id = rec(t).id
      <4>. HIDE DEF rec
      <4>. QED  OBVIOUS
    <3>2. number[s] = number[t]
      <4>. HIDE DEF rec, g
      <4>. QED  BY <1>6, <3>1
    <3>. QED  BY <1>4, <3>2
  <2>3. \A a \in records : \E s \in skills : g[s] = a
    OBVIOUS
  <2>. HIDE DEF records, g
  <2>4. g \in Bijection(skills, records)
    BY <2>1, <2>2, <2>3 DEF Bijection, Injection, Surjection, IsInjective
  <2>5. ExistsBijection(skills, records)
    BY <2>4 DEF ExistsBijection
  <2>. QED  BY <1>1, <2>5, FS_Bijection DEF k
<1>11. made \cap records = {}
  <2>. HIDE DEF records
  <2>1. \A a \in made : a.id[2] \in Nat /\ a.id[2] < N
    BY DEF LogInv, Numbered
  <2>. QED  BY <1>0, <1>7, <2>1
<1>. HIDE DEF more
<1>12. IsFiniteSet(made') /\ Cardinality(made') = N + k
  <2>. HIDE DEF records
  <2>1. Cardinality(made \cap records) = 0
    BY <1>11, FS_EmptySet
  <2>2. Cardinality(made \cup records) = N + k - 0 /\ IsFiniteSet(made \cup records)
    BY <1>0, <1>10, <2>1, FS_Union DEF N
  <2>. QED  BY <1>0, <1>1, <1>3, <1>9, <2>2
<1>. HIDE DEF records
<1>13. N + k = Cardinality(made') /\ N <= N + k
  BY <1>0, <1>1, <1>12
<1>14. \A r \in records : /\ Entry(r) /\ r.id[2] \in Nat /\ N <= r.id[2] /\ r.id[2] < Cardinality(made')
                          /\ r.ts = r.id[1]
  BY <1>7, <1>13
<1>15. IsFiniteSet(made') /\ Cardinality(made') <= MaxAttempts /\ N <= Cardinality(made')
  BY <1>2, <1>12, <1>13
<1>. QED  BY <1>3, <1>8, <1>9, <1>14, <1>15

\* An attempt is recorded: nothing that is held has its number.
LEMMA RecordKeeps ==
  ASSUME LogInv, NEW skills \in SUBSET Skill, NEW given \in {"undefined", "null"},
         Attempts!recordAttempt(skills, given)
  PROVE  LogInv'
<1>0. LogTypes /\ Numbered /\ AsMade /\ OneRecord /\ Imports /\ N \in Nat
  BY FS_CardinalityType DEF LogInv, LogTypes, N
<1>1. PICK records :
           /\ appending' = appending \cup records /\ made' = made \cup records
           /\ IsFiniteSet(made') /\ Cardinality(made') <= MaxAttempts /\ N <= Cardinality(made')
           /\ \A r \in records : /\ Entry(r) /\ r.id[2] \in Nat /\ N <= r.id[2] /\ r.id[2] < Cardinality(made')
                                 /\ r.ts = r.id[1]
           /\ OnePerId(records)
  BY NewRecords
<1>2. UNCHANGED <<now, level, log, importing, imports, exported, confirmed>>
  BY DEF Attempts!recordAttempt
<1>3. Held' = Held /\ N' = Cardinality(made') /\ N' \in Nat
  BY <1>1, <1>2, FS_CardinalityType DEF Held, Carried, N
<1>4. \A r \in Held \cup appending : r.id[2] \in Nat
  BY <1>0, AttemptsAssumption DEF LogTypes, Entry, Attempts!Ids
<1>5. LogTypes'
  <2>1. \A r \in Held' \cup appending' : Entry(r)
    BY <1>0, <1>1, <1>3 DEF LogTypes
  <2>2. \A r \in Held' \cup appending' : Entry(r)'
    BY <2>1 DEF Entry
  <2>. QED  BY <1>0, <1>1, <1>2, <1>3, <2>2 DEF LogTypes
<1>6. Numbered'
  <2>1. \A r \in Held' : r.id[2] < N' \/ r.id[2] >= MaxAttempts
    BY <1>0, <1>1, <1>3, <1>4, AttemptsAssumption DEF Numbered
  <2>2. \A r \in appending' : r.id[2] < N'
    <3>1. \A r \in appending : r.id[2] < N /\ r.id[2] \in Nat
      BY <1>0, <1>4 DEF Numbered
    <3>2. \A r \in appending : r.id[2] < N'
      BY <1>0, <1>1, <1>3, <3>1
    <3>3. \A r \in records : r.id[2] < N'
      BY <1>1, <1>3
    <3>. QED  BY <1>1, <3>2, <3>3
  <2>3. \A a \in made' : a.id[2] \in Nat /\ a.id[2] < N' /\ a.ts = a.id[1]
    <3>1. \A a \in made : a.id[2] \in Nat /\ a.id[2] < N /\ a.ts = a.id[1]
      BY <1>0 DEF Numbered
    <3>2. \A a \in made : a.id[2] \in Nat /\ a.id[2] < N' /\ a.ts = a.id[1]
      BY <1>0, <1>1, <1>3, <3>1
    <3>3. \A a \in records : a.id[2] \in Nat /\ a.id[2] < N' /\ a.ts = a.id[1]
      BY <1>1, <1>3
    <3>. QED  BY <1>1, <3>2, <3>3
  <2>. QED  BY <2>1, <2>2, <2>3 DEF Numbered
<1>7. \A r \in records, s \in Held \cup appending : r.id # s.id
  <2>. SUFFICES ASSUME NEW r \in records, NEW s \in Held \cup appending, r.id = s.id PROVE FALSE
    OBVIOUS
  <2>1. N <= r.id[2] /\ r.id[2] < N' /\ N' <= MaxAttempts /\ s.id[2] \in Nat
    BY <1>1, <1>3, <1>4
  <2>2. s.id[2] < N \/ s.id[2] >= MaxAttempts
    BY <1>0 DEF Numbered
  <2>. QED  BY <1>0, <1>3, <2>1, <2>2, AttemptsAssumption
<1>8. \A r \in records, a \in made : r.id # a.id
  <2>. SUFFICES ASSUME NEW r \in records, NEW a \in made, r.id = a.id PROVE FALSE
    OBVIOUS
  <2>1. N <= r.id[2] /\ a.id[2] < N /\ r.id[2] \in Nat
    BY <1>0, <1>1 DEF Numbered
  <2>. QED  BY <1>0, <2>1
<1>9. AsMade'
  <2>. SUFFICES ASSUME NEW r \in Held \cup appending', NEW a \in made', r.id = a.id PROVE r = a
    BY <1>3 DEF AsMade
  <2>1. CASE r \in records /\ a \in records
    BY <1>1, <2>1 DEF OnePerId
  <2>2. CASE r \in records /\ a \in made
    BY <1>8, <2>2
  <2>3. CASE r \notin records /\ a \in records
    BY <1>1, <1>7, <2>3
  <2>4. CASE r \notin records /\ a \notin records
    BY <1>0, <1>1, <2>4 DEF AsMade
  <2>. QED  BY <1>1, <2>1, <2>2, <2>3, <2>4
<1>10. OneRecord' /\ Imports' /\ (confirmed \subseteq Attempts!IdsOf(log))'
  BY <1>0, <1>2 DEF LogInv, OneRecord, OnePerId, Imports, Import, Attempts!IdsOf
<1>. QED  BY <1>5, <1>6, <1>9, <1>10 DEF LogInv

\* Steps that hold nothing new, make no attempt and shrink or keep what is open.
LEMMA HoldingKeeps ==
  ASSUME LogInv, made' = made, Held' \subseteq Held \cup appending, appending' \subseteq appending,
         now' \in 1..MaxTime, level' \in Attempts!CONFIDENCE_VALUES, imports' \in 0..MaxImports,
         exported'.loose = FALSE, confirmed' \subseteq Attempts!IdsOf(log'),
         OnePerId(log'), OnePerId(exported'.records), Imports'
  PROVE  LogInv'
<1>0. LogTypes /\ Numbered /\ AsMade
  BY DEF LogInv
<1>1. N' = N
  BY DEF N
<1>2. \A r \in Held' \cup appending' : Entry(r)
  BY <1>0 DEF LogTypes
<1>3. confirmed' \subseteq Attempts!Ids
  <2>1. \A r \in log' : r.id \in Attempts!Ids
    BY <1>2 DEF Held, Carried, Entry
  <2>. QED  BY <2>1 DEF Attempts!IdsOf
<1>4. LogTypes'
  <2>1. \A r \in Held' \cup appending' : Entry(r)'
    BY <1>2 DEF Entry
  <2>. QED  BY <1>0, <1>1, <1>3, <2>1 DEF LogTypes
<1>5. Numbered'
  <2>1. \A r \in Held' : r.id[2] < N \/ r.id[2] >= MaxAttempts
    BY <1>0 DEF Numbered
  <2>. QED  BY <1>0, <1>1, <2>1 DEF Numbered
<1>6. AsMade'
  BY <1>0 DEF AsMade
<1>7. OneRecord'
  BY DEF OneRecord, OnePerId
<1>8. (confirmed \subseteq Attempts!IdsOf(log))'
  BY DEF Attempts!IdsOf
<1>. QED  BY <1>4, <1>5, <1>6, <1>7, <1>8 DEF LogInv

\* What the imports hold, with one more.
LEMMA UnionOne ==
  ASSUME NEW S, NEW T, NEW i, T = S \cup {i}
  PROVE  UNION {j.records : j \in T} = (UNION {j.records : j \in S}) \cup i.records
OBVIOUS

\* A file from elsewhere is held: its numbers are none of ours, the one an import makes for
\* the record without an id included.
LEMMA ForeignKeeps ==
  ASSUME LogInv, NEW valid \in BOOLEAN, Attempts!StartImport(Attempts!Foreign(valid))
  PROVE  LogInv'
<1>0. LogTypes /\ Numbered /\ AsMade /\ OneRecord /\ Imports /\ N \in Nat /\ N <= MaxAttempts /\ imports \in Nat
      /\ MaxAttempts \in Nat /\ MaxImports \in Nat
  BY FS_CardinalityType, AttemptsAssumption DEF LogInv, LogTypes, N
<1>. DEFINE one == CHOOSE s \in Skill : TRUE
            n == imports + 1
            old == Attempts!OldRecord
            bare == Attempts!Record(2, Attempts!makeId(1, MaxAttempts + n), 1, one, "certain")
            timeless == Attempts!Record(2, <<Attempts!OtherShape, MaxAttempts>>, now, one, Attempts!NotStated)
            new == {old, bare, timeless}
            i == [n |-> n, pc |-> "keys", records |-> new, fresh |-> {}]
<1>1. UNCHANGED <<now, level, log, appending, exported, made, confirmed>> /\ imports' = n /\ n \in 1..MaxImports
  BY <1>0 DEF Attempts!StartImport
<1>2. importing' = importing \cup {i}
  <2>1. Attempts!Normalised(Attempts!Foreign(valid), n) = new
    BY DEF Attempts!Normalised, Attempts!Foreign
  <2>. QED  BY <2>1 DEF Attempts!StartImport
<1>3. one \in Skill
  BY AttemptsAssumption
<1>4. /\ old.v = 1 /\ old.id = <<1, MaxAttempts>> /\ old.skill = one
      /\ bare.v = 2 /\ bare.id = <<1, MaxAttempts + n>> /\ bare.skill = one
      /\ timeless.v = 2 /\ timeless.id = <<0, MaxAttempts>> /\ timeless.skill = one
  BY DEF Attempts!OldRecord, Attempts!Record, Attempts!makeId, Attempts!OtherShape
<1>. HIDE DEF old, bare, timeless, one, n
<1>5. \A r \in new : Entry(r)
  <2>1. /\ <<1, MaxAttempts>> \in Attempts!Ids /\ <<1, MaxAttempts + n>> \in Attempts!Ids
        /\ <<0, MaxAttempts>> \in Attempts!Ids
    BY <1>0, <1>1, AttemptsAssumption DEF Attempts!Ids
  <2>. QED  BY <1>3, <1>4, <2>1 DEF Entry
<1>6. \A r \in new : r.id[2] >= MaxAttempts
  BY <1>0, <1>1, <1>4
<1>7. OnePerId(new)
  <2>1. MaxAttempts + n # MaxAttempts
    BY <1>0, <1>1
  <2>2. old.id # bare.id /\ old.id # timeless.id /\ bare.id # timeless.id
    BY <1>4, <2>1
  <2>. QED  BY <2>2 DEF OnePerId
<1>8. i.records = new /\ Import(i)
  <2>. HIDE DEF new
  <2>. QED  BY <1>7 DEF Import
<1>. HIDE DEF new
<1>9. Held' = Held \cup new /\ N' = N /\ appending' = appending /\ made' = made
  <2>. HIDE DEF i
  <2>1. Carried' = Carried \cup i.records
    BY <1>2, UnionOne DEF Carried
  <2>2. log' = log /\ exported' = exported /\ i.records = new
    BY <1>1, <1>8
  <2>3. Held' = Held \cup new
    BY <2>1, <2>2 DEF Held
  <2>4. N' = N
    BY <1>1 DEF N
  <2>. QED  BY <1>1, <2>3, <2>4
<1>10. LogTypes'
  <2>1. \A r \in Held' \cup appending' : Entry(r)
    BY <1>0, <1>5, <1>9 DEF LogTypes
  <2>2. \A r \in Held' \cup appending' : Entry(r)'
    BY <2>1 DEF Entry
  <2>. QED  BY <1>0, <1>1, <1>9, <2>2 DEF LogTypes
<1>11. Numbered'
  <2>1. \A r \in Held' : r.id[2] < N \/ r.id[2] >= MaxAttempts
    BY <1>0, <1>6, <1>9 DEF Numbered
  <2>. QED  BY <1>0, <1>9, <2>1 DEF Numbered
<1>12. \A r \in new, a \in made : r.id # a.id
  <2>. SUFFICES ASSUME NEW r \in new, NEW a \in made, r.id = a.id PROVE FALSE
    OBVIOUS
  <2>1. a.id[2] < N /\ a.id[2] >= MaxAttempts /\ a.id[2] \in Nat
    BY <1>0, <1>6 DEF Numbered
  <2>. QED  BY <1>0, <2>1
<1>13. AsMade'
  BY <1>0, <1>9, <1>12 DEF AsMade
<1>14. OneRecord' /\ (confirmed \subseteq Attempts!IdsOf(log))'
  BY <1>0, <1>1 DEF LogInv, OneRecord, OnePerId, Attempts!IdsOf
<1>15. Imports'
  <2>1. \A j \in importing' : Import(j)
    BY <1>0, <1>2, <1>8 DEF Imports
  <2>. QED  BY <2>1 DEF Imports, Import, OnePerId
<1>. QED  BY <1>10, <1>11, <1>13, <1>14, <1>15 DEF LogInv

\* What an import does leaves the others as they are.
LEMMA OneImport ==
  ASSUME Imports, NEW i \in importing, NEW R,
         importing' = (importing \ {i}) \cup R, \A j \in R : Import(j) /\ j.records = i.records
  PROVE  Imports' /\ Carried' \subseteq Carried
<1>1. \A j \in importing' : Import(j)
  BY DEF Imports
<1>2. Imports'
  BY <1>1 DEF Imports, Import, OnePerId
<1>. QED  BY <1>2 DEF Carried

\* Every step of the log keeps what is known of its records.
LEMMA LogSteps ==
  ASSUME LogInv, [Attempts!Next]_(Attempts!vars)
  PROVE  LogInv'
<1>0. LogTypes /\ OneRecord /\ Imports /\ confirmed \subseteq Attempts!IdsOf(log)
  BY DEF LogInv
<1>t. /\ now \in 1..MaxTime /\ MaxTime \in Nat /\ level \in Attempts!CONFIDENCE_VALUES
      /\ imports \in 0..MaxImports /\ MaxImports \in Nat /\ exported.loose = FALSE
      /\ OnePerId(log) /\ OnePerId(exported.records)
  BY <1>0, AttemptsAssumption DEF LogTypes, OneRecord
<1>q. ASSUME UNCHANGED <<log, exported, made, confirmed, importing, imports>>, appending' \subseteq appending,
             now' \in 1..MaxTime, level' \in Attempts!CONFIDENCE_VALUES
      PROVE  LogInv'
  <2>1. Held' = Held
    BY <1>q DEF Held, Carried
  <2>2. Imports'
    BY <1>0, <1>q DEF Imports, Import, OnePerId
  <2>. QED  BY <1>0, <1>t, <1>q, <2>1, <2>2, HoldingKeeps
<1>1. ASSUME NEW word \in Words, Attempts!Set(word) PROVE LogInv'
  <2>1. UNCHANGED <<now, log, appending, importing, imports, exported, made, confirmed>> /\ level' \in Attempts!CONFIDENCE_VALUES
    BY <1>1 DEF Attempts!Set, Attempts!normaliseConfidence, Attempts!NotStated, Attempts!CONFIDENCE_VALUES
  <2>. QED  BY <1>t, <1>q, <2>1
<1>2. ASSUME NEW r \in appending, Attempts!Append(r) PROVE LogInv'
  <2>1. appending' = appending \ {r} /\ UNCHANGED <<now, level, importing, imports, exported, made>>
    BY <1>2 DEF Attempts!Append
  <2>2. OnePerId({r}) /\ Attempts!IdsOf({r}) = {r.id}
    BY DEF OnePerId, Attempts!IdsOf
  <2>3. /\ log' \subseteq log \cup {r} /\ OnePerId(log') /\ confirmed' \subseteq Attempts!IdsOf(log')
    <3>1. /\ Attempts!Put({r}) \subseteq log \cup {r} /\ OnePerId(Attempts!Put({r}))
          /\ Attempts!IdsOf(Attempts!Put({r})) = Attempts!IdsOf(log) \cup {r.id}
      BY <1>t, <2>2, PutIs
    <3>2. \/ log' = Attempts!Put({r}) /\ confirmed' = confirmed \cup {r.id}
          \/ log' = log /\ confirmed' = confirmed
      BY <1>2 DEF Attempts!Append
    <3>3. CASE log' = Attempts!Put({r}) /\ confirmed' = confirmed \cup {r.id}
      BY <1>0, <3>1, <3>3
    <3>4. CASE log' = log /\ confirmed' = confirmed
      BY <1>0, <1>t, <3>4
    <3>. QED  BY <3>2, <3>3, <3>4
  <2>4. Held' \subseteq Held \cup appending
    BY <2>1, <2>3 DEF Held, Carried
  <2>5. Imports'
    BY <1>0, <2>1 DEF Imports, Import, OnePerId
  <2>. QED  BY <1>0, <1>t, <2>1, <2>3, <2>4, <2>5, HoldingKeeps
<1>3. CASE Attempts!TakeExport
  <2>1. /\ exported'.records = log /\ exported'.loose = FALSE
        /\ UNCHANGED <<now, level, log, appending, importing, imports, made, confirmed>>
    BY <1>3 DEF Attempts!TakeExport, Attempts!Export
  <2>2. Held' \subseteq Held
    BY <2>1 DEF Held, Carried
  <2>3. Imports'
    BY <1>0, <2>1 DEF Imports, Import, OnePerId
  <2>. QED  BY <1>0, <1>t, <2>1, <2>2, <2>3, HoldingKeeps
<1>4. CASE Attempts!StartImport(exported)
  <2>. DEFINE i == [n |-> imports + 1, pc |-> "keys", records |-> exported.records, fresh |-> {}]
  <2>1. UNCHANGED <<now, level, log, appending, exported, made, confirmed>> /\ imports' \in 0..MaxImports
    BY <1>t, <1>4 DEF Attempts!StartImport
  <2>2. importing' = importing \cup {i}
    <3>1. Attempts!Normalised(exported, imports + 1) = exported.records
      BY <1>t DEF Attempts!Normalised
    <3>. QED  BY <1>4, <3>1 DEF Attempts!StartImport
  <2>3. Import(i) /\ i.records = exported.records
    BY <1>t DEF Import
  <2>. HIDE DEF i
  <2>4. Imports'
    <3>1. \A j \in importing' : Import(j)
      BY <1>0, <2>2, <2>3 DEF Imports
    <3>. QED  BY <3>1 DEF Imports, Import, OnePerId
  <2>5. Held' \subseteq Held
    BY <2>1, <2>2, <2>3 DEF Held, Carried
  <2>. QED  BY <1>0, <1>t, <2>1, <2>4, <2>5, HoldingKeeps
<1>5. ASSUME NEW i \in importing, Attempts!ReadKeys(i) PROVE LogInv'
  <2>. DEFINE j == [i EXCEPT !.pc = "write", !.fresh = {r \in i.records : r.id \notin Attempts!Existing}]
  <2>1. /\ UNCHANGED <<now, level, log, appending, imports, exported, made, confirmed>>
        /\ importing' = (importing \ {i}) \cup {j}
    BY <1>5 DEF Attempts!ReadKeys
  <2>2. Import(i)
    BY <1>0 DEF Imports
  <2>3. Import(j) /\ j.records = i.records
    <3>. DEFINE fresh == {r \in i.records : r.id \notin Attempts!Existing}
    <3>1. fresh \subseteq i.records
      OBVIOUS
    <3>. HIDE DEF fresh
    <3>2. j = [n |-> i.n, pc |-> "write", records |-> i.records, fresh |-> fresh]
      <4>1. PICK n, pc, records, old : i = [n |-> n, pc |-> pc, records |-> records, fresh |-> old]
        BY <2>2 DEF Import
      <4>2. j = [i EXCEPT !.pc = "write", !.fresh = fresh]
        BY DEF fresh
      <4>. HIDE DEF j
      <4>. QED  BY <4>1, <4>2
    <3>. QED  BY <2>2, <3>1, <3>2 DEF Import
  <2>. HIDE DEF j
  <2>4. Imports' /\ Carried' \subseteq Carried
    <3>. DEFINE R == {j}
    <3>1. \A k \in R : Import(k) /\ k.records = i.records
      BY <2>3
    <3>2. Imports /\ importing' = (importing \ {i}) \cup R
      BY <1>0, <2>1
    <3>. HIDE DEF R
    <3>. QED  BY <3>1, <3>2, OneImport, Zenon
  <2>5. Held' \subseteq Held
    BY <2>1, <2>4 DEF Held
  <2>. QED  BY <1>0, <1>t, <2>1, <2>4, <2>5, HoldingKeeps
<1>6. ASSUME NEW i \in importing, Attempts!WriteFresh(i) PROVE LogInv'
  <2>1. UNCHANGED <<now, level, appending, imports, exported, made>> /\ importing' = (importing \ {i}) \cup {}
    BY <1>6 DEF Attempts!WriteFresh
  <2>2. OnePerId(i.fresh) /\ i.fresh \subseteq i.records
    BY <1>0 DEF Imports, Import, OnePerId
  <2>3. log' \subseteq log \cup i.fresh /\ OnePerId(log') /\ confirmed' \subseteq Attempts!IdsOf(log')
    BY <1>0, <1>6, <1>t, <2>2, PutIs DEF Attempts!WriteFresh
  <2>4. Imports' /\ Carried' \subseteq Carried
    <3>. DEFINE R == {}
    <3>1. Imports /\ importing' = (importing \ {i}) \cup R
      BY <1>0, <2>1
    <3>2. \A k \in R : Import(k) /\ k.records = i.records
      OBVIOUS
    <3>. HIDE DEF R
    <3>. QED  BY <3>1, <3>2, OneImport, Zenon
  <2>5. Held' \subseteq Held
    BY <2>1, <2>2, <2>3, <2>4 DEF Held, Carried
  <2>. QED  BY <1>0, <1>t, <2>1, <2>3, <2>4, <2>5, HoldingKeeps
<1>7. CASE Attempts!Clear
  <2>1. log' = {} /\ confirmed' = {} /\ UNCHANGED <<now, level, appending, importing, imports, exported, made>>
    BY <1>7 DEF Attempts!Clear
  <2>2. Held' \subseteq Held /\ OnePerId(log')
    BY <2>1 DEF Held, Carried, OnePerId
  <2>3. Imports'
    BY <1>0, <2>1 DEF Imports, Import, OnePerId
  <2>. QED  BY <1>0, <1>t, <2>1, <2>2, <2>3, HoldingKeeps
<1>8. CASE Attempts!Reload
  <2>1. appending' = {} /\ importing' = {} /\ UNCHANGED <<now, level, log, imports, exported, made, confirmed>>
    BY <1>8 DEF Attempts!Reload
  <2>2. Held' \subseteq Held /\ Imports'
    BY <2>1 DEF Held, Carried, Imports
  <2>. QED  BY <1>0, <1>t, <2>1, <2>2, HoldingKeeps
<1>9. CASE Attempts!Tick
  <2>1. now' \in 1..MaxTime /\ UNCHANGED <<level, log, appending, importing, imports, exported, made, confirmed>>
    BY <1>9, <1>t DEF Attempts!Tick
  <2>. QED  BY <1>t, <1>q, <2>1
<1>10. CASE UNCHANGED Attempts!vars
  <2>1. UNCHANGED <<now, level, log, appending, importing, imports, exported, made, confirmed>>
    BY <1>10 DEF Attempts!vars
  <2>. QED  BY <1>t, <1>q, <2>1
<1>. QED  BY <1>1, <1>2, <1>3, <1>4, <1>5, <1>6, <1>7, <1>8, <1>9, <1>10, RecordKeeps, ForeignKeeps DEF Attempts!Next

\* Every step of a page keeps what is known of the log.
LEMMA LogInductive == LogInv /\ [PageNext]_pageVars => LogInv'
BY LogSteps, PageSteps

\* An append or an import that was answered for is in the log until a reset, an id has one record,
\* an attempt made here is recorded as it was answered, and a range of ids misses no such attempt:
\* with records that are committed late, refused, exported and imported on either side, by imports
\* that overlap, beside records that come without an id or a time.
THEOREM LogTellsAlways == PageSpec => []LogTells
<1>1. LogInv => LogTells
  <2>. SUFFICES ASSUME LogInv PROVE Attempts!TypeOK /\ Attempts!LogTells
    BY DEF LogTells
  <2>0. LogTypes /\ AsMade /\ OneRecord /\ Numbered /\ Imports
    BY DEF LogInv
  <2>1. \A r \in log \cup appending : Entry(r)
    BY <2>0 DEF LogTypes, Held
  <2>2. Attempts!TypeOK
    BY <2>0, <2>1 DEF LogTypes, Imports, Import, Entry, Attempts!TypeOK
  <2>3. ASSUME NEW t \in 1..MaxTime, NEW r \in log, r.ts >= t, r.id \in Attempts!IdsOf(made)
        PROVE  r \in Attempts!readSince(t)
    <3>1. PICK a \in made : r.id = a.id
      BY <2>3 DEF Attempts!IdsOf
    <3>2. r = a /\ r.ts = r.id[1]
      BY <2>0, <3>1 DEF AsMade, Held, Numbered
    <3>. QED  BY <2>3, <3>2 DEF Attempts!readSince, Attempts!IdRange
  <2>. QED  BY <2>0, <2>2, <2>3 DEF LogInv, AsMade, OneRecord, OnePerId, Held, Attempts!LogTells
<1>. QED  BY LogBegins, LogInductive, <1>1, PTL DEF PageSpec

\* What a step does to the log.
NothingAgain ==
  /\ Attempts!IdsOf(log) \subseteq Attempts!IdsOf(log') \/ log' = {}
  /\ \A i \in importing \ importing' : i.pc = "write" /\ i.records \subseteq log => log' = log

\* A commit adds ids to the log, an import of what is there nothing, and only a reset takes
\* from it.
LEMMA LogGrows ==
  ASSUME LogInv, [Attempts!Next]_(Attempts!vars)
  PROVE  NothingAgain
<1>0. OnePerId(log) /\ Imports
  BY DEF LogInv, OneRecord
<1>1. ASSUME NEW r \in appending, Attempts!Append(r) PROVE NothingAgain
  <2>1. OnePerId({r})
    BY DEF OnePerId
  <2>. QED  BY <1>0, <1>1, <2>1, PutIs DEF Attempts!Append, NothingAgain
<1>2. ASSUME NEW i \in importing, Attempts!WriteFresh(i) PROVE NothingAgain
  <2>1. OnePerId(i.fresh) /\ i.fresh \subseteq i.records
    BY <1>0 DEF Imports, Import, OnePerId
  <2>2. /\ Attempts!IdsOf(Attempts!Put(i.fresh)) = Attempts!IdsOf(log) \cup Attempts!IdsOf(i.fresh)
        /\ i.fresh \subseteq log => Attempts!Put(i.fresh) = log
    BY <1>0, <2>1, PutIs
  <2>3. importing \ importing' \subseteq {i} /\ (log' = log \/ log' = Attempts!Put(i.fresh))
    BY <1>2 DEF Attempts!WriteFresh
  <2>. QED  BY <2>1, <2>2, <2>3 DEF NothingAgain
<1>3. CASE Attempts!Clear
  BY <1>3 DEF Attempts!Clear, NothingAgain
<1>4. CASE UNCHANGED log
  BY <1>4 DEF NothingAgain
<1>5. (\E word \in Words : Attempts!Set(word)) \/ Attempts!TakeExport \/ Attempts!Reload \/ Attempts!Tick => UNCHANGED log
  BY DEF Attempts!Set, Attempts!TakeExport, Attempts!Reload, Attempts!Tick
<1>6. \A skills, given : Attempts!recordAttempt(skills, given) => UNCHANGED log
  BY DEF Attempts!recordAttempt
<1>7. (\A f : Attempts!StartImport(f) => UNCHANGED log) /\ (\A i : Attempts!ReadKeys(i) => UNCHANGED log)
  BY DEF Attempts!StartImport, Attempts!ReadKeys
<1>8. UNCHANGED Attempts!vars => UNCHANGED log
  BY DEF Attempts!vars
<1>. QED  BY <1>1, <1>2, <1>3, <1>4, <1>5, <1>6, <1>7, <1>8 DEF Attempts!Next

\* An id that was committed is there until a reset, and importing what is there as it is changes
\* nothing, whatever is appended or imported beside.
THEOREM AppendOnlyAlways == PageSpec => Attempts!AppendOnly
<1>1. LogInv /\ [PageNext]_pageVars =>
        [/\ Attempts!IdsOf(log) \subseteq Attempts!IdsOf(log') \/ log' = {}
         /\ \A i \in importing \ importing' : i.pc = "write" /\ i.records \subseteq log => log' = log]_(Attempts!vars)
  BY LogGrows, PageSteps DEF NothingAgain
<1>. QED  BY LogBegins, LogInductive, <1>1, PTL DEF PageSpec, Attempts!AppendOnly

---------------------------------------------------------------------------
(* The verdict: sums and greatest elements of finite sets, by smallest      *)
(* counterexamples.                                                         *)

\* A set of naturals that is not empty has a least element.
LEMMA LeastNat ==
  ASSUME NEW T \in SUBSET Nat, T # {}
  PROVE  \E x \in T : \A y \in T : x <= y
<1>1. PICK x \in T : \A y \in T : ~(<<y, x>> \in OpToRel(<, Nat))
  BY NatLessThanWellFounded, WFMin
<1>2. \A y \in T : ~(y < x)
  BY <1>1 DEF OpToRel
<1>. QED  BY <1>2

\* A set of subsets of a finite set has one that no element can leave.
LEMMA SmallestSet ==
  ASSUME NEW S, IsFiniteSet(S), NEW Bad \in SUBSET (SUBSET S), Bad # {}
  PROVE  \E s \in Bad : \A x \in s : s \ {x} \notin Bad
<1>1. \A s \in Bad : IsFiniteSet(s) /\ Cardinality(s) \in Nat
  BY FS_Subset, FS_CardinalityType
<1>. DEFINE Sizes == {Cardinality(s) : s \in Bad}
<1>2. Sizes \in SUBSET Nat /\ Sizes # {}
  BY <1>1
<1>3. PICK k \in Sizes : \A j \in Sizes : k <= j
  <2>. HIDE DEF Sizes
  <2>. QED  BY <1>2, LeastNat
<1>4. PICK s \in Bad : Cardinality(s) = k
  BY <1>3
<1>5. ASSUME NEW x \in s, s \ {x} \in Bad PROVE FALSE
  <2>1. Cardinality(s \ {x}) = k - 1
    BY <1>1, <1>4, FS_RemoveElement
  <2>2. k - 1 \in Sizes
    BY <1>5, <2>1
  <2>. QED  BY <1>1, <1>3, <1>4, <2>2
<1>. QED  BY <1>5

\* A finite set of naturals has a greatest element.
LEMMA GreatestNat ==
  ASSUME NEW S \in SUBSET Nat, IsFiniteSet(S), S # {}
  PROVE  \E x \in S : \A y \in S : y <= x
<1>. DEFINE Tops(T) == \E x \in T : \A y \in T : y <= x
            Bad == {T \in SUBSET S : T # {} /\ ~Tops(T)}
<1>1. SUFFICES ASSUME Bad # {} PROVE FALSE
  OBVIOUS
<1>2. PICK T \in Bad : \A x \in T : T \ {x} \notin Bad
  <2>1. Bad \in SUBSET (SUBSET S)
    OBVIOUS
  <2>. HIDE DEF Bad
  <2>. QED  BY <1>1, <2>1, SmallestSet
<1>3. PICK x \in T : TRUE
  BY <1>2
<1>4. CASE T \ {x} = {}
  BY <1>2, <1>3, <1>4
<1>5. CASE T \ {x} # {}
  <2>1. PICK m \in T \ {x} : \A y \in T \ {x} : y <= m
    BY <1>2, <1>3, <1>5
  <2>2. CASE x <= m
    BY <1>2, <1>3, <2>1, <2>2
  <2>3. CASE ~(x <= m)
    <3>1. \A y \in T : y <= x
      BY <1>2, <1>3, <2>1, <2>3
    <3>. QED  BY <1>2, <3>1
  <2>. QED  BY <2>2, <2>3
<1>. QED  BY <1>4, <1>5

\* Max is the greatest element.
LEMMA MaxNat ==
  ASSUME NEW S \in SUBSET Nat, IsFiniteSet(S), S # {}
  PROVE  Verdict!Max(S) \in S /\ \A y \in S : y <= Verdict!Max(S)
<1>1. PICK x \in S : \A y \in S : x >= y
  <2>1. PICK x \in S : \A y \in S : y <= x
    BY GreatestNat
  <2>. QED  BY <2>1
<1>. QED  BY <1>1 DEF Verdict!Max

\* An element of a set, as a fold picks one.
Any(s) == CHOOSE x \in s : TRUE

\* The sums of f over the subsets of S.
Sums(g, f, S) ==
  /\ g \in [SUBSET S -> Nat]
  /\ \A s \in SUBSET S : g[s] = IF s = {} THEN 0 ELSE f[Any(s)] + g[s \ {Any(s)}]

\* There are sums.
LEMMA SumsExist ==
  ASSUME NEW S, IsFiniteSet(S), NEW f \in [S -> Nat]
  PROVE  \E g : Sums(g, f, S)
<1>. DEFINE Step(g) == [s \in SUBSET S |-> IF s = {} THEN 0 ELSE f[Any(s)] + g[s \ {Any(s)}]]
            Upto(n, g) == \A s \in SUBSET S : Cardinality(s) <= n => g[s] = Step(g)[s]
            Bad == {n \in Nat : ~\E g \in [SUBSET S -> Nat] : Upto(n, g)}
<1>1. \A s \in SUBSET S : IsFiniteSet(s) /\ Cardinality(s) \in Nat /\ Cardinality(s) <= Cardinality(S)
  BY FS_Subset, FS_CardinalityType
<1>2. \A s \in SUBSET S : s # {} => Any(s) \in s
  BY DEF Any
<1>3. \A g \in [SUBSET S -> Nat] : Step(g) \in [SUBSET S -> Nat]
  <2>. SUFFICES ASSUME NEW g \in [SUBSET S -> Nat], NEW s \in SUBSET S, s # {} PROVE f[Any(s)] + g[s \ {Any(s)}] \in Nat
    OBVIOUS
  <2>1. f[Any(s)] \in Nat /\ g[s \ {Any(s)}] \in Nat
    BY <1>2
  <2>. QED  BY <2>1
<1>4. Bad = {}
  <2>. SUFFICES ASSUME Bad # {} PROVE FALSE
    OBVIOUS
  <2>1. PICK n \in Bad : \A j \in Bad : n <= j
    <3>1. Bad \in SUBSET Nat
      OBVIOUS
    <3>. HIDE DEF Bad
    <3>. QED  BY <3>1, LeastNat
  <2>n. n \in Nat
    BY <2>1
  <2>2. PICK g \in [SUBSET S -> Nat] : \A s \in SUBSET S : Cardinality(s) < n => g[s] = Step(g)[s]
    <3>1. CASE n = 0
      <4>1. [s \in SUBSET S |-> 0] \in [SUBSET S -> Nat]
        OBVIOUS
      <4>. DEFINE zero == [s \in SUBSET S |-> 0]
      <4>2. \A s \in SUBSET S : ~(Cardinality(s) < n)
        BY <1>1, <3>1
      <4>. HIDE DEF zero, Step, Bad
      <4>. QED  BY <4>1, <4>2 DEF zero
    <3>2. CASE n # 0
      <4>1. n - 1 \in Nat /\ n - 1 \notin Bad
        <5>. HIDE DEF Bad
        <5>1. n - 1 \in Nat /\ ~(n <= n - 1)
          BY <2>n, <3>2
        <5>. QED  BY <2>1, <5>1
      <4>2. PICK g \in [SUBSET S -> Nat] : Upto(n - 1, g)
        BY <4>1
      <4>. HIDE DEF Step, Bad
      <4>3. \A s \in SUBSET S : Cardinality(s) < n => Cardinality(s) <= n - 1
        BY <1>1, <2>n
      <4>4. \A s \in SUBSET S : Cardinality(s) < n => g[s] = Step(g)[s]
        BY <4>2, <4>3
      <4>. QED  BY <4>2, <4>4, Zenon
    <3>. QED  BY <3>1, <3>2
  <2>3. Upto(n, Step(g))
    <3>. SUFFICES ASSUME NEW s \in SUBSET S, Cardinality(s) <= n PROVE Step(g)[s] = Step(Step(g))[s]
      BY Zenon
    <3>1. CASE s = {}
      BY <3>1
    <3>2. CASE s # {}
      <4>. DEFINE t == s \ {Any(s)}
      <4>1. t \in SUBSET S /\ Cardinality(t) < n
        <5>. HIDE DEF Bad
        <5>1. Cardinality(t) = Cardinality(s) - 1
          BY <1>1, <1>2, <3>2, FS_RemoveElement
        <5>. QED  BY <1>1, <2>n, <5>1
      <4>2. g[t] = Step(g)[t]
        BY <2>2, <4>1
      <4>3. Step(g)[s] = f[Any(s)] + g[t]
        BY <3>2
      <4>4. Step(Step(g))[s] = f[Any(s)] + Step(g)[t]
        <5>. HIDE DEF t
        <5>. DEFINE h == Step(g)
        <5>. HIDE DEF h
        <5>1. Step(h)[s] = f[Any(s)] + h[t]
          BY <3>2 DEF t
        <5>. QED  BY <5>1 DEF h
      <4>. QED  BY <4>2, <4>3, <4>4
    <3>. QED  BY <3>1, <3>2
  <2>. QED  BY <1>3, <2>1, <2>3
<1>5. Cardinality(S) \in Nat
  BY FS_CardinalityType
<1>6. PICK g \in [SUBSET S -> Nat] : Upto(Cardinality(S), g)
  BY <1>4, <1>5
<1>7. \A s \in SUBSET S : g[s] = IF s = {} THEN 0 ELSE f[Any(s)] + g[s \ {Any(s)}]
  BY <1>1, <1>6
<1>. QED  BY <1>7 DEF Sums

\* A function that is the sums' recursion is the sums.
LEMMA SumsUnique ==
  ASSUME NEW S, IsFiniteSet(S), NEW f, NEW g, Sums(g, f, S), NEW h,
         \A s \in SUBSET S : h[s] = IF s = {} THEN 0 ELSE f[Any(s)] + h[s \ {Any(s)}]
  PROVE  h[S] = g[S]
<1>. DEFINE Bad == {s \in SUBSET S : h[s] # g[s]}
<1>1. SUFFICES ASSUME Bad # {} PROVE FALSE
  OBVIOUS
<1>2. PICK s \in Bad : \A x \in s : s \ {x} \notin Bad
  <2>1. Bad \in SUBSET (SUBSET S)
    OBVIOUS
  <2>. HIDE DEF Bad
  <2>. QED  BY <1>1, <2>1, SmallestSet
<1>3. g[s] = IF s = {} THEN 0 ELSE f[Any(s)] + g[s \ {Any(s)}]
  BY <1>2 DEF Sums
<1>4. s # {} => Any(s) \in s
  BY DEF Any
<1>. QED  BY <1>2, <1>3, <1>4

\* Greater summands have a greater sum.
LEMMA SumsMonotone ==
  ASSUME NEW S, IsFiniteSet(S), NEW f \in [S -> Nat], NEW e \in [S -> Nat], \A x \in S : f[x] <= e[x],
         NEW g, Sums(g, f, S), NEW h, Sums(h, e, S)
  PROVE  g[S] <= h[S]
<1>. DEFINE Bad == {s \in SUBSET S : ~(g[s] <= h[s])}
<1>1. SUFFICES ASSUME Bad # {} PROVE FALSE
  OBVIOUS
<1>2. PICK s \in Bad : \A x \in s : s \ {x} \notin Bad
  <2>1. Bad \in SUBSET (SUBSET S)
    OBVIOUS
  <2>. HIDE DEF Bad
  <2>. QED  BY <1>1, <2>1, SmallestSet
<1>3. /\ g[s] = IF s = {} THEN 0 ELSE f[Any(s)] + g[s \ {Any(s)}]
      /\ h[s] = IF s = {} THEN 0 ELSE e[Any(s)] + h[s \ {Any(s)}]
  BY <1>2 DEF Sums
<1>4. s # {}
  BY <1>2, <1>3
<1>5. Any(s) \in s
  BY <1>4 DEF Any
<1>6. g[s \ {Any(s)}] <= h[s \ {Any(s)}]
  BY <1>2, <1>5
<1>7. f[Any(s)] <= e[Any(s)] /\ f[Any(s)] \in Nat /\ e[Any(s)] \in Nat
  BY <1>2, <1>5
<1>8. g[s \ {Any(s)}] \in Nat /\ h[s \ {Any(s)}] \in Nat
  BY <1>2 DEF Sums
<1>. QED  BY <1>2, <1>3, <1>4, <1>6, <1>7, <1>8

---------------------------------------------------------------------------
(* The verdict of a claim.                                                  *)

\* What a claim counts.
Claims == [hits : [Vector -> 0..MaxHits], words : Lengths, fallacies : 0..MaxHits, sure : 0..MaxHits]

\* Its intensities, vector by vector.
Intensities(c) == [v \in Vector |-> Verdict!intensity(c.hits[v], c.words)]

\* The risk of a greatest intensity, a sum of them, fallacies and markers of certainty.
RiskOf(m, s, f, e) ==
  Verdict!Least(100, Verdict!Rounded(IF m >= 50 THEN 510 * m + 35 * s + 210 * f + 120 * e
                                     ELSE 270 * m + 25 * s + 150 * f + 90 * e, 600))

\* Quotients grow with what is divided.
LEMMA QuotientGrows ==
  ASSUME NEW a \in Nat, NEW b \in Nat, NEW d \in Nat \ {0}, a <= b
  PROVE  a \div d \in Nat /\ a \div d <= b \div d
OBVIOUS

\* A quotient is at least what the divisor goes into.
LEMMA QuotientAtLeast ==
  ASSUME NEW a \in Nat, NEW q \in Nat, NEW d \in Nat \ {0}, d * q <= a
  PROVE  q <= a \div d
OBVIOUS

\* The intensity of a vector is a percentage, and one hit is worth more than half.
LEMMA IntensityBounds ==
  ASSUME NEW h \in Nat, NEW w \in Nat \ {0}
  PROVE  /\ Verdict!intensity(h, w) \in 0..100
         /\ h > 0 => Verdict!intensity(h, w) >= 55
<1>. DEFINE a == 2 * (h * 55 * w + h * 120) + w
            q == a \div (2 * w)
<1>1. h * w \in Nat /\ h * 55 * w = 55 * (h * w)
  OBVIOUS
<1>2. a \in Nat /\ 2 * w \in Nat \ {0}
  BY <1>1
<1>3. q \in Nat
  <2>. HIDE DEF a
  <2>. QED  BY <1>2
<1>4. Verdict!intensity(h, w) = IF 100 < q THEN 100 ELSE q
  BY <1>3 DEF Verdict!intensity, Verdict!Least, Verdict!Rounded
<1>5. h > 0 => q >= 55
  <2>. SUFFICES ASSUME h > 0 PROVE q >= 55
    OBVIOUS
  <2>1. w <= h * w
    OBVIOUS
  <2>2. (2 * w) * 55 <= a
    BY <1>1, <2>1
  <2>. HIDE DEF a
  <2>. QED  BY <1>2, <2>2, QuotientAtLeast
<1>6. PICK p \in Nat : p = q
  BY <1>3
<1>. HIDE DEF q
<1>7. Verdict!intensity(h, w) = IF 100 < p THEN 100 ELSE p
  BY <1>4, <1>6
<1>8. h > 0 => p >= 55
  BY <1>5, <1>6
<1>9. CASE 100 < p
  BY <1>7, <1>9
<1>10. CASE ~(100 < p)
  BY <1>6, <1>7, <1>8, <1>10
<1>. QED  BY <1>9, <1>10

\* More hits are more intense.
LEMMA IntensityGrows ==
  ASSUME NEW h \in Nat, NEW k \in Nat, h <= k, NEW w \in Nat \ {0}
  PROVE  Verdict!intensity(h, w) <= Verdict!intensity(k, w)
<1>. DEFINE a == 2 * (h * 55 * w + h * 120) + w
            b == 2 * (k * 55 * w + k * 120) + w
<1>1. h * w \in Nat /\ h * 55 * w = 55 * (h * w) /\ k * w \in Nat /\ k * 55 * w = 55 * (k * w) /\ h * w <= k * w
  OBVIOUS
<1>2. a \in Nat /\ b \in Nat /\ a <= b /\ 2 * w \in Nat \ {0}
  BY <1>1
<1>3. a \div (2 * w) <= b \div (2 * w) /\ a \div (2 * w) \in Nat /\ b \div (2 * w) \in Nat
  <2>. HIDE DEF a, b
  <2>. QED  BY <1>2, QuotientGrows
<1>4. /\ Verdict!intensity(h, w) = Verdict!Least(100, a \div (2 * w))
      /\ Verdict!intensity(k, w) = Verdict!Least(100, b \div (2 * w))
  BY DEF Verdict!intensity, Verdict!Rounded
<1>. HIDE DEF a, b
<1>. QED  BY <1>3, <1>4 DEF Verdict!Least

\* The intensities of a claim are percentages.
LEMMA ClaimIntensities ==
  ASSUME NEW c \in Claims
  PROVE  /\ Intensities(c) \in [Vector -> 0..100]
         /\ \A v \in Vector : c.hits[v] \in Nat /\ c.words \in Nat \ {0}
<1>0. c.hits \in [Vector -> 0..MaxHits] /\ c.words \in Nat \ {0} /\ MaxHits \in Nat
  BY VerdictAssumption DEF Claims
<1>1. \A v \in Vector : c.hits[v] \in Nat /\ c.words \in Nat \ {0}
  <2>. SUFFICES ASSUME NEW v \in Vector PROVE c.hits[v] \in Nat
    BY <1>0
  <2>1. PICK n \in 0..MaxHits : n = c.hits[v]
    BY <1>0
  <2>2. n \in Nat
    BY <1>0
  <2>. QED  BY <2>1, <2>2
<1>2. \A v \in Vector : Verdict!intensity(c.hits[v], c.words) \in 0..100
  BY <1>1, IntensityBounds
<1>. QED  BY <1>1, <1>2 DEF Intensities

\* The greatest intensity is one of them and as great as any.
LEMMA GreatestIntensity ==
  ASSUME NEW c \in Claims
  PROVE  /\ Verdict!maxEmotion(c) \in 0..100
         /\ \E v \in Vector : Verdict!maxEmotion(c) = Intensities(c)[v]
         /\ \A v \in Vector : Intensities(c)[v] <= Verdict!maxEmotion(c)
<1>. DEFINE all == {Verdict!intensity(c.hits[v], c.words) : v \in Vector}
<1>1. all = {Intensities(c)[v] : v \in Vector} /\ all \subseteq 0..100 /\ all \in SUBSET Nat /\ all # {}
  BY ClaimIntensities, VerdictAssumption DEF Intensities
<1>2. Intensities(c) \in [Vector -> all] /\ \A y \in all : \E v \in Vector : Intensities(c)[v] = y
  BY DEF Intensities
<1>3. IsFiniteSet(all)
  <2>. HIDE DEF all
  <2>1. Intensities(c) \in Surjection(Vector, all)
    BY <1>2 DEF Surjection
  <2>. QED  BY <2>1, FS_Surjection, VerdictAssumption
<1>4. Verdict!maxEmotion(c) = Verdict!Max(all)
  BY DEF Verdict!maxEmotion
<1>5. Verdict!Max(all) \in all /\ \A y \in all : y <= Verdict!Max(all)
  <2>. HIDE DEF all
  <2>. QED  BY <1>1, <1>3, MaxNat
<1>. QED  BY <1>1, <1>4, <1>5

\* The sum of the intensities is a sum.
LEMMA SumOfIntensities ==
  ASSUME NEW c \in Claims, NEW g, Sums(g, Intensities(c), Vector)
  PROVE  Verdict!sumEmotion(c) = g[Vector] /\ g[Vector] \in Nat
<1>. DEFINE Step(h) == [s \in SUBSET Vector |->
                          IF s = {} THEN 0
                          ELSE Verdict!intensity(c.hits[Any(s)], c.words) + h[s \ {Any(s)}]]
            sum == CHOOSE h : h = Step(h)
<1>1. Verdict!sumEmotion(c) = sum[Vector]
  BY DEF Verdict!sumEmotion, Verdict!MapThenSumSet, Verdict!MapThenFoldSet, Any
<1>2. \A s \in SUBSET Vector : s # {} => Any(s) \in Vector
  BY DEF Any
<1>3. \A s \in SUBSET Vector : g[s] = IF s = {} THEN 0
                                      ELSE Verdict!intensity(c.hits[Any(s)], c.words) + g[s \ {Any(s)}]
  BY <1>2 DEF Sums, Intensities
<1>4. g = Step(g)
  BY <1>3 DEF Sums
<1>5. sum = Step(sum)
  <2>. HIDE DEF Step
  <2>. QED  BY <1>4
<1>6. \A s \in SUBSET Vector : sum[s] = Step(sum)[s]
  BY <1>5, Zenon
<1>7. \A s \in SUBSET Vector : sum[s] = IF s = {} THEN 0 ELSE Intensities(c)[Any(s)] + sum[s \ {Any(s)}]
  <2>. HIDE DEF sum
  <2>. QED  BY <1>2, <1>6 DEF Intensities
<1>. HIDE DEF sum
<1>8. sum[Vector] = g[Vector]
  BY <1>7, VerdictAssumption, SumsUnique
<1>9. g[Vector] \in Nat
  BY DEF Sums
<1>. QED  BY <1>1, <1>8, <1>9

\* There are sums of a claim's intensities.
LEMMA ClaimSums ==
  ASSUME NEW c \in Claims
  PROVE  /\ \E g : Sums(g, Intensities(c), Vector)
         /\ Verdict!sumEmotion(c) \in Nat
<1>1. Intensities(c) \in [Vector -> Nat]
  BY ClaimIntensities
<1>2. PICK g : Sums(g, Intensities(c), Vector)
  BY <1>1, VerdictAssumption, SumsExist
<1>. QED  BY <1>2, SumOfIntensities

\* The risk of a claim is that of its greatest intensity, its sum, its fallacies and markers.
LEMMA RiskIs ==
  ASSUME NEW c \in Claims
  PROVE  /\ Verdict!manipulationRisk(c) = RiskOf(Verdict!maxEmotion(c), Verdict!sumEmotion(c),
                                                  Verdict!fallacyScore(c), Verdict!certaintyInflation(c))
         /\ Verdict!fallacyScore(c) \in 0..100 /\ Verdict!certaintyInflation(c) \in 0..100
<1>1. Verdict!maxEmotion(c) \in Nat /\ Verdict!sumEmotion(c) \in Nat
  BY GreatestIntensity, ClaimSums
<1>2. Verdict!fallacyScore(c) \in 0..100 /\ Verdict!certaintyInflation(c) \in 0..100
  BY VerdictAssumption DEF Claims, Verdict!fallacyScore, Verdict!certaintyInflation, Verdict!Least
<1>3. \A w1, w2, w3, w4 \in Nat :
        Verdict!Weighted(c, <<w1, w2, w3, w4>>)
          = Verdict!Least(100, Verdict!Rounded(6 * w1 * Verdict!maxEmotion(c) + w2 * Verdict!sumEmotion(c)
                     + 6 * w3 * Verdict!fallacyScore(c) + 6 * w4 * Verdict!certaintyInflation(c), 600))
  BY DEF Verdict!Weighted
<1>4. /\ Verdict!Weighted(c, <<85, 35, 35, 20>>)
           = Verdict!Least(100, Verdict!Rounded(6 * 85 * Verdict!maxEmotion(c) + 35 * Verdict!sumEmotion(c)
                     + 6 * 35 * Verdict!fallacyScore(c) + 6 * 20 * Verdict!certaintyInflation(c), 600))
      /\ Verdict!Weighted(c, <<45, 25, 25, 15>>)
           = Verdict!Least(100, Verdict!Rounded(6 * 45 * Verdict!maxEmotion(c) + 25 * Verdict!sumEmotion(c)
                     + 6 * 25 * Verdict!fallacyScore(c) + 6 * 15 * Verdict!certaintyInflation(c), 600))
  BY <1>3
<1>. QED  BY <1>1, <1>2, <1>4 DEF Verdict!manipulationRisk, RiskOf, Verdict!Rounded, Verdict!Least

\* The risk grows with what it is of, across the switch of the weights.
LEMMA RiskGrows ==
  ASSUME NEW m \in Nat, NEW s \in Nat, NEW f \in Nat, NEW e \in Nat,
         NEW m2 \in Nat, NEW s2 \in Nat, NEW f2 \in Nat, NEW e2 \in Nat,
         m <= m2, s <= s2, f <= f2, e <= e2
  PROVE  RiskOf(m, s, f, e) <= RiskOf(m2, s2, f2, e2)
BY DEF RiskOf, Verdict!Least, Verdict!Rounded

\* Half an intensity is worth a caution.
LEMMA HitIsCaution ==
  ASSUME NEW m \in Nat, NEW s \in Nat, NEW f \in Nat, NEW e \in Nat, m >= 55
  PROVE  RiskOf(m, s, f, e) >= 40
BY DEF RiskOf, Verdict!Least, Verdict!Rounded

\* A claim with more of a marker has no lower risk.
LEMMA MarkedRisk ==
  ASSUME NEW c \in Claims, NEW d \in Claims, d.words = c.words,
         \A v \in Vector : c.hits[v] <= d.hits[v], c.fallacies <= d.fallacies, c.sure <= d.sure
  PROVE  Verdict!manipulationRisk(c) <= Verdict!manipulationRisk(d)
<1>1. /\ Intensities(c) \in [Vector -> Nat] /\ Intensities(d) \in [Vector -> Nat]
      /\ \A v \in Vector : c.hits[v] \in Nat /\ d.hits[v] \in Nat /\ c.words \in Nat \ {0}
  BY ClaimIntensities
<1>2. \A v \in Vector : Intensities(c)[v] <= Intensities(d)[v]
  BY <1>1, IntensityGrows DEF Intensities
<1>3. PICK g, h : Sums(g, Intensities(c), Vector) /\ Sums(h, Intensities(d), Vector)
  BY ClaimSums
<1>4. Verdict!sumEmotion(c) <= Verdict!sumEmotion(d)
  BY <1>1, <1>2, <1>3, SumOfIntensities, SumsMonotone, VerdictAssumption
<1>5. Verdict!maxEmotion(c) <= Verdict!maxEmotion(d)
  <2>1. PICK v \in Vector : Verdict!maxEmotion(c) = Intensities(c)[v]
    BY GreatestIntensity
  <2>2. Intensities(c)[v] <= Intensities(d)[v] /\ Intensities(d)[v] <= Verdict!maxEmotion(d)
    BY <1>2, GreatestIntensity
  <2>3. Intensities(c)[v] \in Nat /\ Intensities(d)[v] \in Nat /\ Verdict!maxEmotion(d) \in Nat
    BY <1>1, GreatestIntensity
  <2>. QED  BY <2>1, <2>2, <2>3
<1>6. /\ Verdict!fallacyScore(c) <= Verdict!fallacyScore(d)
      /\ Verdict!certaintyInflation(c) <= Verdict!certaintyInflation(d)
  BY VerdictAssumption DEF Claims, Verdict!fallacyScore, Verdict!certaintyInflation, Verdict!Least
<1>7. /\ {Verdict!maxEmotion(c), Verdict!sumEmotion(c), Verdict!fallacyScore(c), Verdict!certaintyInflation(c),
           Verdict!maxEmotion(d), Verdict!sumEmotion(d), Verdict!fallacyScore(d), Verdict!certaintyInflation(d)}
            \subseteq Nat
  BY GreatestIntensity, ClaimSums, RiskIs
<1>8. RiskOf(Verdict!maxEmotion(c), Verdict!sumEmotion(c), Verdict!fallacyScore(c), Verdict!certaintyInflation(c))
        <= RiskOf(Verdict!maxEmotion(d), Verdict!sumEmotion(d), Verdict!fallacyScore(d), Verdict!certaintyInflation(d))
  BY <1>4, <1>5, <1>6, <1>7, RiskGrows
<1>. QED  BY <1>8, RiskIs

\* A claim with one hit is worth a caution, however long it is.
LEMMA HitClaim ==
  ASSUME NEW c \in Claims, \E v \in Vector : c.hits[v] > 0
  PROVE  Verdict!manipulationRisk(c) >= 40
<1>1. PICK v \in Vector : c.hits[v] > 0
  OBVIOUS
<1>2. Intensities(c)[v] >= 55 /\ Intensities(c)[v] \in Nat
  <2>1. c.hits[v] \in Nat /\ c.words \in Nat \ {0}
    BY ClaimIntensities
  <2>2. Verdict!intensity(c.hits[v], c.words) \in 0..100 /\ Verdict!intensity(c.hits[v], c.words) >= 55
    BY <1>1, <2>1, IntensityBounds
  <2>3. Intensities(c)[v] = Verdict!intensity(c.hits[v], c.words)
    BY DEF Intensities
  <2>. QED  BY <2>2, <2>3
<1>3. Verdict!maxEmotion(c) \in Nat /\ Verdict!maxEmotion(c) >= 55
  BY <1>2, GreatestIntensity
<1>4. {Verdict!sumEmotion(c), Verdict!fallacyScore(c), Verdict!certaintyInflation(c)} \subseteq Nat
  BY ClaimSums, RiskIs
<1>5. RiskOf(Verdict!maxEmotion(c), Verdict!sumEmotion(c), Verdict!fallacyScore(c), Verdict!certaintyInflation(c)) >= 40
  BY <1>3, <1>4, HitIsCaution
<1>. QED  BY <1>5, RiskIs

\* The audit is at one of its waits.
Auditing(a) ==
  /\ a = [pc |-> a.pc, claim |-> a.claim, failed |-> a.failed]
  /\ a.pc \in {"idle", "analyze", "checks"}

\* The panels are of one claim except between a verdict and the audit's end.
OneClaim ==
  /\ audit.pc = "checks" => checks.claim = audit.claim /\ panel.claim = audit.claim
  /\ audit.pc = "idle" /\ ~audit.failed => checks.claim = panel.claim /\ checks.status # "pending"

\* A verdict that is not the model's is the heuristics' of its claim.
Reasoned ==
  panel.result # Verdict!NoResult =>
    (panel.result.live \/ panel.result = Verdict!runOfflineHeuristics(panel.claim))

VerdictInv ==
  text \in Claims /\ Auditing(audit) /\ OneClaim /\ Reasoned /\ Verdict!GateStaysHere

\* The dashboard begins without a verdict.
LEMMA VerdictBegins ==
  ASSUME PageInit
  PROVE  VerdictInv
<1>1. Verdict!Init
  BY DEF PageInit
<1>2. Verdict!Blank \in Claims
  <2>1. Verdict!Max(Lengths) \in Lengths
    BY VerdictAssumption, MaxNat
  <2>. QED  BY <2>1, VerdictAssumption DEF Claims, Verdict!Blank
<1>. QED  BY <1>1, <1>2 DEF Verdict!Init, VerdictInv, Auditing, OneClaim, Reasoned, Verdict!GateStaysHere, Verdict!Unasked

\* What a mark makes of a claim.
LEMMA MarkedClaim ==
  ASSUME VerdictInv, Verdict!Marks
  PROVE  /\ text' \in Claims /\ text'.words = text.words
         /\ \A v \in Vector : text.hits[v] <= text'.hits[v]
         /\ text.fallacies <= text'.fallacies /\ text.sure <= text'.sure
<1>1. text \in Claims /\ MaxHits \in Nat
  BY VerdictAssumption DEF VerdictInv
<1>2. ASSUME NEW v \in Vector, Verdict!AddHit(v)
      PROVE  /\ text' = [text EXCEPT !.hits = [text.hits EXCEPT ![v] = @ + 1]]
             /\ [text.hits EXCEPT ![v] = @ + 1] \in [Vector -> 0..MaxHits]
             /\ \A u \in Vector : text.hits[u] <= [text.hits EXCEPT ![v] = @ + 1][u]
  BY <1>1, <1>2 DEF Verdict!AddHit, Claims
<1>3. ASSUME NEW v \in Vector, Verdict!AddHit(v)
      PROVE  /\ text' \in Claims /\ text'.words = text.words
             /\ \A u \in Vector : text.hits[u] <= text'.hits[u]
             /\ text.fallacies <= text'.fallacies /\ text.sure <= text'.sure
  BY <1>1, <1>2, <1>3 DEF Claims
<1>4. CASE Verdict!AddFallacy
  BY <1>1, <1>4 DEF Verdict!AddFallacy, Claims
<1>5. CASE Verdict!AddCertainty
  BY <1>1, <1>5 DEF Verdict!AddCertainty, Claims
<1>. QED  BY <1>3, <1>4, <1>5 DEF Verdict!Marks

\* Every step keeps what is known of the panels.
LEMMA VerdictSteps ==
  ASSUME VerdictInv, [Verdict!Next]_(Verdict!vars)
  PROVE  VerdictInv'
<1>0. text \in Claims /\ Auditing(audit) /\ OneClaim /\ Reasoned /\ Verdict!GateStaysHere
  BY DEF VerdictInv
<1>1. CASE Verdict!Gate
  <2>1. asked' = asked
    BY <1>1 DEF Verdict!Gate, Verdict!AsksModel
  <2>. QED  BY <1>0, <1>1, <2>1 DEF Verdict!Gate, VerdictInv, OneClaim, Reasoned, Verdict!GateStaysHere
<1>2. CASE Verdict!Type
  <2>1. text' \in Claims
    <3>1. Verdict!Resize => text' \in Claims
      BY <1>0 DEF Verdict!Resize, Claims
    <3>. QED  BY <1>2, <3>1, MarkedClaim DEF Verdict!Type
  <2>. QED  BY <1>0, <1>2, <2>1 DEF Verdict!Type, VerdictInv, OneClaim, Reasoned, Verdict!GateStaysHere
<1>3. CASE Verdict!Execute
  <2>1. audit'.pc = "analyze" /\ Auditing(audit') /\ UNCHANGED <<text, panel, checks>>
    BY <1>3 DEF Verdict!Execute, Auditing
  <2>2. Verdict!GateStaysHere'
    BY <1>0, <1>3 DEF Verdict!Execute, Verdict!GateStaysHere, Verdict!AsksModel, Verdict!Mode
  <2>. QED  BY <1>0, <2>1, <2>2 DEF VerdictInv, OneClaim, Reasoned, Auditing
<1>4. CASE Verdict!Analyzed
  <2>1. PICK result : Verdict!Render(result) /\ (result.live \/ result = Verdict!runOfflineHeuristics(audit.claim))
    BY <1>4 DEF Verdict!Analyzed, Verdict!Fallback, Verdict!ModelAnswers
  <2>2. panel'.claim = audit.claim /\ panel'.result = result /\ text' = text
    BY <1>4, <2>1 DEF Verdict!Render, Verdict!Analyzed
  <2>3. Reasoned'
    BY <2>1, <2>2 DEF Reasoned
  <2>4. Verdict!GateStaysHere'
    BY <1>0, <1>4, <2>1 DEF Verdict!Analyzed, Verdict!Render, Verdict!GateStaysHere
  <2>5. CASE result.named
    <3>1. checks'.claim = audit.claim /\ audit' = [audit EXCEPT !.pc = "checks"]
      BY <2>1, <2>5 DEF Verdict!Render
    <3>2. audit'.pc = "checks" /\ audit'.claim = audit.claim /\ Auditing(audit)'
      BY <1>0, <3>1 DEF Auditing
    <3>. QED  BY <1>0, <2>2, <2>3, <2>4, <3>1, <3>2 DEF VerdictInv, OneClaim
  <2>6. CASE ~result.named
    <3>. DEFINE yes == TRUE
    <3>1. audit' = [audit EXCEPT !.pc = "idle", !.failed = yes]
      BY <2>1, <2>6 DEF Verdict!Render
    <3>2. yes
      OBVIOUS
    <3>. HIDE DEF yes
    <3>3. audit'.pc = "idle" /\ audit'.failed = yes /\ Auditing(audit)'
      BY <1>0, <3>1 DEF Auditing
    <3>. QED  BY <1>0, <2>2, <2>3, <2>4, <3>2, <3>3 DEF VerdictInv, OneClaim
  <2>. QED  BY <2>5, <2>6
<1>5. CASE Verdict!Checked
  <2>. DEFINE yes == TRUE
  <2>0. yes
    OBVIOUS
  <2>1. audit.pc = "checks" /\ UNCHANGED <<text, setting, panel, asked>>
    BY <1>5 DEF Verdict!Checked
  <2>2. \/ /\ checks'.claim = audit.claim /\ checks'.status # "pending"
           /\ audit' = [audit EXCEPT !.pc = "idle"]
        \/ audit' = [audit EXCEPT !.pc = "idle", !.failed = yes]
    BY <1>5 DEF Verdict!Checked, Verdict!Searched
  <2>. HIDE DEF yes
  <2>3. Auditing(audit)' /\ audit'.pc = "idle"
    BY <1>0, <2>2 DEF Auditing
  <2>4. audit'.failed = yes \/ (checks'.claim = audit.claim /\ checks'.status # "pending")
    BY <1>0, <2>2 DEF Auditing
  <2>. QED  BY <1>0, <2>0, <2>1, <2>3, <2>4 DEF VerdictInv, OneClaim, Reasoned, Verdict!GateStaysHere
<1>6. CASE UNCHANGED Verdict!vars
  BY <1>0, <1>6 DEF Verdict!vars, VerdictInv, OneClaim, Reasoned, Verdict!GateStaysHere, Auditing
<1>. QED  BY <1>1, <1>2, <1>3, <1>4, <1>5, <1>6 DEF Verdict!Next

\* Every step of a page keeps what is known of the panels.
LEMMA VerdictInductive == VerdictInv /\ [PageNext]_pageVars => VerdictInv'
BY VerdictSteps, PageSteps

\* However a claim is padded, one emotional marker is worth a caution; the gate sends no claim away,
\* nor does an audit ask the model when that is forced off;
\* and without a live answer the panel says what the heuristics say of its claim, with the
\* fact-checks of the same claim once an audit ended well: for any vectors, lengths and counts.
THEOREM VerdictsHoldAlways == PageSpec => []VerdictsHold
<1>1. VerdictInv => VerdictsHold
  <2>. SUFFICES ASSUME VerdictInv PROVE Verdict!PaddingNeverClears /\ Verdict!GateStaysHere /\ Verdict!PanelsTellTheClaim
    BY DEF VerdictsHold
  <2>1. Verdict!PanelsTellTheClaim /\ Verdict!GateStaysHere
    BY DEF VerdictInv, OneClaim, Reasoned, Verdict!PanelsTellTheClaim
  <2>2. ASSUME \E v \in Vector : text.hits[v] > 0 PROVE Verdict!manipulationRisk(text) >= 40
    BY <2>2, HitClaim DEF VerdictInv
  <2>3. Verdict!manipulationRisk(text) >= 40 => Verdict!classify(Verdict!manipulationRisk(text)) >= Verdict!Caution
    BY DEF Verdict!classify, Verdict!Caution, Verdict!Share, Verdict!Block
  <2>. QED  BY <2>1, <2>2, <2>3 DEF Verdict!PaddingNeverClears
<1>. QED  BY VerdictBegins, VerdictInductive, <1>1, PTL DEF PageSpec

\* A marker that is added never lowers the risk.
THEOREM MarkersNeverHelpAlways == PageSpec => Verdict!MarkersNeverHelp
<1>1. VerdictInv /\ [PageNext]_pageVars =>
        [(audits = 0 /\ Verdict!Marks) =>
            Verdict!manipulationRisk(text') >= Verdict!manipulationRisk(text)]_(Verdict!vars)
  <2>. SUFFICES ASSUME VerdictInv, Verdict!Marks
                PROVE  Verdict!manipulationRisk(text') >= Verdict!manipulationRisk(text)
    OBVIOUS
  <2>1. text \in Claims
    BY DEF VerdictInv
  <2>2. Verdict!manipulationRisk(text) <= Verdict!manipulationRisk(text')
    BY <2>1, MarkedClaim, MarkedRisk
  <2>. QED  BY <2>2
<1>. QED  BY VerdictBegins, VerdictInductive, <1>1, PTL DEF PageSpec, Verdict!MarkersNeverHelp

\* The steps that may not happen do not: a bootstrap never fails without cause nor gives up the
\* identity, no id leaves the log before a reset nor does importing what is there change it, and no
\* marker lowers a risk.
THEOREM StepsHoldAlways == PageSpec => StepsHold
BY FailsForCauseAlways, KeepsIdentityAlways, AppendOnlyAlways, MarkersNeverHelpAlways DEF StepsHold

---------------------------------------------------------------------------
(* base64url: a word of one width is the sum of its bits, and a bit of the  *)
(* digits is that bit of the buffer.                                        *)

\* The bits of a byte make up the byte.
LEMMA BitsMakeByte ==
  \A x \in 0..255 :
       x = 128 * ((x \div 128) % 2) + 64 * ((x \div 64) % 2) + 32 * ((x \div 32) % 2) + 16 * ((x \div 16) % 2)
           + 8 * ((x \div 8) % 2) + 4 * ((x \div 4) % 2) + 2 * ((x \div 2) % 2) + (x % 2)
OBVIOUS

\* And six bits are those of what they make up.
LEMMA SextetBits ==
  ASSUME NEW a \in {0, 1}, NEW b \in {0, 1}, NEW c \in {0, 1}, NEW d \in {0, 1}, NEW e \in {0, 1}, NEW f \in {0, 1}
  PROVE  LET x == 32 * a + 16 * b + 8 * c + 4 * d + 2 * e + f
         IN /\ (x \div 32) % 2 = a /\ (x \div 16) % 2 = b /\ (x \div 8) % 2 = c
            /\ (x \div 4) % 2 = d /\ (x \div 2) % 2 = e /\ x % 2 = f
OBVIOUS

\* A digit of base64url, bit by bit.
Sextet(s, w) ==
  32 * Codec!Bit(s, 8, (w - 1) * 6) + 16 * Codec!Bit(s, 8, (w - 1) * 6 + 1) + 8 * Codec!Bit(s, 8, (w - 1) * 6 + 2)
  + 4 * Codec!Bit(s, 8, (w - 1) * 6 + 3) + 2 * Codec!Bit(s, 8, (w - 1) * 6 + 4) + Codec!Bit(s, 8, (w - 1) * 6 + 5)

\* A bit is nought or one.
LEMMA BitIs ==
  ASSUME NEW s \in Seq(Nat), NEW width \in {6, 8}, NEW i \in Nat
  PROVE  Codec!Bit(s, width, i) \in {0, 1}
<1>1. i \div width \in Nat /\ i % width \in 0..(width - 1)
  OBVIOUS
<1>2. Codec!Power[width - (i % width)] \in {1, 2, 4, 8, 16, 32, 64, 128}
  <2>1. \A k \in 1..8 : Codec!Power[k] \in {1, 2, 4, 8, 16, 32, 64, 128}
    BY DEF Codec!Power
  <2>2. width - (i % width) \in 1..8
    BY <1>1
  <2>. QED  BY <2>1, <2>2
<1>3. CASE (i \div width) + 1 > Len(s)
  BY <1>3 DEF Codec!Bit
<1>4. CASE ~((i \div width) + 1 > Len(s))
  <2>1. s[(i \div width) + 1] \in Nat
    BY <1>1, <1>4
  <2>2. PICK x \in Nat : x = s[(i \div width) + 1]
    BY <2>1
  <2>3. \A p \in {1, 2, 4, 8, 16, 32, 64, 128} : (x \div p) % 2 \in {0, 1}
    OBVIOUS
  <2>. QED  BY <1>2, <1>4, <2>2, <2>3 DEF Codec!Bit
<1>. QED  BY <1>3, <1>4

\* The digits of a buffer, and the bytes of the digits.
LEMMA DigitsAre ==
  ASSUME NEW s \in Seq(0..255)
  PROVE  LET E == Codec!base64UrlEncode(s)
             L == (8 * Len(s) + 5) \div 6
         IN /\ L \in Nat /\ E \in Seq(Nat) /\ Len(E) = L
            /\ \A w \in 1..L : E[w] = Sextet(s, w)
<1>. DEFINE E == Codec!base64UrlEncode(s)
           L == (8 * Len(s) + 5) \div 6
<1>1. L \in Nat /\ s \in Seq(Nat)
  <2>1. Len(s) \in Nat
    BY LenProperties
  <2>2. 0..255 \subseteq Nat
    OBVIOUS
  <2>3. s \in Seq(Nat)
    BY <2>2, SeqMonotonic
  <2>4. L \in Nat
    BY <2>1
  <2>. QED  BY <2>3, <2>4
<1>2. /\ Codec!Power[1] = 1 /\ Codec!Power[2] = 2 /\ Codec!Power[3] = 4 /\ Codec!Power[4] = 8
      /\ Codec!Power[5] = 16 /\ Codec!Power[6] = 32 /\ Codec!Power[7] = 64 /\ Codec!Power[8] = 128
  BY DEF Codec!Power
<1>. DEFINE worth(w, i) == IF i >= 6 THEN 0 ELSE Codec!Power[6 - i] * Codec!Bit(s, 8, (w - 1) * 6 + i)
<1>3. E = [w \in 1..L |-> worth(w, 0) + worth(w, 1) + worth(w, 2) + worth(w, 3)
                          + worth(w, 4) + worth(w, 5) + worth(w, 6) + worth(w, 7)]
  BY DEF Codec!base64UrlEncode, Codec!Regroup
<1>4. ASSUME NEW w \in 1..L
      PROVE  E[w] = Sextet(s, w) /\ E[w] \in Nat
  <2>1. \A i \in 0..5 : (w - 1) * 6 + i \in Nat
    BY <1>1
  <2>2. \A i \in 0..5 : Codec!Bit(s, 8, (w - 1) * 6 + i) \in {0, 1}
    BY <1>1, <2>1, BitIs
  <2>3. PICK a \in {0, 1}, b \in {0, 1}, c \in {0, 1}, d \in {0, 1}, e \in {0, 1}, f \in {0, 1} :
          /\ a = Codec!Bit(s, 8, (w - 1) * 6 + 0) /\ b = Codec!Bit(s, 8, (w - 1) * 6 + 1)
          /\ c = Codec!Bit(s, 8, (w - 1) * 6 + 2) /\ d = Codec!Bit(s, 8, (w - 1) * 6 + 3)
          /\ e = Codec!Bit(s, 8, (w - 1) * 6 + 4) /\ f = Codec!Bit(s, 8, (w - 1) * 6 + 5)
    BY <2>2
  <2>4. /\ worth(w, 0) = 32 * a /\ worth(w, 1) = 16 * b /\ worth(w, 2) = 8 * c /\ worth(w, 3) = 4 * d
        /\ worth(w, 4) = 2 * e /\ worth(w, 5) = f /\ worth(w, 6) = 0 /\ worth(w, 7) = 0
    <3>. HIDE DEF L
    <3>1. worth(w, 6) = 0 /\ worth(w, 7) = 0
      OBVIOUS
    <3>2. /\ worth(w, 0) = Codec!Power[6] * a /\ worth(w, 1) = Codec!Power[5] * b /\ worth(w, 2) = Codec!Power[4] * c
          /\ worth(w, 3) = Codec!Power[3] * d /\ worth(w, 4) = Codec!Power[2] * e /\ worth(w, 5) = Codec!Power[1] * f
      BY <2>3
    <3>. QED  BY <1>2, <3>1, <3>2
  <2>5. (w - 1) * 6 + 0 = (w - 1) * 6
    BY <1>1
  <2>6. Sextet(s, w) = 32 * a + 16 * b + 8 * c + 4 * d + 2 * e + f
    BY <2>3, <2>5 DEF Sextet
  <2>. HIDE DEF worth
  <2>7. E[w] = 32 * a + 16 * b + 8 * c + 4 * d + 2 * e + f
    <3>1. E[w] = worth(w, 0) + worth(w, 1) + worth(w, 2) + worth(w, 3) + worth(w, 4) + worth(w, 5) + worth(w, 6) + worth(w, 7)
      BY <1>3
    <3>2. E[w] = 32 * a + 16 * b + 8 * c + 4 * d + 2 * e + f + 0 + 0
      <4>. HIDE DEF E
      <4>. QED  BY <2>4, <3>1, Zenon
    <3>3. 32 * a + 16 * b + 8 * c + 4 * d + 2 * e + f + 0 + 0 = 32 * a + 16 * b + 8 * c + 4 * d + 2 * e + f
      OBVIOUS
    <3>. QED  BY <3>2, <3>3
  <2>. QED  BY <2>6, <2>7
<1>. HIDE DEF worth
<1>5. E \in [1..L -> Nat]
  <2>1. DOMAIN E = 1..L /\ E = [w \in 1..L |-> E[w]]
    BY <1>3
  <2>. HIDE DEF E
  <2>. QED  BY <1>4, <2>1
<1>6. E \in Seq(Nat) /\ Len(E) = L
  <2>. HIDE DEF E, L
  <2>. QED  BY <1>1, <1>5, SeqDef, LenProperties
<1>. QED  BY <1>1, <1>4, <1>6

\* A bit of the digits is that bit of the buffer.
LEMMA SameBits ==
  ASSUME NEW s \in Seq(0..255), NEW p \in 0..(8 * Len(s) - 1)
  PROVE  Codec!Bit(Codec!base64UrlEncode(s), 6, p) = Codec!Bit(s, 8, p)
<1>. DEFINE E == Codec!base64UrlEncode(s)
           L == (8 * Len(s) + 5) \div 6
           w == (p \div 6) + 1
<1>1. Len(s) \in Nat /\ p \in Nat
  BY LenProperties
<1>2. L \in Nat /\ Len(E) = L /\ \A v \in 1..L : E[v] = Sextet(s, v)
  BY DigitsAre
<1>3. w \in 1..L /\ w \in Nat
  BY <1>1
<1>4. s \in Seq(Nat)
  <2>1. 0..255 \subseteq Nat
    OBVIOUS
  <2>. QED  BY <2>1, SeqMonotonic
<1>5. PICK r \in 0..5 : r = p % 6 /\ p = (w - 1) * 6 + r
  BY <1>1
<1>6. \A i \in 0..5 : Codec!Bit(s, 8, (w - 1) * 6 + i) \in {0, 1}
  <2>1. \A i \in 0..5 : (w - 1) * 6 + i \in Nat
    BY <1>1
  <2>. QED  BY <1>4, <2>1, BitIs
<1>. HIDE DEF E, L
<1>7. PICK a \in {0, 1}, b \in {0, 1}, c \in {0, 1}, d \in {0, 1}, e \in {0, 1}, f \in {0, 1} :
        /\ a = Codec!Bit(s, 8, (w - 1) * 6 + 0) /\ b = Codec!Bit(s, 8, (w - 1) * 6 + 1)
        /\ c = Codec!Bit(s, 8, (w - 1) * 6 + 2) /\ d = Codec!Bit(s, 8, (w - 1) * 6 + 3)
        /\ e = Codec!Bit(s, 8, (w - 1) * 6 + 4) /\ f = Codec!Bit(s, 8, (w - 1) * 6 + 5)
  BY <1>6
<1>8. E[w] = 32 * a + 16 * b + 8 * c + 4 * d + 2 * e + f
  <2>1. E[w] = Sextet(s, w)
    BY <1>2, <1>3
  <2>2. (w - 1) * 6 + 0 = (w - 1) * 6
    BY <1>3
  <2>3. Sextet(s, w) = 32 * a + 16 * b + 8 * c + 4 * d + 2 * e + f
    BY <1>7, <2>2 DEF Sextet
  <2>. QED  BY <2>1, <2>3
<1>9. Codec!Bit(E, 6, p) = (E[w] \div Codec!Power[6 - r]) % 2
  <2>1. ~(w > Len(E))
    BY <1>2, <1>3
  <2>. QED  BY <1>5, <2>1 DEF Codec!Bit
<1>10. /\ Codec!Power[1] = 1 /\ Codec!Power[2] = 2 /\ Codec!Power[3] = 4 /\ Codec!Power[4] = 8
       /\ Codec!Power[5] = 16 /\ Codec!Power[6] = 32
  BY DEF Codec!Power
<1>. DEFINE x == 32 * a + 16 * b + 8 * c + 4 * d + 2 * e + f
<1>11. /\ (x \div 32) % 2 = a /\ (x \div 16) % 2 = b /\ (x \div 8) % 2 = c
       /\ (x \div 4) % 2 = d /\ (x \div 2) % 2 = e /\ x % 2 = f /\ x \in Nat
  <2>1. x \in Nat
    OBVIOUS
  <2>. QED  BY <2>1, SextetBits
<1>12. x \div 1 = x
  BY <1>11
<1>13. Codec!Bit(E, 6, p) = (x \div Codec!Power[6 - r]) % 2
  BY <1>8, <1>9
<1>. HIDE DEF x, w
<1>14. Codec!Bit(s, 8, p) = Codec!Bit(s, 8, (w - 1) * 6 + r)
  BY <1>5
<1>15. r = 0 \/ r = 1 \/ r = 2 \/ r = 3 \/ r = 4 \/ r = 5
  BY <1>5
<1>16. /\ 6 - 0 = 6 /\ 6 - 1 = 5 /\ 6 - 2 = 4 /\ 6 - 3 = 3 /\ 6 - 4 = 2 /\ 6 - 5 = 1
  OBVIOUS
<1>17. r = 0 => Codec!Bit(E, 6, p) = Codec!Bit(s, 8, p)
  <2>1. r = 0 => Codec!Bit(s, 8, p) = a
    BY <1>7, <1>14, Zenon
  <2>2. r = 0 => (x \div Codec!Power[6 - r]) % 2 = (x \div 32) % 2
    BY <1>10, <1>16, Zenon
  <2>. QED  BY <1>11, <1>13, <2>1, <2>2, Zenon DEF E
<1>18. r = 1 => Codec!Bit(E, 6, p) = Codec!Bit(s, 8, p)
  <2>1. r = 1 => Codec!Bit(s, 8, p) = b
    BY <1>7, <1>14, Zenon
  <2>2. r = 1 => (x \div Codec!Power[6 - r]) % 2 = (x \div 16) % 2
    BY <1>10, <1>16, Zenon
  <2>. QED  BY <1>11, <1>13, <2>1, <2>2, Zenon DEF E
<1>19. r = 2 => Codec!Bit(E, 6, p) = Codec!Bit(s, 8, p)
  <2>1. r = 2 => Codec!Bit(s, 8, p) = c
    BY <1>7, <1>14, Zenon
  <2>2. r = 2 => (x \div Codec!Power[6 - r]) % 2 = (x \div 8) % 2
    BY <1>10, <1>16, Zenon
  <2>. QED  BY <1>11, <1>13, <2>1, <2>2, Zenon DEF E
<1>20. r = 3 => Codec!Bit(E, 6, p) = Codec!Bit(s, 8, p)
  <2>1. r = 3 => Codec!Bit(s, 8, p) = d
    BY <1>7, <1>14, Zenon
  <2>2. r = 3 => (x \div Codec!Power[6 - r]) % 2 = (x \div 4) % 2
    BY <1>10, <1>16, Zenon
  <2>. QED  BY <1>11, <1>13, <2>1, <2>2, Zenon DEF E
<1>21. r = 4 => Codec!Bit(E, 6, p) = Codec!Bit(s, 8, p)
  <2>1. r = 4 => Codec!Bit(s, 8, p) = e
    BY <1>7, <1>14, Zenon
  <2>2. r = 4 => (x \div Codec!Power[6 - r]) % 2 = (x \div 2) % 2
    BY <1>10, <1>16, Zenon
  <2>. QED  BY <1>11, <1>13, <2>1, <2>2, Zenon DEF E
<1>22. r = 5 => Codec!Bit(E, 6, p) = Codec!Bit(s, 8, p)
  <2>1. r = 5 => Codec!Bit(s, 8, p) = f
    BY <1>7, <1>14, Zenon
  <2>2. r = 5 => (x \div Codec!Power[6 - r]) % 2 = (x \div 1) % 2
    BY <1>10, <1>16, Zenon
  <2>. QED  BY <1>11, <1>12, <1>13, <2>1, <2>2, Zenon DEF E
<1>. QED  BY <1>15, <1>17, <1>18, <1>19, <1>20, <1>21, <1>22 DEF E

\* Decoding what was encoded gives the buffer back, and it is never one digit alone.
LEMMA Base64Back ==
  ASSUME NEW s \in Seq(0..255)
  PROVE  LET E == Codec!base64UrlEncode(s)
         IN ~Codec!Undecodable(E) /\ Codec!base64UrlDecode(E) = s
<1>. DEFINE E == Codec!base64UrlEncode(s)
           L == (8 * Len(s) + 5) \div 6
           D == Codec!base64UrlDecode(E)
           n == (6 * Len(E)) \div 8
<1>1. Len(s) \in Nat /\ s \in [1..Len(s) -> 0..255]
  BY LenProperties
<1>2. L \in Nat /\ Len(E) = L
  BY DigitsAre
<1>3. n = Len(s)
  <2>1. \A m \in Nat : (6 * ((8 * m + 5) \div 6)) \div 8 = m
    OBVIOUS
  <2>2. n = (6 * L) \div 8
    BY <1>2
  <2>. QED  BY <1>1, <2>1, <2>2
<1>4. ~Codec!Undecodable(E)
  BY <1>1, <1>2 DEF Codec!Undecodable
<1>5. \A p \in 0..(8 * Len(s) - 1) : Codec!Bit(E, 6, p) = Codec!Bit(s, 8, p)
  BY SameBits
<1>6. /\ Codec!Power[1] = 1 /\ Codec!Power[2] = 2 /\ Codec!Power[3] = 4 /\ Codec!Power[4] = 8
      /\ Codec!Power[5] = 16 /\ Codec!Power[6] = 32 /\ Codec!Power[7] = 64 /\ Codec!Power[8] = 128
  BY DEF Codec!Power
<1>. DEFINE worth(w, i) == IF i >= 8 THEN 0 ELSE Codec!Power[8 - i] * Codec!Bit(E, 6, (w - 1) * 8 + i)
<1>. HIDE DEF E
<1>7. D = [w \in 1..n |-> worth(w, 0) + worth(w, 1) + worth(w, 2) + worth(w, 3)
                         + worth(w, 4) + worth(w, 5) + worth(w, 6) + worth(w, 7)]
  BY DEF Codec!base64UrlDecode, Codec!Regroup
<1>8. ASSUME NEW w \in 1..Len(s) PROVE D[w] = s[w]
  <2>1. PICK x \in 0..255 : x = s[w]
    BY <1>1
  <2>2. \A i \in 0..7 : /\ (w - 1) * 8 + i \in 0..(8 * Len(s) - 1)
                        /\ ((w - 1) * 8 + i) \div 8 = w - 1 /\ ((w - 1) * 8 + i) % 8 = i
    BY <1>1
  <2>3. \A i \in 0..7 : Codec!Bit(s, 8, (w - 1) * 8 + i) = (x \div Codec!Power[8 - i]) % 2
    <3>1. ~((w - 1) + 1 > Len(s)) /\ (w - 1) + 1 = w
      BY <1>1
    <3>. QED  BY <2>1, <2>2, <3>1 DEF Codec!Bit
  <2>4. \A i \in 0..7 : Codec!Bit(E, 6, (w - 1) * 8 + i) = (x \div Codec!Power[8 - i]) % 2
    BY <1>5, <2>2, <2>3
  <2>5. \A i \in 0..7 : worth(w, i) = Codec!Power[8 - i] * ((x \div Codec!Power[8 - i]) % 2)
    BY <2>4
  <2>. HIDE DEF worth
  <2>6. /\ worth(w, 0) = 128 * ((x \div 128) % 2) /\ worth(w, 1) = 64 * ((x \div 64) % 2)
        /\ worth(w, 2) = 32 * ((x \div 32) % 2) /\ worth(w, 3) = 16 * ((x \div 16) % 2)
        /\ worth(w, 4) = 8 * ((x \div 8) % 2) /\ worth(w, 5) = 4 * ((x \div 4) % 2)
        /\ worth(w, 6) = 2 * ((x \div 2) % 2) /\ worth(w, 7) = x % 2
    <3>1. /\ worth(w, 0) = Codec!Power[8] * ((x \div Codec!Power[8]) % 2)
          /\ worth(w, 1) = Codec!Power[7] * ((x \div Codec!Power[7]) % 2)
          /\ worth(w, 2) = Codec!Power[6] * ((x \div Codec!Power[6]) % 2)
          /\ worth(w, 3) = Codec!Power[5] * ((x \div Codec!Power[5]) % 2)
          /\ worth(w, 4) = Codec!Power[4] * ((x \div Codec!Power[4]) % 2)
          /\ worth(w, 5) = Codec!Power[3] * ((x \div Codec!Power[3]) % 2)
          /\ worth(w, 6) = Codec!Power[2] * ((x \div Codec!Power[2]) % 2)
          /\ worth(w, 7) = Codec!Power[1] * ((x \div Codec!Power[1]) % 2)
      BY <2>5
    <3>2. 1 * ((x \div 1) % 2) = x % 2
      BY <2>1
    <3>. QED  BY <1>6, <3>1, <3>2, Zenon
  <2>7. D[w] = worth(w, 0) + worth(w, 1) + worth(w, 2) + worth(w, 3) + worth(w, 4) + worth(w, 5) + worth(w, 6) + worth(w, 7)
    BY <1>3, <1>7
  <2>8. D[w] = 128 * ((x \div 128) % 2) + 64 * ((x \div 64) % 2) + 32 * ((x \div 32) % 2) + 16 * ((x \div 16) % 2)
               + 8 * ((x \div 8) % 2) + 4 * ((x \div 4) % 2) + 2 * ((x \div 2) % 2) + (x % 2)
    <3>. HIDE DEF D
    <3>. QED  BY <2>6, <2>7, Zenon
  <2>9. x = 128 * ((x \div 128) % 2) + 64 * ((x \div 64) % 2) + 32 * ((x \div 32) % 2) + 16 * ((x \div 16) % 2)
            + 8 * ((x \div 8) % 2) + 4 * ((x \div 4) % 2) + 2 * ((x \div 2) % 2) + (x % 2)
    BY BitsMakeByte
  <2>. QED  BY <2>1, <2>8, <2>9
<1>9. D = s
  <2>1. DOMAIN D = 1..Len(s) /\ D = [w \in 1..Len(s) |-> D[w]]
    BY <1>3, <1>7
  <2>. HIDE DEF D
  <2>. QED  BY <1>1, <1>8, <2>1
<1>. QED  BY <1>4, <1>9 DEF E

\* Whatever bytes a buffer holds, and however many, base64url gives them back.
THEOREM Base64ExactAlways ==
  ASSUME Bytes \subseteq 0..255
  PROVE  PageSpec => []Codec!Base64Exact
<1>. DEFINE I == buffer \in Seq(0..255)
<1>1. PageInit => I
  BY EmptySeq DEF PageInit, Codec!Init
<1>2. I /\ [PageNext]_pageVars => I'
  <2>1. SUFFICES ASSUME I, [PageNext]_pageVars PROVE I'
    OBVIOUS
  <2>2. CASE UNCHANGED codec
    BY <2>1, <2>2 DEF codec
  <2>3. CASE Codec!Next
    <3>1. CASE Codec!NextByte
      <4>1. PICK b \in Bytes : buffer' = Append(buffer, b)
        BY <3>1 DEF Codec!NextByte
      <4>. QED  BY <2>1, <4>1, AppendProperties
    <3>2. CASE Codec!NextChar
      BY <2>1, <3>2 DEF Codec!NextChar
    <3>. QED  BY <2>3, <3>1, <3>2 DEF Codec!Next
  <2>. QED  BY <2>1, <2>2, <2>3 DEF PageNext, pageVars
<1>3. I => Codec!Base64Exact
  BY Base64Back DEF Codec!Base64Exact
<1>. QED  BY <1>1, <1>2, <1>3, PTL DEF PageSpec
=============================================================================
