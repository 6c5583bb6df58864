----------------------------- MODULE PeersProofs -----------------------------
(***************************************************************************)
(* What is proved of module Peers for both of the clients built on it: the *)
(* lemmas about a session, and the steps the two clients share.            *)
(***************************************************************************)
EXTENDS Peers, SequenceTheorems, FiniteSetTheorems, TLAPS

------------------------------------------------------------------------------
(* Sequences whose elements need no type.                                    *)

IsSeq(x) == \E S : x \in Seq(S)

\* Append adds one element at the end and keeps the others.
LEMMA AppendSeq ==
  ASSUME NEW x, IsSeq(x), NEW e
  PROVE  /\ IsSeq(Append(x, e))
         /\ Len(x) \in Nat
         /\ Len(Append(x, e)) = Len(x) + 1
         /\ Append(x, e)[Len(x) + 1] = e
         /\ \A i \in 1..Len(x) : Append(x, e)[i] = x[i]
<1>1. PICK S : x \in Seq(S)
  BY DEF IsSeq
<1>. DEFINE T == S \cup {e}
<1>2. x \in Seq(T) /\ e \in T
  <2>1. \A i \in 1..Len(x) : x[i] \in T
    BY <1>1, ElementOfSeq
  <2>2. x \in [1..Len(x) -> T] /\ Len(x) \in Nat
    BY <1>1, <2>1, LenProperties
  <2>. QED  BY <2>2 DEF Seq
<1>. HIDE DEF T
<1>3. Append(x, e) \in Seq(T)
  BY <1>2, AppendProperties
<1>. QED  BY <1>2, <1>3, AppendProperties, LenProperties DEF IsSeq

\* A sequence without one of its elements.
LEMMA WithoutSeq ==
  ASSUME NEW S, NEW seq \in Seq(S), NEW i \in 1..Len(seq)
  PROVE  /\ Without(seq, i) \in Seq(S)
         /\ Len(Without(seq, i)) = Len(seq) - 1
         /\ \A j \in 1..(Len(seq) - 1) : Without(seq, i)[j] = IF j < i THEN seq[j] ELSE seq[j + 1]
<1>. DEFINE a == SubSeq(seq, 1, i - 1)
            b == SubSeq(seq, i + 1, Len(seq))
<1>0. Len(seq) \in Nat /\ i \in Nat /\ i >= 1 /\ i <= Len(seq) /\ \A k \in 1..Len(seq) : seq[k] \in S
  BY LenProperties, ElementOfSeq
<1>1. a \in Seq(S) /\ Len(a) = i - 1 /\ \A j \in 1..(i - 1) : a[j] = seq[j]
  BY <1>0, SubSeqProperties
<1>2. b \in Seq(S) /\ Len(b) = Len(seq) - i /\ \A j \in 1..(Len(seq) - i) : b[j] = seq[i + j]
  BY <1>0, SubSeqProperties
<1>3. Without(seq, i) = a \o b
  BY DEF Without
<1>. HIDE DEF a, b
<1>4. a \o b \in Seq(S) /\ Len(a \o b) = Len(seq) - 1
  <2>1. a \o b \in Seq(S) /\ Len(a \o b) = Len(a) + Len(b)
    BY <1>1, <1>2, ConcatProperties
  <2>. QED  BY <1>0, <1>1, <1>2, <2>1
<1>5. \A j \in 1..(Len(seq) - 1) : (a \o b)[j] = IF j < i THEN seq[j] ELSE seq[j + 1]
  BY <1>0, <1>1, <1>2, ConcatProperties
<1>. QED  BY <1>3, <1>4, <1>5

------------------------------------------------------------------------------
(* Sessions.  What a key proof needs to know of one is that it is a record   *)
(* and that its roots and chains are.                                        *)

SessionFields ==
  {"root", "dhs", "ct", "dhr", "cks", "ckr", "ns", "nr", "pn", "skipped", "epochs", "lastDh",
   "firstBuilt", "isFirst"}

IsRoot(root) == DOMAIN root = {"otk", "secrets"} /\ IsSeq(root.secrets)

IsChain(ck) == DOMAIN ck = {"root", "at"} /\ IsRoot(ck.root) /\ ck.at \in Nat

IsSession(s) ==
  /\ DOMAIN s = SessionFields
  /\ IsRoot(s.root)
  /\ s.cks # None => IsChain(s.cks)

\* The key pair whose generation began a sending chain: the generator of the last
\* KEM secret in its root.
Born(ck) == ck.root.secrets[Len(ck.root.secrets)][2][1]

\* A session t that took over the sending chain of s, or began one with e.
Renews(s, t, e) ==
  \/ t.cks = s.cks
  \/ t.dhs = e /\ IsChain(t.cks) /\ Born(t.cks) = e

\* A root with one more pair of secrets ends in that pair.
LEMMA MixRoot ==
  ASSUME NEW root, IsRoot(root), NEW dh, NEW kem
  PROVE  /\ IsRoot(Mix(root, dh, kem))
         /\ IsChain(ChainOf(Mix(root, dh, kem)))
         /\ Born(ChainOf(Mix(root, dh, kem))) = kem[1]
<1>. DEFINE r == Mix(root, dh, kem)
<1>1. DOMAIN r = {"otk", "secrets"} /\ r.secrets = Append(root.secrets, <<dh, kem>>)
  BY DEF Mix, IsRoot
<1>2. IsRoot(r) /\ r.secrets[Len(r.secrets)] = <<dh, kem>>
  BY <1>1, AppendSeq DEF IsRoot
<1>. HIDE DEF r
<1>3. IsChain(ChainOf(r)) /\ ChainOf(r).root = r
  BY <1>2 DEF IsChain, ChainOf
<1>4. Born(ChainOf(r)) = kem[1]
  BY <1>2, <1>3 DEF Born
<1>. QED  BY <1>2, <1>3, <1>4 DEF r

\* The constructor makes a session that has no sending chain.
LEMMA NewIsSession ==
  ASSUME NEW otk
  PROVE  IsSession(NewSession(otk)) /\ NewSession(otk).cks = None /\ NewSession(otk).root.otk = otk
<1>1. <<>> \in Seq({})
  BY EmptySeq
<1>. QED  BY <1>1 DEF IsSession, SessionFields, NewSession, IsRoot, IsSeq

\* Sending starts a chain or goes on with the one there is.
LEMMA SendingRenews ==
  ASSUME NEW p, NEW s, IsSession(s), NEW e
  PROVE  /\ IsSession(Sending(p, s, e)) /\ IsChain(Sending(p, s, e).cks)
         /\ Renews(s, Sending(p, s, e), e)
         /\ s.cks = None => Sending(p, s, e).dhs = e /\ Born(Sending(p, s, e).cks) = e
<1>1. CASE s.cks # None
  BY <1>1 DEF Sending, Renews, IsSession
<1>2. CASE s.cks = None
  <2>. DEFINE ct == <<e, Prekey(Peer(p))>>
              r  == Mix(s.root, {e, Prekey(Peer(p))}, ct)
              t  == Sending(p, s, e)
  <2>1. ct[1] = e
    OBVIOUS
  <2>2. IsChain(ChainOf(r)) /\ Born(ChainOf(r)) = e
    BY <2>1, MixRoot DEF IsSession
  <2>3. DOMAIN t = SessionFields /\ t.root = s.root /\ t.dhs = e /\ t.cks = ChainOf(r)
    BY <1>2 DEF Sending, FirstSend, IsSession, SessionFields
  <2>. HIDE DEF ct, r, t
  <2>4. IsSession(t)
    BY <2>2, <2>3 DEF IsSession
  <2>5. Renews(s, t, e) /\ t.dhs = e /\ Born(t.cks) = e /\ IsChain(t.cks)
    BY <2>2, <2>3 DEF Renews
  <2>. QED  BY <1>2, <2>4, <2>5 DEF t
<1>. QED  BY <1>1, <1>2

\* The sending step of the ratchet starts a chain.
LEMMA SendStepRenews ==
  ASSUME NEW s, DOMAIN s = SessionFields, IsRoot(s.root), NEW e
  PROVE  LET t == SendStep(s, e) IN
         /\ IsSession(t) /\ t.dhs = e /\ IsChain(t.cks) /\ Born(t.cks) = e
         /\ t.ckr = s.ckr /\ t.root.otk = s.root.otk
<1>. DEFINE ct == <<e, s.dhr>>
            r  == Mix(s.root, {e, s.dhr}, ct)
            t  == SendStep(s, e)
<1>1. ct[1] = e
  OBVIOUS
<1>2. IsRoot(r) /\ IsChain(ChainOf(r)) /\ Born(ChainOf(r)) = e
  BY <1>1, MixRoot
<1>3. DOMAIN t = SessionFields /\ t.root = r /\ t.dhs = e /\ t.cks = ChainOf(r) /\ t.ckr = s.ckr
  BY DEF SendStep, SessionFields
<1>4. r.otk = s.root.otk
  BY DEF Mix, IsRoot
<1>. HIDE DEF ct, r, t
<1>5. IsSession(t)
  BY <1>2, <1>3 DEF IsSession
<1>6. t.dhs = e /\ IsChain(t.cks) /\ Born(t.cks) = e /\ t.ckr = s.ckr /\ t.root.otk = s.root.otk
  BY <1>2, <1>3, <1>4
<1>. QED  BY <1>5, <1>6 DEF t

\* Skipping keys leaves the sending side alone.
LEMMA SkipKeeps ==
  ASSUME NEW s, DOMAIN s = SessionFields, NEW until
  PROVE  LET t == Skip(s, until) IN
         DOMAIN t = SessionFields /\ t.root = s.root /\ t.cks = s.cks /\ t.dhs = s.dhs
<1>1. CASE s.ckr = None \/ until <= s.nr
  BY <1>1 DEF Skip
<1>2. CASE ~(s.ckr = None \/ until <= s.nr)
  BY <1>2 DEF Skip, SessionFields
<1>. QED  BY <1>1, <1>2

\* A first message begins a sending chain or leaves it.
LEMMA EstablishRenews ==
  ASSUME NEW p, NEW s, IsSession(s), NEW env, NEW e
  PROVE  LET t == EstablishFirst(p, s, env, e) IN
         /\ IsSession(t) /\ Renews(s, t, e)
         /\ s.cks = None => t.dhs = e /\ IsChain(t.cks) /\ Born(t.cks) = e
<1>. DEFINE r == [s EXCEPT
                   !.ckr = ChainOf(Mix(s.root, {env.dh, Prekey(p)}, Opened(env.ct, Prekey(p)))),
                   !.dhr = env.dh, !.epochs = Remember(s, env.dh)]
            u == [r EXCEPT !.pn = s.ns, !.ns = 0]
            t == EstablishFirst(p, s, env, e)
<1>1. DOMAIN r = SessionFields /\ r.root = s.root /\ r.cks = s.cks
  BY DEF IsSession, SessionFields
<1>. HIDE DEF r
<1>2. DOMAIN u = SessionFields /\ u.root = s.root
  BY <1>1 DEF SessionFields
<1>. HIDE DEF u
<1>3. IsRoot(s.root) /\ IsSession(r)
  BY <1>1 DEF IsSession
<1>4. t = IF ~AnswersFirst(p, s) THEN r ELSE IF s.cks = None THEN SendStep(r, e) ELSE SendStep(u, e)
  BY DEF EstablishFirst, r, u
<1>. HIDE DEF t
<1>. SUFFICES /\ IsSession(t) /\ Renews(s, t, e)
              /\ s.cks = None => t.dhs = e /\ IsChain(t.cks) /\ Born(t.cks) = e
  BY DEF t
<1>5. CASE ~AnswersFirst(p, s)
  BY <1>1, <1>3, <1>4, <1>5 DEF Renews, AnswersFirst
<1>6. CASE AnswersFirst(p, s) /\ s.cks = None
  BY <1>1, <1>3, <1>4, <1>6, SendStepRenews DEF Renews
<1>7. CASE AnswersFirst(p, s) /\ s.cks # None
  BY <1>2, <1>3, <1>4, <1>7, SendStepRenews DEF Renews
<1>. QED  BY <1>5, <1>6, <1>7

\* The ratchet begins a sending chain.
LEMMA RatchetRenews ==
  ASSUME NEW s, DOMAIN s = SessionFields, IsRoot(s.root), NEW env, NEW e
  PROVE  LET t == DHRatchet(s, env, e) IN
         IsSession(t) /\ t.dhs = e /\ IsChain(t.cks) /\ Born(t.cks) = e
<1>. DEFINE root == Mix(s.root, {s.dhs, env.dh}, Opened(env.ct, s.dhs))
            u == [s EXCEPT !.pn = s.ns, !.ns = 0, !.nr = 0, !.dhr = env.dh,
                     !.epochs = Remember(s, env.dh), !.root = root, !.ckr = ChainOf(root)]
<1>1. IsRoot(root)
  BY MixRoot
<1>2. DHRatchet(s, env, e) = SendStep(u, e)
  BY DEF DHRatchet
<1>. HIDE DEF root
<1>3. DOMAIN u = SessionFields /\ u.root = root
  BY DEF SessionFields
<1>. HIDE DEF u
<1>. QED  BY <1>1, <1>2, <1>3, SendStepRenews

\* What a decryption returns.
LEMMA Outcomes ==
  ASSUME NEW why, NEW s
  PROVE  /\ Failed(why, s).why = why /\ Failed(why, s).session = s
         /\ Read(s).why = None /\ Read(s).session = s
BY DEF Failed, Read

\* The session when the kept key in place i was used.
Dropped(s, i) == [s EXCEPT !.skipped = Without(@, i)]

\* The place of the kept key of an envelope.
PlaceOf(s, env) == CHOOSE i \in KeptAt(s, env) : TRUE

\* A kept key that fits leaves the session without that key.
LEMMA KeptOutcome ==
  ASSUME NEW s, NEW env
  PROVE  LET i == PlaceOf(s, env)
             d == DecryptKept(s, env)
         IN \/ d.why = "wrong-key" /\ d.session = s
            \/ /\ s.skipped[i].key = env.key
               /\ d.why = None /\ d.session = Dropped(s, i)
<1>1. CASE s.skipped[PlaceOf(s, env)].key = env.key
  BY <1>1, Outcomes DEF DecryptKept, PlaceOf, Dropped
<1>2. CASE s.skipped[PlaceOf(s, env)].key # env.key
  BY <1>2, Outcomes DEF DecryptKept, Rollback, PlaceOf
<1>. QED  BY <1>1, <1>2

\* The session when the next key of its receiving chain was used.
Passed(s) == [s EXCEPT !.ckr = After(@, 1), !.nr = @ + 1]

\* The next key of a chain that fits leaves the chain behind that key.
LEMMA NextOutcome ==
  ASSUME NEW p, NEW s, NEW env, NEW e
  PROVE  LET ready == Skip(Turned(p, s, env, e), env.n)
             d == DecryptNext(p, s, env, e)
         IN \/ d.why \in {"too-far", "wrong-key"} /\ d.session = s
            \/ /\ ready.ckr = env.key
               /\ d.why = None /\ d.session = Passed(ready)
<1>. DEFINE turned == Turned(p, s, env, e)
            ready  == Skip(turned, env.n)
<1>1. CASE TooFar(turned, env.n)
  BY <1>1, Outcomes DEF DecryptNext, Rollback
<1>2. CASE ~TooFar(turned, env.n) /\ ready.ckr # env.key
  BY <1>2, Outcomes DEF DecryptNext, Rollback
<1>3. CASE ~TooFar(turned, env.n) /\ ready.ckr = env.key
  BY <1>3, Outcomes DEF DecryptNext, Passed
<1>. QED  BY <1>1, <1>2, <1>3

\* Whatever an envelope does to a session, the session keeps its sending chain or
\* begins one with the fresh key pair.
LEMMA DecryptRenews ==
  ASSUME NEW p, NEW s, IsSession(s), NEW env, NEW e
  PROVE  LET t == Decrypt(p, s, env, e).session IN IsSession(t) /\ Renews(s, t, e)
<1>. DEFINE d == Decrypt(p, s, env, e)
<1>2. IsSession(s) /\ Renews(s, s, e)
  BY DEF Renews
<1>3. CASE d.session = s
  BY <1>2, <1>3
<1>4. CASE d = DecryptKept(s, env)
  <2>. DEFINE dropped == Dropped(s, PlaceOf(s, env))
  <2>1. DOMAIN dropped = SessionFields /\ dropped.root = s.root /\ dropped.cks = s.cks
    BY DEF IsSession, SessionFields, Dropped
  <2>2. d.session = dropped \/ d.session = s
    BY <1>4, KeptOutcome
  <2>. HIDE DEF dropped, d
  <2>3. IsSession(dropped) /\ Renews(s, dropped, e)
    BY <2>1 DEF IsSession, Renews
  <2>. QED  BY <2>2, <2>3, <1>2 DEF d
<1>5. CASE d = DecryptNext(p, s, env, e)
  <2>. DEFINE turned == Turned(p, s, env, e)
              ready  == Skip(turned, env.n)
              done   == Passed(ready)
  <2>1. d.session = done \/ d.session = s
    BY <1>5, NextOutcome
  <2>2. IsSession(turned) /\ Renews(s, turned, e)
    <3>1. CASE env.first
      BY <3>1, EstablishRenews DEF Turned
    <3>2. CASE ~env.first /\ NewEpoch(s, env)
      <4>1. DOMAIN Skip(s, env.pn) = SessionFields /\ IsRoot(Skip(s, env.pn).root)
        BY SkipKeeps DEF IsSession
      <4>2. turned = DHRatchet(Skip(s, env.pn), env, e)
        BY <3>2 DEF Turned
      <4>. QED  BY <4>1, <4>2, RatchetRenews DEF Renews
    <3>3. CASE ~env.first /\ ~NewEpoch(s, env)
      BY <3>3, <1>2 DEF Turned
    <3>. QED  BY <3>1, <3>2, <3>3
  <2>. HIDE DEF turned, d
  <2>3. DOMAIN ready = SessionFields /\ ready.root = turned.root /\ ready.cks = turned.cks
        /\ ready.dhs = turned.dhs
    BY <2>2, SkipKeeps DEF IsSession
  <2>. HIDE DEF ready
  <2>4. DOMAIN done = SessionFields /\ done.root = turned.root /\ done.cks = turned.cks
        /\ done.dhs = turned.dhs
    BY <2>3 DEF SessionFields, Passed
  <2>. HIDE DEF done
  <2>5. IsSession(done) /\ Renews(s, done, e)
    BY <2>2, <2>4 DEF IsSession, Renews
  <2>. QED  BY <2>1, <2>5, <1>2 DEF d
<1>6. d.session = s \/ d = DecryptKept(s, env) \/ d = DecryptNext(p, s, env, e)
  BY Outcomes DEF Decrypt
<1>. QED  BY <1>3, <1>4, <1>5, <1>6

\* The session made from a first message that decrypts begins its sending chain.
LEMMA FirstDecryptRenews ==
  ASSUME NEW p, NEW otk, NEW env, env.first, NEW e,
         Decrypt(p, NewSession(otk), env, e).why = None
  PROVE  LET t == Decrypt(p, NewSession(otk), env, e).session IN
         IsSession(t) /\ t.dhs = e /\ IsChain(t.cks) /\ Born(t.cks) = e
<1>. DEFINE s == NewSession(otk)
            d == Decrypt(p, s, env, e)
            turned == Turned(p, s, env, e)
            ready  == Skip(turned, env.n)
            done   == Passed(ready)
<1>1. IsSession(s) /\ s.cks = None
  BY NewIsSession
<1>2. d = DecryptNext(p, s, env, e)
  BY Outcomes DEF Decrypt
<1>3. d.session = done
  <2>1. None \notin {"too-far", "wrong-key"}
    BY RatchetAssumption
  <2>. QED  BY <1>2, <2>1, NextOutcome
<1>4. IsSession(turned) /\ turned.dhs = e /\ IsChain(turned.cks) /\ Born(turned.cks) = e
  BY <1>1, EstablishRenews DEF Turned
<1>. HIDE DEF s, turned
<1>5. DOMAIN ready = SessionFields /\ ready.root = turned.root /\ ready.cks = turned.cks
      /\ ready.dhs = turned.dhs
  BY <1>4, SkipKeeps DEF IsSession
<1>. HIDE DEF ready
<1>6. DOMAIN done = SessionFields /\ done.root = turned.root /\ done.cks = turned.cks
      /\ done.dhs = turned.dhs
  BY <1>5 DEF SessionFields, Passed
<1>. HIDE DEF done, d
<1>8. IsSession(d.session) /\ d.session.dhs = e /\ IsChain(d.session.cks) /\ Born(d.session.cks) = e
  BY <1>3, <1>4, <1>6 DEF IsSession
<1>. QED  BY <1>8 DEF d, s

\* Encrypting moves the sending chain on by one key.
LEMMA SentAdvances ==
  ASSUME NEW s, IsSession(s), IsChain(s.cks)
  PROVE  /\ IsSession(Sent(s)) /\ IsChain(Sent(s).cks)
         /\ Sent(s).cks.root = s.cks.root /\ Sent(s).cks.at = s.cks.at + 1
<1>. DEFINE t == Sent(s)
<1>1. DOMAIN t = SessionFields /\ t.root = s.root /\ t.cks = After(s.cks, 1)
  BY DEF Sent, IsSession, SessionFields
<1>2. DOMAIN After(s.cks, 1) = {"root", "at"} /\ After(s.cks, 1).root = s.cks.root
      /\ After(s.cks, 1).at = s.cks.at + 1
  BY DEF After, IsChain
<1>. HIDE DEF t
<1>3. IsChain(t.cks) /\ t.cks.root = s.cks.root /\ t.cks.at = s.cks.at + 1
  BY <1>1, <1>2 DEF IsChain
<1>4. IsSession(t)
  BY <1>1, <1>3 DEF IsSession
<1>. QED  BY <1>3, <1>4 DEF t

\* Restoring a session keeps its sending chain.
LEMMA RestoreKeeps ==
  ASSUME NEW s, s # None, IsSession(s)
  PROVE  IsSession(Restore(s)) /\ Restore(s).cks = s.cks
<1>1. DOMAIN Restore(s) = SessionFields /\ Restore(s).root = s.root /\ Restore(s).cks = s.cks
  BY DEF Restore, IsSession, SessionFields
<1>. QED  BY <1>1 DEF IsSession

------------------------------------------------------------------------------
(* The type of a session.                                                    *)

\* A session that could have come about: who sends has a key pair and its KEM
\* ciphertext, who received knows the peer's, and the counters follow the chains.
WellFormed(s) ==
  /\ s \in Session
  /\ IF s.cks = None THEN s.ns = 0
     ELSE s.dhs \in KeyPair /\ s.ct \in Ciphertext /\ s.cks.at = s.ns
  /\ IF s.ckr = None THEN s.nr = 0 ELSE s.dhr \in KeyPair /\ s.ckr.at = s.nr
  /\ Len(s.skipped) <= MaxKept /\ Len(s.epochs) <= MaxEpochs

EnvelopeType ==
  [from : Party, text : {"text", "receipt"}, dh : KeyPair, pn : Nat, n : Nat, key : Chain,
   first : BOOLEAN, ct : Ciphertext \cup {None}, otk : KeyPair \cup {None}]

\* An envelope whose first-message flag comes with a KEM ciphertext.
WellSealed(env) == env \in EnvelopeType /\ (env.first => env.ct \in Ciphertext)

\* A session of this type is one in the sense of the key proofs.
LEMMA TypedIsSession ==
  ASSUME NEW s \in Session
  PROVE  IsSession(s)
<1>1. \A r \in Root : IsRoot(r)
  BY DEF Root, IsRoot, IsSeq
<1>2. \A ck \in Chain : IsChain(ck)
  BY <1>1 DEF Chain, IsChain
<1>3. DOMAIN s = SessionFields /\ s.root \in Root /\ s.cks \in Chain \cup {None}
  BY DEF Session, SessionFields
<1>. QED  BY <1>1, <1>2, <1>3 DEF IsSession

\* Mixing into a root gives a root of the same prekey with one secret more.
LEMMA MixType ==
  ASSUME NEW root \in Root, NEW dh \in SUBSET KeyPair,
         NEW kem \in Ciphertext \cup (KeyPair \X Ciphertext)
  PROVE  /\ Mix(root, dh, kem) \in Root
         /\ Mix(root, dh, kem).otk = root.otk
         /\ Len(Mix(root, dh, kem).secrets) = Len(root.secrets) + 1
         /\ ChainOf(Mix(root, dh, kem)) \in Chain
<1>1. <<dh, kem>> \in Secret
  BY DEF Secret
<1>2. root.secrets \in Seq(Secret)
  BY DEF Root
<1>3. Append(root.secrets, <<dh, kem>>) \in Seq(Secret)
      /\ Len(Append(root.secrets, <<dh, kem>>)) = Len(root.secrets) + 1
  BY <1>1, <1>2, AppendProperties
<1>4. Mix(root, dh, kem) \in Root /\ Mix(root, dh, kem).otk = root.otk
      /\ Mix(root, dh, kem).secrets = Append(root.secrets, <<dh, kem>>)
  BY <1>3 DEF Mix, Root
<1>5. ChainOf(Mix(root, dh, kem)) \in Chain
  BY <1>4 DEF ChainOf, Chain
<1>. QED  BY <1>3, <1>4, <1>5

\* What decapsulation yields is a ciphertext, or the pair of a wrong key and it.
LEMMA OpenedType ==
  ASSUME NEW ct \in Ciphertext, NEW key \in KeyPair
  PROVE  Opened(ct, key) \in Ciphertext \cup (KeyPair \X Ciphertext)
BY DEF Opened

\* A chain moved on is a chain of the same root.
LEMMA AfterType ==
  ASSUME NEW ck \in Chain, NEW k \in Nat
  PROVE  After(ck, k) \in Chain /\ After(ck, k).root = ck.root /\ After(ck, k).at = ck.at + k
BY DEF After, Chain

\* What a Map that evicts its oldest entries keeps.
LEMMA NewestType ==
  ASSUME NEW S, NEW seq \in Seq(S), NEW k \in Nat
  PROVE  /\ Newest(seq, k) \in Seq(S)
         /\ Len(Newest(seq, k)) <= k
<1>1. Len(seq) \in Nat
  BY LenProperties
<1>2. CASE Len(seq) <= k
  BY <1>2 DEF Newest
<1>3. CASE ~(Len(seq) <= k)
  <2>1. Newest(seq, k) = SubSeq(seq, Len(seq) - k + 1, Len(seq))
    BY <1>3 DEF Newest
  <2>2. SubSeq(seq, Len(seq) - k + 1, Len(seq)) \in Seq(S)
        /\ Len(SubSeq(seq, Len(seq) - k + 1, Len(seq))) = k
    <3>1. \A i \in (Len(seq) - k + 1)..Len(seq) : seq[i] \in S
      BY <1>1, <1>3, ElementOfSeq
    <3>. QED  BY <1>1, <1>3, <3>1, SubSeqProperties
  <2>. QED  BY <2>1, <2>2
<1>. QED  BY <1>2, <1>3

\* A new session is well formed.
LEMMA NewType ==
  ASSUME NEW otk \in KeyPair \cup {None}
  PROVE  WellFormed(NewSession(otk))
<1>1. NewSession(otk) \in Session
  BY EmptySeq DEF NewSession, Session, Root
<1>2. MaxKept \in Nat /\ MaxEpochs \in Nat /\ Len(<<>>) = 0
  BY RatchetAssumption, EmptySeq
<1>. QED  BY <1>1, <1>2 DEF WellFormed, NewSession

\* Of two parties each has the other for its peer.
LEMMA PeerParty ==
  ASSUME NEW p \in Party
  PROVE  Peer(p) \in Party /\ Peer(p) # p
<1>1. IsFiniteSet(Party) /\ Cardinality(Party) = 2
  BY RatchetAssumption
<1>2. Party \ {p} # {}
  <2>1. Cardinality(Party \ {p}) = 1
    BY <1>1, FS_RemoveElement
  <2>. QED  BY <2>1, FS_EmptySet
<1>. QED  BY <1>2 DEF Peer

\* A key pair a party generated itself: not its prekey.
LEMMA PrekeyType == \A p \in Party : Prekey(p) \in KeyPair
BY DEF Prekey, KeyPair

\* The sending half of a ratchet step gives a well formed session that can send.
LEMMA SendStepType ==
  ASSUME NEW s \in Session, s.dhr \in KeyPair, s.ns = 0,
         IF s.ckr = None THEN s.nr = 0 ELSE s.ckr.at = s.nr,
         Len(s.skipped) <= MaxKept, Len(s.epochs) <= MaxEpochs, NEW e \in KeyPair
  PROVE  LET t == SendStep(s, e) IN
         /\ WellFormed(t) /\ t.cks \in Chain /\ t.cks.root = t.root
         /\ t.root.otk = s.root.otk /\ Len(t.root.secrets) = Len(s.root.secrets) + 1
         /\ t.ckr = s.ckr /\ t.isFirst = s.isFirst /\ t.firstBuilt = s.firstBuilt /\ t.dhs = e /\ t.dhr = s.dhr
         /\ t.skipped = s.skipped /\ t.nr = s.nr
<1>. DEFINE kem == <<e, s.dhr>>
            r   == Mix(s.root, {e, s.dhr}, kem)
            t   == SendStep(s, e)
<1>1. kem \in Ciphertext /\ {e, s.dhr} \in SUBSET KeyPair /\ s.root \in Root
  BY DEF Ciphertext, Session
<1>2. /\ r \in Root /\ r.otk = s.root.otk /\ Len(r.secrets) = Len(s.root.secrets) + 1
      /\ ChainOf(r) \in Chain
  BY <1>1, MixType
<1>3. ChainOf(r).at = 0 /\ ChainOf(r).root = r
  BY DEF ChainOf
<1>4. t = [s EXCEPT !.dhs = e, !.ct = kem, !.root = r, !.cks = ChainOf(r)]
  BY DEF SendStep
<1>. HIDE DEF kem, r
<1>5. t \in Session
  BY <1>1, <1>2, <1>4 DEF Session
<1>6. /\ t.dhs = e /\ t.ct = kem /\ t.root = r /\ t.cks = ChainOf(r) /\ t.ckr = s.ckr /\ t.dhr = s.dhr
      /\ t.isFirst = s.isFirst /\ t.firstBuilt = s.firstBuilt /\ t.skipped = s.skipped /\ t.nr = s.nr /\ t.ns = s.ns
      /\ t.epochs = s.epochs
  BY <1>4 DEF Session
<1>. HIDE DEF t
<1>7. t.cks # None
  BY <1>2, <1>6, NoneIsNoChain
<1>8. WellFormed(t)
  BY <1>1, <1>3, <1>5, <1>6, <1>7 DEF WellFormed
<1>. QED  BY <1>2, <1>3, <1>6, <1>8 DEF t

\* A session made ready to send is well formed and has a sending chain.
LEMMA SendingType ==
  ASSUME NEW p \in Party, NEW s, WellFormed(s), NEW e \in KeyPair
  PROVE  LET t == Sending(p, s, e) IN
         /\ WellFormed(t) /\ t.cks \in Chain
         /\ t.root = s.root /\ t.ckr = s.ckr /\ t.skipped = s.skipped
         /\ s.cks = None => t.cks.root.otk = s.root.otk /\ t.firstBuilt
         /\ s.cks # None => t = s
<1>1. CASE s.cks # None
  BY <1>1 DEF Sending, WellFormed, Session
<1>2. CASE s.cks = None
  <2>. DEFINE kem == <<e, Prekey(Peer(p))>>
              r   == Mix(s.root, {e, Prekey(Peer(p))}, kem)
              t   == Sending(p, s, e)
  <2>0. Prekey(Peer(p)) \in KeyPair /\ s \in Session /\ s.ns = 0
    BY <1>2, PeerParty, PrekeyType DEF WellFormed
  <2>1. kem \in Ciphertext /\ {e, Prekey(Peer(p))} \in SUBSET KeyPair /\ s.root \in Root
    BY <2>0 DEF Ciphertext, Session
  <2>2. ChainOf(r) \in Chain /\ r.otk = s.root.otk
    BY <2>1, MixType
  <2>3. ChainOf(r).at = 0 /\ ChainOf(r).root = r
    BY DEF ChainOf
  <2>4. t = [s EXCEPT !.firstBuilt = TRUE, !.isFirst = TRUE, !.dhs = e, !.ct = kem, !.cks = ChainOf(r)]
    BY <1>2 DEF Sending, FirstSend
  <2>. HIDE DEF kem, r
  <2>5. t \in Session
    BY <2>0, <2>1, <2>2, <2>4 DEF Session
  <2>6. /\ t.dhs = e /\ t.ct = kem /\ t.root = s.root /\ t.cks = ChainOf(r) /\ t.ckr = s.ckr
        /\ t.dhr = s.dhr /\ t.skipped = s.skipped /\ t.nr = s.nr /\ t.ns = s.ns /\ t.epochs = s.epochs
        /\ t.firstBuilt
    BY <2>0, <2>4 DEF Session
  <2>. HIDE DEF t
  <2>7. t.cks # None
    BY <2>2, <2>6, NoneIsNoChain
  <2>8. WellFormed(t)
    BY <2>0, <2>1, <2>3, <2>5, <2>6, <2>7 DEF WellFormed
  <2>. QED  BY <1>2, <2>2, <2>3, <2>6, <2>8 DEF t
<1>. QED  BY <1>1, <1>2

\* What encrypt hands over.
LEMMA EnvelopeSealed ==
  ASSUME NEW p \in Party, NEW s, WellFormed(s), s.cks \in Chain, NEW text \in {"text", "receipt"}
  PROVE  WellSealed(Envelope(p, s, text))
<1>1. s.cks # None
  BY NoneIsNoChain
<1>2. s \in Session /\ s.dhs \in KeyPair /\ s.ct \in Ciphertext
  BY <1>1 DEF WellFormed
<1>3. s.isFirst \in BOOLEAN /\ s.pn \in Nat /\ s.ns \in Nat /\ s.root.otk \in KeyPair \cup {None}
  BY <1>2 DEF Session, Root
<1>. QED  BY <1>2, <1>3 DEF WellSealed, EnvelopeType, Envelope

\* After an envelope is sealed, the session is well formed and no longer first.
LEMMA SentType ==
  ASSUME NEW s, WellFormed(s), s.cks \in Chain
  PROVE  LET t == Sent(s) IN
         /\ WellFormed(t) /\ t.cks \in Chain /\ ~t.isFirst /\ t.firstBuilt = s.firstBuilt
         /\ t.root = s.root /\ t.cks.root = s.cks.root
         /\ t.ckr = s.ckr /\ t.skipped = s.skipped
<1>. DEFINE ck == After(s.cks, 1)
            t  == Sent(s)
<1>0. s.cks # None
  BY NoneIsNoChain
<1>1. s \in Session /\ s.dhs \in KeyPair /\ s.ct \in Ciphertext /\ s.cks.at = s.ns
  BY <1>0 DEF WellFormed
<1>2. ck \in Chain /\ ck.root = s.cks.root /\ ck.at = s.cks.at + 1
  BY AfterType
<1>3. t = [s EXCEPT !.isFirst = FALSE, !.cks = ck, !.ns = @ + 1, !.lastDh = s.dhs]
  BY DEF Sent
<1>. HIDE DEF ck
<1>4. t \in Session
  <2>. DEFINE n == s.ns + 1
  <2>1. n \in Nat
    BY <1>1 DEF Session
  <2>2. t = [s EXCEPT !.isFirst = FALSE, !.cks = ck, !.ns = n, !.lastDh = s.dhs]
    BY <1>3
  <2>. HIDE DEF n, t
  <2>. QED  BY <1>1, <1>2, <2>1, <2>2 DEF Session
<1>5. /\ t.dhs = s.dhs /\ t.ct = s.ct /\ t.root = s.root /\ t.cks = ck /\ t.ckr = s.ckr /\ ~t.isFirst
      /\ t.firstBuilt = s.firstBuilt
      /\ t.dhr = s.dhr /\ t.skipped = s.skipped /\ t.nr = s.nr /\ t.ns = s.ns + 1 /\ t.epochs = s.epochs
  BY <1>1, <1>3 DEF Session
<1>. HIDE DEF t
<1>6. t.cks # None
  BY <1>2, <1>5, NoneIsNoChain
<1>7. WellFormed(t)
  BY <1>1, <1>2, <1>4, <1>5, <1>6 DEF WellFormed
<1>. QED  BY <1>2, <1>5, <1>7 DEF t

\* A restored session is well formed and has the chains and root of what was saved.
LEMMA RestoreType ==
  ASSUME NEW s, WellFormed(s), s # None
  PROVE  LET t == Restore(s) IN
         /\ WellFormed(t) /\ t.cks = s.cks /\ t.ckr = s.ckr /\ t.root = s.root
         /\ t.skipped = s.skipped
         /\ t.firstBuilt = s.firstBuilt /\ t.isFirst = (~s.firstBuilt /\ s.ckr = None)
<1>1. s \in Session /\ Restore(s) = [s EXCEPT !.lastDh = None, !.isFirst = ~s.firstBuilt /\ s.ckr = None]
  BY DEF Restore, WellFormed
<1>2. Restore(s) \in Session
  BY <1>1 DEF Session
<1>3. /\ Restore(s).cks = s.cks /\ Restore(s).ckr = s.ckr /\ Restore(s).root = s.root
      /\ Restore(s).dhs = s.dhs /\ Restore(s).ct = s.ct /\ Restore(s).dhr = s.dhr
      /\ Restore(s).ns = s.ns /\ Restore(s).nr = s.nr /\ Restore(s).skipped = s.skipped
      /\ Restore(s).epochs = s.epochs
      /\ Restore(s).firstBuilt = s.firstBuilt
      /\ Restore(s).isFirst = (~s.firstBuilt /\ s.ckr = None)
  BY <1>1 DEF Session
<1>. QED  BY <1>2, <1>3 DEF WellFormed

\* Skipping keys keeps the newest of them; the chain and its counter move together.
LEMMA SkipType ==
  ASSUME NEW s, WellFormed(s), NEW until \in Nat
  PROVE  LET t == Skip(s, until) IN
         /\ WellFormed(t)
         /\ t.cks = s.cks /\ t.root = s.root /\ t.dhs = s.dhs
         /\ t.isFirst = s.isFirst /\ t.firstBuilt = s.firstBuilt
         /\ IF s.ckr = None THEN t = s ELSE t.ckr \in Chain /\ t.ckr.root = s.ckr.root
<1>1. CASE s.ckr = None \/ until <= s.nr
  BY <1>1 DEF Skip, WellFormed, Session
<1>2. CASE ~(s.ckr = None \/ until <= s.nr)
  <2>. DEFINE k == until - s.nr
              passed == [i \in 1..k |-> [dh |-> s.dhr, n |-> s.nr + i - 1, key |-> After(s.ckr, i - 1)]]
              kept == Newest(s.skipped \o passed, MaxKept)
              ck == After(s.ckr, k)
              t == Skip(s, until)
  <2>1. s \in Session /\ s.dhr \in KeyPair /\ s.ckr \in Chain /\ s.ckr.at = s.nr /\ s.nr \in Nat
    BY <1>2 DEF WellFormed, Session
  <2>2. k \in Nat \ {0}
    BY <1>2, <2>1
  <2>3. passed \in Seq(KeptKey)
    <3>1. \A i \in 1..k : [dh |-> s.dhr, n |-> s.nr + i - 1, key |-> After(s.ckr, i - 1)] \in KeptKey
      <4>. SUFFICES ASSUME NEW i \in 1..k
                    PROVE  [dh |-> s.dhr, n |-> s.nr + i - 1, key |-> After(s.ckr, i - 1)] \in KeptKey
        OBVIOUS
      <4>1. i - 1 \in Nat /\ s.nr + i - 1 \in Nat
        BY <2>1, <2>2
      <4>2. After(s.ckr, i - 1) \in Chain
        BY <2>1, <4>1, AfterType
      <4>. QED  BY <2>1, <4>1, <4>2 DEF KeptKey
    <3>. HIDE DEF k
    <3>2. passed \in [1..k -> KeptKey] /\ k \in Nat
      BY <2>2, <3>1
    <3>. QED  BY <3>2 DEF Seq
  <2>4. kept \in Seq(KeptKey) /\ Len(kept) <= MaxKept
    <3>1. s.skipped \o passed \in Seq(KeptKey)
      BY <2>1, <2>3, ConcatProperties DEF Session
    <3>. QED  BY <3>1, NewestType, RatchetAssumption
  <2>5. ck \in Chain /\ ck.root = s.ckr.root /\ ck.at = s.ckr.at + k
    BY <2>1, <2>2, AfterType
  <2>6. t = [s EXCEPT !.ckr = ck, !.nr = until, !.skipped = kept]
    BY <1>2 DEF Skip
  <2>. HIDE DEF passed, kept, ck
  <2>7. t \in Session
    BY <2>1, <2>4, <2>5, <2>6 DEF Session
  <2>8. /\ t.ckr = ck /\ t.nr = until /\ t.skipped = kept /\ t.cks = s.cks /\ t.root = s.root
        /\ t.dhs = s.dhs /\ t.ct = s.ct /\ t.dhr = s.dhr /\ t.ns = s.ns /\ t.epochs = s.epochs
        /\ t.isFirst = s.isFirst /\ t.firstBuilt = s.firstBuilt
    BY <2>1, <2>6 DEF Session
  <2>9. t.ckr.at = t.nr
    BY <2>1, <2>2, <2>5, <2>8
  <2>. HIDE DEF t
  <2>10. t.ckr # None
    BY <2>5, <2>8, NoneIsNoChain
  <2>11. WellFormed(t)
    BY <2>1, <2>4, <2>7, <2>8, <2>9, <2>10 DEF WellFormed
  <2>. QED  BY <1>2, <2>5, <2>8, <2>11 DEF t
<1>. QED  BY <1>1, <1>2

\* The list of remembered epochs stays a list of keys within its limit.
LEMMA RememberType ==
  ASSUME NEW s \in Session, NEW dh \in KeyPair
  PROVE  Remember(s, dh) \in Seq(KeyPair) /\ Len(Remember(s, dh)) <= MaxEpochs
<1>1. Append(s.epochs, dh) \in Seq(KeyPair)
  BY AppendProperties DEF Session
<1>. QED  BY <1>1, NewestType, RatchetAssumption DEF Remember

\* The roots of the receiving chains that an envelope begins: of a first message,
\* and of a new epoch.
FirstRoot(p, s, env) == Mix(s.root, {env.dh, Prekey(p)}, Opened(env.ct, Prekey(p)))
NextRoot(s, env) == Mix(s.root, {s.dhs, env.dh}, Opened(env.ct, s.dhs))

\* A first message begins the receiving chain of its prekeys, and leaves the session
\* with a sending chain; the root moves only if that chain is new.
LEMMA EstablishType ==
  ASSUME NEW p \in Party, NEW s, WellFormed(s), s.ckr = None,
         NEW env, WellSealed(env), env.first, NEW e \in KeyPair
  PROVE  LET t == EstablishFirst(p, s, env, e)
             m == FirstRoot(p, s, env)
         IN /\ WellFormed(t) /\ t.cks \in Chain /\ t.isFirst = s.isFirst /\ t.firstBuilt = s.firstBuilt
            /\ m \in Root /\ m.otk = s.root.otk /\ t.ckr = ChainOf(m) /\ t.skipped = s.skipped /\ t.nr = 0
            /\ t.root.otk = s.root.otk /\ Len(t.root.secrets) >= Len(s.root.secrets)
<1>. DEFINE kem == Opened(env.ct, Prekey(p))
            m == Mix(s.root, {env.dh, Prekey(p)}, kem)
            ck == ChainOf(m)
            ep == Remember(s, env.dh)
            r == [s EXCEPT !.ckr = ck, !.dhr = env.dh, !.epochs = ep]
            u == [r EXCEPT !.pn = s.ns, !.ns = 0]
            t == EstablishFirst(p, s, env, e)
<1>1. /\ s \in Session /\ s.root \in Root /\ s.nr = 0 /\ s.ns \in Nat
      /\ env.dh \in KeyPair /\ env.ct \in Ciphertext /\ Prekey(p) \in KeyPair
      /\ Len(s.root.secrets) \in Nat
  <2>1. s \in Session /\ s.nr = 0
    BY DEF WellFormed
  <2>2. s.root \in Root /\ s.ns \in Nat
    BY <2>1 DEF Session
  <2>3. Len(s.root.secrets) \in Nat
    BY <2>2, LenProperties DEF Root
  <2>4. env.dh \in KeyPair /\ env.ct \in Ciphertext
    BY DEF WellSealed, EnvelopeType
  <2>. QED  BY <2>1, <2>2, <2>3, <2>4, PrekeyType
<1>2. kem \in Ciphertext \cup (KeyPair \X Ciphertext)
  BY <1>1, OpenedType
<1>3. m \in Root /\ m.otk = s.root.otk /\ ck \in Chain
  BY <1>1, <1>2, MixType
<1>4. ck.at = 0
  BY DEF ChainOf
<1>5. ep \in Seq(KeyPair) /\ Len(ep) <= MaxEpochs
  BY <1>1, RememberType
<1>6. t = IF ~AnswersFirst(p, s) THEN r ELSE IF s.cks = None THEN SendStep(r, e) ELSE SendStep(u, e)
  BY DEF EstablishFirst
<1>. HIDE DEF kem, m, ck, ep, t
<1>7. r \in Session /\ u \in Session
  BY <1>1, <1>3, <1>5 DEF Session
<1>8. /\ r.ckr = ck /\ r.dhr = env.dh /\ r.epochs = ep /\ r.cks = s.cks /\ r.root = s.root
      /\ r.dhs = s.dhs /\ r.ct = s.ct /\ r.ns = s.ns /\ r.nr = s.nr /\ r.skipped = s.skipped
      /\ r.isFirst = s.isFirst /\ r.firstBuilt = s.firstBuilt
      /\ u.ckr = ck /\ u.dhr = env.dh /\ u.epochs = ep /\ u.root = s.root /\ u.ns = 0 /\ u.nr = s.nr
      /\ u.skipped = s.skipped /\ u.isFirst = s.isFirst /\ u.firstBuilt = s.firstBuilt
  BY <1>1 DEF Session
<1>. HIDE DEF r, u
<1>9. Len(s.skipped) <= MaxKept /\ (s.cks = None => s.ns = 0)
      /\ (s.cks # None => s.dhs \in KeyPair /\ s.ct \in Ciphertext /\ s.cks.at = s.ns)
  BY DEF WellFormed
<1>10. r.ckr # None
  BY <1>3, <1>8, NoneIsNoChain
<1>11. /\ WellFormed(t) /\ t.cks \in Chain /\ t.isFirst = s.isFirst /\ t.firstBuilt = s.firstBuilt
       /\ t.ckr = ck /\ t.skipped = s.skipped /\ t.nr = 0
       /\ t.root.otk = s.root.otk /\ Len(t.root.secrets) >= Len(s.root.secrets)
  <2>1. CASE ~AnswersFirst(p, s)
    <3>1. s.cks # None /\ t = r
      BY <1>6, <2>1 DEF AnswersFirst
    <3>2. WellFormed(r)
      BY <3>1, <1>1, <1>4, <1>5, <1>7, <1>8, <1>9, <1>10 DEF WellFormed
    <3>3. r.cks \in Chain
      BY <3>1, <1>7, <1>8 DEF Session
    <3>. QED  BY <3>1, <3>2, <3>3, <1>1, <1>8
  <2>2. CASE AnswersFirst(p, s) /\ s.cks = None
    <3>1. t = SendStep(r, e)
      BY <1>6, <2>2
    <3>2. r.dhr \in KeyPair /\ r.ns = 0 /\ (IF r.ckr = None THEN r.nr = 0 ELSE r.ckr.at = r.nr)
          /\ Len(r.skipped) <= MaxKept /\ Len(r.epochs) <= MaxEpochs
      BY <2>2, <1>1, <1>4, <1>5, <1>8, <1>9, <1>10
    <3>3. /\ WellFormed(t) /\ t.cks \in Chain /\ t.isFirst = r.isFirst /\ t.firstBuilt = r.firstBuilt /\ t.ckr = r.ckr
          /\ t.skipped = r.skipped /\ t.nr = r.nr /\ t.root.otk = r.root.otk
          /\ Len(t.root.secrets) = Len(r.root.secrets) + 1
      BY <3>1, <3>2, <1>7, SendStepType
    <3>. QED  BY <3>3, <1>1, <1>8
  <2>3. CASE AnswersFirst(p, s) /\ s.cks # None
    <3>1. t = SendStep(u, e)
      BY <1>6, <2>3
    <3>2. u.dhr \in KeyPair /\ u.ns = 0 /\ (IF u.ckr = None THEN u.nr = 0 ELSE u.ckr.at = u.nr)
          /\ Len(u.skipped) <= MaxKept /\ Len(u.epochs) <= MaxEpochs
      BY <1>1, <1>4, <1>5, <1>8, <1>9, <1>10
    <3>3. /\ WellFormed(t) /\ t.cks \in Chain /\ t.isFirst = u.isFirst /\ t.firstBuilt = u.firstBuilt /\ t.ckr = u.ckr
          /\ t.skipped = u.skipped /\ t.nr = u.nr /\ t.root.otk = u.root.otk
          /\ Len(t.root.secrets) = Len(u.root.secrets) + 1
      BY <3>1, <3>2, <1>7, SendStepType
    <3>. QED  BY <3>3, <1>1, <1>8
  <2>. QED  BY <2>1, <2>2, <2>3
<1>. QED  BY <1>3, <1>11 DEF t, m, ck, kem, FirstRoot

\* A new epoch mixes two pairs of secrets into the root: one for the receiving
\* chain, and one for the sending chain.
LEMMA RatchetType ==
  ASSUME NEW s, WellFormed(s), s.dhs \in KeyPair,
         NEW env, WellSealed(env), env.ct \in Ciphertext, NEW e \in KeyPair
  PROVE  LET t == DHRatchet(s, env, e)
             m == NextRoot(s, env)
         IN /\ WellFormed(t) /\ t.cks \in Chain /\ t.isFirst = s.isFirst /\ t.firstBuilt = s.firstBuilt
            /\ m \in Root /\ t.ckr = ChainOf(m) /\ t.skipped = s.skipped
            /\ t.root.otk = s.root.otk /\ Len(t.root.secrets) > Len(s.root.secrets)
            /\ Len(t.root.secrets) > Len(m.secrets)
<1>. DEFINE kem == Opened(env.ct, s.dhs)
            m == Mix(s.root, {s.dhs, env.dh}, kem)
            ck == ChainOf(m)
            ep == Remember(s, env.dh)
            r == [s EXCEPT !.pn = s.ns, !.ns = 0, !.nr = 0, !.dhr = env.dh,
                     !.epochs = ep, !.root = m, !.ckr = ck]
            t == DHRatchet(s, env, e)
<1>1. /\ s \in Session /\ s.root \in Root /\ s.ns \in Nat /\ Len(s.skipped) <= MaxKept
      /\ env.dh \in KeyPair /\ Len(s.root.secrets) \in Nat
  <2>1. s \in Session /\ Len(s.skipped) <= MaxKept
    BY DEF WellFormed
  <2>2. s.root \in Root /\ s.ns \in Nat
    BY <2>1 DEF Session
  <2>3. Len(s.root.secrets) \in Nat
    BY <2>2, LenProperties DEF Root
  <2>4. env.dh \in KeyPair
    BY DEF WellSealed, EnvelopeType
  <2>. QED  BY <2>1, <2>2, <2>3, <2>4
<1>2. kem \in Ciphertext \cup (KeyPair \X Ciphertext)
  BY OpenedType
<1>3. m \in Root /\ m.otk = s.root.otk /\ ck \in Chain /\ Len(m.secrets) = Len(s.root.secrets) + 1
  BY <1>1, <1>2, MixType
<1>4. ck.at = 0
  BY DEF ChainOf
<1>5. ep \in Seq(KeyPair) /\ Len(ep) <= MaxEpochs
  BY <1>1, RememberType
<1>6. t = SendStep(r, e)
  BY DEF DHRatchet
<1>. HIDE DEF kem, m, ck, ep, t
<1>7. r \in Session
  BY <1>1, <1>3, <1>5 DEF Session
<1>8. /\ r.ckr = ck /\ r.dhr = env.dh /\ r.epochs = ep /\ r.root = m
      /\ r.ns = 0 /\ r.nr = 0 /\ r.skipped = s.skipped /\ r.isFirst = s.isFirst /\ r.firstBuilt = s.firstBuilt
  BY <1>1 DEF Session
<1>. HIDE DEF r
<1>9. r.dhr \in KeyPair /\ r.ns = 0 /\ (IF r.ckr = None THEN r.nr = 0 ELSE r.ckr.at = r.nr)
      /\ Len(r.skipped) <= MaxKept /\ Len(r.epochs) <= MaxEpochs
  BY <1>1, <1>4, <1>5, <1>8
<1>10. /\ WellFormed(t) /\ t.cks \in Chain /\ t.isFirst = s.isFirst /\ t.firstBuilt = s.firstBuilt
       /\ t.ckr = ck /\ t.skipped = s.skipped
       /\ t.root.otk = s.root.otk /\ Len(t.root.secrets) = Len(m.secrets) + 1
  BY <1>3, <1>6, <1>7, <1>8, <1>9, SendStepType
<1>11. Len(t.root.secrets) > Len(s.root.secrets) /\ Len(t.root.secrets) > Len(m.secrets)
  BY <1>1, <1>3, <1>10
<1>. QED  BY <1>3, <1>10, <1>11 DEF t, m, ck, kem, NextRoot

\* A session from which an envelope can be decrypted at all.
LEMMA TurnedType ==
  ASSUME NEW p \in Party, NEW s, WellFormed(s), NEW env, WellSealed(env), NEW e \in KeyPair,
         env.first => s.ckr = None,
         ~env.first /\ NewEpoch(s, env) => s.dhs # None /\ env.ct # None
  PROVE  LET t == Turned(p, s, env, e) IN
         /\ WellFormed(t) /\ t.isFirst = s.isFirst /\ t.firstBuilt = s.firstBuilt /\ t.root.otk = s.root.otk
         /\ s.cks \in Chain => t.cks \in Chain
         /\ s.ckr \in Chain => t.ckr \in Chain
         /\ env.first => t.ckr \in Chain /\ t.ckr.root.otk = s.root.otk /\ t.cks \in Chain
<1>. DEFINE t == Turned(p, s, env, e)
<1>0. s \in Session /\ (env.ct # None => env.ct \in Ciphertext) /\ env.pn \in Nat
  BY DEF WellFormed, WellSealed, EnvelopeType
<1>1. CASE env.first
  <2>1. t = EstablishFirst(p, s, env, e)
    BY <1>1 DEF Turned
  <2>. DEFINE m == FirstRoot(p, s, env)
  <2>2. /\ WellFormed(EstablishFirst(p, s, env, e)) /\ EstablishFirst(p, s, env, e).cks \in Chain
        /\ EstablishFirst(p, s, env, e).isFirst = s.isFirst /\ EstablishFirst(p, s, env, e).firstBuilt = s.firstBuilt
        /\ m \in Root /\ m.otk = s.root.otk /\ EstablishFirst(p, s, env, e).ckr = ChainOf(m)
        /\ EstablishFirst(p, s, env, e).root.otk = s.root.otk
    BY <1>1, EstablishType
  <2>. HIDE DEF m, t
  <2>3. ChainOf(m) \in Chain /\ ChainOf(m).root = m
    BY <2>2 DEF ChainOf, Chain
  <2>4. /\ WellFormed(t) /\ t.isFirst = s.isFirst /\ t.firstBuilt = s.firstBuilt /\ t.root.otk = s.root.otk
        /\ t.ckr \in Chain /\ t.ckr.root.otk = s.root.otk /\ t.cks \in Chain
    BY <2>1, <2>2, <2>3
  <2>. QED  BY <2>4 DEF t
<1>2. CASE ~env.first /\ NewEpoch(s, env)
  <2>. DEFINE u == Skip(s, env.pn)
  <2>1. t = DHRatchet(u, env, e)
    BY <1>2 DEF Turned
  <2>2. /\ WellFormed(u) /\ u.cks = s.cks /\ u.root = s.root /\ u.dhs = s.dhs
        /\ u.isFirst = s.isFirst /\ u.firstBuilt = s.firstBuilt
    BY <1>0, SkipType
  <2>3. s.dhs \in KeyPair /\ env.ct \in Ciphertext
    BY <1>0, <1>2 DEF Session
  <2>. DEFINE m == NextRoot(u, env)
  <2>4. u.dhs \in KeyPair
    BY <2>2, <2>3
  <2>. HIDE DEF u
  <2>5. /\ WellFormed(DHRatchet(u, env, e)) /\ DHRatchet(u, env, e).cks \in Chain
        /\ DHRatchet(u, env, e).isFirst = u.isFirst /\ DHRatchet(u, env, e).firstBuilt = u.firstBuilt
        /\ m \in Root /\ DHRatchet(u, env, e).ckr = ChainOf(m)
        /\ DHRatchet(u, env, e).root.otk = u.root.otk
    BY <2>2, <2>3, <2>4, RatchetType
  <2>. HIDE DEF m, t
  <2>6. ChainOf(m) \in Chain
    BY <2>5 DEF ChainOf, Chain
  <2>7. /\ WellFormed(t) /\ t.isFirst = s.isFirst /\ t.firstBuilt = s.firstBuilt /\ t.root.otk = s.root.otk
        /\ t.ckr \in Chain /\ t.cks \in Chain
    BY <2>1, <2>2, <2>5, <2>6
  <2>. QED  BY <1>2, <2>7 DEF t
<1>3. CASE ~env.first /\ ~NewEpoch(s, env)
  <2>1. t = s
    BY <1>3 DEF Turned
  <2>. QED  BY <1>3, <2>1
<1>. QED  BY <1>1, <1>2, <1>3

\* An envelope of an epoch that is not begun by the present key pairs is decrypted
\* only with a key pair of one's own and a KEM ciphertext, a first message only
\* when no chain of the peer is known.
LEMMA NotRefused ==
  ASSUME NEW s, NEW env, ~(Refused(s, env) # None)
  PROVE  /\ env.first => s.ckr = None
         /\ (KeptAt(s, env) = {} /\ NewEpoch(s, env)) => s.dhs # None /\ env.ct # None
<1>1. /\ None # "unknown-epoch" /\ None # "duplicate-first" /\ None # "stale-epoch"
      /\ None # "no-session" /\ None # "too-far"
  BY RatchetAssumption
<1>. QED  BY <1>1 DEF Refused

\* The session that used a kept key is without it.
LEMMA DroppedType ==
  ASSUME NEW s, WellFormed(s), NEW i \in 1..Len(s.skipped)
  PROVE  LET t == Dropped(s, i) IN
         /\ WellFormed(t)
         /\ t.cks = s.cks /\ t.ckr = s.ckr /\ t.root = s.root /\ t.isFirst = s.isFirst /\ t.firstBuilt = s.firstBuilt
         /\ t.skipped = Without(s.skipped, i)
<1>. DEFINE w == Without(s.skipped, i)
            t == [s EXCEPT !.skipped = w]
<1>1. s \in Session /\ s.skipped \in Seq(KeptKey)
  BY DEF WellFormed, Session
<1>2. w \in Seq(KeptKey) /\ Len(w) = Len(s.skipped) - 1
  BY <1>1, WithoutSeq
<1>3. Len(w) <= MaxKept
  <2>1. Len(s.skipped) \in Nat /\ Len(s.skipped) <= MaxKept
    BY <1>1, LenProperties DEF WellFormed
  <2>. QED  BY <1>2, <2>1, RatchetAssumption
<1>. HIDE DEF w
<1>4. t \in Session
  BY <1>1, <1>2 DEF Session
<1>5. /\ t.cks = s.cks /\ t.ckr = s.ckr /\ t.root = s.root /\ t.isFirst = s.isFirst /\ t.firstBuilt = s.firstBuilt /\ t.skipped = w
      /\ t.dhs = s.dhs /\ t.ct = s.ct /\ t.ns = s.ns /\ t.dhr = s.dhr /\ t.nr = s.nr
      /\ t.epochs = s.epochs
  BY <1>1 DEF Session
<1>. HIDE DEF t
<1>6. WellFormed(t)
  BY <1>3, <1>4, <1>5 DEF WellFormed
<1>. QED  BY <1>5, <1>6 DEF t, w, Dropped

\* The receiving chain and its counter move together.
LEMMA PassedType ==
  ASSUME NEW s, WellFormed(s), s.ckr \in Chain
  PROVE  LET t == Passed(s) IN
         /\ WellFormed(t)
         /\ t.cks = s.cks /\ t.root = s.root /\ t.isFirst = s.isFirst /\ t.firstBuilt = s.firstBuilt /\ t.skipped = s.skipped
         /\ t.ckr \in Chain /\ t.ckr.root = s.ckr.root /\ t.ckr.at = s.ckr.at + 1
<1>. DEFINE ck == After(s.ckr, 1)
            n == s.nr + 1
            t == [s EXCEPT !.ckr = ck, !.nr = n]
<1>0. s.ckr # None
  BY NoneIsNoChain
<1>1. s \in Session /\ s.dhr \in KeyPair /\ s.ckr.at = s.nr
  BY <1>0 DEF WellFormed
<1>2. n \in Nat /\ s.nr \in Nat
  BY <1>1 DEF Session
<1>3. ck \in Chain /\ ck.root = s.ckr.root /\ ck.at = s.ckr.at + 1
  BY AfterType
<1>4. Passed(s) = t
  BY DEF Passed
<1>5. ck.at = n
  BY <1>1, <1>2, <1>3
<1>. HIDE DEF ck, n
<1>6. t \in Session
  BY <1>1, <1>2, <1>3 DEF Session
<1>7. /\ t.cks = s.cks /\ t.ckr = ck /\ t.root = s.root /\ t.isFirst = s.isFirst /\ t.firstBuilt = s.firstBuilt
      /\ t.skipped = s.skipped /\ t.nr = n
      /\ t.dhs = s.dhs /\ t.ct = s.ct /\ t.ns = s.ns /\ t.dhr = s.dhr /\ t.epochs = s.epochs
  BY <1>1 DEF Session
<1>. HIDE DEF t
<1>8. t.ckr # None
  BY <1>3, <1>7, NoneIsNoChain
<1>9. WellFormed(t)
  BY <1>1, <1>5, <1>6, <1>7, <1>8 DEF WellFormed
<1>. QED  BY <1>3, <1>4, <1>7, <1>9

\* Decryption keeps the type, the prekey and the flags of a session, and once it
\* has a chain of either side it keeps having one.  A first message is decrypted
\* only by a session that knows no chain of the peer and was made with the same
\* prekey.
LEMMA DecryptType ==
  ASSUME NEW p \in Party, NEW s, WellFormed(s), NEW env, WellSealed(env), NEW e \in KeyPair
  PROVE  LET d == Decrypt(p, s, env, e)
             t == d.session
         IN /\ WellFormed(t) /\ t.isFirst = s.isFirst /\ t.firstBuilt = s.firstBuilt /\ t.root.otk = s.root.otk
            /\ s.cks \in Chain => t.cks \in Chain
            /\ s.ckr \in Chain => t.ckr \in Chain
            /\ (d.why = None /\ env.first) =>
                 /\ s.ckr = None /\ env.key.root.otk = s.root.otk
                 /\ t.cks \in Chain /\ t.ckr \in Chain
            /\ d.why \in {"unknown-epoch", "duplicate-first", "stale-epoch", "no-session", "too-far",
                         "wrong-key", None}
<1>. DEFINE d == Decrypt(p, s, env, e)
            Reason == {"unknown-epoch", "duplicate-first", "stale-epoch", "no-session", "too-far",
                       "wrong-key", None}
            Good(t) == /\ WellFormed(t) /\ t.isFirst = s.isFirst /\ t.firstBuilt = s.firstBuilt /\ t.root.otk = s.root.otk
                       /\ s.cks \in Chain => t.cks \in Chain
                       /\ s.ckr \in Chain => t.ckr \in Chain
<1>0. Good(s)
  OBVIOUS
<1>1. CASE Refused(s, env) # None
  <2>1. d.session = s /\ d.why = Refused(s, env)
    BY <1>1, Outcomes DEF Decrypt
  <2>2. Refused(s, env) \in Reason
    BY DEF Refused
  <2>. QED  BY <1>0, <1>1, <2>1, <2>2
<1>2. CASE ~(Refused(s, env) # None) /\ ~env.first /\ KeptAt(s, env) # {}
  <2>. DEFINE i == PlaceOf(s, env)
  <2>1. d = DecryptKept(s, env)
    BY <1>2 DEF Decrypt
  <2>2. i \in 1..Len(s.skipped)
    BY <1>2 DEF KeptAt, PlaceOf
  <2>3. \/ d.why = "wrong-key" /\ d.session = s
        \/ d.why = None /\ d.session = Dropped(s, i)
    BY <2>1, KeptOutcome
  <2>. HIDE DEF i, d
  <2>4. Good(Dropped(s, i))
    BY <2>2, DroppedType
  <2>5. d.why \in Reason /\ Good(d.session)
    BY <1>0, <2>3, <2>4
  <2>. QED  BY <1>2, <2>5 DEF d
<1>3. CASE ~(Refused(s, env) # None) /\ (env.first \/ KeptAt(s, env) = {})
  <2>. DEFINE turned == Turned(p, s, env, e)
              ready  == Skip(turned, env.n)
  <2>1. d = DecryptNext(p, s, env, e)
    BY <1>3 DEF Decrypt
  <2>2. \/ d.why \in {"too-far", "wrong-key"} /\ d.session = s
        \/ ready.ckr = env.key /\ d.why = None /\ d.session = Passed(ready)
    BY <2>1, NextOutcome
  <2>3. /\ env.first => s.ckr = None
        /\ ~env.first /\ NewEpoch(s, env) => s.dhs # None /\ env.ct # None
    BY <1>3, NotRefused
  <2>4. /\ Good(turned)
        /\ env.first => turned.ckr \in Chain /\ turned.ckr.root.otk = s.root.otk /\ turned.cks \in Chain
    BY <2>3, TurnedType
  <2>5. env.n \in Nat /\ env.key \in Chain
    BY DEF WellSealed, EnvelopeType
  <2>. HIDE DEF turned, d
  <2>6. /\ WellFormed(ready) /\ ready.cks = turned.cks /\ ready.root = turned.root
        /\ ready.isFirst = turned.isFirst /\ ready.firstBuilt = turned.firstBuilt
        /\ IF turned.ckr = None THEN ready = turned ELSE ready.ckr \in Chain /\ ready.ckr.root = turned.ckr.root
    BY <2>4, <2>5, SkipType
  <2>. HIDE DEF ready
  <2>7. CASE d.why \in {"too-far", "wrong-key"} /\ d.session = s
    <3>1. d.why \in Reason /\ d.why # None
      BY <2>7, RatchetAssumption
    <3>. QED  BY <1>0, <2>7, <3>1 DEF d
  <2>8. CASE ready.ckr = env.key /\ d.why = None /\ d.session = Passed(ready)
    <3>1. /\ WellFormed(d.session) /\ d.session.cks = ready.cks /\ d.session.root = ready.root
          /\ d.session.isFirst = ready.isFirst /\ d.session.firstBuilt = ready.firstBuilt /\ d.session.ckr \in Chain
      BY <2>5, <2>6, <2>8, PassedType
    <3>2. Good(d.session)
      BY <2>4, <2>6, <3>1
    <3>3. env.first => /\ s.ckr = None /\ env.key.root.otk = s.root.otk
                       /\ d.session.cks \in Chain /\ d.session.ckr \in Chain
      <4>. SUFFICES ASSUME env.first
                    PROVE  /\ s.ckr = None /\ env.key.root.otk = s.root.otk
                           /\ d.session.cks \in Chain /\ d.session.ckr \in Chain
        OBVIOUS
      <4>1. turned.ckr \in Chain /\ turned.ckr.root.otk = s.root.otk /\ turned.cks \in Chain
        BY <2>4
      <4>2. turned.ckr # None
        BY <4>1, NoneIsNoChain
      <4>. QED  BY <2>3, <2>6, <2>8, <3>1, <4>1, <4>2
    <3>. QED  BY <2>8, <3>2, <3>3 DEF d
  <2>. QED  BY <2>2, <2>7, <2>8
<1>. QED  BY <1>1, <1>2, <1>3

------------------------------------------------------------------------------
(* Message keys.  A key is named by the chain key it comes from, so it is    *)
(* new when its chain is new or when its place in the chain is.              *)

\* A chain that p began with a key pair it generated.
OwnChain(p, ck) == IsChain(ck) /\ \E k \in 1..fresh[p] : Born(ck) = <<p, k>>

\* No envelope of the chain is at or past the place of ck.
AheadOfWire(ck) == \A i \in 1..Len(wire) : wire[i].key.root = ck.root => wire[i].key.at < ck.at

\* p may encrypt with the session s.
MayUse(p, s) ==
  s # None => IsSession(s) /\ (s.cks # None => OwnChain(p, s.cks) /\ AheadOfWire(s.cks))

\* The session s will not use the key of ck again.
Past(s, ck) == (s # None /\ s.cks # None /\ s.cks.root = ck.root) => ck.at < s.cks.at

HasEnvelope(p) == job[p].do \in {"persist", "write"}

KeyTypes ==
  /\ DOMAIN up = Party /\ DOMAIN mem = Party /\ DOMAIN disk = Party /\ DOMAIN job = Party
  /\ fresh \in [Party -> Nat]
  /\ IsSeq(wire)

\* Every envelope was encrypted by its sender.
Signed == \A i \in 1..Len(wire) : wire[i].from \in Party /\ OwnChain(wire[i].from, wire[i].key)

\* The envelope a handler is about to send has a key that no other will have.
Pending(p) ==
  HasEnvelope(p) =>
    /\ job[p].arg.from = p
    /\ OwnChain(p, job[p].arg.key) /\ AheadOfWire(job[p].arg.key)
    /\ Past(mem[p], job[p].arg.key)
    /\ job[p].do = "write" => Past(disk[p], job[p].arg.key)

KeyInv ==
  /\ KeyTypes
  /\ \A p \in Party : MayUse(p, mem[p]) /\ MayUse(p, disk[p])
  /\ Signed
  /\ NoKeyReuse
  /\ \A p \in Party : Pending(p)
  /\ \A p \in Party : HasEnvelope(p) => up[p] = "ready"

\* The envelopes that were sent to p.
To(p) == {id \in 1..Len(wire) : wire[id].from = Peer(p)}

\* A one-time prekey of the peer of p, or none.
Addressed(p, otk) == otk # None => otk[1] = Peer(p)

\* The parties but p and what they have stay as they are.
OthersKeep(p) ==
  /\ DOMAIN mem' = DOMAIN mem /\ DOMAIN disk' = DOMAIN disk /\ DOMAIN job' = DOMAIN job
  /\ DOMAIN up' = DOMAIN up
  /\ \A q \in Party \ {p} : up'[q] = up[q] /\ mem'[q] = mem[q] /\ disk'[q] = disk[q] /\ job'[q] = job[q]

\* The handler of p has no envelope to send.
NothingToSend(p) == job'[p].do \notin {"persist", "write"}

\* What a step of p does to the keys: nothing; a session is read from the file,
\* written to it or forgotten; an envelope is decrypted, encrypted or handed over.
Stays(p) == UNCHANGED <<mem, disk, wire, fresh>> /\ NothingToSend(p)

Forgets(p) == mem'[p] = None /\ UNCHANGED <<disk, wire, fresh>> /\ NothingToSend(p)

Restores(p) == mem'[p] = Restore(disk[p]) /\ UNCHANGED <<disk, wire, fresh>> /\ NothingToSend(p)

SavesSession(p) == disk'[p] = mem[p] /\ UNCHANGED <<mem, wire, fresh>> /\ NothingToSend(p)

Reads(p) ==
  /\ mem[p] # None
  /\ \E id \in To(p) : mem'[p] = Decrypt(p, mem[p], wire[id], Ephemeral(p)).session
  /\ Uses(p, mem'[p])
  /\ UNCHANGED <<disk, wire>> /\ NothingToSend(p)

Encrypts(p) ==
  /\ \E s : /\ \/ s = mem[p] /\ s # None
               \/ \E otk \in KeyPair \cup {None} : Addressed(p, otk) /\ s = NewSession(otk)
            /\ EncryptText(p, s)
  /\ UNCHANGED <<disk, wire, up>>

Answers(p) ==
  /\ \E id \in To(p) :
       LET env == wire[id]
           d   == Decrypt(p, NewSession(env.otk), env, Ephemeral(p))
       IN /\ env.first /\ d.why = None
          /\ mem'[p] = Sent(d.session) /\ Uses(p, d.session)
          /\ wire' = Append(wire, Envelope(p, d.session, "receipt"))
  /\ UNCHANGED disk /\ NothingToSend(p)

KeyStep(p) ==
  /\ OthersKeep(p)
  /\ \/ Stays(p) \/ Forgets(p) \/ Restores(p) \/ SavesSession(p) \/ Reads(p) \/ Encrypts(p)
     \/ Answers(p) \/ PersistText(p) \/ WriteText(p)

\* The process of a party that sends is ready.
StaysUp(p) == HasEnvelope(p)' => up'[p] = "ready"

\* Two parties never have a chain in common.
LEMMA ChainOwner ==
  ASSUME NEW p, NEW q, NEW a, NEW b, OwnChain(p, a), OwnChain(q, b), a.root = b.root
  PROVE  p = q
BY DEF OwnChain, Born

\* A chain that begins with the key pair p generated last is on no envelope.
LEMMA NewChainAhead ==
  ASSUME KeyInv, NEW p \in Party, NEW ck, IsChain(ck), Born(ck) = Ephemeral(p)
  PROVE  /\ AheadOfWire(ck)
         /\ \A q, b : OwnChain(q, b) /\ q \in Party => b.root # ck.root
<1>1. \A q, b : OwnChain(q, b) /\ q \in Party => b.root # ck.root
  <2>. SUFFICES ASSUME NEW q \in Party, NEW b, OwnChain(q, b), b.root = ck.root PROVE FALSE
    OBVIOUS
  <2>1. PICK k \in 1..fresh[q] : Born(b) = <<q, k>>
    BY DEF OwnChain
  <2>2. <<q, k>> = <<p, fresh[p] + 1>>
    BY <2>1 DEF Born, Ephemeral
  <2>3. fresh[p] \in Nat
    BY DEF KeyInv, KeyTypes
  <2>4. q = p /\ k = fresh[p] + 1
    BY <2>2
  <2>. QED  BY <2>1, <2>3, <2>4
<1>2. \A i \in 1..Len(wire) : wire[i].key.root # ck.root
  BY <1>1 DEF KeyInv, Signed
<1>. QED  BY <1>1, <1>2 DEF AheadOfWire

\* Only more key pairs are generated.
LEMMA OwnChainStays ==
  ASSUME KeyInv, KeyTypes', \A p \in Party : fresh[p] <= fresh'[p]
  PROVE  \A p \in Party : \A ck : OwnChain(p, ck) => OwnChain(p, ck)'
<1>. SUFFICES ASSUME NEW p \in Party, NEW ck, OwnChain(p, ck) PROVE OwnChain(p, ck)'
  OBVIOUS
<1>1. PICK k \in 1..fresh[p] : Born(ck) = <<p, k>>
  BY DEF OwnChain
<1>2. k \in 1..fresh'[p]
  BY DEF KeyInv, KeyTypes
<1>. QED  BY <1>1, <1>2 DEF OwnChain

\* A new envelope leaves the chains ahead that are past its key.
LEMMA AheadGrows ==
  ASSUME IsSeq(wire), NEW env, wire' = Append(wire, env),
         NEW ck, AheadOfWire(ck), env.key.root = ck.root => env.key.at < ck.at
  PROVE  AheadOfWire(ck)'
<1>1. Len(wire') = Len(wire) + 1 /\ Len(wire) \in Nat /\ wire'[Len(wire) + 1] = env
      /\ \A i \in 1..Len(wire) : wire'[i] = wire[i]
  BY AppendSeq
<1>. SUFFICES ASSUME NEW i \in 1..Len(wire'), wire'[i].key.root = ck.root
              PROVE  wire'[i].key.at < ck.at
  BY DEF AheadOfWire
<1>. QED  BY <1>1 DEF AheadOfWire

\* What a step of p that hands no envelope over must do for the invariant.
LEMMA QuietStep ==
  ASSUME KeyInv, KeyTypes', wire' = wire, \A q \in Party : fresh[q] <= fresh'[q],
         NEW p \in Party, OthersKeep(p), StaysUp(p),
         MayUse(p, mem[p])', MayUse(p, disk[p])', Pending(p)'
  PROVE  KeyInv'
<1>1. \A q \in Party : \A ck : OwnChain(q, ck) => OwnChain(q, ck)'
  BY OwnChainStays
<1>2. \A ck : AheadOfWire(ck) => AheadOfWire(ck)'
  BY DEF AheadOfWire
<1>3. \A q \in Party : \A s : MayUse(q, s) => MayUse(q, s)'
  BY <1>1, <1>2 DEF MayUse
<1>4. ASSUME NEW q \in Party \ {p}
      PROVE  MayUse(q, mem[q])' /\ MayUse(q, disk[q])' /\ Pending(q)'
             /\ (HasEnvelope(q)' => up'[q] = "ready")
  <2>1. mem'[q] = mem[q] /\ disk'[q] = disk[q] /\ job'[q] = job[q] /\ up'[q] = up[q]
    BY DEF OthersKeep
  <2>2. MayUse(q, mem[q])' /\ MayUse(q, disk[q])'
    BY <1>3, <2>1 DEF KeyInv
  <2>3. Pending(q)'
    BY <1>1, <1>2, <2>1 DEF Pending, KeyInv, HasEnvelope, Past
  <2>4. HasEnvelope(q)' => up'[q] = "ready"
    BY <2>1 DEF KeyInv, HasEnvelope
  <2>. QED  BY <2>2, <2>3, <2>4
<1>5. Signed' /\ NoKeyReuse'
  BY <1>1 DEF KeyInv, Signed, NoKeyReuse
<1>6. \A q \in Party : MayUse(q, mem[q])' /\ MayUse(q, disk[q])' /\ Pending(q)'
                      /\ (HasEnvelope(q)' => up'[q] = "ready")
  BY <1>4 DEF StaysUp
<1>. QED  BY <1>5, <1>6 DEF KeyInv

\* And what one must do that hands the envelope env over.
LEMMA WireStep ==
  ASSUME KeyInv, KeyTypes', \A q \in Party : fresh[q] <= fresh'[q],
         NEW p \in Party, OthersKeep(p), StaysUp(p),
         NEW env, wire' = Append(wire, env), env.from = p,
         OwnChain(p, env.key)', AheadOfWire(env.key),
         MayUse(p, mem[p])', MayUse(p, disk[p])', Pending(p)'
  PROVE  KeyInv'
<1>1. \A q \in Party : \A ck : OwnChain(q, ck) => OwnChain(q, ck)'
  BY OwnChainStays
<1>2. \A q \in Party \ {p} : \A ck : OwnChain(q, ck) => env.key.root # ck.root
  <2>. SUFFICES ASSUME NEW q \in Party \ {p}, NEW ck, OwnChain(q, ck), env.key.root = ck.root
                PROVE  FALSE
    OBVIOUS
  <2>1. OwnChain(q, ck)'
    BY <1>1
  <2>. QED  BY <2>1 DEF OwnChain, Born
<1>3. ASSUME NEW q \in Party \ {p}, NEW ck, OwnChain(q, ck), AheadOfWire(ck)
      PROVE  OwnChain(q, ck)' /\ AheadOfWire(ck)'
  BY <1>1, <1>2, <1>3, AheadGrows DEF KeyInv, KeyTypes
<1>4. ASSUME NEW q \in Party \ {p}, NEW s, MayUse(q, s)
      PROVE  MayUse(q, s)'
  BY <1>3, <1>4 DEF MayUse
<1>5. ASSUME NEW q \in Party \ {p}
      PROVE  MayUse(q, mem[q])' /\ MayUse(q, disk[q])' /\ Pending(q)'
             /\ (HasEnvelope(q)' => up'[q] = "ready")
  <2>1. mem'[q] = mem[q] /\ disk'[q] = disk[q] /\ job'[q] = job[q] /\ up'[q] = up[q]
    BY DEF OthersKeep
  <2>2. MayUse(q, mem[q])' /\ MayUse(q, disk[q])'
    BY <1>4, <2>1 DEF KeyInv
  <2>3. Pending(q)'
    BY <1>3, <2>1 DEF Pending, KeyInv, HasEnvelope, Past
  <2>4. HasEnvelope(q)' => up'[q] = "ready"
    BY <2>1 DEF KeyInv, HasEnvelope
  <2>. QED  BY <2>2, <2>3, <2>4
<1>6. Len(wire') = Len(wire) + 1 /\ Len(wire) \in Nat /\ wire'[Len(wire) + 1] = env
      /\ \A i \in 1..Len(wire) : wire'[i] = wire[i]
  BY AppendSeq DEF KeyInv, KeyTypes
<1>7. Signed'
  BY <1>1, <1>6 DEF KeyInv, Signed
<1>8. NoKeyReuse'
  <2>1. env.key.at \in Nat
    BY DEF OwnChain, IsChain
  <2>2. \A i \in 1..Len(wire) : wire[i].key # env.key
    BY <2>1 DEF AheadOfWire
  <2>. QED  BY <1>6, <2>2 DEF KeyInv, NoKeyReuse
<1>9. \A q \in Party : MayUse(q, mem[q])' /\ MayUse(q, disk[q])' /\ Pending(q)'
                      /\ (HasEnvelope(q)' => up'[q] = "ready")
  BY <1>5 DEF StaysUp
<1>. QED  BY <1>7, <1>8, <1>9 DEF KeyInv

\* While no envelope is handed over, what a party may use it may still use.
LEMMA QuietChains ==
  ASSUME KeyInv, KeyTypes', wire' = wire, \A q \in Party : fresh[q] <= fresh'[q]
  PROVE  /\ \A q \in Party : \A ck : OwnChain(q, ck) => OwnChain(q, ck)'
         /\ \A ck : AheadOfWire(ck) => AheadOfWire(ck)'
         /\ \A q \in Party : \A s : MayUse(q, s) => MayUse(q, s)'
<1>1. \A q \in Party : \A ck : OwnChain(q, ck) => OwnChain(q, ck)'
  BY OwnChainStays
<1>2. \A ck : AheadOfWire(ck) => AheadOfWire(ck)'
  BY DEF AheadOfWire
<1>3. \A q \in Party : \A s : MayUse(q, s) => MayUse(q, s)'
  BY <1>1, <1>2 DEF MayUse
<1>. QED  BY <1>1, <1>2, <1>3

\* Only the steps that generate a key pair change fresh.
LEMMA FreshGrows ==
  ASSUME KeyInv, NEW p \in Party, NEW t,
         fresh' = fresh \/ Uses(p, t)
  PROVE  /\ fresh' \in [Party -> Nat]
         /\ \A q \in Party : fresh[q] <= fresh'[q]
         /\ Uses(p, t) /\ t.dhs = Ephemeral(p) => fresh'[p] = fresh[p] + 1
<1>1. fresh \in [Party -> Nat]
  BY DEF KeyInv, KeyTypes
<1>. QED  BY <1>1 DEF Uses

\* A session that took over the chain of s or began one may be used as well.
LEMMA RenewedMayUse ==
  ASSUME KeyInv, NEW p \in Party, NEW s, s # None, MayUse(p, s),
         NEW t, IsSession(t), Renews(s, t, Ephemeral(p)), Uses(p, t)
  PROVE  t.cks # None => OwnChain(p, t.cks)' /\ AheadOfWire(t.cks)
<1>0. fresh' \in [Party -> Nat] /\ \A q \in Party : fresh[q] <= fresh'[q]
  BY FreshGrows
<1>1. CASE t.cks = s.cks /\ t.cks # None
  <2>1. OwnChain(p, t.cks) /\ AheadOfWire(t.cks)
    BY <1>1 DEF MayUse
  <2>2. PICK k \in 1..fresh[p] : Born(t.cks) = <<p, k>>
    BY <2>1 DEF OwnChain
  <2>3. k \in 1..fresh'[p]
    BY <1>0 DEF KeyInv, KeyTypes
  <2>. QED  BY <2>1, <2>2, <2>3 DEF OwnChain
<1>2. CASE t.dhs = Ephemeral(p) /\ IsChain(t.cks) /\ Born(t.cks) = Ephemeral(p)
  <2>1. fresh'[p] = fresh[p] + 1 /\ fresh[p] \in Nat
    BY <1>2, FreshGrows DEF KeyInv, KeyTypes
  <2>2. OwnChain(p, t.cks)'
    BY <1>2, <2>1 DEF OwnChain, Ephemeral
  <2>. QED  BY <1>2, <2>2, NewChainAhead
<1>. QED  BY <1>1, <1>2 DEF Renews

\* Every step that has one of these effects keeps the invariant.
LEMMA KeyStepKeeps ==
  ASSUME KeyInv, NEW p \in Party, KeyStep(p), StaysUp(p)
  PROVE  KeyInv'
<1>0. /\ DOMAIN up' = Party /\ DOMAIN mem' = Party /\ DOMAIN disk' = Party /\ DOMAIN job' = Party
      /\ fresh \in [Party -> Nat] /\ IsSeq(wire)
      /\ MayUse(p, mem[p]) /\ MayUse(p, disk[p]) /\ Pending(p)
  BY DEF KeyInv, KeyStep, OthersKeep, KeyTypes
<1>1. OthersKeep(p)
  BY DEF KeyStep
<1>2. CASE NothingToSend(p) /\ wire' = wire /\ fresh' = fresh /\ mem'[p] \in {mem[p], None, Restore(disk[p])}
           /\ disk'[p] \in {disk[p], mem[p]}
  <2>1. KeyTypes' /\ \A q \in Party : fresh[q] <= fresh'[q]
    BY <1>0, <1>2 DEF KeyTypes
  <2>2. MayUse(p, mem[p]) /\ MayUse(p, disk[p]) /\ MayUse(p, None) /\ MayUse(p, Restore(disk[p]))
    <3>1. CASE disk[p] = None
      BY <1>0, <3>1 DEF Restore, MayUse
    <3>2. CASE disk[p] # None
      BY <1>0, <3>2, RestoreKeeps DEF MayUse
    <3>. QED  BY <1>0, <3>1, <3>2 DEF MayUse
  <2>3. MayUse(p, mem[p])' /\ MayUse(p, disk[p])'
    BY <1>2, <2>1, <2>2, QuietChains
  <2>4. Pending(p)'
    BY <1>2 DEF Pending, HasEnvelope, NothingToSend
  <2>. QED  BY <1>1, <1>2, <2>1, <2>3, <2>4, QuietStep
<1>3. CASE Reads(p)
  <2>1. PICK env, t : t = mem'[p] /\ t = Decrypt(p, mem[p], env, Ephemeral(p)).session
    BY <1>3 DEF Reads
  <2>2. mem[p] # None /\ Uses(p, t) /\ disk' = disk /\ wire' = wire /\ NothingToSend(p)
    BY <1>3, <2>1 DEF Reads
  <2>3. IsSession(mem[p])
    BY <1>0, <2>2 DEF MayUse
  <2>4. IsSession(t) /\ Renews(mem[p], t, Ephemeral(p))
    BY <2>1, <2>3, DecryptRenews
  <2>5. fresh' \in [Party -> Nat] /\ \A q \in Party : fresh[q] <= fresh'[q]
    BY <2>2, FreshGrows
  <2>6. KeyTypes'
    BY <1>0, <2>2, <2>5 DEF KeyTypes
  <2>7. t.cks # None => OwnChain(p, t.cks)' /\ AheadOfWire(t.cks)
    BY <1>0, <2>2, <2>4, RenewedMayUse
  <2>8. AheadOfWire(t.cks) => AheadOfWire(t.cks)'
    BY <2>2, <2>5, <2>6, QuietChains
  <2>9. MayUse(p, t)'
    BY <2>4, <2>7, <2>8 DEF MayUse
  <2>10. MayUse(p, mem[p])' /\ MayUse(p, disk[p])'
    BY <1>0, <2>1, <2>2, <2>5, <2>6, <2>9, QuietChains
  <2>11. Pending(p)'
    BY <2>2 DEF Pending, HasEnvelope, NothingToSend
  <2>. QED  BY <1>1, <2>2, <2>5, <2>6, <2>10, <2>11, QuietStep
<1>4. CASE Encrypts(p)
  <2>1. PICK s : ((s = mem[p] /\ s # None) \/ \E otk : s = NewSession(otk)) /\ EncryptText(p, s)
    BY <1>4 DEF Encrypts
  <2>0. PICK u, a : u = Sending(p, s, Ephemeral(p)) /\ a = Envelope(p, u, "text")
    OBVIOUS
  <2>2. disk' = disk /\ wire' = wire /\ Uses(p, u) /\ mem'[p] = Sent(u)
        /\ job'[p].do = "persist" /\ job'[p].arg = a
    BY <1>0, <1>4, <2>0, <2>1 DEF Encrypts, EncryptText, Busy, KeyInv, KeyTypes
  <2>3. a.from = p /\ a.key = u.cks
    BY <2>0 DEF Envelope
  <2>4. IsSession(s) /\ (s.cks # None => OwnChain(p, s.cks) /\ AheadOfWire(s.cks))
    BY <1>0, <2>1, NewIsSession DEF MayUse
  <2>5. IsSession(u) /\ IsChain(u.cks) /\ Renews(s, u, Ephemeral(p))
        /\ (s.cks = None => u.dhs = Ephemeral(p) /\ Born(u.cks) = Ephemeral(p))
    BY <2>0, <2>4, SendingRenews
  <2>6. fresh' \in [Party -> Nat] /\ (\A q \in Party : fresh[q] <= fresh'[q])
        /\ (u.dhs = Ephemeral(p) => fresh'[p] = fresh[p] + 1)
    BY <2>2, FreshGrows
  <2>7. KeyTypes'
    BY <1>0, <2>2, <2>6 DEF KeyTypes
  <2>8. OwnChain(p, u.cks)' /\ AheadOfWire(u.cks)
    <3>1. CASE u.cks = s.cks /\ s.cks # None
      BY <3>1, <2>2, <2>4, <2>6, <2>7, QuietChains
    <3>2. CASE u.dhs = Ephemeral(p) /\ Born(u.cks) = Ephemeral(p)
      <4>1. OwnChain(p, u.cks)'
        BY <3>2, <2>5, <2>6, <1>0 DEF OwnChain, Ephemeral
      <4>. QED  BY <3>2, <4>1, <2>5, NewChainAhead
    <3>. QED  BY <3>1, <3>2, <2>5 DEF Renews
  <2>9. IsSession(Sent(u)) /\ IsChain(Sent(u).cks)
        /\ Sent(u).cks.root = u.cks.root /\ Sent(u).cks.at = u.cks.at + 1
    BY <2>5, SentAdvances
  <2>10. OwnChain(p, Sent(u).cks)' /\ AheadOfWire(Sent(u).cks)'
    <3>0. Born(Sent(u).cks) = Born(u.cks)
      BY <2>9 DEF Born
    <3>1. OwnChain(p, Sent(u).cks)'
      BY <2>8, <2>9, <3>0 DEF OwnChain
    <3>2. AheadOfWire(Sent(u).cks)
      <4>1. \A i \in 1..Len(wire) : wire[i].key.at \in Nat
        BY DEF KeyInv, Signed, OwnChain, IsChain
      <4>. QED  BY <2>5, <2>8, <2>9, <4>1 DEF AheadOfWire, IsChain
    <3>. QED  BY <3>1, <3>2, <2>2, <2>6, <2>7, QuietChains
  <2>11. MayUse(p, mem[p])' /\ MayUse(p, disk[p])'
    <3>1. MayUse(p, Sent(u))'
      BY <2>9, <2>10 DEF MayUse
    <3>. QED  BY <1>0, <3>1, <2>2, <2>6, <2>7, QuietChains
  <2>12. Pending(p)'
    <3>1. AheadOfWire(u.cks)'
      BY <2>2, <2>6, <2>7, <2>8, QuietChains
    <3>2. Past(Sent(u), u.cks)
      BY <2>5, <2>9 DEF Past, IsChain
    <3>. QED  BY <3>1, <3>2, <2>2, <2>3, <2>8 DEF Pending, HasEnvelope, Past
  <2>. QED  BY <1>1, <2>2, <2>6, <2>7, <2>11, <2>12, QuietStep
<1>5. CASE Answers(p)
  <2>1. PICK otk, env :
          LET d == Decrypt(p, NewSession(otk), env, Ephemeral(p)) IN
          /\ env.first /\ d.why = None
          /\ mem'[p] = Sent(d.session) /\ Uses(p, d.session)
          /\ wire' = Append(wire, Envelope(p, d.session, "receipt"))
    <3>1. PICK id \in To(p) :
            LET d == Decrypt(p, NewSession(wire[id].otk), wire[id], Ephemeral(p)) IN
            /\ wire[id].first /\ d.why = None
            /\ mem'[p] = Sent(d.session) /\ Uses(p, d.session)
            /\ wire' = Append(wire, Envelope(p, d.session, "receipt"))
      BY <1>5 DEF Answers
    <3>. QED  BY <3>1
  <2>0. PICK u, a : u = Decrypt(p, NewSession(otk), env, Ephemeral(p)).session
                   /\ a = Envelope(p, u, "receipt")
    OBVIOUS
  <2>2. disk' = disk /\ wire' = Append(wire, a) /\ Uses(p, u) /\ mem'[p] = Sent(u)
        /\ NothingToSend(p)
    BY <1>5, <2>0, <2>1 DEF Answers
  <2>3. a.from = p /\ a.key = u.cks
    BY <2>0 DEF Envelope
  <2>4. IsSession(u) /\ u.dhs = Ephemeral(p) /\ IsChain(u.cks) /\ Born(u.cks) = Ephemeral(p)
    BY <2>0, <2>1, FirstDecryptRenews
  <2>5. fresh' \in [Party -> Nat] /\ (\A q \in Party : fresh[q] <= fresh'[q])
        /\ fresh'[p] = fresh[p] + 1
    BY <2>2, <2>4, FreshGrows
  <2>6. IsSeq(wire')
    BY <1>0, <2>2, AppendSeq
  <2>7. KeyTypes'
    BY <1>0, <2>5, <2>6 DEF KeyTypes
  <2>8. OwnChain(p, u.cks)' /\ AheadOfWire(u.cks)
    BY <1>0, <2>4, <2>5, NewChainAhead DEF OwnChain, Ephemeral
  <2>9. IsSession(Sent(u)) /\ IsChain(Sent(u).cks)
        /\ Sent(u).cks.root = u.cks.root /\ Sent(u).cks.at = u.cks.at + 1
    BY <2>4, SentAdvances
  <2>10. OwnChain(p, Sent(u).cks)' /\ AheadOfWire(Sent(u).cks)'
    <3>0. Born(Sent(u).cks) = Born(u.cks)
      BY <2>9 DEF Born
    <3>1. OwnChain(p, Sent(u).cks)'
      BY <2>8, <2>9, <3>0 DEF OwnChain
    <3>2. \A i \in 1..Len(wire) : wire[i].key.root # u.cks.root
      BY <2>4, NewChainAhead DEF KeyInv, Signed
    <3>3. AheadOfWire(Sent(u).cks) /\ a.key.at < Sent(u).cks.at
      BY <2>3, <2>4, <2>9, <3>2 DEF AheadOfWire, IsChain
    <3>. QED  BY <3>1, <3>3, <1>0, <2>2, AheadGrows
  <2>11. MayUse(p, mem[p])'
    BY <2>2, <2>9, <2>10 DEF MayUse
  <2>12. MayUse(p, disk[p])'
    <3>1. CASE disk[p] # None /\ disk[p].cks # None
      <4>1. OwnChain(p, disk[p].cks) /\ AheadOfWire(disk[p].cks) /\ IsSession(disk[p])
        BY <1>0, <3>1 DEF MayUse
      <4>2. disk[p].cks.root # u.cks.root
        BY <4>1, <2>4, NewChainAhead
      <4>3. AheadOfWire(disk[p].cks)'
        BY <4>1, <4>2, <1>0, <2>2, <2>3, AheadGrows
      <4>4. OwnChain(p, disk[p].cks)'
        <5>. PICK ck : ck = disk[p].cks
          OBVIOUS
        <5>1. OwnChain(p, ck)'
          BY <2>5, <2>7, <4>1, OwnChainStays
        <5>. QED  BY <5>1, <2>2
      <4>. QED  BY <4>1, <4>3, <4>4, <2>2 DEF MayUse
    <3>2. CASE ~(disk[p] # None /\ disk[p].cks # None)
      BY <1>0, <3>2, <2>2 DEF MayUse
    <3>. QED  BY <3>1, <3>2
  <2>13. Pending(p)'
    BY <2>2 DEF Pending, HasEnvelope, NothingToSend
  <2>14. OwnChain(p, a.key)' /\ AheadOfWire(a.key)
    BY <2>3, <2>8
  <2>. QED  BY <1>1, <2>2, <2>3, <2>5, <2>7, <2>11, <2>12, <2>13, <2>14, WireStep
<1>6. CASE PersistText(p)
  <2>1. fresh' = fresh /\ wire' = wire /\ mem' = mem /\ disk'[p] = mem[p] /\ up' = up
        /\ job[p].do = "persist" /\ job'[p].do = "write" /\ job'[p].arg = job[p].arg
    BY <1>6 DEF PersistText, Busy, KeyInv, KeyTypes, relayVars, countVars, historyVars
  <2>2. KeyTypes' /\ \A q \in Party : fresh[q] <= fresh'[q]
    BY <1>0, <2>1 DEF KeyTypes
  <2>3. MayUse(p, mem[p])' /\ MayUse(p, disk[p])'
    BY <1>0, <2>1, <2>2, QuietChains
  <2>4. PICK a : a = job[p].arg
    OBVIOUS
  <2>5. a.from = p /\ OwnChain(p, a.key) /\ AheadOfWire(a.key) /\ Past(mem[p], a.key)
    BY <1>0, <2>1, <2>4 DEF Pending, HasEnvelope
  <2>6. OwnChain(p, a.key)' /\ AheadOfWire(a.key)'
    BY <2>1, <2>2, <2>5, QuietChains
  <2>7. Pending(p)'
    BY <2>1, <2>4, <2>5, <2>6 DEF Pending, HasEnvelope, Past
  <2>. QED  BY <1>1, <2>1, <2>2, <2>3, <2>7, QuietStep
<1>7. CASE WriteText(p)
  <2>0. PICK a : a = job[p].arg
    OBVIOUS
  <2>1. fresh' = fresh /\ wire' = Append(wire, a) /\ mem' = mem /\ disk' = disk
        /\ job[p].do = "write" /\ job'[p] = Idle
    BY <1>7, <2>0 DEF WriteText, Write, Done, KeyInv, KeyTypes, countVars, fileVars
  <2>2. a.from = p /\ OwnChain(p, a.key) /\ AheadOfWire(a.key) /\ Past(mem[p], a.key) /\ Past(disk[p], a.key)
    BY <1>0, <2>0, <2>1 DEF Pending, HasEnvelope
  <2>3. IsSeq(wire')
    BY <1>0, <2>1, AppendSeq
  <2>4. KeyTypes' /\ \A q \in Party : fresh[q] <= fresh'[q]
    BY <1>0, <2>1, <2>3 DEF KeyTypes
  <2>5. \A ck : OwnChain(p, ck) => OwnChain(p, ck)'
    BY <2>4, OwnChainStays
  <2>6. ASSUME NEW s, MayUse(p, s), Past(s, a.key)
        PROVE  MayUse(p, s)'
    <3>1. CASE s # None /\ s.cks # None
      <4>1. AheadOfWire(s.cks)'
        BY <3>1, <2>6, <1>0, <2>1, AheadGrows DEF MayUse, Past
      <4>. QED  BY <3>1, <4>1, <2>5, <2>6 DEF MayUse
    <3>2. CASE ~(s # None /\ s.cks # None)
      BY <3>2, <2>6 DEF MayUse
    <3>. QED  BY <3>1, <3>2
  <2>7. MayUse(p, mem[p])' /\ MayUse(p, disk[p])'
    BY <1>0, <2>1, <2>2, <2>6
  <2>8. Pending(p)'
    BY <2>1 DEF Pending, HasEnvelope, Idle
  <2>9. OwnChain(p, a.key)'
    BY <2>2, <2>5
  <2>. QED  BY <1>1, <2>1, <2>2, <2>4, <2>7, <2>8, <2>9, WireStep
<1>8. CASE Stays(p) \/ Forgets(p) \/ Restores(p) \/ SavesSession(p)
  BY <1>8, <1>2 DEF Stays, Forgets, Restores, SavesSession
<1>. QED  BY <1>3, <1>4, <1>5, <1>6, <1>7, <1>8 DEF KeyStep

\* Nothing has been sent, and there is no session.
LEMMA KeyInit == ASSUME PeersInit PROVE KeyInv
<1>1. wire = <<>> /\ IsSeq(wire) /\ Len(wire) = 0
  BY EmptySeq DEF PeersInit, IsSeq
<1>2. KeyTypes
  BY <1>1 DEF PeersInit, KeyTypes
<1>3. \A p \in Party : MayUse(p, mem[p]) /\ MayUse(p, disk[p]) /\ Pending(p) /\ ~HasEnvelope(p)
  BY DEF PeersInit, MayUse, Pending, HasEnvelope, Idle
<1>. QED  BY <1>1, <1>2, <1>3 DEF KeyInv, Signed, NoKeyReuse

\* A step that changes none of it.
LEMMA KeyStutter ==
  ASSUME KeyInv, UNCHANGED <<up, mem, disk, job, fresh, wire>>
  PROVE  KeyInv'
BY DEF KeyInv, KeyTypes, MayUse, OwnChain, AheadOfWire, Signed, NoKeyReuse, Pending, HasEnvelope, Past

------------------------------------------------------------------------------
(* Sessions.  A session that is kept has sent or answered, and sends no      *)
(* first message again; its sender's first message names a prekey of its     *)
(* peer.                                                                     *)

Stored(p, s) ==
  s # None =>
    /\ WellFormed(s) /\ s.cks \in Chain /\ ~s.isFirst
    /\ s.firstBuilt \/ s.ckr \in Chain
    /\ s.ckr = None => Addressed(p, s.root.otk)

Sealed(env) ==
  /\ WellSealed(env)
  /\ env.first => Addressed(env.from, env.otk) /\ env.key.root.otk = env.otk

SessionInv ==
  /\ \A p \in Party : Stored(p, mem[p]) /\ Stored(p, disk[p])
  /\ \A i \in 1..Len(wire) : Sealed(wire[i])
  /\ \A p \in Party : HasEnvelope(p) => Sealed(job[p].arg)

\* A fresh ephemeral is a key pair.
LEMMA EphemeralType ==
  ASSUME KeyInv, NEW p \in Party
  PROVE  Ephemeral(p) \in KeyPair
<1>1. fresh[p] + 1 \in Nat
  BY DEF KeyInv, KeyTypes
<1>. QED  BY <1>1 DEF Ephemeral, KeyPair

\* Restoring keeps a session's type, and that it sends no first message.
LEMMA RestoreStored ==
  ASSUME NEW p \in Party, NEW s, Stored(p, s)
  PROVE  Stored(p, Restore(s))
<1>1. CASE s = None
  BY <1>1 DEF Restore, Stored
<1>2. CASE s # None
  <2>1. /\ WellFormed(s) /\ s.cks \in Chain /\ (s.firstBuilt \/ s.ckr \in Chain)
        /\ s.ckr = None => Addressed(p, s.root.otk)
    BY <1>2 DEF Stored
  <2>2. /\ WellFormed(Restore(s)) /\ Restore(s).cks = s.cks /\ Restore(s).ckr = s.ckr
        /\ Restore(s).root = s.root /\ Restore(s).firstBuilt = s.firstBuilt
        /\ Restore(s).isFirst = (~s.firstBuilt /\ s.ckr = None)
    BY <1>2, <2>1, RestoreType
  <2>3. ~Restore(s).isFirst
    BY <2>1, <2>2, NoneIsNoChain
  <2>. QED  BY <2>1, <2>2, <2>3 DEF Stored
<1>. QED  BY <1>1, <1>2

\* A text that is encrypted is a first message only in a new session.
LEMMA EncryptStored ==
  ASSUME NEW p \in Party, NEW s, NEW e \in KeyPair,
         \/ s # None /\ Stored(p, s)
         \/ \E otk \in KeyPair \cup {None} : Addressed(p, otk) /\ s = NewSession(otk)
  PROVE  LET u == Sending(p, s, e) IN
         Stored(p, Sent(u)) /\ Sealed(Envelope(p, u, "text"))
<1>. DEFINE u == Sending(p, s, e)
            t == Sent(u)
            a == Envelope(p, u, "text")
<1>1. WellFormed(s)
  BY NewType DEF Stored
<1>2. /\ WellFormed(u) /\ u.cks \in Chain /\ u.root = s.root /\ u.ckr = s.ckr
      /\ s.cks = None => u.cks.root.otk = s.root.otk /\ u.firstBuilt
      /\ s.cks # None => u = s
  BY <1>1, SendingType
<1>3. a.from = p /\ a.first = u.isFirst /\ a.key = u.cks /\ (a.first => a.otk = u.root.otk)
  BY DEF Envelope
<1>. HIDE DEF u
<1>4. /\ WellFormed(t) /\ t.cks \in Chain /\ ~t.isFirst /\ t.firstBuilt = u.firstBuilt
      /\ t.root = u.root /\ t.ckr = u.ckr
  BY <1>2, SentType
<1>5. WellSealed(a)
  BY <1>2, EnvelopeSealed
<1>. HIDE DEF t, a
<1>6. CASE s # None /\ Stored(p, s)
  <2>1. u = s /\ ~s.isFirst /\ (s.firstBuilt \/ s.ckr \in Chain) /\ (s.ckr = None => Addressed(p, s.root.otk))
    BY <1>2, <1>6, NoneIsNoChain DEF Stored
  <2>. QED  BY <1>3, <1>4, <1>5, <2>1 DEF Stored, Sealed, t, u, a
<1>7. ASSUME NEW otk \in KeyPair \cup {None}, Addressed(p, otk), s = NewSession(otk)
      PROVE  Stored(p, t) /\ Sealed(a)
  <2>1. s.cks = None /\ s.root.otk = otk
    BY <1>7, NewIsSession
  <2>. QED  BY <1>2, <1>3, <1>4, <1>5, <1>7, <2>1 DEF Stored, Sealed
<1>. QED  BY <1>6, <1>7 DEF t, u, a

\* An envelope that is read, or refused, leaves a session of the kind.
LEMMA ReadStored ==
  ASSUME NEW p \in Party, NEW s, s # None, Stored(p, s), NEW env, Sealed(env), NEW e \in KeyPair
  PROVE  Stored(p, Decrypt(p, s, env, e).session)
<1>. DEFINE t == Decrypt(p, s, env, e).session
<1>1. /\ WellFormed(s) /\ s.cks \in Chain /\ ~s.isFirst /\ (s.firstBuilt \/ s.ckr \in Chain)
      /\ s.ckr = None => Addressed(p, s.root.otk)
  BY DEF Stored
<1>2. WellSealed(env)
  BY DEF Sealed
<1>3. /\ WellFormed(t) /\ t.isFirst = s.isFirst /\ t.firstBuilt = s.firstBuilt
      /\ t.root.otk = s.root.otk
      /\ s.cks \in Chain => t.cks \in Chain
      /\ s.ckr \in Chain => t.ckr \in Chain
  BY <1>1, <1>2, DecryptType
<1>. HIDE DEF t
<1>4. s.ckr \in Chain \cup {None}
  BY <1>1 DEF WellFormed, Session
<1>5. t.ckr = None => s.ckr = None
  BY <1>3, <1>4, NoneIsNoChain
<1>. QED  BY <1>1, <1>3, <1>5 DEF Stored, t

\* The answer to a first message is no first message, and its session has both
\* chains.
LEMMA AnswerStored ==
  ASSUME NEW p \in Party, NEW env, Sealed(env), env.first, NEW e \in KeyPair,
         Decrypt(p, NewSession(env.otk), env, e).why = None
  PROVE  LET u == Decrypt(p, NewSession(env.otk), env, e).session IN
         Stored(p, Sent(u)) /\ Sealed(Envelope(p, u, "receipt")) /\ Sent(u).ckr \in Chain
<1>. DEFINE s == NewSession(env.otk)
            u == Decrypt(p, s, env, e).session
            t == Sent(u)
            a == Envelope(p, u, "receipt")
<1>1. WellSealed(env) /\ env.otk \in KeyPair \cup {None}
  BY DEF Sealed, WellSealed, EnvelopeType
<1>2. WellFormed(s)
  BY <1>1, NewType
<1>3. ~s.isFirst
  BY DEF NewSession
<1>. HIDE DEF s
<1>4. WellFormed(u) /\ u.isFirst = s.isFirst /\ u.cks \in Chain /\ u.ckr \in Chain
  BY <1>1, <1>2, DecryptType DEF s
<1>5. a.from = p /\ ~a.first
  BY <1>3, <1>4 DEF Envelope
<1>. HIDE DEF u
<1>6. WellFormed(t) /\ t.cks \in Chain /\ ~t.isFirst /\ t.ckr = u.ckr
  BY <1>4, SentType
<1>7. WellSealed(a)
  BY <1>4, EnvelopeSealed
<1>. HIDE DEF t, a
<1>8. Stored(p, t) /\ Sealed(a) /\ t.ckr \in Chain
  BY <1>4, <1>5, <1>6, <1>7, NoneIsNoChain DEF Stored, Sealed
<1>. QED  BY <1>8 DEF t, a, u, s

\* What a step of p must do for the invariant when it hands nothing over, and when
\* it hands env over.
LEMMA SessionQuiet ==
  ASSUME SessionInv, NEW p \in Party, OthersKeep(p),
         wire' = wire \/ \E env : Sealed(env) /\ wire' = Append(wire, env),
         IsSeq(wire),
         Stored(p, mem'[p]), Stored(p, disk'[p]), HasEnvelope(p)' => Sealed(job'[p].arg)
  PROVE  SessionInv'
<1>1. \A q \in Party : Stored(q, mem'[q]) /\ Stored(q, disk'[q])
  BY DEF SessionInv, OthersKeep
<1>2. \A q \in Party : HasEnvelope(q)' => Sealed(job'[q].arg)
  BY DEF SessionInv, OthersKeep, HasEnvelope
<1>3. \A i \in 1..Len(wire') : Sealed(wire'[i])
  <2>1. CASE wire' = wire
    BY <2>1 DEF SessionInv
  <2>2. ASSUME NEW env, Sealed(env), wire' = Append(wire, env)
        PROVE  \A i \in 1..Len(wire') : Sealed(wire'[i])
    <3>1. Len(wire') = Len(wire) + 1 /\ Len(wire) \in Nat /\ wire'[Len(wire) + 1] = env
          /\ \A i \in 1..Len(wire) : wire'[i] = wire[i]
      BY <2>2, AppendSeq
    <3>2. \A i \in 1..Len(wire') : i \in 1..Len(wire) \/ i = Len(wire) + 1
      BY <3>1
    <3>. QED  BY <2>2, <3>1, <3>2 DEF SessionInv
  <2>. QED  BY <2>1, <2>2
<1>. QED  BY <1>1, <1>2, <1>3 DEF SessionInv

\* Every step that has one of the effects named above keeps the invariant.
LEMMA SessionStepKeeps ==
  ASSUME KeyInv, SessionInv, NEW p \in Party, KeyStep(p)
  PROVE  SessionInv'
<1>0. /\ OthersKeep(p) /\ IsSeq(wire) /\ Ephemeral(p) \in KeyPair
      /\ Stored(p, mem[p]) /\ Stored(p, disk[p])
      /\ DOMAIN job = Party
  BY EphemeralType DEF KeyStep, KeyInv, KeyTypes, SessionInv
<1>1. CASE Stays(p) \/ Forgets(p) \/ Restores(p) \/ SavesSession(p)
  <2>1. Stored(p, mem'[p]) /\ Stored(p, disk'[p])
    <3>1. Stored(p, None) /\ Stored(p, Restore(disk[p]))
      BY <1>0, RestoreStored DEF Stored
    <3>. QED  BY <1>0, <1>1, <3>1 DEF Stays, Forgets, Restores, SavesSession
  <2>2. wire' = wire /\ ~HasEnvelope(p)'
    BY <1>1 DEF Stays, Forgets, Restores, SavesSession, NothingToSend, HasEnvelope
  <2>. QED  BY <1>0, <2>1, <2>2, SessionQuiet
<1>2. CASE Reads(p)
  <2>1. PICK id \in To(p) : mem'[p] = Decrypt(p, mem[p], wire[id], Ephemeral(p)).session
    BY <1>2 DEF Reads
  <2>2. mem[p] # None /\ disk' = disk /\ wire' = wire /\ ~HasEnvelope(p)'
    BY <1>2 DEF Reads, NothingToSend, HasEnvelope
  <2>3. Sealed(wire[id])
    BY DEF SessionInv, To
  <2>4. Stored(p, mem'[p])
    BY <1>0, <2>1, <2>2, <2>3, ReadStored
  <2>. QED  BY <1>0, <2>2, <2>4, SessionQuiet
<1>3. CASE Encrypts(p)
  <2>1. PICK s : /\ \/ s = mem[p] /\ s # None
                    \/ \E otk \in KeyPair \cup {None} : Addressed(p, otk) /\ s = NewSession(otk)
                 /\ EncryptText(p, s)
    BY <1>3 DEF Encrypts
  <2>0. PICK u, a : u = Sending(p, s, Ephemeral(p)) /\ a = Envelope(p, u, "text")
    OBVIOUS
  <2>2. disk' = disk /\ wire' = wire /\ mem'[p] = Sent(u) /\ job'[p].arg = a
    BY <1>0, <1>3, <2>0, <2>1 DEF Encrypts, EncryptText, Busy, KeyInv, KeyTypes
  <2>3. Stored(p, Sent(u)) /\ Sealed(a)
    BY <1>0, <2>0, <2>1, EncryptStored
  <2>. QED  BY <1>0, <2>2, <2>3, SessionQuiet
<1>4. CASE Answers(p)
  <2>1. PICK id \in To(p) :
          LET d == Decrypt(p, NewSession(wire[id].otk), wire[id], Ephemeral(p)) IN
          /\ wire[id].first /\ d.why = None
          /\ mem'[p] = Sent(d.session)
          /\ wire' = Append(wire, Envelope(p, d.session, "receipt"))
    BY <1>4 DEF Answers
  <2>0. PICK u, a : u = Decrypt(p, NewSession(wire[id].otk), wire[id], Ephemeral(p)).session
                   /\ a = Envelope(p, u, "receipt")
    OBVIOUS
  <2>2. disk' = disk /\ wire' = Append(wire, a) /\ mem'[p] = Sent(u) /\ ~HasEnvelope(p)'
    BY <1>4, <2>0, <2>1 DEF Answers, NothingToSend, HasEnvelope
  <2>3. Sealed(wire[id])
    BY DEF SessionInv, To
  <2>4. Stored(p, Sent(u)) /\ Sealed(a)
    BY <1>0, <2>0, <2>1, <2>3, AnswerStored
  <2>. QED  BY <1>0, <2>2, <2>4, SessionQuiet
<1>5. CASE PersistText(p)
  <2>1. wire' = wire /\ mem' = mem /\ disk'[p] = mem[p] /\ HasEnvelope(p) /\ job'[p].arg = job[p].arg
    BY <1>0, <1>5 DEF PersistText, Busy, KeyInv, KeyTypes, relayVars, historyVars, HasEnvelope
  <2>2. Sealed(job[p].arg)
    BY <2>1 DEF SessionInv
  <2>. QED  BY <1>0, <2>1, <2>2, SessionQuiet
<1>6. CASE WriteText(p)
  <2>1. wire' = Append(wire, job[p].arg) /\ mem' = mem /\ disk' = disk /\ HasEnvelope(p) /\ job'[p] = Idle
    BY <1>0, <1>6 DEF WriteText, Write, Done, fileVars, HasEnvelope
  <2>2. Sealed(job[p].arg)
    BY <2>1 DEF SessionInv
  <2>3. ~HasEnvelope(p)'
    BY <2>1 DEF HasEnvelope, Idle
  <2>. QED  BY <1>0, <2>1, <2>2, <2>3, SessionQuiet
<1>. QED  BY <1>1, <1>2, <1>3, <1>4, <1>5, <1>6 DEF KeyStep

\* SessionInv holds at first.
LEMMA SessionInit == ASSUME PeersInit PROVE SessionInv
<1>1. wire = <<>> /\ Len(wire) = 0
  BY EmptySeq DEF PeersInit
<1>. QED  BY <1>1 DEF PeersInit, SessionInv, Stored, HasEnvelope, Idle

\* SessionInv holds where nothing it speaks of changes.
LEMMA SessionStutter ==
  ASSUME SessionInv, UNCHANGED <<mem, disk, job, wire>>
  PROVE  SessionInv'
BY DEF SessionInv, HasEnvelope

------------------------------------------------------------------------------
(* The mail between the two.                                                 *)

\* The mail of a party are envelopes that were handed to the relay for it.
MailTyped == mail = [p \in Party |-> mail[p]] /\ \A p \in Party : mail[p] \in Seq(To(p))

\* The handler of p is to open a first message.
Opening(p) == job[p].do = "establish" \/ (job[p].do = "republish" /\ job[p].arg # None)

\* It has one.
OpensFirst(p) == Opening(p) => job[p].arg \in To(p) /\ wire[job[p].arg].first

MailInv == IsSeq(wire) /\ DOMAIN job = Party /\ MailTyped /\ \A p \in Party : OpensFirst(p)

\* What a step of p does to the mail: nothing, or it takes one envelope in or hands
\* one over.
MailStep(p) ==
  /\ DOMAIN job' = DOMAIN job /\ \A q \in Party \ {p} : job'[q] = job[q]
  /\ \/ UNCHANGED <<wire, mail>>
     \/ wire' = wire /\ \E i : Delivers(p, i)
     \/ \E env : env.from = p /\ Write(p, env)

\* The peer of one's peer is oneself.
LEMMA PeerOfPeer ==
  ASSUME NEW p \in Party
  PROVE  Peer(Peer(p)) = p
<1>1. IsFiniteSet(Party) /\ Cardinality(Party) = 2
  BY RatchetAssumption
<1>. DEFINE q == Peer(p)
            r == Peer(q)
<1>2. q \in Party /\ q # p /\ r \in Party /\ r # q
  BY PeerParty
<1>. HIDE DEF q, r
<1>3. Cardinality((Party \ {p}) \ {q}) = 0 /\ IsFiniteSet((Party \ {p}) \ {q})
  <2>1. Cardinality(Party \ {p}) = 1 /\ IsFiniteSet(Party \ {p})
    BY <1>1, FS_RemoveElement
  <2>2. Cardinality((Party \ {p}) \ {q}) = 1 - 1 /\ IsFiniteSet((Party \ {p}) \ {q})
    BY <1>2, <2>1, FS_RemoveElement
  <2>. QED  BY <2>2
<1>4. (Party \ {p}) \ {q} = {}
  BY <1>3, FS_EmptySet
<1>5. r = p
  BY <1>2, <1>4
<1>. QED  BY <1>5 DEF r, q

\* An envelope that was sent to somebody stays so.
LEMMA ToGrows ==
  ASSUME IsSeq(wire), wire' = wire \/ \E env : wire' = Append(wire, env)
  PROVE  /\ IsSeq(wire')
         /\ \A q : To(q) \subseteq To(q)'
         /\ \A i \in 1..Len(wire) : i \in 1..Len(wire') /\ wire'[i] = wire[i]
<1>1. CASE wire' = wire
  BY <1>1 DEF To
<1>2. ASSUME NEW env, wire' = Append(wire, env)
      PROVE  /\ IsSeq(wire')
             /\ \A q : To(q) \subseteq To(q)'
             /\ \A i \in 1..Len(wire) : i \in 1..Len(wire') /\ wire'[i] = wire[i]
  <2>1. /\ IsSeq(wire') /\ Len(wire') = Len(wire) + 1 /\ Len(wire) \in Nat
        /\ \A i \in 1..Len(wire) : wire'[i] = wire[i]
    BY <1>2, AppendSeq
  <2>. QED  BY <2>1 DEF To
<1>. QED  BY <1>1, <1>2

\* What it must do for the invariant.
LEMMA MailKeeps ==
  ASSUME MailInv, NEW p \in Party, MailStep(p), OpensFirst(p)'
  PROVE  MailInv'
<1>0. wire' = wire \/ \E env : wire' = Append(wire, env)
  BY DEF MailStep, Write
<1>1. /\ IsSeq(wire') /\ \A q : To(q) \subseteq To(q)'
      /\ \A i \in 1..Len(wire) : i \in 1..Len(wire') /\ wire'[i] = wire[i]
  BY <1>0, ToGrows DEF MailInv
<1>2. \A q \in Party : mail[q] \in Seq(To(q)) /\ mail[q] \in Seq(To(q)')
  <2>. SUFFICES ASSUME NEW q \in Party PROVE mail[q] \in Seq(To(q)) /\ mail[q] \in Seq(To(q)')
    OBVIOUS
  <2>1. mail[q] \in Seq(To(q))
    BY DEF MailInv, MailTyped
  <2>2. To(q) \subseteq To(q)'
    BY <1>1
  <2>. QED  BY <2>1, <2>2, SeqMonotonic
<1>3. mail = [q \in Party |-> mail[q]]
  BY DEF MailInv, MailTyped
<1>4. MailTyped'
  <2>1. CASE mail' = mail
    BY <1>2, <1>3, <2>1 DEF MailTyped
  <2>2. ASSUME NEW i, Delivers(p, i), wire' = wire
        PROVE  MailTyped'
    <3>1. mail[p] \in Seq(To(p)) /\ i \in 1..Len(mail[p])
      BY <1>2, <2>2 DEF Delivers
    <3>2. Without(mail[p], i) \in Seq(To(p))
      BY <3>1, WithoutSeq
    <3>3. \A q : To(q)' = To(q)
      BY <2>2 DEF To
    <3>4. mail' = mail \/ mail' = [mail EXCEPT ![p] = Without(mail[p], i)]
      BY <2>2 DEF Delivers
    <3>. QED  BY <1>2, <1>3, <3>2, <3>3, <3>4 DEF MailTyped
  <2>3. ASSUME NEW env, env.from = p, Write(p, env)
        PROVE  MailTyped'
    <3>1. wire' = Append(wire, env) /\ mail' = [mail EXCEPT ![Peer(p)] = Append(@, Len(wire) + 1)]
      BY <2>3 DEF Write
    <3>2. Len(wire) + 1 \in To(Peer(p))'
      <4>1. Len(wire') = Len(wire) + 1 /\ Len(wire) \in Nat /\ wire'[Len(wire) + 1] = env
        BY <3>1, AppendSeq DEF MailInv
      <4>. QED  BY <2>3, <4>1, PeerOfPeer DEF To
    <3>3. Append(mail[Peer(p)], Len(wire) + 1) \in Seq(To(Peer(p))')
      BY <1>2, <3>2, PeerParty, AppendProperties
    <3>. QED  BY <1>2, <1>3, <3>1, <3>3, PeerParty DEF MailTyped
  <2>. QED  BY <2>1, <2>2, <2>3 DEF MailStep
<1>5. \A q \in Party : OpensFirst(q)'
  <2>. SUFFICES ASSUME NEW q \in Party, q # p PROVE OpensFirst(q)'
    OBVIOUS
  <2>1. job'[q] = job[q] /\ OpensFirst(q)
    BY DEF MailStep, MailInv
  <2>2. \A i \in To(q) : i \in To(q)' /\ wire'[i] = wire[i]
    BY <1>1 DEF To
  <2>. QED  BY <2>1, <2>2 DEF OpensFirst, Opening
<1>. QED  BY <1>1, <1>4, <1>5 DEF MailInv, MailStep

\* An envelope that is delivered is one that was sent to the party.
LEMMA DeliveredOnWire ==
  ASSUME MailInv, NEW p \in Party, NEW i, Delivers(p, i)
  PROVE  mail[p][i] \in To(p)
<1>1. mail[p] \in Seq(To(p)) /\ i \in 1..Len(mail[p])
  BY DEF MailInv, MailTyped, Delivers
<1>. QED  BY <1>1, ElementOfSeq

\* MailInv holds at first.
LEMMA MailInit == ASSUME PeersInit PROVE MailInv
<1>1. wire = <<>> /\ IsSeq(wire)
  BY EmptySeq DEF PeersInit, IsSeq
<1>2. MailTyped
  BY EmptySeq DEF PeersInit, MailTyped
<1>. QED  BY <1>1, <1>2 DEF MailInv, PeersInit, OpensFirst, Opening, Idle

\* MailInv holds where nothing it speaks of changes.
LEMMA MailStutter ==
  ASSUME MailInv, UNCHANGED <<job, wire, mail>>
  PROVE  MailInv'
BY DEF MailInv, MailTyped, To, OpensFirst, Opening

------------------------------------------------------------------------------
(* One-time prekeys.                                                         *)

PoolTypes ==
  /\ DOMAIN up = Party
  /\ pool \in [Party -> SUBSET Nat] /\ poolFile \in [Party -> SUBSET Nat] /\ made \in [Party -> Nat]

\* The pool in memory is the one in the key file, its prekeys were generated, it is
\* no larger than it should be, and none of those that were used is in it.
Pools(p) ==
  /\ poolFile[p] \subseteq 1..made[p] /\ Cardinality(poolFile[p]) <= PoolSize
  /\ pool[p] = IF up[p] = "down" THEN {} ELSE poolFile[p]
  /\ \A k : <<p, k>> \in spent => k \in 1..made[p] /\ k \notin poolFile[p]

PoolInv == PoolTypes /\ \A p \in Party : Pools(p)

\* What a step of p does to the pools: nothing; it loads p's, burns one of its
\* prekeys, or forgets it with the process.
Loads(p) ==
  /\ up[p] = "down" /\ up'[p] # "down" /\ spent' = spent
  /\ LoadPool(p, {}) \/ LoadPool(p, poolFile[p])

Burns(p) == UNCHANGED <<up, made>> /\ \E k \in pool[p] : BurnPrekey(p, k)

PoolStep(p) ==
  /\ DOMAIN up' = DOMAIN up /\ \A q \in Party \ {p} : up'[q] = up[q]
  /\ \/ UNCHANGED <<pool, poolFile, made, spent>> /\ (up'[p] = "down" <=> up[p] = "down")
     \/ Loads(p)
     \/ Burns(p)
     \/ /\ pool' = [pool EXCEPT ![p] = {}] /\ up'[p] = "down"
        /\ UNCHANGED <<poolFile, made, spent>>

\* As many prekeys are generated as are asked for, and none that was before.
LEMMA NewPrekeysCount ==
  ASSUME PoolTypes, NEW p \in Party, NEW k \in Nat
  PROVE  /\ NewPrekeys(p, k) \subseteq (made[p] + 1)..(made[p] + k)
         /\ IsFiniteSet(NewPrekeys(p, k)) /\ Cardinality(NewPrekeys(p, k)) <= k
<1>1. made[p] \in Nat
  BY DEF PoolTypes
<1>2. NewPrekeys(p, k) \subseteq (made[p] + 1)..(made[p] + k)
  BY <1>1 DEF NewPrekeys
<1>3. /\ IsFiniteSet((made[p] + 1)..(made[p] + k))
      /\ Cardinality((made[p] + 1)..(made[p] + k)) = IF made[p] + 1 > made[p] + k THEN 0
                                                     ELSE (made[p] + k) - (made[p] + 1) + 1
  <2>1. made[p] + 1 \in Int /\ made[p] + k \in Int
    BY <1>1
  <2>. DEFINE a == made[p] + 1
              b == made[p] + k
  <2>. HIDE DEF a, b
  <2>2. IsFiniteSet(a..b) /\ Cardinality(a..b) = IF a > b THEN 0 ELSE b - a + 1
    BY <2>1, FS_Interval DEF a, b
  <2>. QED  BY <2>2 DEF a, b
<1>4. Cardinality((made[p] + 1)..(made[p] + k)) = k
  BY <1>1, <1>3
<1>. QED  BY <1>2, <1>3, <1>4, FS_Subset

\* A pool that is loaded is of the right size, and none of its prekeys was used.
LEMMA LoadKeeps ==
  ASSUME PoolInv, NEW p \in Party, Loads(p), DOMAIN up' = Party
  PROVE  /\ PoolTypes' /\ Pools(p)'
         /\ \A q \in Party \ {p} : pool'[q] = pool[q] /\ poolFile'[q] = poolFile[q] /\ made'[q] = made[q]
         /\ poolFile[p] \subseteq poolFile'[p] \/ LoadPool(p, {})
<1>0. /\ PoolTypes /\ Pools(p) /\ made[p] \in Nat /\ PoolSize \in Nat
      /\ poolFile[p] \subseteq 1..made[p]
  BY PeersAssumption DEF PoolInv, PoolTypes, Pools
<1>1. IsFiniteSet(poolFile[p])
  <2>1. IsFiniteSet(1..made[p])
    BY <1>0, FS_Interval
  <2>. QED  BY <1>0, <2>1, FS_Subset
<1>2. PICK kept : /\ LoadPool(p, kept) /\ (kept = {} \/ kept = poolFile[p])
  BY DEF Loads
<1>3. kept \subseteq 1..made[p] /\ IsFiniteSet(kept) /\ Cardinality(kept) \in Nat
      /\ Cardinality(kept) <= PoolSize
  <2>1. CASE kept = {}
    <3>1. IsFiniteSet({}) /\ Cardinality({}) = 0
      BY FS_EmptySet
    <3>. QED  BY <1>0, <2>1, <3>1
  <2>2. CASE kept = poolFile[p]
    <3>1. Cardinality(poolFile[p]) \in Nat
      BY <1>1, FS_CardinalityType
    <3>. QED  BY <1>0, <1>1, <2>2, <3>1 DEF Pools
  <2>. QED  BY <1>2, <2>1, <2>2
<1>. DEFINE k == PoolSize - Cardinality(kept)
            new == NewPrekeys(p, k)
            n == made[p] + k
<1>4. k \in Nat /\ n \in Nat /\ made[p] <= n
  BY <1>0, <1>3
<1>5. new \subseteq (made[p] + 1)..n /\ IsFiniteSet(new) /\ Cardinality(new) <= k
  BY <1>0, <1>4, NewPrekeysCount
<1>6. /\ made' = [made EXCEPT ![p] = n]
      /\ pool' = [pool EXCEPT ![p] = kept \cup new]
      /\ poolFile' = [poolFile EXCEPT ![p] = pool'[p]]
  BY <1>2 DEF LoadPool
<1>7. Cardinality(kept \cup new) <= PoolSize
  <2>1. Cardinality(kept \cup new) = Cardinality(kept) + Cardinality(new) - Cardinality(kept \cap new)
        /\ Cardinality(kept \cap new) \in Nat /\ Cardinality(new) \in Nat
    <3>1. IsFiniteSet(kept \cap new)
      BY <1>3, FS_Subset
    <3>. QED  BY <1>3, <1>5, <3>1, FS_Union, FS_CardinalityType
  <2>2. Cardinality(kept) + Cardinality(new) <= PoolSize
    BY <1>0, <1>3, <1>5, <2>1
  <2>. QED  BY <1>0, <1>3, <1>5, <2>1, <2>2
<1>. HIDE DEF k, new, n
<1>8. kept \cup new \subseteq 1..n /\ \A i \in 1..made[p] : i \in kept \cup new => i \in kept
  BY <1>0, <1>3, <1>4, <1>5
<1>9. /\ PoolTypes'
      /\ pool'[p] = kept \cup new /\ poolFile'[p] = kept \cup new /\ made'[p] = n
      /\ \A q \in Party \ {p} : pool'[q] = pool[q] /\ poolFile'[q] = poolFile[q] /\ made'[q] = made[q]
  BY <1>0, <1>4, <1>6, <1>8 DEF PoolTypes
<1>10. up'[p] # "down" /\ spent' = spent
  BY DEF Loads
<1>11. \A i : <<p, i>> \in spent' => i \in 1..n /\ i \notin kept \cup new
  BY <1>0, <1>2, <1>4, <1>8, <1>10 DEF Pools
<1>12. Pools(p)'
  BY <1>7, <1>8, <1>9, <1>10, <1>11 DEF Pools
<1>. QED  BY <1>2, <1>9, <1>12

\* A prekey that is burned is in neither pool any more.
LEMMA BurnKeeps ==
  ASSUME PoolInv, NEW p \in Party, UNCHANGED <<up, made>>, NEW k \in pool[p], BurnPrekey(p, k)
  PROVE  /\ PoolTypes' /\ Pools(p)' /\ <<p, k>> \notin spent
         /\ \A q \in Party \ {p} : pool'[q] = pool[q] /\ poolFile'[q] = poolFile[q] /\ made'[q] = made[q]
         /\ poolFile'[p] = poolFile[p] \ {k} /\ spent' = spent \cup {<<p, k>>}
<1>0. /\ PoolTypes /\ Pools(p) /\ made[p] \in Nat /\ PoolSize \in Nat
      /\ poolFile[p] \subseteq 1..made[p] /\ Cardinality(poolFile[p]) <= PoolSize
  BY PeersAssumption DEF PoolInv, PoolTypes, Pools
<1>1. IsFiniteSet(poolFile[p])
  <2>1. IsFiniteSet(1..made[p])
    BY <1>0, FS_Interval
  <2>. QED  BY <1>0, <2>1, FS_Subset
<1>2. up[p] # "down" /\ pool[p] = poolFile[p] /\ k \in poolFile[p]
  BY <1>0 DEF Pools
<1>3. /\ pool' = [pool EXCEPT ![p] = pool[p] \ {k}]
      /\ poolFile' = [poolFile EXCEPT ![p] = pool'[p]]
      /\ spent' = spent \cup {<<p, k>>}
  BY DEF BurnPrekey
<1>. DEFINE left == poolFile[p] \ {k}
<1>4. PoolTypes' /\ pool'[p] = left /\ poolFile'[p] = left
      /\ \A q \in Party \ {p} : pool'[q] = pool[q] /\ poolFile'[q] = poolFile[q] /\ made'[q] = made[q]
  BY <1>0, <1>2, <1>3 DEF PoolTypes
<1>5. Cardinality(left) <= PoolSize
  <2>1. Cardinality(left) <= Cardinality(poolFile[p]) /\ IsFiniteSet(left)
    BY <1>1, FS_Subset
  <2>2. Cardinality(left) \in Nat /\ Cardinality(poolFile[p]) \in Nat
    BY <1>1, <2>1, FS_CardinalityType
  <2>. QED  BY <1>0, <2>1, <2>2
<1>6. left \subseteq 1..made[p] /\ k \in 1..made[p] /\ <<p, k>> \notin spent
  BY <1>0, <1>2 DEF Pools
<1>7. \A i : <<p, i>> \in spent' => i \in 1..made[p] /\ i \notin left
  BY <1>0, <1>3, <1>6 DEF Pools
<1>. HIDE DEF left
<1>8. Pools(p)'
  BY <1>2, <1>4, <1>5, <1>6, <1>7 DEF Pools
<1>. QED  BY <1>3, <1>4, <1>6, <1>8 DEF left

\* Only p's own steps use up its prekeys.
LEMMA PoolKeeps ==
  ASSUME PoolInv, NEW p \in Party, PoolStep(p)
  PROVE  PoolInv' /\ spent \subseteq spent'
<1>0. /\ PoolTypes /\ DOMAIN up' = Party /\ \A q \in Party : Pools(q)
  BY DEF PoolInv, PoolTypes, PoolStep
<1>1. /\ PoolTypes' /\ Pools(p)' /\ spent \subseteq spent'
      /\ \A q \in Party \ {p} : /\ pool'[q] = pool[q] /\ poolFile'[q] = poolFile[q] /\ made'[q] = made[q]
                                /\ \A k : <<q, k>> \in spent' => <<q, k>> \in spent
  <2>1. CASE UNCHANGED <<pool, poolFile, made, spent>> /\ (up'[p] = "down" <=> up[p] = "down")
    BY <1>0, <2>1 DEF PoolTypes, Pools
  <2>2. CASE Loads(p)
    <3>1. spent' = spent
      BY <2>2 DEF Loads
    <3>. QED  BY <1>0, <2>2, <3>1, LoadKeeps
  <2>3. CASE Burns(p)
    <3>1. PICK k \in pool[p] : BurnPrekey(p, k)
      BY <2>3 DEF Burns
    <3>2. UNCHANGED <<up, made>>
      BY <2>3 DEF Burns
    <3>3. /\ PoolTypes' /\ Pools(p)' /\ spent' = spent \cup {<<p, k>>}
          /\ \A q \in Party \ {p} : pool'[q] = pool[q] /\ poolFile'[q] = poolFile[q] /\ made'[q] = made[q]
      BY <3>1, <3>2, BurnKeeps
    <3>. QED  BY <3>3
  <2>4. CASE /\ pool' = [pool EXCEPT ![p] = {}] /\ up'[p] = "down"
             /\ UNCHANGED <<poolFile, made, spent>>
    <3>1. PoolTypes' /\ pool'[p] = {} /\ \A q \in Party \ {p} : pool'[q] = pool[q]
      BY <1>0, <2>4 DEF PoolTypes
    <3>2. Pools(p)'
      BY <1>0, <2>4, <3>1 DEF Pools
    <3>. QED  BY <2>4, <3>1, <3>2
  <2>. QED  BY <2>1, <2>2, <2>3, <2>4 DEF PoolStep
<1>2. \A q \in Party \ {p} : up'[q] = up[q]
  BY DEF PoolStep
<1>3. \A q \in Party \ {p} : Pools(q)'
  BY <1>0, <1>1, <1>2 DEF Pools
<1>. QED  BY <1>1, <1>3 DEF PoolInv

\* PoolInv holds at first.
LEMMA PoolInit == ASSUME PeersInit PROVE PoolInv
<1>1. PoolTypes
  BY DEF PeersInit, PoolTypes
<1>2. Cardinality({}) = 0 /\ PoolSize \in Nat
  BY FS_EmptySet, PeersAssumption
<1>. QED  BY <1>1, <1>2 DEF PoolInv, Pools, PeersInit

\* PoolInv holds where nothing it speaks of changes.
LEMMA PoolStutter ==
  ASSUME PoolInv, UNCHANGED <<up, pool, poolFile, made, spent>>
  PROVE  PoolInv'
BY DEF PoolInv, PoolTypes, Pools

------------------------------------------------------------------------------
(* What was read.                                                            *)

\* The envelope that p read as its i-th.
ReadEnvelope(p, i) == wire[read[p][i]]

UsesPrekey(env) == env.first /\ env.otk # None

\* What p read was sent to it, the prekeys it opened were used, none for two
\* envelopes, and the one it is opening for none so far.
ReadsOf(p) ==
  /\ read[p] \in Seq(To(p))
  /\ \A i \in 1..Len(read[p]) : UsesPrekey(ReadEnvelope(p, i)) => ReadEnvelope(p, i).otk \in spent
  /\ \A i, j \in 1..Len(read[p]) :
       (/\ UsesPrekey(ReadEnvelope(p, i)) /\ UsesPrekey(ReadEnvelope(p, j))
        /\ ReadEnvelope(p, i).otk = ReadEnvelope(p, j).otk) => i = j
  /\ Opening(p) /\ UsesPrekey(wire[job[p].arg]) =>
       /\ wire[job[p].arg].otk \in spent
       /\ \A i \in 1..Len(read[p]) :
            UsesPrekey(ReadEnvelope(p, i)) => ReadEnvelope(p, i).otk # wire[job[p].arg].otk

ReadInv == read = [p \in Party |-> read[p]] /\ \A p \in Party : ReadsOf(p)

\* What a step of p does to what was read: nothing; it goes on with a first message,
\* or begins to open one; it reads an envelope in its session, or the first message.
GoesOn(p) ==
  /\ read' = read
  /\ Opening(p)' => Opening(p) /\ job'[p].arg = job[p].arg

Begins(p) ==
  /\ read' = read /\ wire' = wire
  /\ job'[p].arg \in To(p)
  /\ FirstContact(p, wire[job'[p].arg]) /\ BurnPrekeyOf(p, wire[job'[p].arg])

ReadsInSession(p) ==
  /\ mem[p] # None /\ ~Opening(p)'
  /\ \E id \in To(p) : /\ Decrypt(p, mem[p], wire[id], Ephemeral(p)).why = None
                       /\ read' = [read EXCEPT ![p] = Append(@, id)]

ReadsFirst(p) ==
  Opening(p) /\ ~Opening(p)' /\ read' = [read EXCEPT ![p] = Append(@, job[p].arg)]

ReadStep(p) ==
  /\ \A q \in Party \ {p} : job'[q] = job[q]
  /\ wire' = wire \/ \E env : wire' = Append(wire, env)
  /\ spent \subseteq spent'
  /\ GoesOn(p) \/ Begins(p) \/ ReadsInSession(p) \/ ReadsFirst(p)

\* A first message that names a prekey is not read in a session: one that the peer
\* was not heard in was made by oneself, with a prekey of the peer.
LEMMA NoPrekeyInSession ==
  ASSUME KeyInv, SessionInv, NEW p \in Party, mem[p] # None, NEW id \in To(p),
         Decrypt(p, mem[p], wire[id], Ephemeral(p)).why = None
  PROVE  ~UsesPrekey(wire[id])
<1>. SUFFICES ASSUME UsesPrekey(wire[id]) PROVE FALSE
  OBVIOUS
<1>1. PICK s, env, e : s = mem[p] /\ env = wire[id] /\ e = Ephemeral(p)
  OBVIOUS
<1>2. Stored(p, s) /\ Sealed(env) /\ e \in KeyPair /\ env.from = Peer(p) /\ s # None
      /\ env.first /\ env.otk # None /\ Decrypt(p, s, env, e).why = None
  BY <1>1, EphemeralType DEF SessionInv, To, UsesPrekey
<1>3. WellFormed(s) /\ WellSealed(env) /\ (s.ckr = None => Addressed(p, s.root.otk))
      /\ Addressed(Peer(p), env.otk) /\ env.key.root.otk = env.otk
  BY <1>2 DEF Stored, Sealed
<1>4. s.ckr = None /\ env.key.root.otk = s.root.otk
  BY <1>2, <1>3, DecryptType
<1>5. env.otk[1] = Peer(p) /\ env.otk[1] = Peer(Peer(p))
  BY <1>2, <1>3, <1>4 DEF Addressed
<1>. QED  BY <1>5, PeerParty, PeerOfPeer

\* A prekey that opens a first message was not used before, and is now.
LEMMA BeginsWithNew ==
  ASSUME SessionInv, PoolInv, NEW p \in Party, NEW id \in To(p), UsesPrekey(wire[id]),
         FirstContact(p, wire[id]), BurnPrekeyOf(p, wire[id])
  PROVE  wire[id].otk \notin spent /\ wire[id].otk \in spent'
<1>1. PICK env : env = wire[id]
  OBVIOUS
<1>2. Sealed(env) /\ env.from = Peer(p) /\ env.first /\ env.otk # None
      /\ env.otk[2] \in pool[p] /\ BurnPrekey(p, env.otk[2])
  BY <1>1 DEF SessionInv, To, UsesPrekey, FirstContact, BurnPrekeyOf
<1>3. env.otk \in KeyPair /\ env.otk[1] = Peer(Peer(p))
  BY <1>2 DEF Sealed, WellSealed, EnvelopeType, Addressed
<1>4. env.otk = <<p, env.otk[2]>>
  BY <1>3, PeerOfPeer DEF KeyPair
<1>5. <<p, env.otk[2]>> \notin spent
  <2>1. pool[p] = IF up[p] = "down" THEN {} ELSE poolFile[p]
    BY DEF PoolInv, Pools
  <2>. QED  BY <1>2, <2>1 DEF PoolInv, Pools
<1>6. spent' = spent \cup {<<p, env.otk[2]>>}
  BY <1>2 DEF BurnPrekey
<1>. QED  BY <1>1, <1>4, <1>5, <1>6

\* What a party reads that has not made a step, or not read.
LEMMA ReadsStay ==
  ASSUME ReadInv, IsSeq(wire), wire' = wire \/ \E env : wire' = Append(wire, env),
         spent \subseteq spent', NEW q \in Party, read'[q] = read[q],
         OpensFirst(q), Opening(q)' => Opening(q) /\ job'[q].arg = job[q].arg
  PROVE  ReadsOf(q)'
<1>1. /\ To(q) \subseteq To(q)' /\ \A i \in To(q) : wire'[i] = wire[i]
  BY ToGrows DEF To
<1>2. read[q] \in Seq(To(q)) /\ \A i \in 1..Len(read[q]) : read[q][i] \in To(q)
  BY ElementOfSeq DEF ReadInv, ReadsOf
<1>3. read'[q] \in Seq(To(q)')
  BY <1>1, <1>2, SeqMonotonic
<1>4. \A i \in 1..Len(read[q]) : ReadEnvelope(q, i)' = ReadEnvelope(q, i)
  BY <1>1, <1>2 DEF ReadEnvelope
<1>5. Opening(q)' => Opening(q) /\ wire'[job'[q].arg] = wire[job[q].arg]
  BY <1>1 DEF OpensFirst
<1>. QED  BY <1>3, <1>4, <1>5 DEF ReadInv, ReadsOf

\* And one that has read an envelope with no prekey, or with one that none was read
\* with.
LEMMA ReadsOneMore ==
  ASSUME ReadInv, IsSeq(wire), wire' = wire \/ \E env : wire' = Append(wire, env),
         spent \subseteq spent', NEW p \in Party, NEW id \in To(p), read' = [read EXCEPT ![p] = Append(@, id)],
         ~Opening(p)',
         UsesPrekey(wire[id]) =>
           /\ wire[id].otk \in spent
           /\ \A i \in 1..Len(read[p]) :
                UsesPrekey(ReadEnvelope(p, i)) => ReadEnvelope(p, i).otk # wire[id].otk
  PROVE  ReadsOf(p)'
<1>1. /\ To(p) \subseteq To(p)' /\ \A i \in To(p) : wire'[i] = wire[i]
  BY ToGrows DEF To
<1>2. read[p] \in Seq(To(p)) /\ \A i \in 1..Len(read[p]) : read[p][i] \in To(p)
  BY ElementOfSeq DEF ReadInv, ReadsOf
<1>. PICK n : n = Len(read[p])
  OBVIOUS
<1>3. read'[p] = Append(read[p], id)
  BY DEF ReadInv
<1>4. /\ read'[p] \in Seq(To(p)) /\ Len(read'[p]) = n + 1 /\ n \in Nat
      /\ read'[p][n + 1] = id /\ \A i \in 1..n : read'[p][i] = read[p][i]
  BY <1>2, <1>3, AppendProperties, LenProperties
<1>5. read'[p] \in Seq(To(p)')
  BY <1>1, <1>4, SeqMonotonic
<1>6. \A i \in 1..n : ReadEnvelope(p, i)' = ReadEnvelope(p, i)
  BY <1>1, <1>2, <1>4 DEF ReadEnvelope
<1>7. ReadEnvelope(p, n + 1)' = wire[id]
  BY <1>1, <1>4 DEF ReadEnvelope
<1>8. \A i \in 1..Len(read'[p]) : i \in 1..n \/ i = n + 1
  BY <1>4
<1>9. \A i \in 1..Len(read'[p]) : UsesPrekey(ReadEnvelope(p, i)') => ReadEnvelope(p, i)'.otk \in spent'
  BY <1>6, <1>7, <1>8 DEF ReadInv, ReadsOf
<1>10. \A i, j \in 1..Len(read'[p]) :
         (/\ UsesPrekey(ReadEnvelope(p, i)') /\ UsesPrekey(ReadEnvelope(p, j)')
          /\ ReadEnvelope(p, i)'.otk = ReadEnvelope(p, j)'.otk) => i = j
  BY <1>6, <1>7, <1>8 DEF ReadInv, ReadsOf
<1>. QED  BY <1>5, <1>9, <1>10 DEF ReadsOf

\* ReadInv is preserved by whatever a party may do to what it has read.
LEMMA ReadKeeps ==
  ASSUME KeyInv, SessionInv, MailInv, PoolInv, ReadInv, NEW p \in Party, ReadStep(p)
  PROVE  ReadInv'
<1>0. /\ IsSeq(wire) /\ (wire' = wire \/ \E env : wire' = Append(wire, env)) /\ spent \subseteq spent'
      /\ read = [q \in Party |-> read[q]] /\ \A q \in Party : OpensFirst(q)
  BY DEF MailInv, ReadInv, ReadStep
<1>1. ReadsOf(p)' /\ read' = [q \in Party |-> read'[q]] /\ \A q \in Party \ {p} : read'[q] = read[q]
  <2>1. CASE GoesOn(p)
    BY <1>0, <2>1, ReadsStay DEF GoesOn
  <2>2. CASE Begins(p)
    <3>0. PICK id : id = job'[p].arg
      OBVIOUS
    <3>1. read' = read /\ wire' = wire /\ id \in To(p)
          /\ FirstContact(p, wire[id]) /\ BurnPrekeyOf(p, wire[id])
      BY <2>2, <3>0 DEF Begins
    <3>2. UsesPrekey(wire[id]) => wire[id].otk \notin spent /\ wire[id].otk \in spent'
      BY <3>1, BeginsWithNew
    <3>3. To(p)' = To(p) /\ \A i : ReadEnvelope(p, i)' = ReadEnvelope(p, i)
      BY <3>1 DEF To, ReadEnvelope
    <3>4. ReadsOf(p)
      BY DEF ReadInv
    <3>5. ReadsOf(p)'
      BY <1>0, <3>0, <3>1, <3>2, <3>3, <3>4 DEF ReadsOf
    <3>. QED  BY <1>0, <3>1, <3>5
  <2>3. CASE ReadsInSession(p)
    <3>1. PICK id \in To(p) : /\ Decrypt(p, mem[p], wire[id], Ephemeral(p)).why = None
                              /\ read' = [read EXCEPT ![p] = Append(@, id)]
      BY <2>3 DEF ReadsInSession
    <3>2. mem[p] # None /\ ~Opening(p)'
      BY <2>3 DEF ReadsInSession
    <3>3. ~UsesPrekey(wire[id])
      BY <3>1, <3>2, NoPrekeyInSession
    <3>4. ReadsOf(p)'
      BY <1>0, <3>1, <3>2, <3>3, ReadsOneMore
    <3>. QED  BY <1>0, <3>1, <3>4
  <2>4. CASE ReadsFirst(p)
    <3>0. PICK id : id = job[p].arg
      OBVIOUS
    <3>1. Opening(p) /\ ~Opening(p)' /\ read' = [read EXCEPT ![p] = Append(@, id)] /\ id \in To(p)
      BY <1>0, <2>4, <3>0 DEF ReadsFirst, OpensFirst
    <3>2. UsesPrekey(wire[id]) =>
           /\ wire[id].otk \in spent
           /\ \A i \in 1..Len(read[p]) :
                UsesPrekey(ReadEnvelope(p, i)) => ReadEnvelope(p, i).otk # wire[id].otk
      BY <3>0, <3>1 DEF ReadInv, ReadsOf
    <3>3. ReadsOf(p)'
      BY <1>0, <3>1, <3>2, ReadsOneMore
    <3>. QED  BY <1>0, <3>1, <3>3
  <2>. QED  BY <2>1, <2>2, <2>3, <2>4 DEF ReadStep
<1>2. \A q \in Party \ {p} : ReadsOf(q)'
  <2>. SUFFICES ASSUME NEW q \in Party \ {p} PROVE ReadsOf(q)'
    OBVIOUS
  <2>1. job'[q] = job[q]
    BY DEF ReadStep
  <2>2. Opening(q)' => Opening(q)
    BY <2>1 DEF Opening
  <2>. QED  BY <1>0, <1>1, <2>1, <2>2, ReadsStay
<1>. QED  BY <1>1, <1>2 DEF ReadInv

\* So one-time prekeys open one envelope each.
LEMMA ReadPrekeysOnce == ASSUME ReadInv PROVE PrekeyOnce
BY DEF ReadInv, ReadsOf, ReadEnvelope, UsesPrekey, PrekeyOnce

\* ReadInv holds at first.
LEMMA ReadInit == ASSUME PeersInit PROVE ReadInv
<1>1. wire = <<>> /\ Len(<<>>) = 0 /\ \A p \in Party : <<>> \in Seq(To(p))
  BY EmptySeq DEF PeersInit
<1>. QED  BY <1>1 DEF ReadInv, ReadsOf, PeersInit, Opening, Idle

\* ReadInv holds where nothing it speaks of changes.
LEMMA ReadStutter ==
  ASSUME ReadInv, UNCHANGED <<job, wire, read, spent>>
  PROVE  ReadInv'
BY DEF ReadInv, ReadsOf, To, Opening, ReadEnvelope

\* The counters of a session name the position of its chains, the caches are within
\* their limits, and mail, reads and pools are of their types.
LEMMA TypesFollow ==
  ASSUME SessionInv, MailInv, PoolInv, ReadInv,
         up \in [Party -> {"down", "starting", "ready"}],
         served = [p \in Party |-> served[p]],
         \A p \in Party : served[p] # None => served[p] \subseteq Nat
  PROVE  TypeOK
<1>1. ASSUME NEW s, WellFormed(s)
      PROVE  CountersFollow(s)
  BY <1>1 DEF WellFormed, Session, CountersFollow
<1>2. \A p \in Party : (mem[p] # None => CountersFollow(mem[p])) /\ (disk[p] # None => CountersFollow(disk[p]))
  BY <1>1 DEF SessionInv, Stored
<1>3. \A p \in Party : mail[p] \in Seq(1..Len(wire)) /\ read[p] \in Seq(1..Len(wire))
  <2>. SUFFICES ASSUME NEW p \in Party PROVE mail[p] \in Seq(1..Len(wire)) /\ read[p] \in Seq(1..Len(wire))
    OBVIOUS
  <2>1. To(p) \subseteq 1..Len(wire)
    BY DEF To
  <2>2. mail[p] \in Seq(To(p)) /\ read[p] \in Seq(To(p))
    BY DEF MailInv, MailTyped, ReadInv, ReadsOf
  <2>. QED  BY <2>1, <2>2, SeqMonotonic
<1>4. mail \in [Party -> Seq(1..Len(wire))] /\ read \in [Party -> Seq(1..Len(wire))]
  BY <1>3 DEF MailInv, MailTyped, ReadInv
<1>5. served \in [Party -> (SUBSET Nat) \cup {None}]
  OBVIOUS
<1>6. pool \in [Party -> SUBSET Nat] /\ poolFile \in [Party -> SUBSET Nat]
  BY DEF PoolInv, PoolTypes
<1>. QED  BY <1>2, <1>4, <1>5, <1>6 DEF TypeOK

=============================================================================
