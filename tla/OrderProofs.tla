----------------------------- MODULE OrderProofs -----------------------------
(***************************************************************************)
(* What two CLI clients refuse of each other when the relay delivers their *)
(* envelopes in any order and again, nobody is killed and the caches are   *)
(* large enough: no key goes wrong and no kept key is missed.              *)
(***************************************************************************)
EXTENDS CliProofs, MCCli

------------------------------------------------------------------------------
(* A session cut in two: what it sends with, and what it receives with.      *)

SameSending(t, u) ==
  /\ u.root = t.root /\ u.dhs = t.dhs /\ u.ct = t.ct /\ u.cks = t.cks
  /\ u.ns = t.ns /\ u.pn = t.pn /\ u.lastDh = t.lastDh /\ u.isFirst = t.isFirst

SameReceiving(t, u) ==
  /\ u.dhr = t.dhr /\ u.ckr = t.ckr /\ u.nr = t.nr /\ u.skipped = t.skipped /\ u.epochs = t.epochs

\* The key at a place of the chain of a root.
At(root, n) == [root |-> root, at |-> n]

\* The keys that were kept, and those that are when the chain moves on to `until'.
KeptKeys(t) == {t.skipped[i] : i \in 1..Len(t.skipped)}

PassedKeys(t, until) ==
  {[dh |-> t.dhr, n |-> m, key |-> At(t.ckr.root, m)] : m \in t.nr..(until - 1)}

\* A chain is named by its root and its place.
LEMMA ChainAt ==
  ASSUME NEW ck \in Chain
  PROVE  /\ ck = At(ck.root, ck.at) /\ ck.at \in Nat
         /\ \A k \in Nat : After(ck, k) = At(ck.root, ck.at + k)
BY DEF Chain, At, After

\* The keys up to `until' fit into the cache.
Fits(t, until) ==
  t.ckr # None /\ t.nr <= until /\ Len(t.skipped) + until <= MaxKept + t.nr

\* Keys that fit into the cache are all kept.
LEMMA SkipFits ==
  ASSUME NEW t, WellFormed(t), NEW until \in Nat, Fits(t, until)
  PROVE  LET u == Skip(t, until) IN
         /\ WellFormed(u) /\ SameSending(t, u)
         /\ u.dhr = t.dhr /\ u.epochs = t.epochs /\ u.nr = until /\ u.ckr = At(t.ckr.root, until)
         /\ Len(u.skipped) + t.nr = Len(t.skipped) + until
         /\ KeptKeys(u) = KeptKeys(t) \cup PassedKeys(t, until)
<1>. DEFINE u == Skip(t, until)
<1>0. /\ t \in Session /\ t.dhr \in KeyPair /\ t.ckr \in Chain /\ t.ckr.at = t.nr /\ t.nr \in Nat
      /\ t.skipped \in Seq(KeptKey) /\ Len(t.skipped) \in Nat /\ MaxKept \in Nat
  BY RatchetAssumption, LenProperties DEF WellFormed, Session, Fits
<1>c. t.ckr \in Chain /\ t.ckr.at = t.nr
  BY <1>0
<1>d. \A k \in Nat : After(t.ckr, k) = At(t.ckr.root, t.nr + k)
  BY <1>c, ChainAt
<1>w. WellFormed(u)
  BY SkipType
<1>1. CASE until = t.nr
  <2>1. u = t
    BY <1>0, <1>1 DEF Skip
  <2>2. PassedKeys(t, until) = {}
    BY <1>0, <1>1 DEF PassedKeys
  <2>3. t.ckr = At(t.ckr.root, until)
    BY <1>0, <1>1, ChainAt
  <2>. QED  BY <1>0, <1>1, <1>w, <2>1, <2>2, <2>3 DEF SameSending
<1>2. CASE until # t.nr
  <2>m. PICK m, nr, k : m = Len(t.skipped) /\ nr = t.nr /\ k = until - nr
    OBVIOUS
  <2>. DEFINE passed == [i \in 1..k |-> [dh |-> t.dhr, n |-> nr + i - 1, key |-> After(t.ckr, i - 1)]]
              all == t.skipped \o passed
  <2>n. m \in Nat /\ nr \in Nat /\ k \in Nat \ {0} /\ until = nr + k /\ m + k <= MaxKept
    BY <1>0, <1>2, <2>m DEF Fits
  <2>1. ~(until <= t.nr) /\ k = until - t.nr
    BY <1>0, <2>m, <2>n
  <2>2. \A i \in 1..k : /\ i - 1 \in Nat /\ nr + i - 1 \in Nat
                        /\ After(t.ckr, i - 1) = At(t.ckr.root, nr + i - 1)
    <3>. SUFFICES ASSUME NEW i \in 1..k
                  PROVE  /\ i - 1 \in Nat /\ nr + i - 1 \in Nat
                         /\ After(t.ckr, i - 1) = At(t.ckr.root, nr + i - 1)
      OBVIOUS
    <3>1. i - 1 \in Nat /\ nr + (i - 1) = nr + i - 1 /\ nr + i - 1 \in Nat
      BY <2>n
    <3>2. After(t.ckr, i - 1) = At(t.ckr.root, nr + (i - 1))
      BY <1>d, <2>m, <3>1
    <3>. QED  BY <3>1, <3>2
  <2>3. \A i \in 1..k : passed[i] \in KeptKey
    <3>. SUFFICES ASSUME NEW i \in 1..k
                  PROVE  [dh |-> t.dhr, n |-> nr + i - 1, key |-> After(t.ckr, i - 1)] \in KeptKey
      OBVIOUS
    <3>1. After(t.ckr, i - 1) \in Chain
      BY <1>0, <2>2, AfterType
    <3>. QED  BY <1>0, <2>2, <3>1 DEF KeptKey
  <2>4. passed \in Seq(KeptKey) /\ Len(passed) = k
    <3>1. passed \in [1..k -> KeptKey]
      BY <2>3
    <3>2. passed \in Seq(KeptKey)
      BY <2>n, <3>1, SeqDef
    <3>. QED  BY <2>n, <3>1, <3>2, LenProperties
  <2>p. \A i \in 1..k : passed[i] = [dh |-> t.dhr, n |-> nr + i - 1, key |-> At(t.ckr.root, nr + i - 1)]
    BY <2>2
  <2>. HIDE DEF passed
  <2>5. /\ all \in Seq(KeptKey) /\ Len(all) = m + k
        /\ \A i \in 1..Len(all) : all[i] = IF i <= m THEN t.skipped[i] ELSE passed[i - m]
    <3>2. t.skipped \in Seq(KeptKey) /\ Len(t.skipped) = m
      BY <1>0, <2>m
    <3>1. all \in Seq(KeptKey) /\ Len(all) = m + k
      BY <2>4, <3>2, ConcatProperties
    <3>3. \A i \in 1..(Len(t.skipped) + Len(passed)) :
            all[i] = IF i <= Len(t.skipped) THEN t.skipped[i] ELSE passed[i - Len(t.skipped)]
      BY <2>4, <3>2, ConcatProperties
    <3>. QED  BY <2>4, <3>1, <3>2, <3>3
  <2>6. Newest(all, MaxKept) = all
    BY <1>0, <2>n, <2>5 DEF Newest
  <2>7. u = [t EXCEPT !.ckr = After(t.ckr, k), !.nr = until, !.skipped = Newest(all, MaxKept)]
    <3>1. k = until - t.nr /\ nr = t.nr /\ ~(t.ckr = None \/ until <= t.nr)
      BY <2>1, <2>m DEF Fits
    <3>. QED  BY <3>1 DEF Skip, passed
  <2>8. After(t.ckr, k) = At(t.ckr.root, until)
    BY <1>d, <2>m, <2>n
  <2>9. u = [t EXCEPT !.ckr = At(t.ckr.root, until), !.nr = until, !.skipped = all]
    BY <2>6, <2>7, <2>8
  <2>. HIDE DEF all, u
  <2>10. /\ SameSending(t, u) /\ u.dhr = t.dhr /\ u.epochs = t.epochs /\ u.nr = until
         /\ u.ckr = At(t.ckr.root, until) /\ u.skipped = all
    BY <1>0, <2>9 DEF SameSending, Session
  <2>11. KeptKeys(u) = KeptKeys(t) \cup PassedKeys(t, until)
    <3>. DEFINE Place(j) == [dh |-> t.dhr, n |-> j, key |-> At(t.ckr.root, j)]
    <3>1. KeptKeys(u) = {all[i] : i \in 1..(m + k)}
      BY <2>5, <2>10 DEF KeptKeys
    <3>2. ASSUME NEW i \in 1..(m + k)
          PROVE  (i \in 1..m /\ all[i] = t.skipped[i]) \/ (i - m \in 1..k /\ all[i] = passed[i - m])
      <4>2. \A l \in 1..(m + k) : all[l] = IF l <= m THEN t.skipped[l] ELSE passed[l - m]
        BY <2>5
      <4>3. \A l \in 1..(m + k) : (l <= m => l \in 1..m) /\ (~(l <= m) => l - m \in 1..k)
        BY <2>n
      <4>4. CASE i <= m
        BY <4>2, <4>3, <4>4
      <4>5. CASE ~(i <= m)
        BY <4>2, <4>3, <4>5
      <4>. QED  BY <4>4, <4>5
    <3>3. \A i \in 1..m : i \in 1..(m + k) /\ all[i] = t.skipped[i]
      BY <2>n, <2>5
    <3>4. \A i \in 1..k : m + i \in 1..(m + k) /\ all[m + i] = passed[i]
      <4>1. \A i \in 1..k : m + i \in 1..(m + k) /\ ~(m + i <= m) /\ (m + i) - m = i
        BY <2>n
      <4>. QED  BY <2>5, <4>1
    <3>5. \A i \in 1..k : nr + i - 1 \in nr..(until - 1)
      BY <2>n
    <3>6. \A j \in nr..(until - 1) : j - nr + 1 \in 1..k /\ nr + (j - nr + 1) - 1 = j
      BY <2>n
    <3>7. PassedKeys(t, until) = {Place(j) : j \in nr..(until - 1)}
      BY <2>m DEF PassedKeys
    <3>8. ASSUME NEW i \in 1..(m + k)
          PROVE  all[i] \in KeptKeys(t) \cup {Place(j) : j \in nr..(until - 1)}
      <4>1. CASE i \in 1..m /\ all[i] = t.skipped[i]
        BY <2>m, <4>1 DEF KeptKeys
      <4>2. CASE i - m \in 1..k /\ all[i] = passed[i - m]
        <5>1. PICK l \in 1..k : all[i] = passed[l]
          BY <4>2
        <5>. QED  BY <2>p, <3>5, <5>1
      <4>. QED  BY <3>2, <4>1, <4>2
    <3>9. KeptKeys(t) \subseteq {all[i] : i \in 1..(m + k)}
      BY <2>m, <3>3 DEF KeptKeys
    <3>10. ASSUME NEW j \in nr..(until - 1)
           PROVE  Place(j) \in {all[i] : i \in 1..(m + k)}
      <4>1. PICK i \in 1..k : nr + i - 1 = j
        BY <3>6
      <4>2. Place(j) = passed[i]
        BY <2>p, <4>1
      <4>. QED  BY <3>4, <4>2
    <3>. QED  BY <3>1, <3>7, <3>8, <3>9, <3>10
  <2>12. Len(u.skipped) + t.nr = Len(t.skipped) + until
    BY <2>m, <2>n, <2>5, <2>10
  <2>. QED  BY <1>w, <2>10, <2>11, <2>12 DEF u
<1>. QED  BY <1>1, <1>2

------------------------------------------------------------------------------
(* What becomes of an envelope and of the session that it reaches.           *)

\* The reasons that only the order of delivery gives.
Harmless == {"unknown-epoch", "no-session", "duplicate-first"}

\* A refusal that leaves the session.
Leaves(d, t) == d.why \in Harmless /\ d.session = t

\* The key of the envelope is kept, and no other key in its place.
KeptFor(t, y) ==
  /\ \E k \in KeptKeys(t) : k.dh = y.dh /\ k.n = y.n
  /\ \A k \in KeptKeys(t) : k.dh = y.dh /\ k.n = y.n => k.key = y.key

\* No key is kept in the place of the envelope.
LEMMA NoPlace ==
  ASSUME NEW t, NEW y, \A k \in KeptKeys(t) : ~(k.dh = y.dh /\ k.n = y.n)
  PROVE  KeptAt(t, y) = {}
BY DEF KeptAt, KeptKeys

\* Without one element a sequence has all the others.
LEMMA WithoutKeeps ==
  ASSUME NEW t, WellFormed(t), NEW i \in 1..Len(t.skipped)
  PROVE  LET u == Dropped(t, i) IN
         /\ WellFormed(u) /\ SameSending(t, u)
         /\ u.dhr = t.dhr /\ u.ckr = t.ckr /\ u.nr = t.nr /\ u.epochs = t.epochs
         /\ Len(u.skipped) + 1 = Len(t.skipped)
         /\ KeptKeys(u) \subseteq KeptKeys(t)
         /\ \A k \in KeptKeys(t) : k \in KeptKeys(u) \/ k = t.skipped[i]
<1>. DEFINE w == Without(t.skipped, i)
            u == Dropped(t, i)
<1>1. t \in Session /\ t.skipped \in Seq(KeptKey)
  BY DEF WellFormed, Session
<1>2. PICK m : m = Len(t.skipped)
  OBVIOUS
<1>3. m \in Nat /\ i \in 1..m
  BY <1>1, <1>2, LenProperties
<1>4. Len(w) = m - 1 /\ \A j \in 1..(m - 1) : w[j] = IF j < i THEN t.skipped[j] ELSE t.skipped[j + 1]
  BY <1>1, <1>2, WithoutSeq
<1>5. WellFormed(u)
  BY DroppedType
<1>6. u = [t EXCEPT !.skipped = w]
  BY DEF Dropped
<1>. HIDE DEF w, u
<1>7. /\ SameSending(t, u) /\ u.dhr = t.dhr /\ u.ckr = t.ckr /\ u.nr = t.nr /\ u.epochs = t.epochs
      /\ u.skipped = w
  BY <1>1, <1>6 DEF SameSending, Session
<1>8. \A j \in 1..(m - 1) : j \in 1..m /\ j + 1 \in 1..m
  BY <1>3
<1>9. KeptKeys(u) \subseteq KeptKeys(t)
  <2>1. ASSUME NEW j \in 1..(m - 1)
        PROVE  w[j] \in {t.skipped[l] : l \in 1..m}
    BY <1>4, <1>8
  <2>. QED  BY <1>2, <1>4, <1>7, <2>1 DEF KeptKeys
<1>10. ASSUME NEW j \in 1..m, j # i
       PROVE  t.skipped[j] \in {w[l] : l \in 1..(m - 1)}
  <2>1. CASE j < i
    <3>1. j \in 1..(m - 1)
      BY <1>3, <2>1
    <3>. QED  BY <1>4, <2>1, <3>1
  <2>2. CASE ~(j < i)
    <3>1. PICK l \in 1..(m - 1) : ~(l < i) /\ l + 1 = j
      <4>1. j - 1 \in 1..(m - 1) /\ ~(j - 1 < i) /\ (j - 1) + 1 = j
        BY <1>3, <1>10, <2>2
      <4>. QED  BY <4>1
    <3>. QED  BY <1>4, <3>1
  <2>. QED  BY <2>1, <2>2
<1>11. ASSUME NEW k \in KeptKeys(t)
       PROVE  k \in KeptKeys(u) \/ k = t.skipped[i]
  <2>1. PICK j \in 1..m : k = t.skipped[j]
    BY <1>2 DEF KeptKeys
  <2>2. KeptKeys(u) = {w[l] : l \in 1..(m - 1)}
    BY <1>4, <1>7 DEF KeptKeys
  <2>. QED  BY <1>10, <2>1, <2>2
<1>12. Len(u.skipped) + 1 = Len(t.skipped)
  BY <1>2, <1>3, <1>4, <1>7
<1>. QED  BY <1>5, <1>7, <1>9, <1>11, <1>12 DEF u

\* What a session t becomes that reads an envelope with a kept key.
Spent(t, y, u) ==
  /\ WellFormed(u) /\ SameSending(t, u)
  /\ u.dhr = t.dhr /\ u.ckr = t.ckr /\ u.nr = t.nr /\ u.epochs = t.epochs
  /\ Len(u.skipped) + 1 = Len(t.skipped)
  /\ KeptKeys(u) \subseteq KeptKeys(t)
  /\ \A k \in KeptKeys(t) : k \in KeptKeys(u) \/ k.key = y.key

\* An envelope whose key was kept is read with it.
LEMMA ReadsKept ==
  ASSUME NEW p \in Party, NEW t, WellFormed(t), t.ckr # None, NEW y, KeptFor(t, y), NEW e
  PROVE  LET d == Decrypt(p, t, y, e) IN
         Leaves(d, t) \/ (d.why = None /\ Spent(t, y, d.session))
<1>1. PICK d : d = Decrypt(p, t, y, e)
  OBVIOUS
<1>2. KeptAt(t, y) # {}
  BY DEF KeptFor, KeptKeys, KeptAt
<1>3. CASE Refused(t, y) # None
  <2>1. Refused(t, y) \in Harmless
    BY <1>2, <1>3 DEF Refused, Harmless
  <2>2. Leaves(d, t)
    BY <1>1, <1>3, <2>1, Outcomes DEF Decrypt, Leaves
  <2>. QED  BY <1>1, <2>2
<1>4. CASE ~(Refused(t, y) # None)
  <2>1. ~y.first
    BY <1>4, NotRefused
  <2>2. d = DecryptKept(t, y)
    BY <1>1, <1>2, <1>4, <2>1 DEF Decrypt
  <2>3. PICK i : i = PlaceOf(t, y)
    OBVIOUS
  <2>4. i \in KeptAt(t, y)
    BY <1>2, <2>3 DEF PlaceOf
  <2>5. i \in 1..Len(t.skipped) /\ t.skipped[i].key = y.key
    BY <2>4 DEF KeptAt, KeptFor, KeptKeys
  <2>6. d = Read(Dropped(t, i))
    BY <2>2, <2>3, <2>5 DEF DecryptKept, PlaceOf, Dropped
  <2>7. PICK u : u = Dropped(t, i)
    OBVIOUS
  <2>8. d.why = None /\ d.session = u
    BY <2>6, <2>7, Outcomes
  <2>9. /\ WellFormed(u) /\ SameSending(t, u)
        /\ u.dhr = t.dhr /\ u.ckr = t.ckr /\ u.nr = t.nr /\ u.epochs = t.epochs
        /\ Len(u.skipped) + 1 = Len(t.skipped)
        /\ KeptKeys(u) \subseteq KeptKeys(t)
        /\ \A k \in KeptKeys(t) : k \in KeptKeys(u) \/ k = t.skipped[i]
    BY <2>5, <2>7, WithoutKeeps
  <2>10. Spent(t, y, u)
    BY <2>5, <2>9 DEF Spent
  <2>. QED  BY <1>1, <2>8, <2>10
<1>. QED  BY <1>3, <1>4

\* The next key of a chain is used.
LEMMA PassedFields ==
  ASSUME NEW u, WellFormed(u), NEW root, NEW n, u.ckr # None, u.ckr = At(root, n), u.nr = n
  PROVE  LET v == Passed(u) IN
         /\ WellFormed(v) /\ SameSending(u, v)
         /\ v.dhr = u.dhr /\ v.epochs = u.epochs /\ v.skipped = u.skipped
         /\ v.ckr = At(root, n + 1) /\ v.nr = n + 1
<1>1. u \in Session /\ u.ckr \in Chain
  BY DEF WellFormed, Session
<1>2. WellFormed(Passed(u))
  BY <1>1, PassedType
<1>3. After(u.ckr, 1) = At(root, n + 1)
  BY DEF After, At
<1>4. Passed(u) = [u EXCEPT !.ckr = At(root, n + 1), !.nr = n + 1]
  BY <1>3 DEF Passed
<1>. QED  BY <1>1, <1>2, <1>4 DEF SameSending, Session

\* What a session t becomes that reads an envelope of its present chain.
MovedOn(t, y, u) ==
  /\ WellFormed(u) /\ SameSending(t, u)
  /\ u.dhr = t.dhr /\ u.epochs = t.epochs
  /\ u.ckr = At(t.ckr.root, y.n + 1) /\ u.ckr # None /\ u.nr = y.n + 1
  /\ Len(u.skipped) + t.nr = Len(t.skipped) + y.n
  /\ KeptKeys(u) = KeptKeys(t) \cup PassedKeys(t, y.n)

\* An envelope of the present chain, whose place is not passed yet, is read.
LEMMA ReadsChain ==
  ASSUME NEW p \in Party, NEW t, WellFormed(t), NEW y, WellSealed(y), NEW e,
         Fits(t, y.n), ~TooFar(t, y.n), y.dh = t.dhr, KeptAt(t, y) = {}, y.key = At(t.ckr.root, y.n)
  PROVE  LET d == Decrypt(p, t, y, e) IN
         Leaves(d, t) \/ (d.why = None /\ MovedOn(t, y, d.session))
<1>1. PICK d : d = Decrypt(p, t, y, e)
  OBVIOUS
<1>2. t.ckr # None /\ y.n \in Nat /\ y.key \in Chain
  BY DEF Fits, WellSealed, EnvelopeType
<1>3. CASE Refused(t, y) # None
  <2>1. Refused(t, y) \in Harmless
    BY <1>3 DEF Refused, Harmless, NewEpoch
  <2>2. Leaves(d, t)
    BY <1>1, <1>3, <2>1, Outcomes DEF Decrypt, Leaves
  <2>. QED  BY <1>1, <2>2
<1>4. CASE ~(Refused(t, y) # None)
  <2>1. ~y.first
    BY <1>2, <1>4, NotRefused
  <2>2. d = DecryptNext(p, t, y, e)
    BY <1>1, <1>4, <2>1 DEF Decrypt
  <2>3. Turned(p, t, y, e) = t
    BY <2>1 DEF Turned, NewEpoch
  <2>4. PICK u : u = Skip(t, y.n)
    OBVIOUS
  <2>5. /\ WellFormed(u) /\ SameSending(t, u)
        /\ u.dhr = t.dhr /\ u.epochs = t.epochs /\ u.nr = y.n /\ u.ckr = At(t.ckr.root, y.n)
        /\ Len(u.skipped) + t.nr = Len(t.skipped) + y.n
        /\ KeptKeys(u) = KeptKeys(t) \cup PassedKeys(t, y.n)
    BY <1>2, <2>4, SkipFits
  <2>6. u.ckr = y.key /\ u.ckr # None
    BY <1>2, <2>5, NoneIsNoChain
  <2>7. d = Read(Passed(u))
    BY <2>2, <2>3, <2>4, <2>6 DEF DecryptNext, Passed
  <2>8. PICK v : v = Passed(u)
    OBVIOUS
  <2>9. /\ WellFormed(v) /\ SameSending(u, v)
        /\ v.dhr = u.dhr /\ v.epochs = u.epochs /\ v.skipped = u.skipped
        /\ v.ckr = At(t.ckr.root, y.n + 1) /\ v.nr = y.n + 1
    BY <2>5, <2>6, <2>8, PassedFields
  <2>10. SameSending(t, v) /\ KeptKeys(v) = KeptKeys(u)
    BY <2>5, <2>9 DEF SameSending, KeptKeys
  <2>11. d.why = None /\ d.session = v
    BY <2>7, <2>8, Outcomes
  <2>12. v.ckr # None
    <3>1. v.ckr \in Chain
      BY <1>2, <2>5, <2>6, <2>8, PassedType
    <3>. QED  BY <3>1, NoneIsNoChain
  <2>13. MovedOn(t, y, v)
    BY <2>5, <2>9, <2>10, <2>12 DEF MovedOn
  <2>. QED  BY <1>1, <2>11, <2>13
<1>. QED  BY <1>3, <1>4

\* The sending half that a ratchet step begins with the key pair e.
NewSending(u, root, e, dh) ==
  /\ u.root = Mix(root, {e, dh}, <<e, dh>>) /\ u.dhs = e /\ u.ct = <<e, dh>>
  /\ u.cks = At(u.root, 0) /\ u.ns = 0

\* The sending step leaves the receiving half.
LEMMA SendStepFields ==
  ASSUME NEW t \in Session, NEW e, t.ns = 0
  PROVE  LET u == SendStep(t, e) IN
         /\ NewSending(u, t.root, e, t.dhr)
         /\ u.pn = t.pn /\ u.lastDh = t.lastDh /\ u.isFirst = t.isFirst
         /\ SameReceiving(t, u)
<1>. DEFINE m == Mix(t.root, {e, t.dhr}, <<e, t.dhr>>)
            u == SendStep(t, e)
<1>1. u = [t EXCEPT !.dhs = e, !.ct = <<e, t.dhr>>, !.root = m, !.cks = At(m, 0)]
  BY DEF SendStep, ChainOf, At
<1>. HIDE DEF m, u
<1>2. /\ u.dhs = e /\ u.ct = <<e, t.dhr>> /\ u.root = m /\ u.cks = At(m, 0) /\ u.ns = 0
      /\ u.pn = t.pn /\ u.lastDh = t.lastDh /\ u.isFirst = t.isFirst /\ SameReceiving(t, u)
  BY <1>1 DEF SameReceiving, Session
<1>. QED  BY <1>2 DEF NewSending, m, u

\* An epoch that is remembered is one that was or the new one.
LEMMA Remembered ==
  ASSUME NEW t \in Session, NEW dh \in KeyPair, NEW u, u.epochs = Remember(t, dh)
  PROVE  Epochs(u) \subseteq Epochs(t) \cup {dh}
<1>1. PICK x : x = Append(t.epochs, dh)
  OBVIOUS
<1>2. t.epochs \in Seq(KeyPair) /\ Len(t.epochs) \in Nat
  BY LenProperties DEF Session
<1>3. /\ x \in Seq(KeyPair) /\ Len(x) = Len(t.epochs) + 1 /\ x[Len(t.epochs) + 1] = dh
      /\ \A i \in 1..Len(t.epochs) : x[i] = t.epochs[i]
  BY <1>1, <1>2, AppendProperties
<1>4. PICK off \in Nat : \A i \in 1..Len(u.epochs) : i + off \in 1..Len(x) /\ u.epochs[i] = x[i + off]
  <2>1. u.epochs = Newest(x, MaxEpochs) /\ MaxEpochs \in Nat
    BY <1>1, RatchetAssumption DEF Remember
  <2>2. \E off \in Nat : \A i \in 1..Len(Newest(x, MaxEpochs)) :
          i + off \in 1..Len(x) /\ Newest(x, MaxEpochs)[i] = x[i + off]
    BY <1>3, <2>1, NewestEnds
  <2>. QED  BY <2>1, <2>2
<1>5. \A j \in 1..Len(x) : j \in 1..Len(t.epochs) \/ j = Len(t.epochs) + 1
  BY <1>2, <1>3
<1>6. \A j \in 1..Len(x) : x[j] \in Epochs(t) \cup {dh}
  BY <1>3, <1>5 DEF Epochs
<1>. QED  BY <1>4, <1>6 DEF Epochs

\* What a session t becomes that reads the first envelope of a new epoch.
Ratcheted(t, y, e, root, u) ==
  /\ WellFormed(u)
  /\ NewSending(u, root, e, y.dh)
  /\ u.pn = t.ns /\ u.lastDh = t.lastDh /\ u.isFirst = t.isFirst
  /\ u.dhr = y.dh /\ u.ckr = At(root, 1) /\ u.ckr # None /\ u.nr = 1
  /\ Epochs(u) \subseteq Epochs(t) \cup {y.dh}
  /\ IF t.ckr = None THEN u.skipped = t.skipped
     ELSE /\ Len(u.skipped) + t.nr = Len(t.skipped) + y.pn
          /\ KeptKeys(u) = KeptKeys(t) \cup PassedKeys(t, y.pn)

\* The first envelope of a new epoch is read, and the session answers with an epoch
\* of its own.
LEMMA ReadsNext ==
  ASSUME NEW p \in Party, NEW t, WellFormed(t), NEW y, WellSealed(y), NEW e \in KeyPair,
         NEW root, root = Mix(t.root, {y.dh, t.dhs}, <<y.dh, t.dhs>>),
         ~y.first, y.ct = <<y.dh, t.dhs>>, y.n = 0, y.key = At(root, 0),
         t.dhs \in KeyPair, y.dh # t.dhr, y.dh \notin Epochs(t), KeptAt(t, y) = {},
         t.ckr # None => Fits(t, y.pn) /\ ~TooFar(t, y.pn)
  PROVE  LET d == Decrypt(p, t, y, e) IN
         Leaves(d, t) \/ (d.why = None /\ Ratcheted(t, y, e, root, d.session))
<1>1. PICK d : d = Decrypt(p, t, y, e)
  OBVIOUS
<1>2. /\ y.pn \in Nat /\ y.n \in Nat /\ y.key \in Chain /\ y.dh \in KeyPair
      /\ (y.ct # None => y.ct \in Ciphertext) /\ t \in Session
  BY DEF WellSealed, EnvelopeType, WellFormed
<1>3. CASE Refused(t, y) # None
  <2>1. ~TooFar(t, y.pn)
    BY DEF TooFar
  <2>2. Refused(t, y) \in Harmless
    BY <1>3, <2>1 DEF Refused, Harmless, NewEpoch
  <2>3. Leaves(d, t)
    BY <1>1, <1>3, <2>2, Outcomes DEF Decrypt, Leaves
  <2>. QED  BY <1>1, <2>3
<1>4. CASE ~(Refused(t, y) # None)
  <2>1. d = DecryptNext(p, t, y, e) /\ y.ct # None
    BY <1>1, <1>4, NotRefused DEF Decrypt, NewEpoch
  \* The rest of the chain that the epoch ends.
  <2>2. PICK v : v = Skip(t, y.pn)
    OBVIOUS
  <2>3. /\ WellFormed(v) /\ SameSending(t, v) /\ v.dhr = t.dhr /\ v.epochs = t.epochs
        /\ IF t.ckr = None THEN v = t
           ELSE /\ Len(v.skipped) + t.nr = Len(t.skipped) + y.pn
                /\ KeptKeys(v) = KeptKeys(t) \cup PassedKeys(t, y.pn)
    <3>1. CASE t.ckr = None
      <4>1. v = t
        BY <2>2, <3>1 DEF Skip
      <4>. QED  BY <3>1, <4>1 DEF SameSending
    <3>2. CASE t.ckr # None
      BY <1>2, <2>2, <3>2, SkipFits
    <3>. QED  BY <3>1, <3>2
  \* The two steps of the ratchet.
  <2>4. NextRoot(v, y) = root
    <3>1. v.root = t.root /\ v.dhs = t.dhs
      BY <2>3 DEF SameSending
    <3>2. Opened(y.ct, v.dhs) = <<y.dh, t.dhs>>
      BY <3>1 DEF Opened
    <3>3. {v.dhs, y.dh} = {y.dh, t.dhs}
      BY <3>1
    <3>. QED  BY <3>1, <3>2, <3>3 DEF NextRoot
  <2>5. PICK ep : ep = Remember(v, y.dh)
    OBVIOUS
  <2>6. PICK r : r = [v EXCEPT !.pn = v.ns, !.ns = 0, !.nr = 0, !.dhr = y.dh,
                               !.epochs = ep, !.root = root, !.ckr = At(root, 0)]
    OBVIOUS
  <2>7. DHRatchet(v, y, e) = SendStep(r, e)
    BY <2>4, <2>5, <2>6 DEF DHRatchet, NextRoot, ChainOf, At
  <2>8. v \in Session /\ v.dhs \in KeyPair /\ y.ct \in Ciphertext
    BY <1>2, <2>1, <2>3 DEF WellFormed, SameSending
  <2>9. /\ WellFormed(DHRatchet(v, y, e)) /\ NextRoot(v, y) \in Root
    BY <2>3, <2>8, RatchetType
  <2>10. /\ r.root = root /\ r.pn = t.ns /\ r.ns = 0 /\ r.nr = 0 /\ r.dhr = y.dh /\ r.epochs = ep
         /\ r.ckr = At(root, 0) /\ r.skipped = v.skipped /\ r.lastDh = t.lastDh /\ r.isFirst = t.isFirst
    BY <2>3, <2>6, <2>8 DEF Session, SameSending
  <2>11. r \in Session
    <3>1. root \in Root /\ At(root, 0) \in Chain
      BY <2>4, <2>9 DEF At, Chain
    <3>2. ep \in Seq(KeyPair)
      BY <1>2, <2>5, <2>8, RememberType
    <3>3. v.ns \in Nat
      BY <2>8 DEF Session
    <3>4. PICK ck, zero : ck = At(root, 0) /\ zero = 0
      OBVIOUS
    <3>5. r = [v EXCEPT !.pn = v.ns, !.ns = zero, !.nr = zero, !.dhr = y.dh,
                        !.epochs = ep, !.root = root, !.ckr = ck]
      BY <2>6, <3>4
    <3>6. zero \in Nat /\ ck \in Chain
      BY <3>1, <3>4
    <3>. QED  BY <1>2, <2>8, <3>1, <3>2, <3>3, <3>5, <3>6 DEF Session
  <2>12. PICK w : w = SendStep(r, e)
    OBVIOUS
  <2>13. /\ WellFormed(w) /\ NewSending(w, root, e, y.dh)
         /\ w.pn = t.ns /\ w.lastDh = t.lastDh /\ w.isFirst = t.isFirst
         /\ w.dhr = y.dh /\ w.epochs = ep /\ w.ckr = At(root, 0) /\ w.nr = 0 /\ w.skipped = v.skipped
    BY <2>7, <2>9, <2>10, <2>11, <2>12, SendStepFields DEF SameReceiving
  \* And the key.
  <2>14. Turned(p, t, y, e) = w
    BY <2>2, <2>7, <2>12 DEF Turned, NewEpoch
  <2>15. w.ckr = y.key /\ w.ckr # None /\ ~TooFar(w, y.n) /\ Skip(w, y.n) = w
    <3>1. w.ckr = y.key /\ w.ckr # None
      BY <1>2, <2>13, NoneIsNoChain
    <3>2. ~(y.n - w.nr > MaxSkip) /\ y.n <= w.nr
      BY <2>13, RatchetAssumption
    <3>. QED  BY <3>1, <3>2 DEF TooFar, Skip
  <2>16. d = Read(Passed(w))
    BY <2>1, <2>14, <2>15 DEF DecryptNext, Passed
  <2>17. PICK u : u = Passed(w)
    OBVIOUS
  <2>18. /\ WellFormed(u) /\ SameSending(w, u)
         /\ u.dhr = w.dhr /\ u.epochs = w.epochs /\ u.skipped = w.skipped
         /\ u.ckr = At(root, 1) /\ u.nr = 1
    <3>1. w.ckr = At(root, 0) /\ w.nr = 0 /\ 0 + 1 = 1
      BY <2>13
    <3>2. /\ WellFormed(u) /\ SameSending(w, u)
          /\ u.dhr = w.dhr /\ u.epochs = w.epochs /\ u.skipped = w.skipped
          /\ u.ckr = At(root, 0 + 1) /\ u.nr = 0 + 1
      BY <2>13, <2>15, <2>17, <3>1, PassedFields
    <3>. QED  BY <3>1, <3>2
  <2>19. u.ckr # None
    <3>1. w.ckr \in Chain
      BY <1>2, <2>15
    <3>2. u.ckr \in Chain
      BY <2>17, <2>13, <3>1, PassedType
    <3>. QED  BY <3>2, NoneIsNoChain
  <2>20. Epochs(u) \subseteq Epochs(t) \cup {y.dh}
    <3>1. Epochs(u) \subseteq Epochs(v) \cup {y.dh}
      BY <1>2, <2>5, <2>8, <2>13, <2>18, Remembered
    <3>2. Epochs(v) = Epochs(t)
      BY <2>3 DEF Epochs
    <3>. QED  BY <3>1, <3>2
  <2>21. NewSending(u, root, e, y.dh) /\ u.pn = t.ns /\ u.lastDh = t.lastDh /\ u.isFirst = t.isFirst
    BY <2>13, <2>18 DEF NewSending, SameSending
  <2>22. u.skipped = v.skipped /\ KeptKeys(u) = KeptKeys(v)
    BY <2>13, <2>18 DEF KeptKeys
  <2>23. d.why = None /\ d.session = u
    BY <2>16, <2>17, Outcomes
  <2>24. IF t.ckr = None THEN u.skipped = t.skipped
         ELSE /\ Len(u.skipped) + t.nr = Len(t.skipped) + y.pn
              /\ KeptKeys(u) = KeptKeys(t) \cup PassedKeys(t, y.pn)
    BY <2>3, <2>22
  <2>25. Ratcheted(t, y, e, root, u)
    BY <2>13, <2>18, <2>19, <2>20, <2>21, <2>24 DEF Ratcheted
  <2>. QED  BY <1>1, <2>23, <2>25
<1>. QED  BY <1>3, <1>4

\* What a session t becomes that reads a first message.
Established(p, t, y, e, root, u) ==
  /\ WellFormed(u)
  /\ IF AnswersFirst(p, t)
     THEN /\ NewSending(u, t.root, e, y.dh)
          /\ u.pn = (IF t.cks = None THEN t.pn ELSE t.ns)
          /\ u.lastDh = t.lastDh /\ u.isFirst = t.isFirst
     ELSE SameSending(t, u)
  /\ u.dhr = y.dh /\ u.ckr = At(root, 1) /\ u.ckr # None /\ u.nr = 1
  /\ Epochs(u) \subseteq Epochs(t) \cup {y.dh}
  /\ u.skipped = t.skipped

\* A first message is read by a session that received nothing yet.
LEMMA ReadsFirstMessage ==
  ASSUME NEW p \in Party, NEW t, WellFormed(t), t.ckr = None, NEW y, WellSealed(y), NEW e \in KeyPair,
         NEW root, root = Mix(t.root, {y.dh, Prekey(p)}, <<y.dh, Prekey(p)>>),
         y.first, y.ct = <<y.dh, Prekey(p)>>, y.n = 0, y.key = At(root, 0)
  PROVE  LET d == Decrypt(p, t, y, e) IN
         Leaves(d, t) \/ (d.why = None /\ Established(p, t, y, e, root, d.session))
<1>1. PICK d : d = Decrypt(p, t, y, e)
  OBVIOUS
<1>2. /\ y.n \in Nat /\ y.key \in Chain /\ y.dh \in KeyPair /\ t \in Session /\ t.nr = 0
      /\ (t.cks = None => t.ns = 0)
  BY DEF WellSealed, EnvelopeType, WellFormed
<1>3. CASE Refused(t, y) # None
  <2>1. Refused(t, y) \in Harmless
    BY <1>3 DEF Refused, Harmless, NewEpoch
  <2>2. Leaves(d, t)
    BY <1>1, <1>3, <2>1, Outcomes DEF Decrypt, Leaves
  <2>. QED  BY <1>1, <2>2
<1>4. CASE ~(Refused(t, y) # None)
  <2>1. d = DecryptNext(p, t, y, e)
    BY <1>1, <1>4 DEF Decrypt
  <2>2. FirstRoot(p, t, y) = root
    <3>1. Opened(y.ct, Prekey(p)) = <<y.dh, Prekey(p)>>
      BY DEF Opened
    <3>. QED  BY <3>1 DEF FirstRoot
  <2>3. PICK ep : ep = Remember(t, y.dh)
    OBVIOUS
  <2>4. PICK r : r = [t EXCEPT !.ckr = At(root, 0), !.dhr = y.dh, !.epochs = ep]
    OBVIOUS
  <2>5. PICK v : v = [r EXCEPT !.pn = t.ns, !.ns = 0]
    OBVIOUS
  <2>6. PICK w : w = EstablishFirst(p, t, y, e)
    OBVIOUS
  <2>7. w = IF ~AnswersFirst(p, t) THEN r ELSE IF t.cks = None THEN SendStep(r, e) ELSE SendStep(v, e)
    BY <2>2, <2>3, <2>4, <2>5, <2>6 DEF EstablishFirst, FirstRoot, ChainOf, At
  <2>8. WellFormed(w) /\ FirstRoot(p, t, y) \in Root
    BY <2>6, EstablishType
  <2>9. r \in Session /\ v \in Session
    <3>1. root \in Root /\ At(root, 0) \in Chain
      BY <2>2, <2>8 DEF At, Chain
    <3>2. ep \in Seq(KeyPair) /\ t.ns \in Nat
      BY <1>2, <2>3, RememberType DEF Session
    <3>3. r \in Session
      BY <1>2, <2>4, <3>1, <3>2 DEF Session
    <3>. QED  BY <2>5, <3>2, <3>3 DEF Session
  <2>10. /\ SameSending(t, r) /\ r.ckr = At(root, 0) /\ r.dhr = y.dh /\ r.epochs = ep
         /\ r.nr = 0 /\ r.skipped = t.skipped
    BY <1>2, <2>4 DEF Session, SameSending
  <2>11. /\ v.root = t.root /\ v.pn = t.ns /\ v.ns = 0 /\ v.lastDh = t.lastDh /\ v.isFirst = t.isFirst
         /\ SameReceiving(r, v)
    BY <2>5, <2>9, <2>10 DEF Session, SameSending, SameReceiving
  <2>12. /\ IF AnswersFirst(p, t)
            THEN /\ NewSending(w, t.root, e, y.dh)
                 /\ w.pn = (IF t.cks = None THEN t.pn ELSE t.ns)
                 /\ w.lastDh = t.lastDh /\ w.isFirst = t.isFirst
            ELSE SameSending(t, w)
         /\ w.dhr = y.dh /\ w.epochs = ep /\ w.ckr = At(root, 0) /\ w.nr = 0 /\ w.skipped = t.skipped
    <3>1. CASE ~AnswersFirst(p, t)
      BY <2>7, <2>10, <3>1
    <3>2. CASE AnswersFirst(p, t) /\ t.cks = None
      <4>1. w = SendStep(r, e) /\ r.ns = 0
        BY <1>2, <2>7, <2>10, <3>2 DEF SameSending
      <4>. QED  BY <2>9, <2>10, <3>2, <4>1, SendStepFields DEF SameSending, SameReceiving
    <3>3. CASE AnswersFirst(p, t) /\ t.cks # None
      <4>1. w = SendStep(v, e)
        BY <2>7, <3>3
      <4>. QED  BY <2>9, <2>10, <2>11, <3>3, <4>1, SendStepFields DEF SameReceiving
    <3>. QED  BY <3>1, <3>2, <3>3
  <2>13. Turned(p, t, y, e) = w
    BY <2>6 DEF Turned
  <2>14. w.ckr = y.key /\ w.ckr # None /\ ~TooFar(w, y.n) /\ Skip(w, y.n) = w
    <3>1. w.ckr = y.key /\ w.ckr # None
      BY <1>2, <2>12, NoneIsNoChain
    <3>2. ~(y.n - w.nr > MaxSkip) /\ y.n <= w.nr
      BY <2>12, RatchetAssumption
    <3>. QED  BY <3>1, <3>2 DEF TooFar, Skip
  <2>15. d = Read(Passed(w))
    BY <2>1, <2>13, <2>14 DEF DecryptNext, Passed
  <2>16. PICK u : u = Passed(w)
    OBVIOUS
  <2>17. /\ WellFormed(u) /\ SameSending(w, u)
         /\ u.dhr = w.dhr /\ u.epochs = w.epochs /\ u.skipped = w.skipped
         /\ u.ckr = At(root, 1) /\ u.nr = 1
    <3>1. w.ckr = At(root, 0) /\ w.nr = 0 /\ 0 + 1 = 1
      BY <2>12
    <3>2. /\ WellFormed(u) /\ SameSending(w, u)
          /\ u.dhr = w.dhr /\ u.epochs = w.epochs /\ u.skipped = w.skipped
          /\ u.ckr = At(root, 0 + 1) /\ u.nr = 0 + 1
      BY <2>8, <2>14, <2>16, <3>1, PassedFields
    <3>. QED  BY <3>1, <3>2
  <2>18. u.ckr # None
    <3>1. w.ckr \in Chain
      BY <1>2, <2>14
    <3>2. u.ckr \in Chain
      BY <2>8, <2>16, <3>1, PassedType
    <3>. QED  BY <3>2, NoneIsNoChain
  <2>19. Epochs(u) \subseteq Epochs(t) \cup {y.dh}
    BY <1>2, <2>3, <2>12, <2>17, Remembered
  <2>20. IF AnswersFirst(p, t)
         THEN /\ NewSending(u, t.root, e, y.dh)
              /\ u.pn = (IF t.cks = None THEN t.pn ELSE t.ns)
              /\ u.lastDh = t.lastDh /\ u.isFirst = t.isFirst
         ELSE SameSending(t, u)
    BY <2>12, <2>17 DEF NewSending, SameSending
  <2>21. d.why = None /\ d.session = u
    BY <2>15, <2>16, Outcomes
  <2>22. Established(p, t, y, e, root, u)
    BY <2>12, <2>17, <2>18, <2>19, <2>20 DEF Established
  <2>. QED  BY <1>1, <2>21, <2>22
<1>. QED  BY <1>3, <1>4


------------------------------------------------------------------------------
(* The two sides of a conversation.  A side is a record of its session, the  *)
(* key pairs it generated, the texts it submitted, how many envelopes it     *)
(* read, and the envelopes of its own that its peer has not read.            *)

\* The root of a session that answered nothing yet, and the root of the chain that p
\* opens the conversation with.
Blank == [otk |-> None, secrets |-> <<>>]
FirstChain(p) == Mix(Blank, {<<p, 1>>, Prekey(Peer(p))}, <<<<p, 1>>, Prekey(Peer(p))>>)

\* A side that did nothing yet, and one that sends with the key pair it generated last.
Silent(a) == a.session = NewSession(None) /\ a.pairs = 0 /\ a.reads = 0 /\ a.owed = {}

Sender(p, s, k) ==
  /\ k >= 1 /\ s.dhs = <<p, k>> /\ ~s.isFirst
  /\ IF s.ns = 0 THEN s.lastDh # s.dhs ELSE s.lastDh = s.dhs
  /\ s.lastDh = None \/ \E j \in 1..k : s.lastDh = <<p, j>>

\* An epoch that is not after another of the same party.
UpTo(x, dh) == x[1] = dh[1] /\ x[2] <= dh[2]

\* A session that received nothing, and one that received from p, which generated k
\* key pairs: what it kept and remembers is not after its present epoch.
Unheard(t, r) == t.dhr = None /\ t.skipped = <<>> /\ t.epochs = <<>> /\ t.root = Blank /\ r = 0

Heard(p, t, k, r) ==
  /\ t.nr >= 1 /\ r >= 1
  /\ \E j \in 1..k : t.dhr = <<p, j>>
  /\ \A x \in Epochs(t) : UpTo(x, t.dhr)
  /\ \A x \in KeptKeys(t) : UpTo(x.dh, t.dhr) /\ (x.dh = t.dhr => x.n < t.nr)

\* The side of p, whose peer generated k key pairs.
Half(p, a, k) ==
  /\ WellFormed(a.session) /\ a.pairs \in Nat /\ a.texts \in 0..MaxTexts /\ a.reads \in Nat
  /\ \A y \in a.owed : WellSealed(y)
  /\ IF a.session.cks = None THEN Silent(a) ELSE Sender(p, a.session, a.pairs)
  /\ IF a.session.ckr = None THEN Unheard(a.session, a.reads)
     ELSE Heard(Peer(p), a.session, k, a.reads)

\* Where the chain ends that t is receiving on, of the sender s.
Reach(t, s) == IF t.dhr = s.dhs THEN s.ns ELSE s.pn

\* What t kept and read and what it has yet to come to were all sent: x texts and a
\* receipt.
Counts(t, s, x, r) ==
  /\ t.nr <= Reach(t, s)
  /\ Len(t.skipped) + r + s.ns + (IF t.dhr = s.dhs THEN 0 ELSE s.pn) <= x + 1 + t.nr

\* p has sent on the chain it opened with, and on no other.
Opens(p, s, k, x) ==
  /\ s.cks # None /\ k = 1 /\ s.root = Blank /\ s.cks.root = FirstChain(p)
  /\ 1 <= s.ns /\ s.ns <= x /\ s.pn = 0

\* t receives on the chain that s sends on.
Follows(t, s) == t.ckr # None /\ s.cks # None /\ t.dhr = s.dhs /\ t.ckr.root = s.cks.root

\* The k-th key pair of p began an epoch that t does not know yet.
Awaits(p, t, s, k) ==
  /\ t.cks # None /\ s.cks # None
  /\ s.root = Mix(t.root, {s.dhs, t.dhs}, <<s.dhs, t.dhs>>) /\ s.cks.root = s.root
  /\ s.ns = 0 => s.ct = <<s.dhs, t.dhs>>
  /\ IF t.dhr = None THEN k = 1 \/ (k = 2 /\ p = Larger) ELSE t.dhr = <<p, k - 1>>

\* How far the two are: nobody heard the other; both opened, and the one with the
\* smaller key heard the other; or p answered and its peer does not know.
BothOpen(p, a, b) ==
  /\ a.session.ckr = None /\ b.session.ckr = None
  /\ a.session.cks # None => Opens(p, a.session, a.pairs, a.texts)
  /\ b.session.cks # None => Opens(Peer(p), b.session, b.pairs, b.texts)

Crossed(p, a, b) ==
  /\ p = Larger /\ a.session.ckr = None
  /\ Opens(p, a.session, a.pairs, a.texts) /\ Opens(Peer(p), b.session, b.pairs, b.texts)
  /\ Follows(b.session, a.session) /\ Counts(b.session, a.session, a.texts, b.reads)

Leads(p, a, b) ==
  /\ Follows(a.session, b.session) /\ Counts(a.session, b.session, b.texts, a.reads)
  /\ Awaits(p, b.session, a.session, a.pairs) /\ Counts(b.session, a.session, a.texts, b.reads)

Phase(p, a, b) ==
  \/ BothOpen(p, a, b)
  \/ Crossed(p, a, b) \/ Crossed(Peer(p), b, a)
  \/ Leads(p, a, b) \/ Leads(Peer(p), b, a)

\* What an envelope y of p's that is not read is to t, when s is the session of p: of
\* the chain that t receives on; of the one that p sends on and t does not know; of
\* the one that p opened with, before t heard of p; or of one that t will never know.
IsOfChain(t, s, y) ==
  t.ckr # None /\ y.dh = t.dhr /\ t.nr <= y.n /\ y.n < Reach(t, s) /\ y.key = At(t.ckr.root, y.n)

IsOfNext(t, s, y) ==
  /\ y.dh = s.dhs /\ t.dhr # s.dhs /\ s.root # Blank
  /\ y.n < s.ns /\ y.key = At(s.cks.root, y.n) /\ y.pn = s.pn
  /\ ~y.first /\ y.ct = (IF y.n = 0 THEN <<s.dhs, t.dhs>> ELSE None)

IsOfOpening(p, t, s, y) ==
  /\ t.ckr = None /\ y.dh = <<p, 1>> /\ y.key = At(FirstChain(p), y.n)
  /\ IF s.dhs = y.dh THEN s.root = Blank /\ y.n < s.ns ELSE y.n < s.pn
  /\ y.first = (y.n = 0) /\ y.ct = (IF y.n = 0 THEN <<y.dh, Prekey(Peer(p))>> ELSE None)
  /\ y.otk = None

IsLost(t, y) ==
  /\ t.ckr # None /\ y.dh \notin Epochs(t) /\ (y.first \/ y.ct = None)
  /\ y.dh[1] = t.dhr[1] /\ y.dh[2] < t.dhr[2]

Due(p, t, s, y) ==
  \/ KeptFor(t, y) \/ IsOfChain(t, s, y) \/ IsOfNext(t, s, y)
  \/ IsOfOpening(p, t, s, y) \/ IsLost(t, y)

\* The invariant of the two sides.
Orderly(p, a, b) ==
  /\ Half(p, a, b.pairs) /\ Half(Peer(p), b, a.pairs)
  /\ Phase(p, a, b)
  /\ \A y \in a.owed : Due(p, b.session, a.session, y)
  /\ \A y \in b.owed : Due(Peer(p), a.session, b.session, y)

\* It may be read from either side.
LEMMA EitherSide ==
  ASSUME NEW p \in Party, NEW a, NEW b, Orderly(p, a, b)
  PROVE  Orderly(Peer(p), b, a)
<1>1. Peer(Peer(p)) = p
  BY PeerOfPeer
<1>2. Phase(Peer(p), b, a)
  BY <1>1 DEF Orderly, Phase, BothOpen
<1>. QED  BY <1>1, <1>2 DEF Orderly

\* What a side knows of its session, by name.
LEMMA HalfFacts ==
  ASSUME NEW p, NEW a, NEW k, Half(p, a, k)
  PROVE  LET s == a.session IN
         /\ WellFormed(s) /\ s \in Session /\ s.ns \in Nat /\ s.nr \in Nat /\ s.pn \in Nat
         /\ a.pairs \in Nat /\ a.texts \in Nat /\ a.reads \in Nat /\ Len(s.skipped) \in Nat
         /\ s.cks # None => /\ s.cks \in Chain /\ s.cks = At(s.cks.root, s.ns)
                            /\ s.dhs = <<p, a.pairs>> /\ a.pairs >= 1
         /\ s.ckr # None => s.ckr \in Chain /\ s.ckr = At(s.ckr.root, s.nr)
<1>. DEFINE s == a.session
<1>1. WellFormed(s) /\ s \in Session /\ a.pairs \in Nat /\ a.texts \in Nat /\ a.reads \in Nat
  BY DEF Half, WellFormed
<1>2. s.ns \in Nat /\ s.nr \in Nat /\ s.pn \in Nat /\ Len(s.skipped) \in Nat
  BY <1>1, LenProperties DEF Session
<1>3. ASSUME s.cks # None
      PROVE  /\ s.cks \in Chain /\ s.cks = At(s.cks.root, s.ns)
             /\ s.dhs = <<p, a.pairs>> /\ a.pairs >= 1
  <2>1. s.cks \in Chain /\ s.cks.at = s.ns
    BY <1>1, <1>3 DEF WellFormed, Session
  <2>2. s.cks = At(s.cks.root, s.ns)
    BY <2>1, ChainAt
  <2>. QED  BY <1>3, <2>1, <2>2 DEF Half, Sender
<1>4. ASSUME s.ckr # None
      PROVE  s.ckr \in Chain /\ s.ckr = At(s.ckr.root, s.nr)
  <2>1. s.ckr \in Chain /\ s.ckr.at = s.nr
    BY <1>1, <1>4 DEF WellFormed, Session
  <2>. QED  BY <2>1, ChainAt
<1>. QED  BY <1>1, <1>2, <1>3, <1>4

\* A root with something mixed into it is not blank.
LEMMA NotBlank ==
  ASSUME NEW root \in Root, NEW dh, NEW kem
  PROVE  Mix(root, dh, kem) # Blank
<1>1. root.secrets \in Seq(Secret)
  BY DEF Root
<1>2. Mix(root, dh, kem).secrets = Append(root.secrets, <<dh, kem>>)
  BY DEF Mix, Root
<1>3. IsSeq(root.secrets)
  BY <1>1 DEF IsSeq
<1>4. Len(Append(root.secrets, <<dh, kem>>)) = Len(root.secrets) + 1 /\ Len(root.secrets) \in Nat
  BY <1>3, AppendSeq
<1>5. Len(Blank.secrets) = 0
  BY DEF Blank
<1>. QED  BY <1>2, <1>4, <1>5

\* Nothing is kept where nothing was heard.
LEMMA UnheardKeeps ==
  ASSUME NEW t, NEW r, Unheard(t, r)
  PROVE  KeptKeys(t) = {} /\ Epochs(t) = {}
BY DEF Unheard, KeptKeys, Epochs

------------------------------------------------------------------------------
(* Sending.                                                                  *)

\* What a session s becomes that sends one envelope on its chain.
SentOn(s, u) ==
  /\ WellFormed(u) /\ SameReceiving(s, u)
  /\ u.root = s.root /\ u.dhs = s.dhs /\ u.ct = s.ct /\ u.pn = s.pn
  /\ u.cks = At(s.cks.root, s.ns + 1) /\ u.cks # None /\ u.ns = s.ns + 1
  /\ u.lastDh = s.dhs /\ ~u.isFirst

\* So does encrypt leave it.
LEMMA SentFields ==
  ASSUME NEW s, WellFormed(s), s.cks # None
  PROVE  SentOn(s, Sent(s))
<1>. DEFINE u == Sent(s)
<1>1. s \in Session /\ s.cks \in Chain /\ s.cks.at = s.ns
  BY DEF WellFormed, Session
<1>2. WellFormed(u) /\ u.cks \in Chain
  BY <1>1, SentType
<1>3. After(s.cks, 1) = At(s.cks.root, s.ns + 1)
  BY <1>1, ChainAt
<1>4. u = [s EXCEPT !.isFirst = FALSE, !.cks = At(s.cks.root, s.ns + 1), !.ns = s.ns + 1, !.lastDh = s.dhs]
  BY <1>3 DEF Sent
<1>. HIDE DEF u
<1>5. u.cks # None
  BY <1>2, NoneIsNoChain
<1>6. /\ SameReceiving(s, u) /\ u.root = s.root /\ u.dhs = s.dhs /\ u.ct = s.ct /\ u.pn = s.pn
      /\ u.cks = At(s.cks.root, s.ns + 1) /\ u.ns = s.ns + 1 /\ u.lastDh = s.dhs /\ ~u.isFirst
  BY <1>1, <1>4 DEF Session, SameReceiving
<1>7. SentOn(s, u)
  BY <1>2, <1>5, <1>6 DEF SentOn
<1>. QED  BY <1>7 DEF u

\* What an envelope is to a session that receives as before.
LEMMA DueToSame ==
  ASSUME NEW p, NEW t, NEW u, NEW s, NEW y, SameReceiving(t, u), Due(p, t, s, y),
         u.dhs = t.dhs \/ ~IsOfNext(t, s, y)
  PROVE  Due(p, u, s, y)
<1>1. KeptKeys(u) = KeptKeys(t) /\ Epochs(u) = Epochs(t) /\ Reach(u, s) = Reach(t, s)
      /\ u.ckr = t.ckr /\ u.dhr = t.dhr /\ u.nr = t.nr
  BY DEF SameReceiving, KeptKeys, Epochs, Reach
<1>2. KeptFor(t, y) => KeptFor(u, y)
  BY <1>1 DEF KeptFor
<1>3. IsOfChain(t, s, y) => IsOfChain(u, s, y)
  BY <1>1 DEF IsOfChain
<1>4. IsOfNext(t, s, y) => IsOfNext(u, s, y)
  BY <1>1 DEF IsOfNext
<1>5. IsOfOpening(p, t, s, y) => IsOfOpening(p, u, s, y)
  BY <1>1 DEF IsOfOpening
<1>6. IsLost(t, y) => IsLost(u, y)
  BY <1>1 DEF IsLost
<1>. QED  BY <1>2, <1>3, <1>4, <1>5, <1>6 DEF Due

\* And to one whose sender sends as before, or sent one envelope more.
LEMMA DueFromSame ==
  ASSUME NEW p, NEW t, NEW s, NEW u, NEW y, SameSending(s, u), Due(p, t, s, y)
  PROVE  Due(p, t, u, y)
<1>1. Reach(t, u) = Reach(t, s) /\ u.dhs = s.dhs /\ u.root = s.root /\ u.ns = s.ns /\ u.pn = s.pn /\ u.cks = s.cks
  BY DEF SameSending, Reach
<1>2. IsOfChain(t, s, y) => IsOfChain(t, u, y)
  BY <1>1 DEF IsOfChain
<1>3. IsOfNext(t, s, y) => IsOfNext(t, u, y)
  BY <1>1 DEF IsOfNext
<1>4. IsOfOpening(p, t, s, y) => IsOfOpening(p, t, u, y)
  BY <1>1 DEF IsOfOpening
<1>. QED  BY <1>2, <1>3, <1>4 DEF Due

\* Or that sent one more envelope.
LEMMA DueFromSent ==
  ASSUME NEW p, NEW t, NEW s, s.ns \in Nat, NEW u, NEW y, y.n \in Nat, SentOn(s, u), Due(p, t, s, y)
  PROVE  Due(p, t, u, y)
<1>1. /\ u.dhs = s.dhs /\ u.root = s.root /\ u.ns = s.ns + 1 /\ u.pn = s.pn /\ u.cks.root = s.cks.root
  BY DEF SentOn, At
<1>n. PICK ns, n : ns = s.ns /\ n = y.n
  OBVIOUS
<1>2. n < ns => n < ns + 1
  BY <1>n
<1>3. y.n < s.ns => y.n < u.ns
  BY <1>1, <1>2, <1>n
<1>4. IsOfChain(t, s, y) => IsOfChain(t, u, y)
  BY <1>1, <1>3 DEF IsOfChain, Reach
<1>5. IsOfNext(t, s, y) => IsOfNext(t, u, y)
  BY <1>1, <1>3 DEF IsOfNext
<1>6. IsOfOpening(p, t, s, y) => IsOfOpening(p, t, u, y)
  BY <1>1, <1>3 DEF IsOfOpening
<1>. QED  BY <1>4, <1>5, <1>6 DEF Due

\* What a session heard that receives as before.
LEMMA HeardSame ==
  ASSUME NEW t, NEW u, SameReceiving(t, u)
  PROVE  /\ KeptKeys(u) = KeptKeys(t) /\ Epochs(u) = Epochs(t)
         /\ \A q, k, r : Heard(q, t, k, r) => Heard(q, u, k, r)
         /\ \A r : Unheard(t, r) /\ u.root = t.root => Unheard(u, r)
         /\ \A s, x, r : Counts(t, s, x, r) => Counts(u, s, x, r)
         /\ \A s : Follows(t, s) => Follows(u, s)
<1>1. KeptKeys(u) = KeptKeys(t) /\ Epochs(u) = Epochs(t)
  BY DEF SameReceiving, KeptKeys, Epochs
<1>2. /\ u.ckr = t.ckr /\ u.dhr = t.dhr /\ u.nr = t.nr /\ u.skipped = t.skipped /\ u.epochs = t.epochs
  BY DEF SameReceiving
<1>3. \A q, k, r : Heard(q, t, k, r) => Heard(q, u, k, r)
  BY <1>1, <1>2 DEF Heard
<1>4. \A r : Unheard(t, r) /\ u.root = t.root => Unheard(u, r)
  BY <1>2 DEF Unheard
<1>5. \A s, x, r : Counts(t, s, x, r) => Counts(u, s, x, r)
  BY <1>2 DEF Counts, Reach
<1>6. \A s : Follows(t, s) => Follows(u, s)
  BY <1>2 DEF Follows
<1>. QED  BY <1>1, <1>3, <1>4, <1>5, <1>6

\* The envelope that is sent, on a chain that is not new.
SealedOn(s, y) ==
  /\ y.dh = s.dhs /\ y.pn = s.pn /\ y.n = s.ns /\ y.key = At(s.cks.root, s.ns)
  /\ y.first = FALSE /\ y.otk = None /\ y.ct = IF s.ns = 0 THEN s.ct ELSE None

\* It is what a side that sent before hands over.
LEMMA SealedFields ==
  ASSUME NEW p, NEW s, WellFormed(s), s.cks # None, NEW k, Sender(p, s, k), NEW text
  PROVE  SealedOn(s, Envelope(p, s, text))
<1>1. s.cks \in Chain /\ s.cks.at = s.ns
  BY DEF WellFormed, Session
<1>2. s.cks = At(s.cks.root, s.ns)
  BY <1>1, ChainAt
<1>3. PICK y : y = Envelope(p, s, text)
  OBVIOUS
<1>4. ~s.isFirst /\ (s.lastDh # s.dhs <=> s.ns = 0)
  BY DEF Sender
<1>5. s.isFirst = FALSE
  BY <1>4, <1>1 DEF WellFormed, Session
<1>6. /\ y.dh = s.dhs /\ y.pn = s.pn /\ y.n = s.ns /\ y.key = s.cks /\ y.first = FALSE /\ y.otk = None
      /\ y.ct = IF s.lastDh # s.dhs THEN s.ct ELSE None
  BY <1>3, <1>5 DEF Envelope
<1>7. SealedOn(s, y)
  BY <1>2, <1>4, <1>6 DEF SealedOn
<1>. QED  BY <1>3, <1>7

\* It is of the chain that the peer receives on, of one that the peer does not know, or
\* of the one that p opened with.
LEMMA SealedDue ==
  ASSUME NEW p \in Party, NEW a, NEW b, Orderly(p, a, b), a.session.cks # None,
         NEW y, SealedOn(a.session, y), NEW u, SentOn(a.session, u)
  PROVE  Due(p, b.session, u, y)
<1>1. PICK s, t : s = a.session /\ t = b.session
  OBVIOUS
<1>2. /\ WellFormed(s) /\ s.ns \in Nat /\ s.cks # None /\ s.cks \in Chain /\ s.dhs = <<p, a.pairs>>
      /\ a.pairs \in Nat /\ a.pairs >= 1 /\ WellFormed(t) /\ t \in Session /\ t.nr \in Nat /\ b.pairs \in Nat
  <2>1. Half(p, a, b.pairs) /\ Half(Peer(p), b, a.pairs)
    BY DEF Orderly
  <2>. QED  BY <1>1, <2>1, HalfFacts
<1>3. /\ y.dh = s.dhs /\ y.n = s.ns /\ y.pn = s.pn /\ y.key = At(s.cks.root, s.ns) /\ y.first = FALSE /\ y.otk = None
      /\ y.ct = IF s.ns = 0 THEN s.ct ELSE None
  BY <1>1 DEF SealedOn
<1>4. /\ u.dhs = s.dhs /\ u.root = s.root /\ u.ns = s.ns + 1 /\ u.pn = s.pn /\ u.cks.root = s.cks.root
  BY <1>1 DEF SentOn, At
<1>5. y.n < u.ns
  BY <1>2, <1>3, <1>4
\* The chain of the opening.
<1>6. ASSUME Opens(p, s, a.pairs, a.texts), t.ckr = None
      PROVE  Due(p, t, u, y)
  <2>1. s.ns # 0 /\ s.dhs = <<p, 1>> /\ s.root = Blank /\ s.cks.root = FirstChain(p)
    BY <1>2, <1>6 DEF Opens
  <2>2. IsOfOpening(p, t, u, y)
    BY <1>3, <1>4, <1>5, <1>6, <2>1 DEF IsOfOpening
  <2>. QED  BY <2>2 DEF Due
\* The chain that is followed.
<1>7. ASSUME Follows(t, s), NEW x, NEW r, Counts(t, s, x, r)
      PROVE  Due(p, t, u, y)
  <2>1. t.ckr # None /\ t.dhr = s.dhs /\ t.ckr.root = s.cks.root
    BY <1>7 DEF Follows
  <2>2. t.nr <= s.ns
    BY <1>7, <2>1 DEF Counts, Reach
  <2>3. Reach(t, u) = u.ns
    BY <1>4, <2>1 DEF Reach
  <2>4. IsOfChain(t, u, y)
    BY <1>3, <1>5, <2>1, <2>2, <2>3 DEF IsOfChain
  <2>. QED  BY <2>4 DEF Due
\* The chain that is not known.
<1>8. ASSUME Awaits(p, t, s, a.pairs)
      PROVE  Due(p, t, u, y)
  <2>1. t.dhr # s.dhs
    <3>1. CASE t.dhr = None
      <4>1. s.dhs \in KeyPair
        BY <1>2 DEF WellFormed
      <4>. QED  BY <3>1, <4>1, NoneIsNoKeyPair
    <3>2. CASE t.dhr # None
      <4>1. t.dhr = <<p, a.pairs - 1>>
        BY <1>8, <3>2 DEF Awaits
      <4>2. a.pairs - 1 # a.pairs
        BY <1>2
      <4>. QED  BY <1>2, <4>1, <4>2
    <3>. QED  BY <3>1, <3>2
  <2>2. s.root # Blank
    <3>1. t.root \in Root
      BY <1>2 DEF Session
    <3>. QED  BY <1>8, <3>1, NotBlank DEF Awaits
  <2>3. y.ct = (IF y.n = 0 THEN <<u.dhs, t.dhs>> ELSE None)
    BY <1>3, <1>4, <1>8 DEF Awaits
  <2>4. IsOfNext(t, u, y)
    BY <1>3, <1>4, <1>5, <2>1, <2>2, <2>3 DEF IsOfNext
  <2>. QED  BY <2>4 DEF Due
<1>9. CASE BothOpen(p, a, b)
  BY <1>1, <1>2, <1>6, <1>9 DEF BothOpen
<1>10. CASE Crossed(p, a, b)
  BY <1>1, <1>7, <1>10 DEF Crossed
<1>11. CASE Crossed(Peer(p), b, a)
  <2>1. Opens(p, s, a.pairs, a.texts) /\ t.ckr = None
    BY <1>1, <1>11, PeerOfPeer DEF Crossed
  <2>. QED  BY <1>1, <1>6, <2>1
<1>12. CASE Leads(p, a, b)
  BY <1>1, <1>8, <1>12 DEF Leads
<1>13. CASE Leads(Peer(p), b, a)
  BY <1>1, <1>7, <1>13 DEF Leads
<1>. QED  BY <1>1, <1>9, <1>10, <1>11, <1>12, <1>13 DEF Orderly, Phase

\* Sending an envelope keeps the order, when there is room for it among the texts.
LEMMA SendsOn ==
  ASSUME NEW p \in Party, NEW a, NEW b, Orderly(p, a, b), a.session.cks # None,
         NEW y, WellSealed(y), SealedOn(a.session, y),
         NEW c, SentOn(a.session, c.session), c.pairs = a.pairs, c.reads = a.reads, c.texts \in 0..MaxTexts,
         c.owed = a.owed \cup {y},
         Counts(b.session, a.session, a.texts, b.reads) =>
           Counts(b.session, c.session, c.texts, b.reads),
         Opens(p, a.session, a.pairs, a.texts) => c.session.ns <= c.texts
  PROVE  Orderly(p, c, b)
<1>1. PICK q, s, t, u : q = Peer(p) /\ s = a.session /\ t = b.session /\ u = c.session
  OBVIOUS
<1>2. Half(p, a, b.pairs) /\ Half(q, b, a.pairs) /\ SentOn(s, u) /\ q \in Party /\ Peer(q) = p
  BY <1>1, PeerOfPeer, PeerParty DEF Orderly
<1>3. /\ SameReceiving(s, u) /\ WellFormed(u)
      /\ u.root = s.root /\ u.dhs = s.dhs /\ u.ct = s.ct /\ u.pn = s.pn /\ u.cks.root = s.cks.root
      /\ u.cks # None /\ s.cks # None /\ u.ns = s.ns + 1 /\ u.lastDh = s.dhs /\ ~u.isFirst
  BY <1>1, <1>2 DEF SentOn, At
<1>4. /\ s.ns \in Nat /\ s.dhs = <<p, a.pairs>> /\ a.pairs \in Nat /\ a.pairs >= 1
      /\ a.reads \in Nat /\ b.pairs \in Nat /\ u.ns \in Nat /\ u.ns # 0
  <2>1. /\ s.ns \in Nat /\ s.dhs = <<p, a.pairs>> /\ a.pairs \in Nat /\ a.pairs >= 1
        /\ a.reads \in Nat /\ b.pairs \in Nat
    BY <1>1, <1>2, HalfFacts
  <2>. QED  BY <1>3, <2>1
<1>5. /\ u.ckr = s.ckr /\ u.dhr = s.dhr
  BY <1>3 DEF SameReceiving
\* The side of p.
<1>6. Half(p, c, b.pairs)
  <2>1. Sender(p, u, c.pairs)
    <3>1. \E j \in 1..a.pairs : u.lastDh = <<p, j>>
      BY <1>3, <1>4
    <3>. QED  BY <1>3, <1>4, <3>1 DEF Sender
  <2>2. IF u.ckr = None THEN Unheard(u, c.reads) ELSE Heard(q, u, b.pairs, c.reads)
    <3>1. IF s.ckr = None THEN Unheard(s, a.reads) ELSE Heard(q, s, b.pairs, a.reads)
      BY <1>1, <1>2 DEF Half
    <3>. QED  BY <1>3, <1>5, <3>1, HeardSame
  <2>3. \A z \in c.owed : WellSealed(z)
    BY <1>2 DEF Half
  <2>. QED  BY <1>1, <1>3, <1>4, <2>1, <2>2, <2>3 DEF Half
\* How far the two are.
<1>7. Opens(p, s, a.pairs, a.texts) => Opens(p, u, c.pairs, c.texts)
  BY <1>1, <1>3, <1>4 DEF Opens
<1>8. Follows(t, s) => Follows(t, u)
  BY <1>3 DEF Follows
<1>9. Awaits(p, t, s, a.pairs) => Awaits(p, t, u, c.pairs)
  BY <1>3, <1>4 DEF Awaits
<1>10. Awaits(q, s, t, b.pairs) => Awaits(q, u, t, b.pairs)
  BY <1>3, <1>5 DEF Awaits
<1>11. /\ Follows(s, t) => Follows(u, t)
       /\ \A x, r : Counts(s, t, x, r) => Counts(u, t, x, r)
  BY <1>3, HeardSame
<1>12. Counts(t, s, a.texts, b.reads) => Counts(t, u, c.texts, b.reads)
  BY <1>1
<1>13. Phase(p, c, b)
  <2>1. BothOpen(p, a, b) => BothOpen(p, c, b)
    BY <1>1, <1>3, <1>5, <1>7 DEF BothOpen
  <2>2. Crossed(p, a, b) => Crossed(p, c, b)
    BY <1>1, <1>3, <1>5, <1>7, <1>8, <1>12 DEF Crossed
  <2>3. Crossed(q, b, a) => Crossed(q, b, c)
    BY <1>1, <1>2, <1>3, <1>5, <1>7, <1>11 DEF Crossed
  <2>4. Leads(p, a, b) => Leads(p, c, b)
    BY <1>1, <1>9, <1>11, <1>12 DEF Leads
  <2>5. Leads(q, b, a) => Leads(q, b, c)
    BY <1>1, <1>8, <1>10, <1>11, <1>12 DEF Leads
  <2>. QED  BY <1>1, <2>1, <2>2, <2>3, <2>4, <2>5 DEF Orderly, Phase
\* What is owed.
<1>14. ASSUME NEW z \in c.owed
       PROVE  Due(p, t, u, z)
  <2>1. CASE z = y
    BY <1>1, <2>1, SealedDue
  <2>2. CASE z # y
    <3>1. z \in a.owed
      BY <2>2
    <3>2. Due(p, t, s, z) /\ z.n \in Nat
      BY <1>1, <1>2, <3>1 DEF Orderly, Half, WellSealed, EnvelopeType
    <3>. QED  BY <1>2, <1>4, <3>2, DueFromSent
  <2>. QED  BY <2>1, <2>2
<1>15. ASSUME NEW z \in b.owed
       PROVE  Due(q, u, t, z)
  <2>1. Due(q, s, t, z)
    BY <1>1 DEF Orderly
  <2>. QED  BY <1>3, <2>1, DueToSame
<1>16. Half(q, b, c.pairs)
  BY <1>2
<1>. QED  BY <1>1, <1>6, <1>13, <1>14, <1>15, <1>16 DEF Orderly

\* The first envelope of a side that did nothing yet.
Opener(p, v) ==
  /\ WellFormed(v) /\ SameReceiving(NewSession(None), v)
  /\ v.root = Blank /\ v.dhs = <<p, 1>> /\ v.ct = <<<<p, 1>>, Prekey(Peer(p))>>
  /\ v.cks = At(FirstChain(p), 0) /\ v.cks # None /\ v.ns = 0 /\ v.pn = 0 /\ v.isFirst

\* It is what such a side starts its session with.
LEMMA OpenerFields ==
  ASSUME NEW p \in Party
  PROVE  Opener(p, Sending(p, NewSession(None), <<p, 1>>))
<1>1. PICK s, e : s = NewSession(None) /\ e = <<p, 1>>
  OBVIOUS
<1>2. PICK v : v = Sending(p, s, e)
  OBVIOUS
<1>3. /\ s.root = Blank /\ s.cks = None /\ s.ns = 0 /\ s.pn = 0
  BY <1>1 DEF NewSession, Blank
<1>4. WellFormed(s) /\ s \in Session
  BY <1>1, NewType DEF WellFormed
<1>5. e \in KeyPair
  BY <1>1 DEF KeyPair
<1>6. WellFormed(v) /\ v.cks \in Chain
  BY <1>2, <1>4, <1>5, SendingType
<1>7. v = [s EXCEPT !.firstBuilt = TRUE, !.isFirst = TRUE, !.dhs = e, !.ct = <<e, Prekey(Peer(p))>>,
                    !.cks = At(FirstChain(p), 0)]
  BY <1>1, <1>2, <1>3 DEF Sending, FirstSend, ChainOf, At, FirstChain
<1>8. /\ SameReceiving(s, v) /\ v.root = Blank /\ v.dhs = e /\ v.ct = <<e, Prekey(Peer(p))>>
      /\ v.cks = At(FirstChain(p), 0) /\ v.ns = 0 /\ v.pn = 0 /\ v.isFirst
  BY <1>3, <1>4, <1>7 DEF Session, SameReceiving
<1>9. v.cks # None
  BY <1>6, NoneIsNoChain
<1>. QED  BY <1>1, <1>2, <1>6, <1>8, <1>9 DEF Opener

\* It keeps the order.
LEMMA SendsFirst ==
  ASSUME NEW p \in Party, NEW a, NEW b, Orderly(p, a, b), a.session.cks = None,
         NEW v, Opener(p, v), NEW text, NEW y, y = Envelope(p, v, text), WellSealed(y),
         NEW c, SentOn(v, c.session), c.pairs = 1, c.reads = a.reads, c.texts \in 1..MaxTexts,
         c.owed = {y}
  PROVE  Orderly(p, c, b)
<1>1. PICK q, s, t, u : q = Peer(p) /\ s = a.session /\ t = b.session /\ u = c.session
  OBVIOUS
<1>2. Half(p, a, b.pairs) /\ Half(q, b, a.pairs) /\ SentOn(v, u) /\ q \in Party /\ Peer(q) = p
  BY <1>1, PeerOfPeer, PeerParty DEF Orderly
<1>3. s = NewSession(None) /\ a.pairs = 0 /\ a.reads = 0 /\ a.owed = {}
  BY <1>1, <1>2 DEF Half, Silent
<1>4. /\ SameReceiving(s, u) /\ WellFormed(u)
      /\ u.root = Blank /\ u.dhs = <<p, 1>> /\ u.pn = 0 /\ u.cks.root = FirstChain(p)
      /\ u.cks # None /\ u.ns = 1 /\ u.lastDh = u.dhs /\ ~u.isFirst
  <2>1. 0 + 1 = 1
    OBVIOUS
  <2>2. /\ SameReceiving(s, v) /\ v.root = Blank /\ v.dhs = <<p, 1>> /\ v.pn = 0 /\ v.ns = 0
        /\ v.cks.root = FirstChain(p)
    BY <1>3 DEF Opener, At
  <2>3. u.cks.root = v.cks.root /\ u.ns = v.ns + 1 /\ SameReceiving(v, u)
    BY <1>2 DEF SentOn, At
  <2>4. SameReceiving(s, u)
    BY <2>2, <2>3 DEF SameReceiving
  <2>. QED  BY <1>2, <2>1, <2>2, <2>3, <2>4 DEF SentOn
<1>5. s.ckr = None /\ s.dhs = None /\ s.cks = None /\ s.root = Blank
  BY <1>3 DEF NewSession, Blank
<1>6. u.ckr = None
  BY <1>4, <1>5 DEF SameReceiving
<1>7. /\ y.dh = <<p, 1>> /\ y.n = 0 /\ y.key = At(FirstChain(p), 0) /\ y.first = TRUE /\ y.otk = None
      /\ y.ct = <<<<p, 1>>, Prekey(q)>>
  <2>1. v.isFirst = TRUE
    BY DEF Opener, WellFormed, Session
  <2>2. v.root.otk = None
    BY DEF Opener, Blank
  <2>. QED  BY <1>1, <2>1, <2>2 DEF Opener, Envelope
\* The side of p.
<1>8. b.pairs \in Nat /\ c.texts \in 0..MaxTexts /\ c.texts \in Nat /\ 1 <= c.texts
  BY <1>2, RatchetAssumption, PeersAssumption DEF Half
<1>9. Half(p, c, b.pairs)
  <2>1. Sender(p, u, c.pairs)
    <3>1. 1 >= 1 /\ 1 \in 1..1 /\ ~(1 = 0)
      OBVIOUS
    <3>. QED  BY <1>4, <3>1 DEF Sender
  <2>2. Unheard(u, c.reads)
    <3>1. Unheard(s, a.reads)
      BY <1>1, <1>2, <1>5 DEF Half
    <3>2. u.root = s.root
      BY <1>4, <1>5
    <3>. QED  BY <1>4, <3>1, <3>2, HeardSame
  <2>3. c.pairs \in Nat /\ c.reads \in Nat
    BY <1>3
  <2>. QED  BY <1>1, <1>4, <1>6, <1>8, <2>1, <2>2, <2>3 DEF Half
<1>10. Opens(p, u, c.pairs, c.texts)
  BY <1>4, <1>8 DEF Opens
\* Its peer cannot have heard it.
<1>11. BothOpen(p, a, b)
  <2>1. ~Crossed(p, a, b) /\ ~Crossed(q, b, a)
    BY <1>1, <1>2, <1>5 DEF Crossed, Opens
  <2>2. ~Leads(p, a, b)
    BY <1>1, <1>5 DEF Leads, Awaits
  <2>3. ~Leads(q, b, a)
    BY <1>1, <1>5 DEF Leads, Awaits
  <2>. QED  BY <1>1, <2>1, <2>2, <2>3 DEF Orderly, Phase
<1>12. BothOpen(p, c, b)
  BY <1>1, <1>6, <1>10, <1>11 DEF BothOpen
<1>13. Due(p, t, u, y)
  <2>1. IsOfOpening(p, t, u, y)
    <3>1. 0 < 1
      OBVIOUS
    <3>. QED  BY <1>1, <1>4, <1>7, <1>11, <3>1 DEF IsOfOpening, BothOpen
  <2>. QED  BY <2>1 DEF Due
<1>14. ASSUME NEW z \in b.owed
       PROVE  Due(q, u, t, z)
  <2>1. Due(q, s, t, z)
    BY <1>1 DEF Orderly
  <2>2. t.root = Blank
    BY <1>1, <1>2, <1>11 DEF BothOpen, Half, Unheard
  <2>3. ~IsOfNext(s, t, z)
    BY <2>2 DEF IsOfNext
  <2>. QED  BY <1>4, <2>1, <2>3, DueToSame
<1>15. Half(q, b, c.pairs)
  <2>1. t.ckr = None
    BY <1>1, <1>11 DEF BothOpen
  <2>. QED  BY <1>1, <1>2, <2>1 DEF Half
<1>. QED  BY <1>1, <1>9, <1>12, <1>13, <1>14, <1>15 DEF Orderly, Phase

------------------------------------------------------------------------------
(* Receiving.                                                                *)

\* The side whose envelope y is read owes it no longer, and the side that reads it
\* has the session u and k key pairs then.
Taken(a, c, y) ==
  /\ c.session = a.session /\ c.pairs = a.pairs /\ c.texts = a.texts /\ c.reads = a.reads
  /\ c.owed \subseteq {z \in a.owed : z.key # y.key}

ReadBy1(b, d, u, k) ==
  /\ d.session = u /\ d.pairs = k /\ d.texts = b.texts /\ d.reads = b.reads + 1 /\ d.owed = b.owed

\* What is owed to a session whose sending half is as it was.
LEMMA OwedToSame ==
  ASSUME NEW p \in Party, NEW a, NEW b, Orderly(p, a, b), NEW u, SameSending(b.session, u),
         NEW z \in b.owed
  PROVE  Due(Peer(p), a.session, u, z)
<1>1. Due(Peer(p), a.session, b.session, z)
  BY DEF Orderly
<1>. QED  BY <1>1, DueFromSame

\* The sides of p and of a reader that keeps its sending half.
LEMMA HalvesReading ==
  ASSUME NEW p \in Party, NEW a, NEW b, Orderly(p, a, b), NEW y, NEW c, Taken(a, c, y),
         b.session.cks # None,
         NEW u, WellFormed(u), SameSending(b.session, u), u.ckr # None, Heard(p, u, a.pairs, b.reads + 1),
         NEW d, ReadBy1(b, d, u, b.pairs)
  PROVE  Half(p, c, d.pairs) /\ Half(Peer(p), d, c.pairs)
<1>1. PICK q, s, t : q = Peer(p) /\ s = a.session /\ t = b.session
  OBVIOUS
<1>2. Half(p, a, b.pairs) /\ Half(q, b, a.pairs) /\ Peer(q) = p
  BY <1>1, PeerOfPeer DEF Orderly
<1>3. Half(p, c, d.pairs)
  <2>1. a.session.cks = None => Silent(c)
    <3>1. a.session.cks = None => Silent(a)
      BY <1>2 DEF Half
    <3>. QED  BY <3>1 DEF Silent, Taken
  <2>2. \A z \in c.owed : WellSealed(z)
    BY <1>2 DEF Taken, Half
  <2>. QED  BY <1>2, <2>1, <2>2 DEF Half, Taken, ReadBy1
<1>4. Half(q, d, c.pairs)
  <2>1. Sender(q, t, b.pairs)
    BY <1>1, <1>2 DEF Half
  <2>2. Sender(q, u, b.pairs) /\ u.cks # None
    BY <1>1, <2>1 DEF Sender, SameSending
  <2>3. b.reads + 1 \in Nat
    BY <1>2 DEF Half
  <2>4. \A z \in d.owed : WellSealed(z)
    BY <1>2 DEF ReadBy1, Half
  <2>. QED  BY <1>2, <2>2, <2>3, <2>4 DEF Half, Taken, ReadBy1
<1>. QED  BY <1>1, <1>3, <1>4

\* Reading an envelope with a key that was kept, or with one of the present chain.
LEMMA ReadsOn ==
  ASSUME NEW p \in Party, NEW a, NEW b, Orderly(p, a, b), NEW y, NEW c, Taken(a, c, y),
         b.session.ckr # None,
         NEW u, WellFormed(u), SameSending(b.session, u), u.dhr = b.session.dhr,
         u.ckr # None, u.ckr.root = b.session.ckr.root,
         Heard(p, u, a.pairs, b.reads + 1),
         Counts(b.session, a.session, a.texts, b.reads) => Counts(u, a.session, a.texts, b.reads + 1),
         \A z \in c.owed : Due(p, u, a.session, z),
         NEW d, ReadBy1(b, d, u, b.pairs)
  PROVE  Orderly(p, c, d)
<1>1. PICK q, s, t : q = Peer(p) /\ s = a.session /\ t = b.session
  OBVIOUS
<1>2. q \in Party /\ Peer(q) = p
  BY <1>1, PeerOfPeer, PeerParty
<1>s. /\ u.root = t.root /\ u.dhs = t.dhs /\ u.ct = t.ct /\ u.cks = t.cks /\ u.ns = t.ns /\ u.pn = t.pn
  BY <1>1 DEF SameSending
<1>c. c.session = s /\ c.pairs = a.pairs /\ c.texts = a.texts /\ c.reads = a.reads
  BY <1>1 DEF Taken
<1>d. d.session = u /\ d.pairs = b.pairs /\ d.texts = b.texts /\ d.reads = b.reads + 1 /\ d.owed = b.owed
  BY DEF ReadBy1
<1>3. Opens(q, t, b.pairs, b.texts) => Opens(q, u, d.pairs, d.texts)
  BY <1>s, <1>d DEF Opens
<1>4. Follows(t, s) => Follows(u, s)
  BY <1>1 DEF Follows
<1>5. Counts(t, s, a.texts, b.reads) => Counts(u, s, c.texts, d.reads)
  BY <1>1, <1>c, <1>d
<1>6. /\ Follows(s, t) => Follows(s, u)
      /\ \A x, r : Counts(s, t, x, r) => Counts(s, u, x, r)
  BY <1>s DEF Follows, Counts, Reach
<1>7. Awaits(p, t, s, a.pairs) => Awaits(p, u, s, c.pairs)
  BY <1>1, <1>s, <1>c DEF Awaits
<1>8. Awaits(q, s, t, b.pairs) => Awaits(q, s, u, d.pairs)
  BY <1>1, <1>s, <1>d DEF Awaits
<1>9. Phase(p, c, d)
  <2>0. ~BothOpen(p, a, b) /\ ~Crossed(q, b, a)
    BY <1>1 DEF BothOpen, Crossed
  <2>2. Crossed(p, a, b) => Crossed(p, c, d)
    BY <1>1, <1>3, <1>4, <1>5, <1>c, <1>d DEF Crossed
  <2>4. Leads(p, a, b) => Leads(p, c, d)
    BY <1>1, <1>5, <1>6, <1>7, <1>c, <1>d DEF Leads
  <2>5. Leads(q, b, a) => Leads(q, d, c)
    BY <1>1, <1>4, <1>5, <1>6, <1>8, <1>c, <1>d DEF Leads
  <2>. QED  BY <1>1, <2>0, <2>2, <2>4, <2>5 DEF Orderly, Phase
<1>10. t.cks # None
  <2>0. ~BothOpen(p, a, b) /\ ~Crossed(q, b, a)
    BY <1>1 DEF BothOpen, Crossed
  <2>1. Crossed(p, a, b) => t.cks # None
    BY <1>1 DEF Crossed, Opens
  <2>2. Leads(p, a, b) => t.cks # None
    BY <1>1 DEF Leads, Follows
  <2>3. Leads(q, b, a) => t.cks # None
    BY <1>1 DEF Leads, Awaits
  <2>. QED  BY <1>1, <2>0, <2>1, <2>2, <2>3 DEF Orderly, Phase
<1>11. Half(p, c, d.pairs) /\ Half(q, d, c.pairs)
  BY <1>1, <1>10, HalvesReading
<1>12. \A z \in d.owed : Due(q, s, u, z)
  BY <1>1, <1>d, OwedToSame
<1>. QED  BY <1>1, <1>9, <1>11, <1>12, <1>c, <1>d DEF Orderly

\* With a key that was kept.
LEMMA KeepsSpent ==
  ASSUME NEW p \in Party, NEW a, NEW b, Orderly(p, a, b), NEW y, NEW c, Taken(a, c, y),
         b.session.ckr # None, KeptFor(b.session, y), NEW u, Spent(b.session, y, u),
         NEW d, ReadBy1(b, d, u, b.pairs)
  PROVE  Orderly(p, c, d)
<1>1. PICK q, s, t : q = Peer(p) /\ s = a.session /\ t = b.session
  OBVIOUS
<1>2. Half(p, a, b.pairs) /\ Half(q, b, a.pairs) /\ Peer(q) = p
  BY <1>1, PeerOfPeer DEF Orderly
<1>3. /\ WellFormed(u) /\ SameSending(t, u)
      /\ u.dhr = t.dhr /\ u.ckr = t.ckr /\ u.nr = t.nr /\ u.epochs = t.epochs
      /\ Len(u.skipped) + 1 = Len(t.skipped)
      /\ KeptKeys(u) \subseteq KeptKeys(t)
      /\ \A k \in KeptKeys(t) : k \in KeptKeys(u) \/ k.key = y.key
      /\ Epochs(u) = Epochs(t)
  BY <1>1 DEF Spent, Epochs
<1>4. Heard(p, t, a.pairs, b.reads) /\ b.reads \in Nat
  BY <1>1, <1>2 DEF Half
<1>5. Heard(p, u, a.pairs, b.reads + 1)
  <2>1. b.reads >= 1 => b.reads + 1 >= 1
    BY <1>4
  <2>. QED  BY <1>3, <1>4, <2>1 DEF Heard
<1>6. Counts(t, s, a.texts, b.reads) => Counts(u, s, a.texts, b.reads + 1)
  <2>1. PICK m, n, r : m = Len(u.skipped) /\ n = Len(t.skipped) /\ r = b.reads
    OBVIOUS
  <2>2. m \in Nat /\ n \in Nat /\ r \in Nat /\ m + 1 = n
    BY <1>3, <1>4, <2>1, LenProperties DEF WellFormed, Session
  <2>3. m + (r + 1) = n + r
    BY <2>2
  <2>4. m + (r + 1) + s.ns = n + r + s.ns
    BY <2>3
  <2>5. Reach(u, s) = Reach(t, s)
    BY <1>3 DEF Reach
  <2>. QED  BY <1>3, <2>1, <2>4, <2>5 DEF Counts
<1>7. ASSUME NEW z \in c.owed
      PROVE  Due(p, u, s, z)
  <2>1. Due(p, t, s, z) /\ z.key # y.key
    BY <1>1 DEF Orderly, Taken
  <2>2. KeptFor(t, z) => KeptFor(u, z)
    BY <1>3, <2>1 DEF KeptFor
  <2>3. IsOfChain(t, s, z) => IsOfChain(u, s, z)
    BY <1>3 DEF IsOfChain, Reach
  <2>4. IsOfNext(t, s, z) => IsOfNext(u, s, z)
    BY <1>3 DEF IsOfNext, SameSending
  <2>5. ~IsOfOpening(p, t, s, z)
    BY <1>1 DEF IsOfOpening
  <2>6. IsLost(t, z) => IsLost(u, z)
    BY <1>3 DEF IsLost
  <2>. QED  BY <2>1, <2>2, <2>3, <2>4, <2>5, <2>6 DEF Due
<1>. QED  BY <1>1, <1>3, <1>5, <1>6, <1>7, ReadsOn

\* The numbers of an envelope that is passed or awaited: there is room for the keys up
\* to it.
LEMMA RoomFor ==
  ASSUME MaxTexts <= MaxKept + 1, MaxTexts <= MaxSkip + 1,
         NEW t \in Session, NEW s \in Session, NEW x \in 0..MaxTexts, NEW r \in Nat, r >= 1,
         Counts(t, s, x, r), t.ckr # None, NEW n \in Nat, t.nr <= n,
         n < Reach(t, s) \/ (t.dhr # s.dhs /\ n = s.pn /\ s.ns >= 1)
  PROVE  Fits(t, n) /\ ~TooFar(t, n)
<1>1. PICK m, nr, ns, pn : m = Len(t.skipped) /\ nr = t.nr /\ ns = s.ns /\ pn = s.pn
  OBVIOUS
<1>2. /\ m \in Nat /\ nr \in Nat /\ ns \in Nat /\ pn \in Nat /\ MaxKept \in Nat /\ MaxSkip \in Nat
      /\ MaxTexts \in Nat /\ x \in Nat /\ x <= MaxTexts
  BY <1>1, LenProperties, RatchetAssumption, PeersAssumption DEF Session
<1>3. m + n <= MaxKept + nr /\ n - nr <= MaxSkip
  <2>1. CASE t.dhr = s.dhs
    <3>1. n < ns
      BY <1>1, <2>1 DEF Reach
    <3>2. m + r + ns + 0 <= x + 1 + nr
      BY <1>1, <2>1 DEF Counts
    <3>. QED  BY <1>2, <3>1, <3>2
  <2>2. CASE t.dhr # s.dhs
    <3>1. m + r + ns + pn <= x + 1 + nr
      BY <1>1, <2>2 DEF Counts
    <3>2. n < pn \/ (n = pn /\ ns >= 1)
      BY <1>1, <2>2 DEF Reach
    <3>. QED  BY <1>2, <3>1, <3>2
  <2>. QED  BY <2>1, <2>2
<1>4. Fits(t, n)
  BY <1>1, <1>3 DEF Fits
<1>5. ~(n - t.nr > MaxSkip)
  BY <1>1, <1>2, <1>3
<1>. QED  BY <1>4, <1>5 DEF TooFar

\* Whoever heard the other knows how much the other sent.
LEMMA Counted ==
  ASSUME NEW p \in Party, NEW a, NEW b, Orderly(p, a, b), b.session.ckr # None
  PROVE  Counts(b.session, a.session, a.texts, b.reads)
<1>1. ~BothOpen(p, a, b) /\ ~Crossed(Peer(p), b, a)
  BY DEF BothOpen, Crossed
<1>2. CASE Crossed(p, a, b)
  BY <1>2 DEF Crossed
<1>3. CASE Leads(p, a, b)
  BY <1>3 DEF Leads
<1>4. CASE Leads(Peer(p), b, a)
  BY <1>4 DEF Leads
<1>. QED  BY <1>1, <1>2, <1>3, <1>4 DEF Orderly, Phase

\* An envelope whose key is among those that are passed is one whose key is kept.
LEMMA PassedKept ==
  ASSUME NEW p, NEW k, NEW r, NEW t, Heard(p, t, k, r), t.nr \in Nat, NEW until \in Nat,
         NEW z, z.n \in Nat, NEW u, KeptKeys(u) = KeptKeys(t) \cup PassedKeys(t, until)
  PROVE  /\ KeptFor(t, z) => KeptFor(u, z)
         /\ z.dh = t.dhr /\ t.nr <= z.n /\ z.n < until /\ z.key = At(t.ckr.root, z.n) => KeptFor(u, z)
<1>1. ASSUME NEW x \in KeptKeys(t), x.dh = t.dhr
      PROVE  x.n < t.nr
  BY <1>1 DEF Heard
<1>2. ASSUME NEW x \in PassedKeys(t, until)
      PROVE  /\ x.dh = t.dhr /\ x.key = At(t.ckr.root, x.n) /\ x.n \in t.nr..(until - 1)
  BY <1>2 DEF PassedKeys
<1>3. ASSUME KeptFor(t, z)
      PROVE  KeptFor(u, z)
  <2>1. PICK x \in KeptKeys(t) : x.dh = z.dh /\ x.n = z.n
    BY <1>3 DEF KeptFor
  <2>2. \A w \in PassedKeys(t, until) : ~(w.dh = z.dh /\ w.n = z.n)
    <3>. SUFFICES ASSUME NEW w \in PassedKeys(t, until), w.dh = z.dh, w.n = z.n
                  PROVE  FALSE
      OBVIOUS
    <3>1. w.n \in t.nr..(until - 1) /\ w.dh = t.dhr
      BY <1>2
    <3>2. x.n < t.nr /\ x.n = w.n
      BY <1>1, <2>1, <3>1
    <3>3. PICK n, m : n = w.n /\ m = t.nr
      OBVIOUS
    <3>. QED  BY <3>1, <3>2, <3>3
  <2>. QED  BY <1>3, <2>1, <2>2 DEF KeptFor
<1>4. ASSUME z.dh = t.dhr, t.nr <= z.n, z.n < until, z.key = At(t.ckr.root, z.n)
      PROVE  KeptFor(u, z)
  <2>1. z.n \in t.nr..(until - 1)
    <3>1. PICK n, m : n = z.n /\ m = t.nr
      OBVIOUS
    <3>. QED  BY <1>4, <3>1
  <2>2. PICK x : x = [dh |-> t.dhr, n |-> z.n, key |-> At(t.ckr.root, z.n)]
    OBVIOUS
  <2>3. x \in KeptKeys(u)
    BY <2>1, <2>2 DEF PassedKeys
  <2>4. x.dh = z.dh /\ x.n = z.n
    BY <1>4, <2>2
  <2>5. ASSUME NEW w \in KeptKeys(t), w.dh = z.dh, w.n = z.n
        PROVE  FALSE
    <3>1. w.n < t.nr
      BY <1>1, <1>4, <2>5
    <3>2. PICK n, m : n = z.n /\ m = t.nr
      OBVIOUS
    <3>. QED  BY <1>4, <2>5, <3>1, <3>2
  <2>6. \A w \in PassedKeys(t, until) : w.dh = z.dh /\ w.n = z.n => w.key = z.key
    BY <1>2, <1>4
  <2>. QED  BY <2>3, <2>4, <2>5, <2>6 DEF KeptFor
<1>. QED  BY <1>3, <1>4

\* With the next key of the present chain, or one after it.
LEMMA KeepsMoved ==
  ASSUME NEW p \in Party, NEW a, NEW b, Orderly(p, a, b), NEW y, WellSealed(y), NEW c, Taken(a, c, y),
         IsOfChain(b.session, a.session, y), NEW u, MovedOn(b.session, y, u),
         NEW d, ReadBy1(b, d, u, b.pairs)
  PROVE  Orderly(p, c, d)
<1>1. PICK q, s, t : q = Peer(p) /\ s = a.session /\ t = b.session
  OBVIOUS
<1>2. Half(p, a, b.pairs) /\ Half(q, b, a.pairs) /\ Peer(q) = p
  BY <1>1, PeerOfPeer DEF Orderly
<1>3. /\ WellFormed(u) /\ SameSending(t, u)
      /\ u.dhr = t.dhr /\ u.epochs = t.epochs
      /\ u.ckr = At(t.ckr.root, y.n + 1) /\ u.ckr # None /\ u.nr = y.n + 1
      /\ Len(u.skipped) + t.nr = Len(t.skipped) + y.n
      /\ KeptKeys(u) = KeptKeys(t) \cup PassedKeys(t, y.n)
      /\ Epochs(u) = Epochs(t)
  BY <1>1 DEF MovedOn, Epochs
<1>4. /\ t.ckr # None /\ y.dh = t.dhr /\ t.nr <= y.n /\ y.n < Reach(t, s) /\ y.key = At(t.ckr.root, y.n)
  BY <1>1 DEF IsOfChain
<1>5. /\ Heard(p, t, a.pairs, b.reads) /\ b.reads \in Nat /\ t \in Session /\ t.nr \in Nat /\ y.n \in Nat
      /\ a.texts \in Nat /\ s.ns \in Nat /\ s.pn \in Nat
  <2>1. Heard(p, t, a.pairs, b.reads)
    BY <1>1, <1>2, <1>4 DEF Half
  <2>2. y.n \in Nat
    BY DEF WellSealed, EnvelopeType
  <2>. QED  BY <1>1, <1>2, <2>1, <2>2, HalfFacts
<1>6. u.ckr.root = t.ckr.root
  BY <1>3 DEF At
<1>7. Heard(p, u, a.pairs, b.reads + 1)
  <2>1. b.reads + 1 >= 1 /\ u.nr >= 1
    BY <1>3, <1>5
  <2>2. ASSUME NEW x \in KeptKeys(u)
        PROVE  UpTo(x.dh, t.dhr) /\ (x.dh = t.dhr => x.n < y.n + 1)
    <3>1. CASE x \in KeptKeys(t)
      <4>1. UpTo(x.dh, t.dhr) /\ (x.dh = t.dhr => x.n < t.nr)
        BY <1>5, <3>1 DEF Heard
      <4>2. x.n \in Nat
        <5>1. PICK i \in 1..Len(t.skipped) : x = t.skipped[i]
          BY <3>1 DEF KeptKeys
        <5>2. t.skipped \in Seq(KeptKey)
          BY <1>5 DEF Session
        <5>3. x \in KeptKey
          BY <5>1, <5>2, ElementOfSeq
        <5>. QED  BY <5>3 DEF KeptKey
      <4>3. x.n < t.nr => x.n < y.n + 1
        <5>1. PICK l, m, n : l = x.n /\ m = t.nr /\ n = y.n
          OBVIOUS
        <5>. QED  BY <1>4, <1>5, <4>2, <5>1
      <4>. QED  BY <4>1, <4>3
    <3>2. CASE x \in PassedKeys(t, y.n)
      <4>1. x.dh = t.dhr /\ x.n \in t.nr..(y.n - 1)
        BY <3>2 DEF PassedKeys
      <4>2. x.n < y.n + 1
        <5>1. PICK l, m, n : l = x.n /\ m = t.nr /\ n = y.n
          OBVIOUS
        <5>. QED  BY <1>5, <4>1, <5>1
      <4>3. UpTo(t.dhr, t.dhr)
        <5>1. PICK j \in 1..a.pairs : t.dhr = <<p, j>>
          BY <1>5 DEF Heard
        <5>2. a.pairs \in Nat
          BY <1>2, HalfFacts
        <5>. QED  BY <5>1, <5>2 DEF UpTo
      <4>. QED  BY <4>1, <4>2, <4>3
    <3>. QED  BY <1>3, <3>1, <3>2
  <2>3. /\ \E j \in 1..a.pairs : u.dhr = <<p, j>>
        /\ \A x \in Epochs(u) : UpTo(x, u.dhr)
    BY <1>3, <1>5 DEF Heard
  <2>. QED  BY <1>3, <2>1, <2>2, <2>3 DEF Heard
<1>8. Counts(t, s, a.texts, b.reads) => Counts(u, s, a.texts, b.reads + 1)
  <2>. SUFFICES ASSUME Counts(t, s, a.texts, b.reads)
                PROVE  Counts(u, s, a.texts, b.reads + 1)
    OBVIOUS
  <2>1. PICK k, l, r, nr, n, x, ns, rest :
          /\ k = Len(u.skipped) /\ l = Len(t.skipped) /\ r = b.reads /\ nr = t.nr /\ n = y.n
          /\ x = a.texts /\ ns = s.ns /\ rest = (IF t.dhr = s.dhs THEN 0 ELSE s.pn)
    OBVIOUS
  <2>2. /\ k \in Nat /\ l \in Nat /\ r \in Nat /\ nr \in Nat /\ n \in Nat /\ x \in Nat
        /\ ns \in Nat /\ rest \in Nat
    BY <1>3, <1>5, <2>1, LenProperties DEF WellFormed, Session
  <2>3. k + nr = l + n /\ l + r + ns + rest <= x + 1 + nr
    BY <1>3, <2>1 DEF Counts
  <2>4. k + (r + 1) + ns + rest <= x + 1 + (n + 1)
    BY <2>2, <2>3
  <2>5. n + 1 <= Reach(t, s)
    <3>1. Reach(t, s) \in Nat
      BY <1>5 DEF Reach
    <3>2. PICK h : h = Reach(t, s)
      OBVIOUS
    <3>. QED  BY <1>4, <2>1, <2>2, <3>1, <3>2
  <2>6. Reach(u, s) = Reach(t, s)
    BY <1>3 DEF Reach
  <2>. QED  BY <1>3, <2>1, <2>4, <2>5, <2>6 DEF Counts
<1>9. ASSUME NEW z \in c.owed
      PROVE  Due(p, u, s, z)
  <2>1. Due(p, t, s, z) /\ z.key # y.key /\ z.n \in Nat
    BY <1>1, <1>2 DEF Orderly, Taken, Half, WellSealed, EnvelopeType
  <2>2. KeptFor(t, z) => KeptFor(u, z)
    BY <1>3, <1>5, <2>1, PassedKept
  <2>3. ASSUME IsOfChain(t, s, z)
        PROVE  KeptFor(u, z) \/ IsOfChain(u, s, z)
    <3>1. z.dh = t.dhr /\ t.nr <= z.n /\ z.n < Reach(t, s) /\ z.key = At(t.ckr.root, z.n)
      BY <2>3 DEF IsOfChain
    <3>2. z.n # y.n
      BY <1>4, <2>1, <3>1
    <3>3. CASE z.n < y.n
      BY <1>3, <1>5, <2>1, <3>1, <3>3, PassedKept
    <3>4. CASE ~(z.n < y.n)
      <4>1. y.n + 1 <= z.n
        <5>1. PICK l, m : l = z.n /\ m = y.n
          OBVIOUS
        <5>. QED  BY <1>5, <2>1, <3>2, <3>4, <5>1
      <4>2. Reach(u, s) = Reach(t, s)
        BY <1>3 DEF Reach
      <4>. QED  BY <1>3, <1>6, <3>1, <4>1, <4>2 DEF IsOfChain
    <3>. QED  BY <3>3, <3>4
  <2>4. IsOfNext(t, s, z) => IsOfNext(u, s, z)
    BY <1>3 DEF IsOfNext, SameSending
  <2>5. ~IsOfOpening(p, t, s, z)
    BY <1>4 DEF IsOfOpening
  <2>6. IsLost(t, z) => IsLost(u, z)
    BY <1>3 DEF IsLost
  <2>. QED  BY <2>1, <2>2, <2>3, <2>4, <2>5, <2>6 DEF Due
<1>. QED  BY <1>1, <1>3, <1>4, <1>6, <1>7, <1>8, <1>9, ReadsOn

\* An envelope of an epoch that is not known is from one who answered.
LEMMA OnlyLeads ==
  ASSUME NEW p \in Party, NEW a, NEW b, Orderly(p, a, b), NEW y, IsOfNext(b.session, a.session, y)
  PROVE  Leads(p, a, b)
<1>1. PICK q, s, t : q = Peer(p) /\ s = a.session /\ t = b.session
  OBVIOUS
<1>2. Half(p, a, b.pairs) /\ Peer(q) = p
  BY <1>1, PeerOfPeer DEF Orderly
<1>3. s.root # Blank /\ t.dhr # s.dhs
  BY <1>1 DEF IsOfNext
<1>4. ~Opens(p, s, a.pairs, a.texts)
  BY <1>3 DEF Opens
<1>5. s.cks # None
  BY <1>1, <1>2, <1>3 DEF Half, Silent, NewSession, Blank
<1>6. ~BothOpen(p, a, b)
  BY <1>1, <1>4, <1>5 DEF BothOpen
<1>7. ~Crossed(p, a, b) /\ ~Crossed(q, b, a)
  BY <1>1, <1>2, <1>4 DEF Crossed
<1>8. ~Leads(q, b, a)
  BY <1>1, <1>3 DEF Leads, Follows
<1>. QED  BY <1>1, <1>6, <1>7, <1>8 DEF Orderly, Phase

\* What is known of the epochs before it.
LEMMA EpochsBefore ==
  ASSUME NEW p \in Party, NEW a, NEW b, Orderly(p, a, b), Leads(p, a, b)
  PROVE  /\ a.session.dhs = <<p, a.pairs>> /\ a.pairs \in Nat
         /\ b.session.ckr # None => b.session.dhr = <<p, a.pairs - 1>> /\ a.pairs - 1 \in Nat
         /\ \A x \in Epochs(b.session) : x[1] = p /\ x[2] <= a.pairs - 1 /\ x # a.session.dhs
         /\ \A x \in KeptKeys(b.session) : x.dh # a.session.dhs
<1>1. PICK q, s, t, k : q = Peer(p) /\ s = a.session /\ t = b.session /\ k = a.pairs
  OBVIOUS
<1>2. Half(p, a, b.pairs) /\ Half(q, b, a.pairs) /\ Peer(q) = p
  BY <1>1, PeerOfPeer DEF Orderly
<1>3. s.cks # None /\ Awaits(p, t, s, k)
  BY <1>1 DEF Leads, Awaits
<1>4. s.dhs = <<p, k>> /\ k \in Nat
  BY <1>1, <1>2, <1>3, HalfFacts
<1>5. CASE t.ckr = None
  <2>1. Unheard(t, b.reads)
    BY <1>1, <1>2, <1>5 DEF Half
  <2>. QED  BY <1>1, <1>4, <1>5, <2>1, UnheardKeeps
<1>6. CASE t.ckr # None
  <2>1. Heard(p, t, k, b.reads)
    BY <1>1, <1>2, <1>6 DEF Half
  <2>2. PICK j \in 1..k : t.dhr = <<p, j>>
    BY <2>1 DEF Heard
  <2>3. t.dhr \in KeyPair
    BY <2>2 DEF KeyPair
  <2>4. t.dhr = <<p, k - 1>>
    BY <1>3, <2>3, NoneIsNoKeyPair DEF Awaits
  <2>5. k - 1 \in Nat /\ ~(k <= k - 1)
    BY <1>4, <2>2, <2>4
  <2>6. \A x : UpTo(x, t.dhr) => x[1] = p /\ x[2] <= k - 1 /\ x # s.dhs
    BY <1>4, <2>4, <2>5 DEF UpTo
  <2>7. \A x \in Epochs(t) : UpTo(x, t.dhr)
    BY <2>1 DEF Heard
  <2>8. \A x \in KeptKeys(t) : UpTo(x.dh, t.dhr)
    BY <2>1 DEF Heard
  <2>. QED  BY <1>1, <1>4, <2>4, <2>5, <2>6, <2>7, <2>8
<1>. QED  BY <1>5, <1>6

\* The first envelope of the epoch is read; one that overtook it is refused.
LEMMA NextRead ==
  ASSUME MaxTexts <= MaxKept + 1, MaxTexts <= MaxSkip + 1,
         NEW p \in Party, NEW a, NEW b, Orderly(p, a, b),
         NEW y, WellSealed(y), IsOfNext(b.session, a.session, y), NEW e \in KeyPair
  PROVE  LET o == Decrypt(Peer(p), b.session, y, e) IN
         Leaves(o, b.session) \/
           (o.why = None /\ y.n = 0 /\ Ratcheted(b.session, y, e, a.session.root, o.session))
<1>1. PICK q, s, t : q = Peer(p) /\ s = a.session /\ t = b.session
  OBVIOUS
<1>2. Half(p, a, b.pairs) /\ Half(q, b, a.pairs) /\ q \in Party
  BY <1>1, PeerParty DEF Orderly
<1>3. Leads(p, a, b)
  BY OnlyLeads
<1>4. /\ y.dh = s.dhs /\ t.dhr # s.dhs /\ y.n < s.ns /\ y.key = At(s.cks.root, y.n) /\ y.pn = s.pn
      /\ ~y.first /\ y.ct = (IF y.n = 0 THEN <<s.dhs, t.dhs>> ELSE None)
  BY <1>1 DEF IsOfNext
<1>5. /\ \A x \in Epochs(t) : x # y.dh
      /\ \A x \in KeptKeys(t) : x.dh # y.dh
  BY <1>1, <1>3, <1>4, EpochsBefore
<1>6. KeptAt(t, y) = {}
  BY <1>5, NoPlace
<1>7. PICK o : o = Decrypt(q, t, y, e)
  OBVIOUS
<1>8. CASE y.n # 0
  <2>1. Refused(t, y) = "unknown-epoch"
    BY <1>4, <1>5, <1>8 DEF Refused
  <2>2. "unknown-epoch" # None
    BY RatchetAssumption
  <2>3. o = Failed("unknown-epoch", t)
    BY <1>7, <2>1, <2>2 DEF Decrypt
  <2>4. Leaves(o, t)
    BY <2>3, Outcomes DEF Leaves, Harmless
  <2>. QED  BY <1>1, <1>7, <2>4
<1>9. CASE y.n = 0
  <2>1. /\ WellFormed(t) /\ t \in Session /\ s \in Session /\ s.ns \in Nat /\ s.pn \in Nat /\ y.n \in Nat
    BY <1>1, <1>2, HalfFacts DEF WellSealed, EnvelopeType
  <2>2. Awaits(p, t, s, a.pairs) /\ Counts(t, s, a.texts, b.reads)
    BY <1>1, <1>3 DEF Leads
  <2>3. PICK root : root = s.root
    OBVIOUS
  <2>4. root = Mix(t.root, {y.dh, t.dhs}, <<y.dh, t.dhs>>)
    BY <1>4, <2>2, <2>3 DEF Awaits
  <2>5. y.key = At(root, 0)
    BY <1>4, <1>9, <2>2, <2>3 DEF Awaits
  <2>6. t.dhs \in KeyPair
    BY <2>1, <2>2 DEF Awaits, WellFormed
  <2>7. t.ckr # None => Fits(t, y.pn) /\ ~TooFar(t, y.pn)
    <3>. SUFFICES ASSUME t.ckr # None
                  PROVE  Fits(t, y.pn) /\ ~TooFar(t, y.pn)
      OBVIOUS
    <3>1. Heard(p, t, a.pairs, b.reads)
      BY <1>1, <1>2, PeerOfPeer DEF Half
    <3>2. b.reads >= 1 /\ b.reads \in Nat /\ a.texts \in 0..MaxTexts
      BY <1>2, <3>1 DEF Heard, Half
    <3>3. s.ns >= 1
      <4>1. PICK ns : ns = s.ns
        OBVIOUS
      <4>. QED  BY <1>4, <1>9, <2>1, <4>1
    <3>4. t.nr <= s.pn
      BY <1>4, <2>2 DEF Counts, Reach
    <3>5. PICK n : n = s.pn
      OBVIOUS
    <3>. QED  BY <1>4, <2>1, <2>2, <3>2, <3>3, <3>4, <3>5, RoomFor
  <2>8. y.ct = <<y.dh, t.dhs>>
    BY <1>4, <1>9
  <2>9. Leaves(o, t) \/ (o.why = None /\ Ratcheted(t, y, e, root, o.session))
    <3>1. y.dh # t.dhr /\ y.dh \notin Epochs(t)
      BY <1>4, <1>5
    <3>. QED  BY <1>2, <1>4, <1>6, <1>7, <1>9, <2>1, <2>4, <2>5, <2>6, <2>7, <2>8, <3>1, ReadsNext
  <2>. QED  BY <1>1, <1>7, <1>9, <2>3, <2>9
<1>. QED  BY <1>8, <1>9

\* Reading an envelope that is answered by a new epoch puts the reader ahead.
LEMMA AnsweredLeads ==
  ASSUME NEW p \in Party, NEW a, NEW b, Orderly(p, a, b), NEW y, NEW c, Taken(a, c, y),
         a.session.cks # None,
         NEW u, WellFormed(u),
         NewSending(u, a.session.root, <<Peer(p), b.pairs + 1>>, a.session.dhs),
         u.lastDh = b.session.lastDh, u.isFirst = b.session.isFirst,
         u.ckr # None, u.dhr = a.session.dhs, u.ckr.root = a.session.cks.root,
         Heard(p, u, a.pairs, b.reads + 1),
         Counts(u, a.session, a.texts, b.reads + 1), Counts(a.session, u, b.texts, a.reads),
         IF a.session.dhr = None THEN b.pairs = 0 \/ (b.pairs = 1 /\ Peer(p) = Larger)
         ELSE a.session.dhr = <<Peer(p), b.pairs>>,
         \A z \in c.owed : Due(p, u, a.session, z),
         \A z \in b.owed : Due(Peer(p), a.session, u, z),
         NEW d, ReadBy1(b, d, u, b.pairs + 1)
  PROVE  Orderly(p, c, d)
<1>1. PICK q, s, t, k : q = Peer(p) /\ s = a.session /\ t = b.session /\ k = b.pairs + 1
  OBVIOUS
<1>2. Half(p, a, b.pairs) /\ Half(q, b, a.pairs) /\ Peer(q) = p
  BY <1>1, PeerOfPeer DEF Orderly
<1>3. b.pairs \in Nat /\ k \in Nat /\ k >= 1 /\ k - 1 = b.pairs /\ b.reads + 1 \in Nat /\ WellFormed(s)
  BY <1>1, <1>2 DEF Half
<1>c. c.session = s /\ c.pairs = a.pairs /\ c.texts = a.texts /\ c.reads = a.reads
  BY <1>1 DEF Taken
<1>d. d.session = u /\ d.pairs = k /\ d.texts = b.texts /\ d.reads = b.reads + 1 /\ d.owed = b.owed
  BY <1>1 DEF ReadBy1
<1>4. /\ u.root = Mix(s.root, {u.dhs, s.dhs}, <<u.dhs, s.dhs>>) /\ u.dhs = <<q, k>>
      /\ u.ct = <<u.dhs, s.dhs>> /\ u.cks = At(u.root, 0) /\ u.cks.root = u.root /\ u.ns = 0
  BY <1>1 DEF NewSending, At
<1>5. u.cks # None
  <2>1. u.root \in Root
    BY DEF WellFormed, Session
  <2>2. u.cks \in Chain
    BY <1>4, <2>1 DEF At, Chain
  <2>. QED  BY <2>2, NoneIsNoChain
\* The sides.
<1>6. Half(p, c, d.pairs)
  <2>1. Sender(p, s, a.pairs)
    BY <1>1, <1>2 DEF Half
  <2>2. s.ckr # None => Heard(q, s, k, a.reads)
    <3>. SUFFICES ASSUME s.ckr # None
                  PROVE  Heard(q, s, k, a.reads)
      OBVIOUS
    <3>1. Heard(q, s, b.pairs, a.reads)
      BY <1>1, <1>2 DEF Half
    <3>2. \A j \in 1..b.pairs : j \in 1..k
      BY <1>3
    <3>. QED  BY <3>1, <3>2 DEF Heard
  <2>3. \A z \in c.owed : WellSealed(z)
    BY <1>2 DEF Taken, Half
  <2>. QED  BY <1>1, <1>2, <1>c, <1>d, <2>1, <2>2, <2>3 DEF Half
<1>7. Half(q, d, c.pairs)
  <2>1. u.lastDh = None \/ \E j \in 1..b.pairs : u.lastDh = <<q, j>>
    <3>1. CASE t.cks = None
      <4>1. t = NewSession(None)
        BY <1>1, <1>2, <3>1 DEF Half, Silent
      <4>. QED  BY <1>1, <4>1 DEF NewSession
    <3>2. CASE t.cks # None
      BY <1>1, <1>2, <3>2 DEF Half, Sender
    <3>. QED  BY <3>1, <3>2
  <2>2. ~u.isFirst
    <3>1. CASE t.cks = None
      <4>1. t = NewSession(None)
        BY <1>1, <1>2, <3>1 DEF Half, Silent
      <4>. QED  BY <1>1, <4>1 DEF NewSession
    <3>2. CASE t.cks # None
      BY <1>1, <1>2, <3>2 DEF Half, Sender
    <3>. QED  BY <3>1, <3>2
  <2>3. u.lastDh # u.dhs
    <3>1. u.dhs \in KeyPair
      BY <1>5 DEF WellFormed
    <3>2. \A j \in 1..b.pairs : j # k
      BY <1>3
    <3>. QED  BY <1>4, <2>1, <3>1, <3>2, NoneIsNoKeyPair
  <2>4. u.lastDh = None \/ \E j \in 1..k : u.lastDh = <<q, j>>
    <3>1. \A j \in 1..b.pairs : j \in 1..k
      BY <1>3
    <3>. QED  BY <2>1, <3>1
  <2>5. Sender(q, u, k)
    BY <1>3, <1>4, <2>2, <2>3, <2>4 DEF Sender
  <2>6. b.texts \in 0..MaxTexts /\ \A z \in b.owed : WellSealed(z)
    BY <1>2 DEF Half
  <2>. QED  BY <1>2, <1>3, <1>5, <1>c, <1>d, <2>5, <2>6 DEF Half
<1>8. Leads(q, d, c)
  <2>1. Follows(u, s)
    BY <1>1 DEF Follows
  <2>2. Awaits(q, s, u, k)
    <3>1. IF s.dhr = None THEN k = 1 \/ (k = 2 /\ q = Larger) ELSE s.dhr = <<q, k - 1>>
      BY <1>1, <1>3
    <3>. QED  BY <1>1, <1>4, <1>5, <3>1 DEF Awaits
  <2>. QED  BY <1>1, <1>c, <1>d, <2>1, <2>2 DEF Leads
<1>. QED  BY <1>1, <1>6, <1>7, <1>8, <1>c, <1>d DEF Orderly, Phase

\* What was sent on the chain that an answer ends is counted and owed as before.
LEMMA AnsweredEnds ==
  ASSUME NEW s \in Session, NEW t, t.ns \in Nat, NEW u, NEW x, NEW r \in Nat,
         Follows(s, t), Counts(s, t, x, r), u.dhs # t.dhs, u.ns = 0, u.pn = t.ns
  PROVE  /\ Counts(s, u, x, r)
         /\ \A q, z : Due(q, s, t, z) => Due(q, s, u, z)
<1>1. s.ckr # None /\ s.dhr = t.dhs /\ s.dhr # u.dhs
  BY DEF Follows
<1>2. Reach(s, u) = Reach(s, t)
  BY <1>1 DEF Reach
<1>3. Counts(s, u, x, r)
  <2>1. PICK m, n, v : m = Len(s.skipped) /\ n = t.ns /\ v = x + 1 + s.nr
    OBVIOUS
  <2>2. m \in Nat /\ n \in Nat
    BY <2>1, LenProperties DEF Session
  <2>3. m + r + n + 0 <= v
    BY <1>1, <2>1 DEF Counts
  <2>4. m + r + 0 + n <= v
    BY <2>2, <2>3
  <2>. QED  BY <1>1, <1>2, <2>1, <2>4 DEF Counts
<1>4. ASSUME NEW q, NEW z, Due(q, s, t, z)
      PROVE  Due(q, s, u, z)
  <2>1. IsOfChain(s, t, z) => IsOfChain(s, u, z)
    BY <1>2 DEF IsOfChain
  <2>2. ~IsOfNext(s, t, z) /\ ~IsOfOpening(q, s, t, z)
    BY <1>1 DEF IsOfNext, IsOfOpening
  <2>. QED  BY <1>4, <2>1, <2>2 DEF Due
<1>. QED  BY <1>3, <1>4

\* With the first key of an epoch that was not known.
LEMMA KeepsRatcheted ==
  ASSUME NEW p \in Party, NEW a, NEW b, Orderly(p, a, b), NEW y, WellSealed(y), NEW c, Taken(a, c, y),
         IsOfNext(b.session, a.session, y), y.n = 0,
         NEW u, Ratcheted(b.session, y, <<Peer(p), b.pairs + 1>>, a.session.root, u),
         NEW d, ReadBy1(b, d, u, b.pairs + 1)
  PROVE  Orderly(p, c, d)
<1>1. PICK q, s, t, e : q = Peer(p) /\ s = a.session /\ t = b.session /\ e = <<q, b.pairs + 1>>
  OBVIOUS
<1>2. Half(p, a, b.pairs) /\ Half(q, b, a.pairs) /\ Peer(q) = p /\ q \in Party
  BY <1>1, PeerOfPeer, PeerParty DEF Orderly
<1>3. Leads(p, a, b)
  BY OnlyLeads
<1>4. /\ y.dh = s.dhs /\ t.dhr # s.dhs /\ s.root # Blank /\ y.n < s.ns /\ y.key = At(s.cks.root, y.n)
      /\ y.pn = s.pn
  BY <1>1 DEF IsOfNext
<1>5. /\ WellFormed(u) /\ NewSending(u, s.root, e, s.dhs)
      /\ u.pn = t.ns /\ u.lastDh = t.lastDh /\ u.isFirst = t.isFirst
      /\ u.dhr = s.dhs /\ u.ckr = At(s.root, 1) /\ u.ckr # None /\ u.nr = 1
      /\ Epochs(u) \subseteq Epochs(t) \cup {s.dhs}
      /\ IF t.ckr = None THEN u.skipped = t.skipped
         ELSE /\ Len(u.skipped) + t.nr = Len(t.skipped) + s.pn
              /\ KeptKeys(u) = KeptKeys(t) \cup PassedKeys(t, s.pn)
  BY <1>1, <1>4 DEF Ratcheted
<1>6. Awaits(p, t, s, a.pairs) /\ Follows(s, t) /\ Counts(t, s, a.texts, b.reads) /\ Counts(s, t, b.texts, a.reads)
  BY <1>1, <1>3 DEF Leads
<1>7. s.cks # None /\ s.cks.root = s.root /\ t.cks # None /\ s.dhr = t.dhs /\ s.ckr # None
  BY <1>6 DEF Awaits, Follows
<1>8. /\ t \in Session /\ s \in Session /\ t.nr \in Nat /\ s.ns \in Nat /\ s.pn \in Nat /\ b.pairs \in Nat /\ a.pairs \in Nat
      /\ b.reads \in Nat /\ a.texts \in Nat /\ t.dhs = <<q, b.pairs>> /\ s.dhs = <<p, a.pairs>> /\ a.pairs >= 1
      /\ t.dhs \in KeyPair /\ s.nr \in Nat /\ t.ns \in Nat
  <2>1. t.dhs \in KeyPair
    BY <1>1, <1>2, <1>7, HalfFacts DEF WellFormed
  <2>. QED  BY <1>1, <1>2, <1>7, <2>1, HalfFacts
<1>9. /\ \A x \in Epochs(t) : x[1] = p /\ x[2] <= a.pairs - 1
      /\ \A x \in KeptKeys(t) : x.dh # s.dhs
      /\ t.ckr # None => t.dhr = <<p, a.pairs - 1>>
  BY <1>1, <1>3, EpochsBefore
<1>10. t.ckr = None => Unheard(t, b.reads) /\ KeptKeys(u) = {} /\ Epochs(t) = {}
  <2>. SUFFICES ASSUME t.ckr = None
                PROVE  Unheard(t, b.reads) /\ KeptKeys(u) = {} /\ Epochs(t) = {}
    OBVIOUS
  <2>1. Unheard(t, b.reads)
    BY <1>1, <1>2 DEF Half
  <2>2. KeptKeys(u) = KeptKeys(t)
    BY <1>5 DEF KeptKeys
  <2>. QED  BY <2>1, <2>2, UnheardKeeps
<1>11. t.ckr # None => Heard(p, t, a.pairs, b.reads)
  BY <1>1, <1>2 DEF Half
\* What was heard.
<1>12. Heard(p, u, a.pairs, b.reads + 1)
  <2>1. b.reads + 1 >= 1 /\ u.nr >= 1
    BY <1>5, <1>8
  <2>2. \E j \in 1..a.pairs : u.dhr = <<p, j>>
    <3>1. a.pairs \in 1..a.pairs
      BY <1>8
    <3>. QED  BY <1>5, <1>8, <3>1
  <2>3. \A x : x[1] = p /\ x[2] <= a.pairs - 1 /\ x \in KeyPair => UpTo(x, s.dhs)
    <3>. SUFFICES ASSUME NEW x \in KeyPair, x[1] = p, x[2] <= a.pairs - 1
                  PROVE  UpTo(x, s.dhs)
      OBVIOUS
    <3>1. PICK n : n = x[2]
      OBVIOUS
    <3>2. n \in Nat
      BY <3>1 DEF KeyPair
    <3>3. n <= a.pairs
      BY <1>8, <3>1, <3>2
    <3>. QED  BY <1>8, <3>1, <3>3 DEF UpTo
  <2>4. ASSUME NEW x \in Epochs(u)
        PROVE  UpTo(x, s.dhs)
    <3>1. CASE x = s.dhs
      <4>1. a.pairs <= a.pairs
        BY <1>8
      <4>. QED  BY <1>8, <3>1, <4>1 DEF UpTo
    <3>2. CASE x \in Epochs(t)
      <4>1. x \in KeyPair
        <5>1. PICK i \in 1..Len(t.epochs) : x = t.epochs[i]
          BY <3>2 DEF Epochs
        <5>2. t.epochs \in Seq(KeyPair)
          BY <1>8 DEF Session
        <5>. QED  BY <5>1, <5>2, ElementOfSeq
      <4>. QED  BY <1>9, <2>3, <3>2, <4>1
    <3>. QED  BY <1>5, <3>1, <3>2
  <2>5. ASSUME NEW x \in KeptKeys(u)
        PROVE  UpTo(x.dh, s.dhs) /\ x.dh # s.dhs
    <3>1. t.ckr # None
      BY <1>10, <2>5
    <3>2. t.dhr = <<p, a.pairs - 1>> /\ Heard(p, t, a.pairs, b.reads)
      BY <1>9, <1>11, <3>1
    <3>3. t.dhr \in KeyPair
      <4>1. PICK j \in 1..a.pairs : t.dhr = <<p, j>>
        BY <3>2 DEF Heard
      <4>. QED  BY <4>1 DEF KeyPair
    <3>4. CASE x \in KeptKeys(t)
      <4>1. UpTo(x.dh, t.dhr) /\ x.dh # s.dhs
        BY <1>9, <3>2, <3>4 DEF Heard
      <4>2. x.dh \in KeyPair
        <5>1. PICK i \in 1..Len(t.skipped) : x = t.skipped[i]
          BY <3>4 DEF KeptKeys
        <5>2. t.skipped \in Seq(KeptKey)
          BY <1>8 DEF Session
        <5>3. x \in KeptKey
          BY <5>1, <5>2, ElementOfSeq
        <5>. QED  BY <5>3 DEF KeptKey
      <4>. QED  BY <2>3, <3>2, <4>1, <4>2 DEF UpTo
    <3>5. CASE x \in PassedKeys(t, s.pn)
      <4>1. x.dh = t.dhr
        BY <3>5 DEF PassedKeys
      <4>2. a.pairs - 1 <= a.pairs - 1 /\ a.pairs - 1 # a.pairs
        BY <1>8
      <4>3. UpTo(x.dh, s.dhs)
        BY <2>3, <3>2, <3>3, <4>1, <4>2
      <4>. QED  BY <1>8, <3>2, <4>1, <4>2, <4>3
    <3>. QED  BY <1>5, <3>1, <3>4, <3>5
  <2>. QED  BY <1>5, <2>1, <2>2, <2>4, <2>5 DEF Heard
\* The numbers.
<1>13. Counts(u, s, a.texts, b.reads + 1)
  <2>1. PICK m, n, r, nr, x, ns, pn :
          /\ m = Len(u.skipped) /\ n = Len(t.skipped) /\ r = b.reads /\ nr = t.nr /\ x = a.texts
          /\ ns = s.ns /\ pn = s.pn
    OBVIOUS
  <2>2. m \in Nat /\ n \in Nat /\ r \in Nat /\ nr \in Nat /\ x \in Nat /\ ns \in Nat /\ pn \in Nat
    BY <1>5, <1>8, <2>1, LenProperties DEF WellFormed, Session
  <2>3. n + r + ns + pn <= x + 1 + nr
    BY <1>4, <1>6, <2>1 DEF Counts
  <2>4. m + r + ns <= x + 1
    <3>1. CASE t.ckr = None
      <4>1. m = 0 /\ n = 0 /\ nr = 0
        <5>1. Len(t.skipped) = 0 /\ u.skipped = t.skipped
          BY <1>5, <1>10, <3>1 DEF Unheard
        <5>2. t.nr = 0
          BY <1>1, <1>2, <3>1 DEF Half, WellFormed
        <5>. QED  BY <2>1, <5>1, <5>2
      <4>. QED  BY <2>2, <2>3, <4>1
    <3>2. CASE t.ckr # None
      <4>1. m + nr = n + pn
        BY <1>5, <2>1, <3>2
      <4>. QED  BY <2>2, <2>3, <4>1
    <3>. QED  BY <3>1, <3>2
  <2>5. m + (r + 1) + ns + 0 <= x + 1 + 1
    BY <2>2, <2>4
  <2>6. 1 <= ns
    BY <1>4, <2>1, <2>2
  <2>. QED  BY <1>5, <2>1, <2>5, <2>6 DEF Counts, Reach
<1>14. /\ Counts(s, u, b.texts, a.reads)
       /\ \A z : Due(q, s, t, z) => Due(q, s, u, z)
  <2>1. u.dhs = e /\ u.ns = 0
    BY <1>5 DEF NewSending
  <2>2. u.dhs # t.dhs
    <3>1. b.pairs # b.pairs + 1
      BY <1>8
    <3>. QED  BY <1>1, <1>8, <2>1, <3>1
  <2>3. a.reads \in Nat
    BY <1>2 DEF Half
  <2>. QED  BY <1>5, <1>6, <1>8, <2>1, <2>2, <2>3, AnsweredEnds
\* What is still owed.
<1>15. ASSUME NEW z \in c.owed
       PROVE  Due(p, u, s, z)
  <2>1. Due(p, t, s, z) /\ z.key # y.key /\ z.n \in Nat /\ z.dh \in KeyPair
    BY <1>1, <1>2 DEF Orderly, Taken, Half, WellSealed, EnvelopeType
  <2>2. KeptFor(t, z) => KeptFor(u, z)
    <3>. SUFFICES ASSUME KeptFor(t, z)
                  PROVE  KeptFor(u, z)
      OBVIOUS
    <3>1. t.ckr # None
      BY <1>10, UnheardKeeps DEF KeptFor
    <3>. QED  BY <1>5, <1>8, <1>11, <2>1, <3>1, PassedKept
  <2>3. IsOfChain(t, s, z) => KeptFor(u, z)
    <3>. SUFFICES ASSUME IsOfChain(t, s, z)
                  PROVE  KeptFor(u, z)
      OBVIOUS
    <3>1. t.ckr # None /\ z.dh = t.dhr /\ t.nr <= z.n /\ z.n < s.pn /\ z.key = At(t.ckr.root, z.n)
      BY <1>4 DEF IsOfChain, Reach
    <3>. QED  BY <1>5, <1>8, <1>11, <2>1, <3>1, PassedKept
  <2>4. IsOfNext(t, s, z) => IsOfChain(u, s, z)
    <3>. SUFFICES ASSUME IsOfNext(t, s, z)
                  PROVE  IsOfChain(u, s, z)
      OBVIOUS
    <3>1. z.dh = s.dhs /\ z.n < s.ns /\ z.key = At(s.cks.root, z.n)
      BY DEF IsOfNext
    <3>2. z.n # 0
      BY <1>4, <2>1, <3>1
    <3>3. 1 <= z.n
      <4>1. PICK n : n = z.n
        OBVIOUS
      <4>. QED  BY <2>1, <3>2, <4>1
    <3>4. u.ckr.root = s.root
      BY <1>5 DEF At
    <3>. QED  BY <1>5, <1>7, <3>1, <3>3, <3>4 DEF IsOfChain, Reach
  <2>5. IsOfOpening(p, t, s, z) => IsLost(u, z)
    <3>. SUFFICES ASSUME IsOfOpening(p, t, s, z)
                  PROVE  IsLost(u, z)
      OBVIOUS
    <3>1. t.ckr = None /\ z.dh = <<p, 1>> /\ s.dhs # z.dh /\ (z.first \/ z.ct = None)
      BY <1>4, <2>1 DEF IsOfOpening
    <3>2. z.dh \notin Epochs(u)
      BY <1>5, <1>10, <3>1
    <3>3. a.pairs # 1
      BY <1>8, <3>1
    <3>4. 1 < a.pairs
      BY <1>8, <3>3
    <3>. QED  BY <1>5, <1>8, <3>1, <3>2, <3>4 DEF IsLost
  <2>6. IsLost(t, z) => IsLost(u, z)
    <3>. SUFFICES ASSUME IsLost(t, z)
                  PROVE  IsLost(u, z)
      OBVIOUS
    <3>1. /\ t.ckr # None /\ z.dh \notin Epochs(t) /\ (z.first \/ z.ct = None)
          /\ z.dh[1] = t.dhr[1] /\ z.dh[2] < t.dhr[2]
      BY DEF IsLost
    <3>2. t.dhr = <<p, a.pairs - 1>>
      BY <1>9, <3>1
    <3>3. PICK n : n = z.dh[2]
      OBVIOUS
    <3>4. n \in Nat
      BY <2>1, <3>3 DEF KeyPair
    <3>5. n < a.pairs - 1
      BY <3>1, <3>2, <3>3
    <3>6. n < a.pairs /\ n # a.pairs
      BY <1>8, <3>4, <3>5
    <3>7. z.dh # s.dhs
      BY <1>8, <3>3, <3>6
    <3>8. z.dh[1] = s.dhs[1] /\ z.dh[2] < s.dhs[2]
      BY <1>8, <3>1, <3>2, <3>3, <3>6
    <3>. QED  BY <1>5, <3>1, <3>7, <3>8 DEF IsLost
  <2>. QED  BY <2>1, <2>2, <2>3, <2>4, <2>5, <2>6 DEF Due
<1>16. \A z \in b.owed : Due(q, s, u, z)
  BY <1>1, <1>14 DEF Orderly
<1>17. IF s.dhr = None THEN b.pairs = 0 \/ (b.pairs = 1 /\ q = Larger) ELSE s.dhr = <<q, b.pairs>>
  BY <1>7, <1>8, NoneIsNoKeyPair
<1>18. u.ckr.root = s.cks.root
  BY <1>5, <1>7 DEF At
<1>. QED  BY <1>1, <1>5, <1>7, <1>12, <1>13, <1>14, <1>15, <1>16, <1>17, <1>18, AnsweredLeads

\* A first message is read; what overtook it is refused.
LEMMA FirstRead ==
  ASSUME NEW p \in Party, NEW a, NEW b, Orderly(p, a, b),
         NEW y, WellSealed(y), IsOfOpening(p, b.session, a.session, y), NEW e \in KeyPair
  PROVE  LET o == Decrypt(Peer(p), b.session, y, e) IN
         Leaves(o, b.session) \/
           (o.why = None /\ y.n = 0 /\ Established(Peer(p), b.session, y, e, FirstChain(p), o.session))
<1>1. PICK q, t : q = Peer(p) /\ t = b.session
  OBVIOUS
<1>2. Half(q, b, a.pairs) /\ q \in Party
  BY <1>1, PeerParty DEF Orderly
<1>3. /\ t.ckr = None /\ y.dh = <<p, 1>> /\ y.key = At(FirstChain(p), y.n)
      /\ y.first = (y.n = 0) /\ y.ct = (IF y.n = 0 THEN <<y.dh, Prekey(q)>> ELSE None)
  BY <1>1 DEF IsOfOpening
<1>4. Unheard(t, b.reads) /\ Epochs(t) = {} /\ WellFormed(t)
  BY <1>1, <1>2, <1>3, UnheardKeeps DEF Half
<1>5. PICK o : o = Decrypt(q, t, y, e)
  OBVIOUS
<1>6. CASE y.n # 0
  <2>1. Refused(t, y) = "unknown-epoch"
    BY <1>3, <1>4, <1>6 DEF Refused
  <2>2. "unknown-epoch" # None
    BY RatchetAssumption
  <2>3. o = Failed("unknown-epoch", t)
    BY <1>5, <2>1, <2>2 DEF Decrypt
  <2>4. Leaves(o, t)
    BY <2>3, Outcomes DEF Leaves, Harmless
  <2>. QED  BY <1>1, <1>5, <2>4
<1>7. CASE y.n = 0
  <2>1. PICK root : root = FirstChain(p)
    OBVIOUS
  <2>2. root = Mix(t.root, {y.dh, Prekey(q)}, <<y.dh, Prekey(q)>>)
    BY <1>1, <1>3, <1>4, <2>1 DEF Unheard, FirstChain
  <2>3. y.first /\ y.ct = <<y.dh, Prekey(q)>> /\ y.key = At(root, 0)
    BY <1>3, <1>7, <2>1
  <2>4. Leaves(o, t) \/ (o.why = None /\ Established(q, t, y, e, root, o.session))
    BY <1>2, <1>3, <1>4, <1>5, <1>7, <2>2, <2>3, ReadsFirstMessage
  <2>. QED  BY <1>1, <1>5, <1>7, <2>1, <2>4
<1>. QED  BY <1>6, <1>7

\* What a session that read a first message knows, and what is owed to it.
LEMMA EstablishedKnows ==
  ASSUME NEW p \in Party, NEW a, NEW b, Orderly(p, a, b), NEW y \in a.owed,
         IsOfOpening(p, b.session, a.session, y), y.n = 0,
         NEW q, NEW e, NEW u, Established(q, b.session, y, e, FirstChain(p), u)
  PROVE  /\ a.session.cks # None /\ b.reads = 0 /\ u.skipped = <<>> /\ u.dhr = <<p, 1>>
         /\ u.ckr.root = FirstChain(p) /\ Heard(p, u, a.pairs, b.reads + 1)
         /\ u.dhs = b.session.dhs \/ a.session.root = Blank =>
              \A z \in a.owed : z.key # y.key => Due(p, u, a.session, z)
<1>1. PICK s, t : s = a.session /\ t = b.session
  OBVIOUS
<1>2. Half(p, a, b.pairs) /\ Half(Peer(p), b, a.pairs)
  BY DEF Orderly
<1>3. /\ t.ckr = None /\ y.dh = <<p, 1>> /\ y.key = At(FirstChain(p), 0)
      /\ (s.dhs = y.dh => s.root = Blank)
  BY <1>1 DEF IsOfOpening
<1>4. s.cks # None
  BY <1>1, <1>2 DEF Half, Silent
<1>5. a.pairs \in Nat /\ a.pairs >= 1
  BY <1>1, <1>2, <1>4, HalfFacts
<1>6. Unheard(t, b.reads) /\ KeptKeys(t) = {} /\ Epochs(t) = {}
  BY <1>1, <1>2, <1>3, UnheardKeeps DEF Half
<1>7. /\ u.dhr = <<p, 1>> /\ u.ckr = At(FirstChain(p), 1) /\ u.ckr # None /\ u.nr = 1
      /\ Epochs(u) \subseteq {<<p, 1>>} /\ u.skipped = <<>> /\ KeptKeys(u) = {} /\ b.reads = 0
  <2>1. /\ u.dhr = y.dh /\ u.ckr = At(FirstChain(p), 1) /\ u.ckr # None /\ u.nr = 1
        /\ Epochs(u) \subseteq Epochs(t) \cup {y.dh} /\ u.skipped = t.skipped
    BY <1>1 DEF Established
  <2>2. KeptKeys(u) = KeptKeys(t) /\ t.skipped = <<>> /\ b.reads = 0
    BY <1>6, <2>1 DEF KeptKeys, Unheard
  <2>. QED  BY <1>3, <1>6, <2>1, <2>2
<1>8. u.ckr.root = FirstChain(p)
  BY <1>7 DEF At
<1>9. Heard(p, u, a.pairs, b.reads + 1)
  <2>1. 1 >= 1 /\ 0 + 1 >= 1 /\ 1 <= 1 /\ 1 \in 1..a.pairs
    BY <1>5
  <2>2. UpTo(<<p, 1>>, <<p, 1>>)
    BY <2>1 DEF UpTo
  <2>. QED  BY <1>7, <2>1, <2>2 DEF Heard
<1>10. ASSUME u.dhs = t.dhs \/ s.root = Blank, NEW z \in a.owed, z.key # y.key
       PROVE  Due(p, u, s, z)
  <2>1. Due(p, t, s, z) /\ z.n \in Nat
    BY <1>1, <1>2 DEF Orderly, Half, WellSealed, EnvelopeType
  <2>2. ~KeptFor(t, z) /\ ~IsOfChain(t, s, z) /\ ~IsLost(t, z)
    BY <1>3, <1>6 DEF KeptFor, IsOfChain, IsLost
  <2>3. IsOfNext(t, s, z) => IsOfNext(u, s, z)
    <3>. SUFFICES ASSUME IsOfNext(t, s, z)
                  PROVE  IsOfNext(u, s, z)
      OBVIOUS
    <3>1. s.root # Blank
      BY DEF IsOfNext
    <3>2. u.dhs = t.dhs /\ u.dhr # s.dhs
      BY <1>3, <1>7, <1>10, <3>1
    <3>. QED  BY <3>2 DEF IsOfNext
  <2>4. IsOfOpening(p, t, s, z) => IsOfChain(u, s, z)
    <3>. SUFFICES ASSUME IsOfOpening(p, t, s, z)
                  PROVE  IsOfChain(u, s, z)
      OBVIOUS
    <3>1. /\ z.dh = <<p, 1>> /\ z.key = At(FirstChain(p), z.n)
          /\ IF s.dhs = z.dh THEN z.n < s.ns ELSE z.n < s.pn
      BY DEF IsOfOpening
    <3>2. z.n # 0
      BY <1>3, <1>10, <3>1
    <3>3. 1 <= z.n
      <4>1. PICK n : n = z.n
        OBVIOUS
      <4>. QED  BY <2>1, <3>2, <4>1
    <3>4. z.n < Reach(u, s)
      BY <1>7, <3>1 DEF Reach
    <3>. QED  BY <1>7, <1>8, <3>1, <3>3, <3>4 DEF IsOfChain
  <2>. QED  BY <2>1, <2>2, <2>3, <2>4 DEF Due
<1>. QED  BY <1>1, <1>4, <1>7, <1>8, <1>9, <1>10

\* There is nobody else.
LEMMA OneOrOther ==
  ASSUME NEW p \in Party, NEW x \in Party
  PROVE  x = p \/ x = Peer(p)
<1>1. PICK q : q = Peer(p)
  OBVIOUS
<1>2. IsFiniteSet(Party) /\ Cardinality(Party) = 2 /\ q \in Party /\ q # p
  BY <1>1, RatchetAssumption, PeerParty
<1>3. Cardinality(Party \ {p}) = 2 - 1 /\ IsFiniteSet(Party \ {p})
  BY <1>2, FS_RemoveElement
<1>4. Cardinality((Party \ {p}) \ {q}) = (2 - 1) - 1 /\ IsFiniteSet((Party \ {p}) \ {q})
  BY <1>2, <1>3, FS_RemoveElement
<1>5. (2 - 1) - 1 = 0
  OBVIOUS
<1>6. (Party \ {p}) \ {q} = {}
  BY <1>4, <1>5, FS_EmptySet
<1>. QED  BY <1>1, <1>6

\* With the key of a first message, which it does not answer.
LEMMA KeepsUnanswered ==
  ASSUME NEW p \in Party, NEW a, NEW b, Orderly(p, a, b), NEW y \in a.owed, NEW c, Taken(a, c, y),
         IsOfOpening(p, b.session, a.session, y), y.n = 0,
         NEW e, NEW u, Established(Peer(p), b.session, y, e, FirstChain(p), u),
         ~AnswersFirst(Peer(p), b.session),
         NEW d, ReadBy1(b, d, u, b.pairs)
  PROVE  Orderly(p, c, d)
<1>1. PICK q, s, t : q = Peer(p) /\ s = a.session /\ t = b.session
  OBVIOUS
<1>2. Half(p, a, b.pairs) /\ Half(q, b, a.pairs) /\ q \in Party /\ Peer(q) = p
  BY <1>1, PeerOfPeer, PeerParty DEF Orderly
<1>3. t.ckr = None /\ t.cks # None /\ q # Larger /\ SameSending(t, u) /\ WellFormed(u) /\ u.ckr # None /\ u.nr = 1
  BY <1>1 DEF IsOfOpening, AnswersFirst, Established
<1>4. /\ s.cks # None /\ b.reads = 0 /\ u.skipped = <<>> /\ u.dhr = <<p, 1>>
      /\ u.ckr.root = FirstChain(p) /\ Heard(p, u, a.pairs, b.reads + 1)
      /\ \A z \in a.owed : z.key # y.key => Due(p, u, s, z)
  <2>1. u.dhs = t.dhs
    BY <1>3 DEF SameSending
  <2>. QED  BY <1>1, <2>1, EstablishedKnows
<1>s. /\ u.root = t.root /\ u.dhs = t.dhs /\ u.ct = t.ct /\ u.cks = t.cks /\ u.ns = t.ns /\ u.pn = t.pn
  BY <1>3 DEF SameSending
<1>c. c.session = s /\ c.pairs = a.pairs /\ c.texts = a.texts /\ c.reads = a.reads
  BY <1>1 DEF Taken
<1>d. d.session = u /\ d.pairs = b.pairs /\ d.texts = b.texts /\ d.reads = 1 /\ d.owed = b.owed
  BY <1>4 DEF ReadBy1
<1>5. /\ Half(p, c, d.pairs) /\ Half(q, d, c.pairs)
  BY <1>1, <1>3, <1>4, HalvesReading
<1>6. /\ s.dhs = <<p, a.pairs>> /\ a.pairs \in Nat /\ s.ns \in Nat /\ s.pn \in Nat /\ a.texts \in Nat
  BY <1>1, <1>2, <1>4, HalfFacts
<1>7. Len(u.skipped) = 0
  BY <1>4
\* Both had opened: the one with the larger key is not answered.
<1>8. ASSUME BothOpen(p, a, b)
      PROVE  Crossed(p, c, d)
  <2>1. Opens(p, s, a.pairs, a.texts) /\ Opens(q, t, b.pairs, b.texts) /\ s.ckr = None
    BY <1>1, <1>3, <1>4, <1>8 DEF BothOpen
  <2>2. p = Larger
    <3>1. Larger = p \/ Larger = q
      BY <1>1, RatchetAssumption, OneOrOther
    <3>. QED  BY <1>3, <3>1
  <2>3. Follows(u, s)
    BY <1>3, <1>4, <1>6, <2>1 DEF Follows, Opens
  <2>4. Counts(u, s, a.texts, 1)
    <3>1. 1 <= s.ns /\ s.ns <= a.texts
      BY <2>1 DEF Opens
    <3>2. PICK n, x : n = s.ns /\ x = a.texts
      OBVIOUS
    <3>3. 0 + 1 + n + 0 <= x + 1 + 1
      BY <1>6, <3>1, <3>2
    <3>4. u.dhr = s.dhs
      BY <2>3 DEF Follows
    <3>. QED  BY <1>3, <1>7, <3>1, <3>2, <3>3, <3>4 DEF Counts, Reach
  <2>5. Opens(q, u, b.pairs, b.texts)
    BY <1>s, <2>1 DEF Opens
  <2>. QED  BY <1>1, <1>c, <1>d, <2>1, <2>2, <2>3, <2>4, <2>5 DEF Crossed
\* Or p has answered meanwhile.
<1>9. ASSUME Leads(p, a, b)
      PROVE  Leads(p, c, d)
  <2>1. /\ Follows(s, t) /\ Counts(s, t, b.texts, a.reads)
        /\ Awaits(p, t, s, a.pairs) /\ Counts(t, s, a.texts, b.reads)
    BY <1>1, <1>9 DEF Leads
  <2>2. Follows(s, u) /\ Counts(s, u, b.texts, a.reads)
    BY <1>s, <2>1 DEF Follows, Counts, Reach
  <2>3. s.root # Blank
    <3>1. t.root \in Root
      BY <1>1, <1>2, HalfFacts DEF Session
    <3>. QED  BY <2>1, <3>1, NotBlank DEF Awaits
  <2>4. y.dh # s.dhs /\ y.dh = <<p, 1>> /\ y.n < s.pn
    BY <1>1, <2>3 DEF IsOfOpening
  <2>5. t.dhr = None
    BY <1>1, <1>2, <1>3 DEF Half, Unheard
  <2>6. a.pairs = 2
    BY <1>6, <2>1, <2>4, <2>5 DEF Awaits
  <2>7. Awaits(p, u, s, a.pairs)
    <3>1. u.dhr # None /\ a.pairs - 1 = 1
      <4>1. u.dhr \in KeyPair
        BY <1>3 DEF WellFormed
      <4>. QED  BY <2>6, <4>1, NoneIsNoKeyPair
    <3>. QED  BY <1>4, <1>s, <2>1, <3>1 DEF Awaits
  <2>8. Counts(u, s, a.texts, 1)
    <3>1. u.dhr # s.dhs /\ t.dhr # s.dhs
      <4>1. s.dhs \in KeyPair
        BY <1>1, <1>2, <1>4, HalfFacts DEF WellFormed
      <4>. QED  BY <1>4, <2>4, <2>5, <4>1, NoneIsNoKeyPair
    <3>2. PICK n, x, m : n = s.ns /\ x = a.texts /\ m = s.pn
      OBVIOUS
    <3>3. Len(t.skipped) = 0 /\ t.nr = 0
      BY <1>1, <1>2, <1>3 DEF Half, Unheard, WellFormed
    <3>4. 0 + 0 + n + m <= x + 1 + 0
      BY <1>4, <2>1, <3>1, <3>2, <3>3 DEF Counts
    <3>5. 0 + 1 + n + m <= x + 1 + 1
      BY <1>6, <3>2, <3>4
    <3>6. 1 <= m
      BY <1>1, <1>6, <2>4, <3>2
    <3>. QED  BY <1>3, <1>7, <3>1, <3>2, <3>5, <3>6 DEF Counts, Reach
  <2>. QED  BY <1>1, <1>c, <1>d, <2>2, <2>7, <2>8 DEF Leads
<1>10. Phase(p, c, d)
  <2>1. ~Crossed(q, b, a)
    BY <1>3 DEF Crossed
  <2>2. ~Crossed(p, a, b) /\ ~Leads(q, b, a)
    BY <1>1, <1>3 DEF Crossed, Leads, Follows
  <2>. QED  BY <1>1, <1>8, <1>9, <2>1, <2>2 DEF Orderly, Phase
<1>11. \A z \in c.owed : Due(p, u, s, z)
  BY <1>4 DEF Taken
<1>12. \A z \in d.owed : Due(q, s, u, z)
  BY <1>1, <1>3, <1>d, OwedToSame
<1>. QED  BY <1>1, <1>5, <1>10, <1>11, <1>12, <1>c, <1>d DEF Orderly

\* With the key of a first message, which it answers.
LEMMA KeepsAnswered ==
  ASSUME NEW p \in Party, NEW a, NEW b, Orderly(p, a, b), NEW y \in a.owed, NEW c, Taken(a, c, y),
         IsOfOpening(p, b.session, a.session, y), y.n = 0,
         NEW u, Established(Peer(p), b.session, y, <<Peer(p), b.pairs + 1>>, FirstChain(p), u),
         AnswersFirst(Peer(p), b.session),
         NEW d, ReadBy1(b, d, u, b.pairs + 1)
  PROVE  Orderly(p, c, d)
<1>1. PICK q, s, t, e : q = Peer(p) /\ s = a.session /\ t = b.session /\ e = <<q, b.pairs + 1>>
  OBVIOUS
<1>2. Half(p, a, b.pairs) /\ Half(q, b, a.pairs) /\ q \in Party /\ Peer(q) = p /\ q # p
  BY <1>1, PeerOfPeer, PeerParty DEF Orderly
<1>3. /\ t.ckr = None /\ (t.cks = None \/ q = Larger) /\ y.dh = <<p, 1>>
  BY <1>1 DEF IsOfOpening, AnswersFirst
<1>4. Unheard(t, b.reads) /\ t.root = Blank /\ t.dhr = None
  BY <1>1, <1>2, <1>3 DEF Half, Unheard
<1>5. /\ WellFormed(u) /\ NewSending(u, Blank, e, <<p, 1>>)
      /\ u.pn = (IF t.cks = None THEN t.pn ELSE t.ns)
      /\ u.lastDh = t.lastDh /\ u.isFirst = t.isFirst /\ u.ckr # None /\ u.nr = 1
  BY <1>1, <1>3, <1>4 DEF Established
<1>6. s.cks # None
  BY <1>1, EstablishedKnows
<1>7. s.dhs = <<p, a.pairs>> /\ a.pairs \in Nat /\ s.ns \in Nat /\ a.texts \in Nat /\ s \in Session
      /\ t.ns \in Nat /\ t.pn \in Nat /\ b.pairs \in Nat /\ b.texts \in Nat /\ a.reads \in Nat /\ t.root \in Root
      /\ (t.cks # None => t.dhs = <<q, b.pairs>>)
  <2>1. t.root \in Root
    BY <1>1, <1>2, HalfFacts DEF Session
  <2>. QED  BY <1>1, <1>2, <1>6, <2>1, HalfFacts
\* p had only opened.
<1>8. BothOpen(p, a, b) \/ Crossed(q, b, a)
  <2>1. ~Crossed(p, a, b) /\ ~Leads(q, b, a)
    BY <1>1, <1>3 DEF Crossed, Leads, Follows
  <2>2. ~Leads(p, a, b)
    <3>. SUFFICES ASSUME Leads(p, a, b)
                  PROVE  FALSE
      OBVIOUS
    <3>1. Awaits(p, t, s, a.pairs)
      BY <1>1 DEF Leads
    <3>2. a.pairs = 1
      BY <1>2, <1>3, <1>4, <3>1 DEF Awaits
    <3>3. s.root = Blank
      BY <1>1, <1>3, <1>7, <3>2 DEF IsOfOpening
    <3>4. s.root # Blank
      BY <1>7, <3>1, NotBlank DEF Awaits
    <3>. QED  BY <3>3, <3>4
  <2>. QED  BY <1>1, <2>1, <2>2 DEF Orderly, Phase
<1>9. Opens(p, s, a.pairs, a.texts)
  BY <1>1, <1>2, <1>6, <1>8 DEF BothOpen, Crossed
<1>10. /\ s.root = Blank /\ s.dhs = <<p, 1>> /\ s.cks.root = FirstChain(p) /\ 1 <= s.ns /\ s.ns <= a.texts
  BY <1>7, <1>9 DEF Opens
<1>11. /\ b.reads = 0 /\ u.skipped = <<>> /\ u.dhr = <<p, 1>>
       /\ u.ckr.root = FirstChain(p) /\ Heard(p, u, a.pairs, b.reads + 1)
       /\ \A z \in a.owed : z.key # y.key => Due(p, u, s, z)
  BY <1>1, <1>10, EstablishedKnows
<1>12. Counts(u, s, a.texts, b.reads + 1)
  <2>1. PICK n, x : n = s.ns /\ x = a.texts
    OBVIOUS
  <2>2. 0 + (0 + 1) + n + 0 <= x + 1 + 1
    BY <1>7, <1>10, <2>1
  <2>3. Len(u.skipped) = 0
    BY <1>11
  <2>. QED  BY <1>5, <1>10, <1>11, <2>1, <2>2, <2>3 DEF Counts, Reach
<1>13. u.dhs = e /\ u.ns = 0 /\ (t.cks # None => u.dhs # t.dhs)
  <2>1. b.pairs # b.pairs + 1
    BY <1>7
  <2>. QED  BY <1>1, <1>5, <1>7, <2>1 DEF NewSending
\* What p knows of the reader.
<1>14. /\ Counts(s, u, b.texts, a.reads)
       /\ \A z \in b.owed : Due(q, s, u, z)
       /\ IF s.dhr = None THEN b.pairs = 0 \/ (b.pairs = 1 /\ q = Larger) ELSE s.dhr = <<q, b.pairs>>
  <2>1. CASE BothOpen(p, a, b)
    <3>1. s.ckr = None /\ Unheard(s, a.reads) /\ s.nr = 0 /\ (t.cks # None => Opens(q, t, b.pairs, b.texts))
      <4>1. s.ckr = None /\ (t.cks # None => Opens(q, t, b.pairs, b.texts))
        BY <1>1, <2>1 DEF BothOpen
      <4>. QED  BY <1>1, <1>2, <4>1 DEF Half, WellFormed
    <3>2. s.dhr = None /\ Len(s.skipped) = 0 /\ a.reads = 0 /\ KeptKeys(s) = {}
      BY <3>1, UnheardKeeps DEF Unheard
    <3>3. t.cks = None => b.pairs = 0 /\ b.owed = {} /\ t.pn = 0
      BY <1>1, <1>2 DEF Half, Silent, NewSession
    <3>4. t.cks # None => b.pairs = 1 /\ q = Larger /\ t.ns <= b.texts
      BY <1>3, <3>1 DEF Opens
    <3>5. Counts(s, u, b.texts, a.reads)
      <4>1. s.dhr # u.dhs
        <5>1. u.dhs \in KeyPair
          <6>1. b.pairs + 1 \in Nat
            BY <1>7
          <6>. QED  BY <1>1, <1>2, <1>13, <6>1 DEF KeyPair
        <5>. QED  BY <3>2, <5>1, NoneIsNoKeyPair
      <4>2. PICK n, x : n = u.pn /\ x = b.texts
        OBVIOUS
      <4>3. n \in Nat /\ n <= x
        <5>1. CASE t.cks = None
          BY <1>5, <1>7, <3>3, <4>2, <5>1
        <5>2. CASE t.cks # None
          BY <1>5, <1>7, <3>4, <4>2, <5>2
        <5>. QED  BY <5>1, <5>2
      <4>4. 0 + 0 + 0 + n <= x + 1 + 0 /\ 0 <= n
        BY <1>7, <4>2, <4>3
      <4>. QED  BY <1>13, <3>1, <3>2, <4>1, <4>2, <4>4 DEF Counts, Reach
    <3>6. ASSUME NEW z \in b.owed
          PROVE  Due(q, s, u, z)
      <4>1. Due(q, s, t, z)
        BY <1>1 DEF Orderly
      <4>2. ~KeptFor(s, z) /\ ~IsOfChain(s, t, z) /\ ~IsOfNext(s, t, z) /\ ~IsLost(s, z)
        BY <1>4, <3>1, <3>2 DEF KeptFor, IsOfChain, IsOfNext, IsLost
      <4>3. IsOfOpening(q, s, t, z)
        BY <4>1, <4>2 DEF Due
      <4>4. t.cks # None
        BY <3>3
      <4>5. z.dh = <<q, 1>> /\ t.dhs = z.dh /\ z.n < t.ns
        BY <1>7, <3>4, <4>3, <4>4 DEF IsOfOpening
      <4>6. u.dhs # z.dh /\ z.n < u.pn
        BY <1>5, <1>13, <4>4, <4>5
      <4>7. IsOfOpening(q, s, u, z)
        BY <4>3, <4>6 DEF IsOfOpening
      <4>. QED  BY <4>7 DEF Due
    <3>. QED  BY <3>2, <3>3, <3>4, <3>5, <3>6
  <2>2. CASE Crossed(q, b, a)
    <3>1. Follows(s, t) /\ Counts(s, t, b.texts, a.reads) /\ Opens(q, t, b.pairs, b.texts)
      BY <1>1, <2>2 DEF Crossed
    <3>2. t.cks # None /\ b.pairs = 1 /\ s.dhr = <<q, b.pairs>>
      BY <1>7, <3>1 DEF Opens, Follows
    <3>3. /\ Counts(s, u, b.texts, a.reads)
          /\ \A z : Due(q, s, t, z) => Due(q, s, u, z)
      BY <1>5, <1>7, <1>13, <3>1, <3>2, AnsweredEnds
    <3>4. s.dhr # None
      <4>1. <<q, b.pairs>> \in KeyPair
        BY <1>2, <1>7 DEF KeyPair
      <4>. QED  BY <3>2, <4>1, NoneIsNoKeyPair
    <3>5. \A z \in b.owed : Due(q, s, t, z)
      BY <1>1 DEF Orderly
    <3>. QED  BY <3>2, <3>3, <3>4, <3>5
  <2>. QED  BY <1>8, <2>1, <2>2
<1>15. \A z \in c.owed : Due(p, u, s, z)
  BY <1>11 DEF Taken
<1>16. NewSending(u, s.root, e, s.dhs)
  BY <1>5, <1>10
<1>17. u.dhr = s.dhs /\ u.ckr.root = s.cks.root
  BY <1>10, <1>11
<1>. QED  BY <1>1, <1>5, <1>6, <1>11, <1>12, <1>14, <1>15, <1>16, <1>17, AnsweredLeads

------------------------------------------------------------------------------
(* All of it together.                                                       *)

\* Nothing is kept in a place that the chain has not come to.
LEMMA NotKeptYet ==
  ASSUME NEW p, NEW t \in Session, NEW k, NEW r, Heard(p, t, k, r),
         NEW y, y.n \in Nat, y.dh = t.dhr, t.nr <= y.n
  PROVE  KeptAt(t, y) = {}
<1>1. ASSUME NEW x \in KeptKeys(t)
      PROVE  ~(x.dh = y.dh /\ x.n = y.n)
  <2>1. x.dh = t.dhr => x.n < t.nr
    BY DEF Heard
  <2>2. t.nr \in Nat
    BY DEF Session
  <2>3. x.n = y.n /\ x.n < t.nr => FALSE
    BY <2>2
  <2>. QED  BY <2>1, <2>3
<1>. QED  BY <1>1, NoPlace

\* A reader that has a key pair has the one it generated last.
LEMMA ReadersPair ==
  ASSUME NEW q \in Party, NEW b, NEW k, Half(q, b, k), b.session.cks # None
  PROVE  b.session.dhs # <<q, b.pairs + 1>>
<1>1. b.session.dhs = <<q, b.pairs>> /\ b.pairs \in Nat
  BY DEF Half, Sender
<1>2. b.pairs # b.pairs + 1
  BY <1>1
<1>. QED  BY <1>1, <1>2

\* How many key pairs the reader has afterwards.
PairsWith(q, b, u) == IF u.dhs = <<q, b.pairs + 1>> THEN b.pairs + 1 ELSE b.pairs

\* An envelope that is owed is refused for the order in which it came only, or it is
\* read and the order is kept.
LEMMA ReadingKeeps ==
  ASSUME MaxTexts <= MaxKept + 1, MaxTexts <= MaxSkip + 1,
         NEW p \in Party, NEW a, NEW b, Orderly(p, a, b), NEW y \in a.owed, NEW c, Taken(a, c, y),
         NEW d, d.texts = b.texts, d.reads = b.reads + 1, d.owed = b.owed
  PROVE  LET o == Decrypt(Peer(p), b.session, y, <<Peer(p), b.pairs + 1>>) IN
         Leaves(o, b.session) \/
           /\ o.why = None
           /\ d.session = o.session /\ d.pairs = PairsWith(Peer(p), b, o.session) => Orderly(p, c, d)
<1>1. PICK q, s, t, e, o : /\ q = Peer(p) /\ s = a.session /\ t = b.session /\ e = <<q, b.pairs + 1>>
                           /\ o = Decrypt(q, t, y, e)
  OBVIOUS
<1>. DEFINE Good == /\ o.why = None
                    /\ d.session = o.session /\ d.pairs = PairsWith(q, b, o.session) => Orderly(p, c, d)
<1>2. /\ Half(p, a, b.pairs) /\ Half(q, b, a.pairs) /\ q \in Party /\ Peer(q) = p
      /\ Due(p, t, s, y) /\ WellSealed(y)
  BY <1>1, PeerOfPeer, PeerParty DEF Orderly, Half
<1>3. /\ WellFormed(t) /\ t \in Session /\ t.nr \in Nat /\ b.pairs \in Nat /\ b.reads \in Nat
      /\ s \in Session /\ s.ns \in Nat /\ s.pn \in Nat /\ y.n \in Nat
  BY <1>1, <1>2, HalfFacts DEF WellSealed, EnvelopeType
<1>4. e \in KeyPair
  BY <1>1, <1>2, <1>3 DEF KeyPair
<1>5. t.ckr # None => Heard(p, t, a.pairs, b.reads)
  BY <1>1, <1>2 DEF Half
<1>6. ASSUME t.cks # None, SameSending(t, o.session), d.pairs = PairsWith(q, b, o.session)
      PROVE  d.pairs = b.pairs
  <2>1. t.dhs # <<q, b.pairs + 1>>
    BY <1>1, <1>2, <1>6, ReadersPair
  <2>. QED  BY <1>6, <2>1 DEF SameSending, PairsWith
\* Who heard the other has sent.
<1>7. t.ckr # None => t.cks # None
  <2>1. t.cks = None => b.reads = 0
    BY <1>1, <1>2 DEF Half, Silent
  <2>. QED  BY <1>5, <2>1 DEF Heard
<1>8. CASE KeptFor(t, y)
  <2>1. t.ckr # None
    <3>. SUFFICES ASSUME t.ckr = None
                  PROVE  FALSE
      OBVIOUS
    <3>1. KeptKeys(t) = {}
      BY <1>1, <1>2, UnheardKeeps DEF Half
    <3>. QED  BY <1>8, <3>1 DEF KeptFor
  <2>2. Leaves(o, t) \/ (o.why = None /\ Spent(t, y, o.session))
    BY <1>1, <1>2, <1>3, <1>8, <2>1, ReadsKept
  <2>3. ASSUME o.why = None, Spent(t, y, o.session), d.session = o.session,
               d.pairs = PairsWith(q, b, o.session)
        PROVE  Orderly(p, c, d)
    <3>1. d.pairs = b.pairs
      BY <1>6, <1>7, <2>1, <2>3 DEF Spent
    <3>2. ReadBy1(b, d, o.session, b.pairs)
      BY <2>3, <3>1 DEF ReadBy1
    <3>. QED  BY <1>1, <1>8, <2>1, <2>3, <3>2, KeepsSpent
  <2>. QED  BY <1>1, <2>2, <2>3
<1>9. CASE IsOfChain(t, s, y)
  <2>1. t.ckr # None /\ y.dh = t.dhr /\ t.nr <= y.n /\ y.n < Reach(t, s) /\ y.key = At(t.ckr.root, y.n)
    BY <1>9 DEF IsOfChain
  <2>2. Fits(t, y.n) /\ ~TooFar(t, y.n)
    <3>1. Counts(t, s, a.texts, b.reads)
      BY <1>1, <2>1, Counted
    <3>2. b.reads >= 1 /\ a.texts \in 0..MaxTexts
      BY <1>2, <1>5, <2>1 DEF Heard, Half
    <3>. QED  BY <1>3, <2>1, <3>1, <3>2, RoomFor
  <2>3. KeptAt(t, y) = {}
    BY <1>3, <1>5, <2>1, NotKeptYet
  <2>4. Leaves(o, t) \/ (o.why = None /\ MovedOn(t, y, o.session))
    BY <1>1, <1>2, <1>3, <2>1, <2>2, <2>3, ReadsChain
  <2>5. ASSUME o.why = None, MovedOn(t, y, o.session), d.session = o.session,
               d.pairs = PairsWith(q, b, o.session)
        PROVE  Orderly(p, c, d)
    <3>1. d.pairs = b.pairs
      BY <1>6, <1>7, <2>1, <2>5 DEF MovedOn
    <3>2. ReadBy1(b, d, o.session, b.pairs)
      BY <2>5, <3>1 DEF ReadBy1
    <3>. QED  BY <1>1, <1>2, <1>9, <2>5, <3>2, KeepsMoved
  <2>. QED  BY <1>1, <2>4, <2>5
<1>10. CASE IsOfNext(t, s, y)
  <2>1. Leaves(o, t) \/ (o.why = None /\ y.n = 0 /\ Ratcheted(t, y, e, s.root, o.session))
    BY <1>1, <1>2, <1>4, <1>10, NextRead
  <2>2. ASSUME o.why = None, y.n = 0, Ratcheted(t, y, e, s.root, o.session), d.session = o.session,
               d.pairs = PairsWith(q, b, o.session)
        PROVE  Orderly(p, c, d)
    <3>1. o.session.dhs = e
      BY <2>2 DEF Ratcheted, NewSending
    <3>2. ReadBy1(b, d, o.session, b.pairs + 1)
      BY <1>1, <2>2, <3>1 DEF ReadBy1, PairsWith
    <3>. QED  BY <1>1, <1>2, <1>10, <2>2, <3>2, KeepsRatcheted
  <2>. QED  BY <1>1, <2>1, <2>2
<1>11. CASE IsOfOpening(p, t, s, y)
  <2>1. Leaves(o, t) \/ (o.why = None /\ y.n = 0 /\ Established(q, t, y, e, FirstChain(p), o.session))
    BY <1>1, <1>2, <1>4, <1>11, FirstRead
  <2>2. ASSUME o.why = None, y.n = 0, Established(q, t, y, e, FirstChain(p), o.session),
               d.session = o.session, d.pairs = PairsWith(q, b, o.session)
        PROVE  Orderly(p, c, d)
    <3>1. CASE AnswersFirst(q, t)
      <4>1. o.session.dhs = e
        BY <2>2, <3>1 DEF Established, NewSending
      <4>2. ReadBy1(b, d, o.session, b.pairs + 1)
        BY <1>1, <2>2, <4>1 DEF ReadBy1, PairsWith
      <4>. QED  BY <1>1, <1>11, <2>2, <3>1, <4>2, KeepsAnswered
    <3>2. CASE ~AnswersFirst(q, t)
      <4>1. SameSending(t, o.session) /\ t.cks # None
        BY <2>2, <3>2 DEF Established, AnswersFirst
      <4>2. d.pairs = b.pairs
        BY <1>6, <2>2, <4>1
      <4>3. ReadBy1(b, d, o.session, b.pairs)
        BY <2>2, <4>2 DEF ReadBy1
      <4>. QED  BY <1>1, <1>11, <2>2, <3>2, <4>3, KeepsUnanswered
    <3>. QED  BY <3>1, <3>2
  <2>. QED  BY <1>1, <2>1, <2>2
<1>12. CASE IsLost(t, y)
  <2>1. Refused(t, y) \in {"unknown-epoch", "duplicate-first"}
    BY <1>12 DEF IsLost, Refused
  <2>2. Refused(t, y) # None /\ Refused(t, y) \in Harmless
    BY <2>1, RatchetAssumption DEF Harmless
  <2>3. Leaves(o, t)
    BY <1>1, <2>2, Outcomes DEF Decrypt, Leaves
  <2>. QED  BY <1>1, <2>3
<1>. QED  BY <1>1, <1>2, <1>8, <1>9, <1>10, <1>11, <1>12 DEF Due

------------------------------------------------------------------------------
(* The clients.  The side of each is what it keeps in memory, with the       *)
(* envelopes that its peer has not read or that it is about to hand over.    *)

Holds(p) == IF mem[p] = None THEN NewSession(None) ELSE mem[p]

\* The ids of the envelopes of p's that are not read, and the envelopes.
Awaited(p) == {id \in 1..Len(wire) : wire[id].from = p /\ id \notin ReadBy(Peer(p))}
Posted(p) == {wire[id] : id \in Awaited(p)}

Owed(p) == IF HasEnvelope(p) THEN Posted(p) \cup {job[p].arg} ELSE Posted(p)

Side(p) ==
  [session |-> Holds(p), pairs |-> fresh[p], texts |-> texts[p], reads |-> Len(read[p]), owed |-> Owed(p)]

\* A refusal that only the order of delivery gives, or of what was read before.
Excused(r) == r[1] \in 1..Len(wire) /\ (r[1] \in ReadBy(Reader(r[1])) \/ r[2] \in Harmless)

\* The invariant of two clients that were given each other's bundle and are not killed.
OrderInv ==
  /\ crashes = 0 /\ texts = [p \in Party |-> texts[p]]
  /\ \A p \in Party : chosen[p] \in {None, NoPeer}
  /\ \A p \in Party : Orderly(p, Side(p), Side(Peer(p)))
  /\ \A r \in refused : Excused(r)

\* What was read was sent to its reader.
LEMMA ReadWasSent ==
  ASSUME ReadInv, NEW p \in Party
  PROVE  ReadBy(p) \subseteq To(p)
<1>1. \A i \in 1..Len(read[p]) : read[p][i] \in To(p)
  BY ElementOfSeq DEF ReadInv, ReadsOf
<1>. QED  BY <1>1 DEF ReadBy

\* What p has posted when nothing is handed over and its peer reads nothing.
LEMMA PostedStays ==
  ASSUME NEW p \in Party, wire' = wire, read'[Peer(p)] = read[Peer(p)]
  PROVE  Posted(p)' = Posted(p) /\ ReadBy(Peer(p))' = ReadBy(Peer(p))
<1>1. ReadBy(Peer(p))' = ReadBy(Peer(p))
  BY DEF ReadBy
<1>2. Awaited(p)' = Awaited(p)
  BY <1>1 DEF Awaited
<1>. QED  BY <1>1, <1>2 DEF Posted

\* And when p hands over an envelope.
LEMMA PostedGrows ==
  ASSUME IsSeq(wire), ReadInv, NEW p \in Party, NEW env, env.from = p, wire' = Append(wire, env),
         read'[Peer(p)] = read[Peer(p)]
  PROVE  Posted(p)' = Posted(p) \cup {env}
<1>. PICK n : n = Len(wire)
  OBVIOUS
<1>1. /\ Len(wire') = n + 1 /\ n \in Nat /\ wire'[n + 1] = env
      /\ \A i \in 1..n : wire'[i] = wire[i]
  BY AppendSeq
<1>2. ReadBy(Peer(p))' = ReadBy(Peer(p)) /\ ReadBy(Peer(p)) \subseteq 1..n
  BY ReadWasSent, PeerParty DEF ReadBy, To
<1>3. 1..Len(wire') = (1..n) \cup {n + 1} /\ n + 1 \notin 1..n
  BY <1>1
<1>4. Awaited(p)' = Awaited(p) \cup {n + 1}
  <2>1. \A i \in 1..n : i \in Awaited(p)' <=> i \in Awaited(p)
    BY <1>1, <1>2, <1>3 DEF Awaited
  <2>2. n + 1 \in Awaited(p)'
    BY <1>1, <1>2, <1>3 DEF Awaited
  <2>3. Awaited(p) \subseteq 1..n /\ Awaited(p)' \subseteq (1..n) \cup {n + 1}
    BY <1>3 DEF Awaited
  <2>. QED  BY <2>1, <2>2, <2>3
<1>5. \A i \in Awaited(p) : wire'[i] = wire[i]
  BY <1>1 DEF Awaited
<1>6. \A z : z \in Posted(p)' <=> \E i \in Awaited(p)' : z = wire'[i]
  BY DEF Posted
<1>7. \A z : z \in Posted(p) <=> \E i \in Awaited(p) : z = wire[i]
  BY DEF Posted
<1>8. \A z : z \in Posted(p)' <=> z \in Posted(p) \/ z = env
  <2>1. ASSUME NEW z, z \in Posted(p)'
        PROVE  z \in Posted(p) \/ z = env
    <3>1. PICK i \in Awaited(p)' : z = wire'[i]
      BY <1>6, <2>1
    <3>2. CASE i = n + 1
      BY <1>1, <3>1, <3>2
    <3>3. CASE i \in Awaited(p)
      BY <1>5, <1>7, <3>1, <3>3
    <3>. QED  BY <1>4, <3>1, <3>2, <3>3
  <2>2. ASSUME NEW z, z \in Posted(p)
        PROVE  z \in Posted(p)'
    <3>1. PICK i \in Awaited(p) : z = wire[i]
      BY <1>7, <2>2
    <3>. QED  BY <1>4, <1>5, <1>6, <3>1
  <2>3. env \in Posted(p)'
    <3>1. n + 1 \in Awaited(p)' /\ env = wire'[n + 1]
      BY <1>1, <1>4
    <3>. QED  BY <1>6, <3>1
  <2>. QED  BY <2>1, <2>2, <2>3
<1>. QED  BY <1>8

\* What the peer of p has posted when p hands over an envelope.
LEMMA PostedByPeer ==
  ASSUME IsSeq(wire), NEW p \in Party, NEW q \in Party, q # p,
         wire' = wire \/ \E env : env.from = p /\ wire' = Append(wire, env)
  PROVE  /\ {id \in 1..Len(wire') : wire'[id].from = q} = {id \in 1..Len(wire) : wire[id].from = q}
         /\ \A id \in 1..Len(wire) : wire'[id] = wire[id]
<1>1. CASE wire' = wire
  BY <1>1
<1>2. ASSUME NEW env, env.from = p, wire' = Append(wire, env)
      PROVE  /\ {id \in 1..Len(wire') : wire'[id].from = q} = {id \in 1..Len(wire) : wire[id].from = q}
             /\ \A id \in 1..Len(wire) : wire'[id] = wire[id]
  <2>. PICK n : n = Len(wire)
    OBVIOUS
  <2>1. /\ Len(wire') = n + 1 /\ n \in Nat /\ wire'[n + 1] = env
        /\ \A i \in 1..n : wire'[i] = wire[i]
    BY <1>2, AppendSeq
  <2>2. 1..Len(wire') = (1..n) \cup {n + 1}
    BY <2>1
  <2>. QED  BY <1>2, <2>1, <2>2
<1>. QED  BY <1>1, <1>2

\* When p reads an envelope, its peer has posted those with other keys still.
LEMMA PostedRead ==
  ASSUME KeyInv, NEW p \in Party, NEW id \in 1..Len(wire),
         wire' = wire \/ \E env : env.from = p /\ wire' = Append(wire, env),
         id \in ReadBy(p)', ReadBy(p) \subseteq ReadBy(p)'
  PROVE  Posted(Peer(p))' \subseteq {z \in Posted(Peer(p)) : z.key # wire[id].key}
<1>1. PICK q : q = Peer(p)
  OBVIOUS
<1>2. q \in Party /\ q # p /\ Peer(q) = p /\ IsSeq(wire) /\ NoKeyReuse
  BY <1>1, PeerParty, PeerOfPeer DEF KeyInv, KeyTypes
<1>3. /\ {i \in 1..Len(wire') : wire'[i].from = q} = {i \in 1..Len(wire) : wire[i].from = q}
      /\ \A i \in 1..Len(wire) : wire'[i] = wire[i]
  BY <1>2, PostedByPeer
<1>4. ASSUME NEW i \in Awaited(q)'
      PROVE  i \in Awaited(q) /\ i # id
  BY <1>2, <1>3, <1>4 DEF Awaited
<1>5. \A i \in Awaited(q) : i \in 1..Len(wire) /\ (i # id => wire[i].key # wire[id].key)
  BY <1>2 DEF Awaited, NoKeyReuse
<1>. QED  BY <1>1, <1>3, <1>4, <1>5 DEF Posted

\* The envelope that a handler holds has a key that is on no wire.
LEMMA PendingApart ==
  ASSUME KeyInv, NEW q \in Party, HasEnvelope(q), NEW id \in 1..Len(wire)
  PROVE  job[q].arg.key # wire[id].key
<1>1. AheadOfWire(job[q].arg.key) /\ job[q].arg.key.at \in Nat
  BY DEF KeyInv, Pending, OwnChain, IsChain
<1>. SUFFICES ASSUME job[q].arg.key = wire[id].key
              PROVE  FALSE
  OBVIOUS
<1>2. PICK x : x = job[q].arg.key.at
  OBVIOUS
<1>3. x < x /\ x \in Nat
  BY <1>1, <1>2 DEF AheadOfWire
<1>. QED  BY <1>3

\* One of the two sides is enough.
LEMMA BothSides ==
  ASSUME NEW p \in Party, Orderly(p, Side(p)', Side(Peer(p))')
  PROVE  \A r \in Party : Orderly(r, Side(r), Side(Peer(r)))'
<1>1. PICK q : q = Peer(p)
  OBVIOUS
<1>2. q \in Party /\ Peer(q) = p
  BY <1>1, PeerParty, PeerOfPeer
<1>3. Orderly(q, Side(q)', Side(p)')
  BY <1>1, EitherSide
<1>4. \A r \in Party : r = p \/ r = q
  BY <1>1, OneOrOther
<1>. QED  BY <1>1, <1>2, <1>3, <1>4

\* A refusal stays excused.
LEMMA ExcusedStays ==
  ASSUME IsSeq(wire), ReadInv, NEW p \in Party,
         wire' = wire \/ \E env : wire' = Append(wire, env),
         \A q \in Party : ReadBy(q) \subseteq ReadBy(q)',
         \A i \in 1..Len(wire) : wire[i].from \in Party,
         NEW r, Excused(r)
  PROVE  Excused(r)'
<1>1. r[1] \in 1..Len(wire') /\ wire'[r[1]] = wire[r[1]]
  BY ToGrows DEF Excused
<1>2. Reader(r[1])' = Reader(r[1]) /\ Reader(r[1]) \in Party
  BY <1>1, PeerParty DEF Reader, Excused
<1>3. ReadBy(Reader(r[1])) \subseteq ReadBy(Reader(r[1]))'
  <2>1. PICK q \in Party : q = Reader(r[1])
    BY <1>2
  <2>2. ReadBy(q) \subseteq ReadBy(q)'
    OBVIOUS
  <2>3. ReadBy(Reader(r[1]))' = ReadBy(q)'
    BY <1>2, <2>1 DEF ReadBy
  <2>. QED  BY <2>1, <2>2, <2>3
<1>. QED  BY <1>1, <1>3 DEF Excused

\* A step after which both sides are as before keeps the order.
LEMMA QuietKeeps ==
  ASSUME OrderInv, NEW p \in Party, UNCHANGED <<wire, read, fresh, texts, crashes>>,
         \A q \in Party \ {p} : mem'[q] = mem[q] /\ job'[q] = job[q],
         Holds(p)' = Holds(p), HasEnvelope(p)' <=> HasEnvelope(p),
         HasEnvelope(p) => job'[p].arg = job[p].arg,
         \A q \in Party : chosen'[q] \in {None, NoPeer},
         \A r \in refused' : r \in refused \/ Excused(r)
  PROVE  OrderInv'
<1>1. ASSUME NEW q \in Party
      PROVE  Side(q)' = Side(q)
  <2>1. Holds(q)' = Holds(q) /\ Posted(q)' = Posted(q)
    BY PostedStays DEF Holds
  <2>2. (HasEnvelope(q)' <=> HasEnvelope(q)) /\ (HasEnvelope(q) => job'[q].arg = job[q].arg)
    BY DEF HasEnvelope
  <2>3. Owed(q)' = Owed(q)
    BY <2>1, <2>2 DEF Owed
  <2>. QED  BY <2>1, <2>3 DEF Side
<1>2. \A r \in Party : Orderly(r, Side(r), Side(Peer(r)))'
  <2>1. PICK q : q = Peer(p)
    OBVIOUS
  <2>2. Orderly(p, Side(p), Side(q)) /\ Side(p)' = Side(p) /\ Side(q)' = Side(q)
    BY <1>1, <2>1, PeerParty DEF OrderInv
  <2>3. Orderly(p, Side(p)', Side(q)')
    BY <2>2
  <2>. QED  BY <2>1, <2>3, BothSides
<1>3. \A r \in refused' : Excused(r)'
  <2>1. \A r : Excused(r) => Excused(r)'
    BY DEF Excused, ReadBy, Reader
  <2>. QED  BY <2>1 DEF OrderInv
<1>4. texts' = [r \in Party |-> texts'[r]]
  BY DEF OrderInv
<1>. QED  BY <1>2, <1>3, <1>4 DEF OrderInv

\* What is known of the two sides, and of p's session.
LEMMA SidesKnown ==
  ASSUME IInv, OrderInv, NEW p \in Party
  PROVE  /\ Orderly(p, Side(p), Side(Peer(p))) /\ Half(p, Side(p), Side(Peer(p)).pairs)
         /\ Orderly(Peer(p), Side(Peer(p)), Side(p))
         /\ WellFormed(Holds(p)) /\ fresh[p] \in Nat /\ texts[p] \in 0..MaxTexts
         /\ mem[p] # None => Holds(p) = mem[p] /\ mem[p].cks # None /\ mem[p].cks \in Chain
         /\ mem[p] = None => /\ Holds(p) = NewSession(None) /\ Holds(p).cks = None
                             /\ Silent(Side(p)) /\ fresh[p] = 0 /\ Owed(p) = {}
<1>1. /\ Orderly(p, Side(p), Side(Peer(p))) /\ Orderly(Peer(p), Side(Peer(p)), Side(p))
      /\ Half(p, Side(p), Side(Peer(p)).pairs)
  BY PeerParty, PeerOfPeer DEF OrderInv, Orderly
<1>2. WellFormed(Holds(p)) /\ fresh[p] \in Nat /\ texts[p] \in 0..MaxTexts
  BY <1>1 DEF Half, Side
<1>3. mem[p] # None => Holds(p) = mem[p] /\ mem[p].cks # None /\ mem[p].cks \in Chain
  BY NoneIsNoChain DEF Holds, IInv, SessionInv, Stored
<1>4. ASSUME mem[p] = None
      PROVE  /\ Holds(p) = NewSession(None) /\ Holds(p).cks = None
             /\ Silent(Side(p)) /\ fresh[p] = 0 /\ Owed(p) = {}
  <2>1. Holds(p) = NewSession(None) /\ NewSession(None).cks = None
    BY <1>4, NewIsSession DEF Holds
  <2>2. Side(p).session = Holds(p) /\ Side(p).pairs = fresh[p] /\ Side(p).owed = Owed(p)
    BY DEF Side
  <2>3. Silent(Side(p))
    BY <1>1, <2>1, <2>2 DEF Half
  <2>. QED  BY <2>1, <2>2, <2>3 DEF Silent
<1>. QED  BY <1>1, <1>2, <1>3, <1>4

\* What is posted when only p's memory, job and counters change.
LEMMA OthersSide ==
  ASSUME NEW p \in Party, NEW q \in Party, q # p, UNCHANGED <<wire, read>>,
         mem'[q] = mem[q], job'[q] = job[q], fresh'[q] = fresh[q], texts'[q] = texts[q]
  PROVE  Side(q)' = Side(q) /\ Posted(p)' = Posted(p)
<1>1. Holds(q)' = Holds(q) /\ Posted(q)' = Posted(q) /\ Posted(p)' = Posted(p)
  BY PostedStays DEF Holds
<1>2. Owed(q)' = Owed(q)
  BY <1>1 DEF Owed, HasEnvelope
<1>. QED  BY <1>1, <1>2 DEF Side

\* A text that is encrypted in the session there is, or in a new one.
LEMMA EncryptOrder ==
  ASSUME IInv, OrderInv, NEW p \in Party, Encrypt(p)
  PROVE  OrderInv'
<1>1. PICK q, s, v, y : /\ q = Peer(p) /\ s = SessionOr(p, chosen[p]) /\ v = Sending(p, s, Ephemeral(p))
                        /\ y = Envelope(p, v, "text")
  OBVIOUS
<1>2. /\ job[p] = Idle /\ chosen[p] # NoPeer /\ texts[p] < MaxTexts
      /\ texts' = [texts EXCEPT ![p] = @ + 1]
      /\ mem' = [mem EXCEPT ![p] = Sent(v)] /\ Uses(p, v)
      /\ job' = [job EXCEPT ![p] = [do |-> "persist", arg |-> y]]
      /\ UNCHANGED <<wire, read, refused, crashes, chosen>>
  BY <1>1 DEF Encrypt, EncryptText, Busy, historyVars
<1>3. /\ q \in Party /\ q # p /\ DOMAIN mem = Party /\ DOMAIN job = Party /\ fresh \in [Party -> Nat]
      /\ Ephemeral(p) \in KeyPair
  BY <1>1, PeerParty, EphemeralType DEF IInv, KeyInv, KeyTypes
<1>4. fresh' = [fresh EXCEPT ![p] = IF v.dhs = Ephemeral(p) THEN fresh[p] + 1 ELSE fresh[p]]
  BY <1>2 DEF Uses
<1>5. s = Holds(p)
  BY <1>1, <1>2 DEF SessionOr, Holds, OrderInv
<1>6. /\ Orderly(p, Side(p), Side(q)) /\ Half(p, Side(p), Side(q).pairs)
      /\ WellFormed(s) /\ fresh[p] \in Nat /\ texts[p] \in 0..MaxTexts
      /\ mem[p] # None => s = mem[p] /\ s.cks # None
      /\ mem[p] = None => /\ s = NewSession(None) /\ s.cks = None
                          /\ Silent(Side(p)) /\ fresh[p] = 0 /\ Owed(p) = {}
  BY <1>1, <1>5, SidesKnown
<1>7. WellFormed(v) /\ v.cks \in Chain /\ v.cks # None /\ (s.cks # None => v = s)
  BY <1>1, <1>3, <1>6, SendingType, NoneIsNoChain
<1>8. WellSealed(y)
  BY <1>1, <1>7, EnvelopeSealed
<1>9. SentOn(v, Sent(v))
  BY <1>7, SentFields
<1>10. Side(q)' = Side(q) /\ Posted(p)' = Posted(p)
  <2>1. mem'[q] = mem[q] /\ job'[q] = job[q] /\ fresh'[q] = fresh[q] /\ texts'[q] = texts[q]
    BY <1>2, <1>3, <1>4
  <2>. QED  BY <1>2, <1>3, <2>1, OthersSide
<1>11. Sent(v) # None
  BY <1>7, SentType, NoneIsNoSession DEF WellFormed
<1>12. PICK a, c : a = Side(p) /\ c = Side(p)'
  OBVIOUS
<1>13. /\ a.session = s /\ a.pairs = fresh[p] /\ a.texts = texts[p] /\ a.reads = Len(read[p])
       /\ a.owed = Owed(p)
       /\ c.session = Sent(v) /\ c.pairs = fresh'[p] /\ c.texts = texts'[p] /\ c.reads = a.reads
       /\ c.owed = a.owed \cup {y}
  <2>1. Holds(p)' = Sent(v)
    BY <1>2, <1>3, <1>11 DEF Holds
  <2>2. ~HasEnvelope(p) /\ HasEnvelope(p)' /\ job'[p].arg = y
    BY <1>2, <1>3 DEF HasEnvelope, Idle
  <2>3. Owed(p) = Posted(p) /\ Owed(p)' = Posted(p) \cup {y}
    BY <1>10, <2>2 DEF Owed
  <2>. QED  BY <1>2, <1>5, <1>12, <2>1, <2>3 DEF Side
<1>14. texts'[p] = texts[p] + 1 /\ c.texts \in 1..MaxTexts /\ c.texts = a.texts + 1
  <2>1. texts'[p] = texts[p] + 1
    <3>1. DOMAIN texts = Party
      BY DEF OrderInv
    <3>. QED  BY <1>2, <3>1
  <2>2. MaxTexts \in Nat
    BY PeersAssumption
  <2>. QED  BY <1>2, <1>6, <1>13, <2>1, <2>2
<1>15. ASSUME mem[p] # None
       PROVE  Orderly(p, c, Side(q))
  <2>1. v = s /\ s.cks # None /\ a.session = v
    BY <1>6, <1>7, <1>13, <1>15
  <2>2. Sender(p, v, a.pairs) /\ a.pairs \in Nat
    BY <1>6, <1>12, <2>1 DEF Half
  <2>3. c.pairs = a.pairs
    <3>1. v.dhs = <<p, fresh[p]>>
      BY <1>13, <2>2 DEF Sender
    <3>2. v.dhs # Ephemeral(p)
      BY <1>6, <3>1 DEF Ephemeral
    <3>. QED  BY <1>3, <1>4, <1>13, <3>2
  <2>4. SealedOn(v, y)
    BY <1>1, <1>7, <2>2, SealedFields
  <2>5. v.ns \in Nat /\ c.session.ns = v.ns + 1 /\ c.session.dhs = v.dhs /\ c.session.pn = v.pn
        /\ a.texts \in Nat /\ v.pn \in Nat
    <3>1. v.ns \in Nat /\ v.pn \in Nat /\ a.texts \in Nat
      BY <1>6, <1>12, <2>1, HalfFacts
    <3>. QED  BY <1>9, <1>13, <3>1 DEF SentOn
  <2>6. ASSUME Counts(Side(q).session, v, a.texts, Side(q).reads)
        PROVE  Counts(Side(q).session, c.session, c.texts, Side(q).reads)
    <3>1. PICK t, r, w, x : t = Side(q).session /\ r = Side(q).reads /\ w = c.session /\ x = a.texts
      OBVIOUS
    <3>2. r \in Nat /\ t \in Session /\ t.nr \in Nat /\ Len(t.skipped) \in Nat
      BY <1>6, <3>1, HalfFacts DEF Orderly
    <3>3. t.nr <= Reach(t, v) /\ Reach(t, v) <= Reach(t, w) /\ Reach(t, v) \in Nat /\ Reach(t, w) \in Nat
      BY <2>5, <2>6, <3>1 DEF Counts, Reach
    <3>4. t.nr <= Reach(t, w)
      BY <3>2, <3>3
    <3>5. PICK k, m, l, g : k = Len(t.skipped) /\ m = v.ns /\ l = (IF t.dhr = v.dhs THEN 0 ELSE v.pn) /\ g = t.nr
      OBVIOUS
    <3>6. k + r + m + l <= x + 1 + g
      BY <2>6, <3>1, <3>5 DEF Counts
    <3>7. k \in Nat /\ m \in Nat /\ l \in Nat /\ g \in Nat /\ x \in Nat
      BY <2>5, <3>1, <3>2, <3>5
    <3>8. k + r + (m + 1) + l <= (x + 1) + 1 + g
      BY <3>2, <3>6, <3>7
    <3>9. w.ns = m + 1 /\ c.texts = x + 1 /\ l = (IF t.dhr = w.dhs THEN 0 ELSE w.pn)
      BY <1>14, <2>5, <3>1, <3>5
    <3>10. Len(t.skipped) + r + w.ns + (IF t.dhr = w.dhs THEN 0 ELSE w.pn) <= c.texts + 1 + t.nr
      BY <3>5, <3>8, <3>9
    <3>11. Counts(t, w, c.texts, r)
      BY <3>4, <3>10 DEF Counts
    <3>. QED  BY <3>1, <3>11
  <2>7. Opens(p, a.session, a.pairs, a.texts) => c.session.ns <= c.texts
    <3>1. Opens(p, v, a.pairs, a.texts) => v.ns <= a.texts
      BY DEF Opens
    <3>. QED  BY <1>14, <2>1, <2>5, <3>1
  <2>8. c.texts \in 0..MaxTexts
    <3>1. MaxTexts \in Nat
      BY PeersAssumption
    <3>. QED  BY <1>14, <3>1
  <2>. QED  BY <1>6, <1>8, <1>9, <1>12, <1>13, <2>1, <2>3, <2>4, <2>6, <2>7, <2>8, SendsOn
<1>16. ASSUME mem[p] = None
       PROVE  Orderly(p, c, Side(q))
  <2>1. s = NewSession(None) /\ s.cks = None /\ fresh[p] = 0 /\ a.owed = {}
    BY <1>6, <1>13, <1>16
  <2>2. Ephemeral(p) = <<p, 1>>
    <3>1. 0 + 1 = 1
      OBVIOUS
    <3>. QED  BY <2>1, <3>1 DEF Ephemeral
  <2>3. Opener(p, v)
    BY <1>1, <2>1, <2>2, OpenerFields
  <2>4. c.pairs = 1
    <3>1. v.dhs = Ephemeral(p)
      BY <2>2, <2>3 DEF Opener
    <3>2. c.pairs = fresh[p] + 1
      BY <1>3, <1>4, <1>13, <3>1
    <3>. QED  BY <2>1, <3>2
  <2>5. a.session.cks = None /\ c.owed = {y} /\ SentOn(v, c.session)
    BY <1>9, <1>13, <2>1
  <2>. QED  BY <1>1, <1>6, <1>8, <1>12, <1>13, <1>14, <2>3, <2>4, <2>5, SendsFirst
<1>17. Orderly(p, Side(p)', Side(Peer(p))')
  BY <1>1, <1>10, <1>12, <1>15, <1>16
<1>18. \A r \in Party : Orderly(r, Side(r), Side(Peer(r)))'
  BY <1>17, BothSides
<1>19. \A r \in refused' : Excused(r)'
  BY <1>2 DEF OrderInv, Excused, ReadBy, Reader
<1>20. texts' = [r \in Party |-> texts'[r]]
  BY <1>2 DEF OrderInv
<1>. QED  BY <1>2, <1>18, <1>19, <1>20 DEF OrderInv

\* When p reads an envelope, its peer owes it no longer.
LEMMA ReadSides ==
  ASSUME IInv, NEW p \in Party, NEW q, q = Peer(p), NEW id \in To(p), id \notin ReadBy(p),
         read' = [read EXCEPT ![p] = Append(@, id)],
         wire' = wire \/ \E env : env.from = p /\ wire' = Append(wire, env),
         mem'[q] = mem[q], job'[q] = job[q], fresh'[q] = fresh[q], texts'[q] = texts[q]
  PROVE  /\ Taken(Side(q), Side(q)', wire[id]) /\ wire[id] \in Side(q).owed
         /\ Len(read'[p]) = Len(read[p]) + 1 /\ read'[q] = read[q]
         /\ \A r \in Party : ReadBy(r) \subseteq ReadBy(r)'
<1>1. /\ q \in Party /\ q # p /\ Peer(q) = p /\ KeyInv /\ ReadInv
      /\ id \in 1..Len(wire) /\ wire[id].from = q
  BY PeerParty, PeerOfPeer DEF To, IInv
<1>2. /\ read'[p] = Append(read[p], id) /\ \A r \in Party \ {p} : read'[r] = read[r]
  BY <1>1 DEF ReadInv
<1>. PICK n : n = Len(read[p])
  OBVIOUS
<1>3. /\ Len(read'[p]) = n + 1 /\ n \in Nat /\ read'[p][n + 1] = id
      /\ \A i \in 1..n : read'[p][i] = read[p][i]
  <2>1. read[p] \in Seq(To(p))
    BY <1>1 DEF ReadInv, ReadsOf
  <2>. QED  BY <1>2, <2>1, AppendProperties, LenProperties
<1>4. id \in ReadBy(p)' /\ ReadBy(p) \subseteq ReadBy(p)'
  <2>1. n + 1 \in 1..(n + 1) /\ \A i \in 1..n : i \in 1..(n + 1)
    BY <1>3
  <2>. QED  BY <1>3, <2>1 DEF ReadBy
<1>5. \A r \in Party : ReadBy(r) \subseteq ReadBy(r)'
  <2>1. \A r \in Party \ {p} : ReadBy(r)' = ReadBy(r)
    BY <1>2 DEF ReadBy
  <2>. QED  BY <1>4, <2>1
<1>6. Posted(q)' \subseteq {z \in Posted(q) : z.key # wire[id].key}
  BY <1>1, <1>4, PostedRead
<1>7. wire[id] \in Posted(q)
  BY <1>1 DEF Posted, Awaited
<1>8. HasEnvelope(q)' <=> HasEnvelope(q)
  BY DEF HasEnvelope
<1>9. HasEnvelope(q) => job[q].arg.key # wire[id].key
  BY <1>1, PendingApart
<1>10. Owed(q)' \subseteq {z \in Owed(q) : z.key # wire[id].key} /\ wire[id] \in Owed(q)
  BY <1>6, <1>7, <1>8, <1>9 DEF Owed
<1>11. Holds(q)' = Holds(q)
  BY DEF Holds
<1>12. read'[q] = read[q]
  BY <1>1, <1>2
<1>13. Taken(Side(q), Side(q)', wire[id])
  <2>1. PICK a, c : a = Side(q) /\ c = Side(q)'
    OBVIOUS
  <2>2. /\ c.session = Holds(q)' /\ c.pairs = fresh'[q] /\ c.texts = texts'[q] /\ c.reads = Len(read'[q])
        /\ c.owed = Owed(q)'
    BY <2>1 DEF Side
  <2>3. /\ a.session = Holds(q) /\ a.pairs = fresh[q] /\ a.texts = texts[q] /\ a.reads = Len(read[q])
        /\ a.owed = Owed(q)
    BY <2>1 DEF Side
  <2>4. Taken(a, c, wire[id])
    BY <1>10, <1>11, <1>12, <2>2, <2>3 DEF Taken
  <2>. QED  BY <2>1, <2>4
<1>14. wire[id] \in Side(q).owed
  BY <1>10 DEF Side
<1>. QED  BY <1>3, <1>5, <1>12, <1>13, <1>14

\* An envelope whose key was used does not open again.
LEMMA NotReadTwice ==
  ASSUME NEW p \in Party, NEW s, WellFormed(s), NEW U \in SUBSET Chain, Unread(p, s, U),
         NEW env, WellSealed(env), env.dh[2] # 0, env.key \in U, NEW e \in KeyPair, e[2] # 0
  PROVE  Decrypt(p, s, env, e).why # None /\ Decrypt(p, s, env, e).session = s
<1>1. PICK d : d = Decrypt(p, s, env, e)
  OBVIOUS
<1>2. IF d.why = None THEN env.key \notin U /\ Unread(p, d.session, U \cup {env.key})
      ELSE d.session = s
  BY <1>1, DecryptUnread
<1>. QED  BY <1>1, <1>2

\* An envelope that p's session reads.
LEMMA ReceiveOrder ==
  ASSUME MaxTexts <= MaxKept + 1, MaxTexts <= MaxSkip + 1,
         IInv, OnceInv, OrderInv, NEW p \in Party, NEW i, ReceiveInSession(p, i)
  PROVE  OrderInv'
<1>1. PICK q, id, env, o : /\ q = Peer(p) /\ id = mail[p][i] /\ env = wire[id]
                           /\ o = Decrypt(p, mem[p], env, Ephemeral(p))
  OBVIOUS
<1>2. /\ Delivers(p, i) /\ mem[p] # None /\ mem' = [mem EXCEPT ![p] = o.session] /\ Uses(p, o.session)
      /\ IF o.why = None THEN Accept(p, id) ELSE Refuse(id, o.why)
      /\ job[p] = Idle /\ job' = [job EXCEPT ![p] = [do |-> "save", arg |-> None]]
      /\ UNCHANGED <<wire, texts, crashes, chosen>>
  BY <1>1 DEF ReceiveInSession, Delivered, Delivers, Busy
<1>3. /\ q \in Party /\ q # p /\ Peer(q) = p /\ DOMAIN mem = Party /\ DOMAIN job = Party
      /\ fresh \in [Party -> Nat] /\ id \in To(p) /\ id \in 1..Len(wire) /\ env.from = q
  BY <1>1, <1>2, PeerParty, PeerOfPeer, DeliveredOnWire DEF IInv, KeyInv, KeyTypes, To
<1>4. fresh' = [fresh EXCEPT ![p] = IF o.session.dhs = Ephemeral(p) THEN fresh[p] + 1 ELSE fresh[p]]
  BY <1>2 DEF Uses
<1>5. ~HasEnvelope(p) /\ ~HasEnvelope(p)'
  BY <1>2, <1>3 DEF HasEnvelope, Idle
<1>6. /\ mem'[q] = mem[q] /\ job'[q] = job[q] /\ fresh'[q] = fresh[q] /\ texts'[q] = texts[q]
      /\ mem'[p] = o.session
  BY <1>2, <1>3, <1>4
<1>7. /\ Orderly(q, Side(q), Side(p)) /\ Half(p, Side(p), Side(q).pairs)
      /\ Holds(p) = mem[p] /\ mem[p].cks # None /\ fresh[p] \in Nat /\ WellFormed(mem[p])
  BY <1>1, <1>2, SidesKnown
<1>8. /\ Side(p).session = mem[p] /\ Side(p).pairs = fresh[p] /\ Side(p).texts = texts[p]
      /\ Side(p).reads = Len(read[p]) /\ Side(p).owed = Posted(p)
  BY <1>5, <1>7 DEF Side, Owed
\* The session stays.
<1>9. ASSUME o.session = mem[p], o.why # None, id \in ReadBy(p) \/ o.why \in Harmless
      PROVE  OrderInv'
  <2>1. mem[p].dhs # Ephemeral(p)
    BY <1>7, <1>8, ReadersPair DEF Ephemeral
  <2>2. fresh' = fresh
    BY <1>3, <1>4, <1>9, <2>1
  <2>3. Holds(p)' = Holds(p)
    BY <1>6, <1>9 DEF Holds
  <2>4. refused' = refused \cup {<<id, o.why>>} /\ read' = read
    BY <1>2, <1>9 DEF Refuse
  <2>5. Excused(<<id, o.why>>)
    BY <1>1, <1>3, <1>9 DEF Excused, Reader
  <2>6. \A r \in Party \ {p} : mem'[r] = mem[r] /\ job'[r] = job[r]
    BY <1>2, <1>3
  <2>. QED  BY <1>2, <1>5, <2>2, <2>3, <2>4, <2>5, <2>6, QuietKeeps DEF OrderInv
<1>10. CASE id \in ReadBy(p)
  <2>1. env.key \in ReadKeys(p)
    BY <1>1, <1>10 DEF ReadKeys, ReadEnvelope, ReadBy
  <2>2. OnceOf(p) /\ env.dh[2] # 0
    BY <1>1, <1>3 DEF OnceInv, OrderInv
  <2>3. WellSealed(env) /\ Unread(p, mem[p], ReadKeys(p))
    BY <1>1, <1>2, <1>3, <2>2 DEF IInv, SessionInv, Sealed, OnceOf
  <2>4. ReadKeys(p) \in SUBSET Chain
    <3>1. \A j \in 1..Len(read[p]) : read[p][j] \in To(p)
      BY ElementOfSeq DEF IInv, ReadInv, ReadsOf
    <3>2. \A j \in To(p) : wire[j].key \in Chain
      BY DEF IInv, SessionInv, Sealed, WellSealed, EnvelopeType, To
    <3>. QED  BY <3>1, <3>2 DEF ReadKeys, ReadEnvelope
  <2>5. Ephemeral(p) \in KeyPair /\ Ephemeral(p)[2] # 0
    BY <1>7, EphemeralType DEF IInv, Ephemeral
  <2>6. PICK U, e, s : U = ReadKeys(p) /\ e = Ephemeral(p) /\ s = mem[p]
    OBVIOUS
  <2>a. /\ WellFormed(s) /\ U \in SUBSET Chain /\ Unread(p, s, U) /\ WellSealed(env) /\ env.dh[2] # 0
        /\ e \in KeyPair /\ e[2] # 0 /\ o = Decrypt(p, s, env, e)
    BY <1>1, <1>7, <2>2, <2>3, <2>4, <2>5, <2>6
  <2>8. o.why # None /\ o.session = mem[p]
    BY <2>1, <2>6, <2>a, NotReadTwice
  <2>. QED  BY <1>9, <1>10, <2>8
<1>11. CASE id \notin ReadBy(p)
  <2>1. CASE Leaves(o, mem[p])
    <3>1. o.session = mem[p] /\ o.why \in Harmless /\ o.why # None
      BY <2>1, RatchetAssumption DEF Leaves, Harmless
    <3>. QED  BY <1>9, <3>1
  <2>2. CASE ~Leaves(o, mem[p])
    <3>1. env \in Side(q).owed /\ Orderly(q, Side(q), Side(p)) /\ Ephemeral(p) = <<Peer(q), Side(p).pairs + 1>>
      <4>1. wire[id] \in Owed(q)
        BY <1>1, <1>3, <1>11 DEF Owed, Posted, Awaited
      <4>. QED  BY <1>1, <1>3, <1>7, <1>8, <4>1 DEF Side, Ephemeral
    <3>2. o = Decrypt(Peer(q), Side(p).session, env, <<Peer(q), Side(p).pairs + 1>>)
      BY <1>1, <1>3, <1>8, <3>1
    <3>3. o.why = None
      <4>1. PICK c : Taken(Side(q), c, env)
        <5>1. Taken(Side(q), [Side(q) EXCEPT !.owed = {}], env)
          BY DEF Taken, Side
        <5>. QED  BY <5>1
      <4>2. PICK d : d.texts = Side(p).texts /\ d.reads = Side(p).reads + 1 /\ d.owed = Side(p).owed
        <5>1. PICK x, y, z : x = Side(p).texts /\ y = Side(p).reads + 1 /\ z = Side(p).owed
          OBVIOUS
        <5>2. [texts |-> x, reads |-> y, owed |-> z].texts = x /\ [texts |-> x, reads |-> y, owed |-> z].reads = y
              /\ [texts |-> x, reads |-> y, owed |-> z].owed = z
          OBVIOUS
        <5>. QED  BY <5>1, <5>2
      <4>. QED  BY <1>3, <1>8, <2>2, <3>1, <3>2, <4>1, <4>2, ReadingKeeps
    <3>4. read' = [read EXCEPT ![p] = Append(@, id)] /\ refused' = refused
      BY <1>2, <3>3 DEF Accept
    <3>5. /\ Taken(Side(q), Side(q)', env) /\ Len(read'[p]) = Len(read[p]) + 1 /\ read'[q] = read[q]
          /\ \A r \in Party : ReadBy(r) \subseteq ReadBy(r)'
      BY <1>1, <1>2, <1>3, <1>6, <1>11, <3>4, ReadSides
    <3>6. PICK d : d = Side(p)'
      OBVIOUS
    <3>7. /\ d.session = o.session /\ d.pairs = PairsWith(p, Side(p), o.session) /\ d.texts = Side(p).texts
          /\ d.reads = Side(p).reads + 1 /\ d.owed = Side(p).owed
      <4>1. Holds(p)' = o.session
        <5>1. o.session # None
          <6>1. WellSealed(env) /\ Ephemeral(p) \in KeyPair
            BY <1>1, <1>3, EphemeralType DEF IInv, SessionInv, Sealed
          <6>2. WellFormed(o.session)
            BY <1>1, <1>7, <6>1, DecryptType
          <6>. QED  BY <6>2, NoneIsNoSession DEF WellFormed
        <5>. QED  BY <1>6, <5>1 DEF Holds
      <4>2. Posted(p)' = Posted(p)
        BY <1>1, <1>2, <3>5, PostedStays
      <4>3. Owed(p)' = Posted(p)
        BY <1>5, <4>2 DEF Owed
      <4>4. fresh'[p] = PairsWith(p, Side(p), o.session)
        BY <1>3, <1>4, <1>8 DEF PairsWith, Ephemeral
      <4>. QED  BY <1>2, <1>8, <3>5, <3>6, <4>1, <4>3, <4>4 DEF Side
    <3>8. PICK c : c = Side(q)'
      OBVIOUS
    <3>9. Orderly(q, c, d)
      <4>1. PICK a, b : a = Side(q) /\ b = Side(p)
        OBVIOUS
      <4>2. /\ env \in a.owed /\ Orderly(q, a, b) /\ Taken(a, c, env)
            /\ o = Decrypt(Peer(q), b.session, env, <<Peer(q), b.pairs + 1>>) /\ ~Leaves(o, b.session)
            /\ d.texts = b.texts /\ d.reads = b.reads + 1 /\ d.owed = b.owed
            /\ d.session = o.session /\ d.pairs = PairsWith(Peer(q), b, o.session)
        BY <1>3, <1>8, <2>2, <3>1, <3>2, <3>5, <3>7, <3>8, <4>1
      <4>. QED  BY <1>3, <4>2, ReadingKeeps
    <3>10. Orderly(q, Side(q)', Side(Peer(q))')
      BY <1>3, <3>6, <3>8, <3>9
    <3>11. \A r \in Party : Orderly(r, Side(r), Side(Peer(r)))'
      BY <1>3, <3>10, BothSides
    <3>12. \A r \in refused' : Excused(r)'
      <4>1. \A x \in 1..Len(wire) : wire[x].from \in Party
        BY DEF IInv, KeyInv, Signed
      <4>2. IsSeq(wire) /\ ReadInv
        BY DEF IInv, MailInv
      <4>3. \A r : Excused(r) => Excused(r)'
        BY <1>2, <3>5, <4>1, <4>2, ExcusedStays
      <4>. QED  BY <3>4, <4>3 DEF OrderInv
    <3>13. texts' = [r \in Party |-> texts'[r]]
      BY <1>2 DEF OrderInv
    <3>. QED  BY <1>2, <3>11, <3>12, <3>13 DEF OrderInv
  <2>. QED  BY <2>1, <2>2
<1>. QED  BY <1>10, <1>11

\* To a client that has no session its peer's envelopes are of the opening.
LEMMA SilentHears ==
  ASSUME NEW q \in Party, NEW a, NEW b, Orderly(q, a, b), Silent(b), NEW y \in a.owed
  PROVE  /\ IsOfOpening(q, b.session, a.session, y) /\ y.otk = None /\ WellSealed(y)
         /\ a.session.ckr = None /\ b.session.cks = None /\ b.session = NewSession(None)
<1>1. PICK s, t : s = a.session /\ t = b.session
  OBVIOUS
<1>2. /\ t = NewSession(None) /\ t.cks = None /\ t.ckr = None /\ b.pairs = 0 /\ b.reads = 0
  BY <1>1 DEF Silent, NewSession
<1>3. Half(q, a, b.pairs) /\ Half(Peer(q), b, a.pairs) /\ Due(q, t, s, y) /\ WellSealed(y)
  BY <1>1 DEF Orderly, Half
<1>4. s.ckr = None
  <2>1. s.ckr # None => \E j \in 1..0 : s.dhr = <<Peer(q), j>>
    BY <1>1, <1>2, <1>3 DEF Half, Heard
  <2>. QED  BY <2>1
<1>5. ~KeptFor(t, y)
  <2>1. KeptKeys(t) = {}
    BY <1>1, <1>2, <1>3, UnheardKeeps DEF Half
  <2>. QED  BY <2>1 DEF KeptFor
<1>6. ~IsOfNext(t, s, y)
  <2>1. IsOfNext(t, s, y) => Leads(q, a, b)
    BY <1>1, OnlyLeads
  <2>2. ~Leads(q, a, b)
    BY <1>1, <1>4 DEF Leads, Follows
  <2>. QED  BY <2>1, <2>2
<1>7. IsOfOpening(q, t, s, y)
  BY <1>2, <1>3, <1>5, <1>6 DEF Due, IsOfChain, IsLost
<1>8. y.otk = None
  BY <1>7 DEF IsOfOpening
<1>. QED  BY <1>1, <1>2, <1>3, <1>4, <1>7, <1>8

\* Such a client fails to read only what comes before the first message.
LEMMA DropOrder ==
  ASSUME IInv, OnceInv, OrderInv, NEW p \in Party, NEW i, DropUnknown(p, i)
  PROVE  OrderInv'
<1>1. PICK q, id, env : q = Peer(p) /\ id = mail[p][i] /\ env = wire[id]
  OBVIOUS
<1>2. /\ Delivers(p, i) /\ mem[p] = None /\ ~FirstContact(p, env) /\ Refuse(id, WhyNotFirst(env))
      /\ job[p] = Idle
      /\ job' = job \/ job' = [job EXCEPT ![p] = [do |-> "save", arg |-> None]]
      /\ UNCHANGED <<mem, fresh, texts, crashes, wire, chosen>>
  BY <1>1 DEF DropUnknown, Delivered, Delivers, Busy, countVars
<1>3. /\ q \in Party /\ Peer(q) = p /\ DOMAIN job = Party /\ id \in To(p) /\ id \in 1..Len(wire) /\ env.from = q
  BY <1>1, <1>2, PeerParty, PeerOfPeer, DeliveredOnWire DEF IInv, KeyInv, KeyTypes, To
<1>4. read[p] = <<>>
  BY <1>2 DEF OnceInv, OnceOf, OrderInv
<1>5. id \notin ReadBy(p)
  <2>1. 1..Len(read[p]) = {}
    BY <1>4, EmptySeq
  <2>. QED  BY <2>1 DEF ReadBy
<1>6. env.otk = None
  <2>1. PICK a, b : a = Side(q) /\ b = Side(p)
    OBVIOUS
  <2>2. Orderly(q, a, b) /\ Silent(b)
    BY <1>1, <1>2, <2>1, SidesKnown
  <2>3. env \in a.owed
    BY <1>1, <1>3, <1>5, <2>1 DEF Side, Owed, Posted, Awaited
  <2>. QED  BY <1>3, <2>2, <2>3, SilentHears
<1>7. WhyNotFirst(env) = "no-session"
  BY <1>2, <1>6 DEF FirstContact, WhyNotFirst
<1>8. refused' = refused \cup {<<id, "no-session">>} /\ read' = read
  BY <1>2, <1>7 DEF Refuse
<1>9. Excused(<<id, "no-session">>)
  BY <1>3 DEF Excused, Harmless
<1>10. /\ ~HasEnvelope(p) /\ ~HasEnvelope(p)' /\ Holds(p)' = Holds(p)
       /\ \A r \in Party \ {p} : mem'[r] = mem[r] /\ job'[r] = job[r]
  BY <1>2, <1>3 DEF HasEnvelope, Idle, Holds
<1>. QED  BY <1>2, <1>8, <1>9, <1>10, QuietKeeps DEF OrderInv

\* A session whose peer heard nothing sends the first envelope of a chain.
LEMMA FirstCounts ==
  ASSUME NEW p, NEW t, NEW k, WellFormed(t), t.ckr = None, Unheard(t, k),
         NEW w, w.ns = 1, w.pn = 0, w.dhs \in KeyPair, NEW x \in Nat
  PROVE  Counts(t, w, x, k)
<1>1. t.dhr # w.dhs
  BY NoneIsNoKeyPair DEF Unheard
<1>2. k = 0 /\ Len(t.skipped) = 0 /\ t.nr = 0
  BY EmptySeq DEF Unheard, WellFormed
<1>3. 0 <= 0 /\ 0 + 0 + 1 + 0 <= x + 1 + 0
  OBVIOUS
<1>. QED  BY <1>1, <1>2, <1>3 DEF Counts, Reach

\* A first message that is read, and its receipt.
LEMMA AnswerOrder ==
  ASSUME MaxTexts <= MaxKept + 1, MaxTexts <= MaxSkip + 1,
         NEW p \in Party, NEW q, q = Peer(p), NEW a, NEW b, Orderly(q, a, b), Silent(b), NEW env \in a.owed, env.first,
         NEW o, o = Decrypt(p, NewSession(None), env, <<p, b.pairs + 1>>), o.why = None, NEW u, u = o.session,
         NEW y, y = Envelope(p, u, "receipt"),
         NEW c, Taken(a, c, env),
         NEW d, d.session = Sent(u), d.pairs = PairsWith(p, b, u), d.texts = b.texts, d.reads = b.reads + 1,
         d.owed = b.owed \cup {y}
  PROVE  Orderly(p, d, c)
<1>1. /\ q \in Party /\ Peer(q) = p
      /\ IsOfOpening(q, b.session, a.session, env) /\ WellSealed(env) /\ a.session.ckr = None
      /\ b.session.cks = None /\ b.session = NewSession(None)
  BY PeerParty, PeerOfPeer, SilentHears
<1>2. /\ Half(q, a, b.pairs) /\ Half(p, b, a.pairs) /\ b.pairs = 0 /\ b.reads = 0 /\ b.texts \in 0..MaxTexts
  BY <1>1 DEF Orderly, Silent, Half
<1>3. PICK s, t, e : s = a.session /\ t = b.session /\ e = <<p, b.pairs + 1>>
  OBVIOUS
<1>4. e \in KeyPair
  <2>1. 0 + 1 \in Nat
    OBVIOUS
  <2>. QED  BY <1>2, <1>3, <2>1 DEF KeyPair
<1>5. o = Decrypt(p, t, env, e)
  BY <1>1, <1>3
\* The session is a new one that can send.
<1>6. Established(p, t, env, e, FirstChain(q), u)
  <2>1. ~Leaves(o, t)
    BY RatchetAssumption DEF Leaves, Harmless
  <2>. QED  BY <1>1, <1>3, <1>4, <1>5, <2>1, FirstRead
<1>7. AnswersFirst(p, t) /\ t.pn = 0 /\ t.ns = 0
  BY <1>1, <1>3 DEF AnswersFirst, NewSession
<1>8. /\ WellFormed(u) /\ NewSending(u, t.root, e, env.dh) /\ u.pn = 0 /\ u.ns = 0 /\ u.dhs = e
  BY <1>1, <1>3, <1>6, <1>7 DEF Established, NewSending
<1>9. u.cks \in Chain /\ u.cks # None
  <2>1. u.cks = At(u.root, 0) /\ u.root \in Root
    BY <1>8 DEF NewSending, WellFormed, Session
  <2>. QED  BY <2>1, NoneIsNoChain DEF At, Chain
<1>10. WellSealed(y) /\ SentOn(u, Sent(u))
  BY <1>8, <1>9, EnvelopeSealed, SentFields
\* The order after it read, and before it answered.
<1>11. PICK m : /\ m.session = u /\ m.pairs = PairsWith(p, b, u) /\ m.texts = b.texts /\ m.reads = b.reads + 1
                /\ m.owed = b.owed
  <2>1. PICK k, x, r, g : k = PairsWith(p, b, u) /\ x = b.texts /\ r = b.reads + 1 /\ g = b.owed
    OBVIOUS
  <2>2. PICK m : m = [session |-> u, pairs |-> k, texts |-> x, reads |-> r, owed |-> g]
    OBVIOUS
  <2>3. m.session = u /\ m.pairs = k /\ m.texts = x /\ m.reads = r /\ m.owed = g
    BY <2>2
  <2>. QED  BY <2>1, <2>3
<1>12. Orderly(q, c, m)
  <2>1. o = Decrypt(Peer(q), b.session, env, <<Peer(q), b.pairs + 1>>)
    BY <1>1, <1>3, <1>5
  <2>2. ~Leaves(o, b.session)
    BY RatchetAssumption DEF Leaves, Harmless
  <2>3. m.session = o.session /\ m.pairs = PairsWith(Peer(q), b, o.session)
    BY <1>1, <1>11
  <2>. QED  BY <1>1, <1>11, <2>1, <2>2, <2>3, ReadingKeeps
<1>13. Orderly(p, m, c)
  BY <1>1, <1>12, EitherSide
<1>14. Sender(p, u, m.pairs)
  <2>1. Half(p, m, c.pairs)
    BY <1>13 DEF Orderly
  <2>. QED  BY <1>9, <1>11, <2>1 DEF Half
<1>15. SealedOn(u, y)
  BY <1>8, <1>9, <1>14, SealedFields
<1>16. PICK w : w = Sent(u)
  OBVIOUS
<1>17. w.ns = 1 /\ w.pn = 0 /\ w.dhs \in KeyPair
  <2>1. 0 + 1 = 1
    OBVIOUS
  <2>. QED  BY <1>4, <1>8, <1>10, <1>16, <2>1 DEF SentOn
<1>18. Counts(c.session, w, m.texts, c.reads)
  <2>1. c.session = s /\ c.reads = a.reads
    BY <1>3 DEF Taken
  <2>2. WellFormed(s) /\ s.ckr = None /\ Unheard(s, a.reads)
    BY <1>1, <1>2, <1>3 DEF Half
  <2>3. m.texts \in Nat
    BY <1>2, <1>11, PeersAssumption
  <2>. QED  BY <1>17, <2>1, <2>2, <2>3, FirstCounts
<1>19. ~Opens(p, u, m.pairs, m.texts)
  <2>1. ~(1 <= 0)
    OBVIOUS
  <2>. QED  BY <1>8, <2>1 DEF Opens
<1>20. Orderly(p, d, c)
  <2>1. /\ m.session.cks # None /\ SealedOn(m.session, y) /\ SentOn(m.session, d.session)
        /\ d.pairs = m.pairs /\ d.reads = m.reads /\ d.texts = m.texts /\ d.texts \in 0..MaxTexts
        /\ d.owed = m.owed \cup {y} /\ ~Opens(p, m.session, m.pairs, m.texts)
        /\ Counts(c.session, d.session, d.texts, c.reads)
    BY <1>2, <1>9, <1>10, <1>11, <1>15, <1>16, <1>18, <1>19
  <2>. QED  BY <1>10, <1>13, <2>1, SendsOn
<1>. QED  BY <1>20

\* A first message that opens p's session.
LEMMA EstablishOrder ==
  ASSUME MaxTexts <= MaxKept + 1, MaxTexts <= MaxSkip + 1,
         IInv, OnceInv, OrderInv, NEW p \in Party, Establish(p)
  PROVE  OrderInv'
<1>1. PICK q, id, env, o, u, y : /\ q = Peer(p) /\ id = job[p].arg /\ env = wire[id]
                                 /\ o = Decrypt(p, NewSession(env.otk), env, Ephemeral(p)) /\ u = o.session
                                 /\ y = Envelope(p, u, "receipt")
  OBVIOUS
<1>2. /\ job[p].do = "establish" /\ job' = [job EXCEPT ![p] = [do |-> "save", arg |-> None]]
      /\ UNCHANGED <<texts, crashes, chosen>>
      /\ \/ /\ o.why = None /\ mem' = [mem EXCEPT ![p] = Sent(u)] /\ Uses(p, u)
            /\ wire' = Append(wire, y) /\ Accept(p, id)
         \/ o.why # None /\ Refuse(id, o.why) /\ UNCHANGED <<mem, fresh, wire>>
  BY <1>1 DEF Establish, EstablishSession, Write, Busy
<1>3. /\ q \in Party /\ q # p /\ Peer(q) = p /\ DOMAIN mem = Party /\ DOMAIN job = Party /\ IsSeq(wire)
      /\ fresh \in [Party -> Nat] /\ ReadInv
  BY <1>1, PeerParty, PeerOfPeer DEF IInv, KeyInv, KeyTypes
<1>4. id \in To(p) /\ env.first
  BY <1>1, <1>2 DEF IInv, MailInv, OpensFirst, Opening
<1>5. id \in 1..Len(wire) /\ env.from = q
  BY <1>1, <1>3, <1>4 DEF To
<1>6. PICK a, b : a = Side(q) /\ b = Side(p)
  OBVIOUS
<1>7. mem[p] = None /\ read[p] = <<>>
  BY <1>2 DEF OnceInv, OnceOf, OrderInv
<1>8. /\ Orderly(q, a, b) /\ Silent(b) /\ fresh[p] = 0 /\ b.session = NewSession(None) /\ Holds(p) = NewSession(None)
  BY <1>1, <1>6, <1>7, SidesKnown DEF Side
<1>9. id \notin ReadBy(p)
  <2>1. 1..Len(read[p]) = {}
    BY <1>7, EmptySeq
  <2>. QED  BY <2>1 DEF ReadBy
<1>10. env \in a.owed
  BY <1>1, <1>4, <1>5, <1>6, <1>9, <1>3 DEF Side, Owed, Posted, Awaited
<1>11. IsOfOpening(q, b.session, a.session, env) /\ env.otk = None /\ WellSealed(env)
  BY <1>3, <1>8, <1>10, SilentHears
<1>12. ~HasEnvelope(p) /\ ~HasEnvelope(p)'
  BY <1>2, <1>3 DEF HasEnvelope
<1>13. b.pairs = fresh[p] /\ b.texts = texts[p] /\ b.reads = Len(read[p]) /\ b.owed = Posted(p) /\ Owed(p) = Posted(p)
  BY <1>6, <1>12 DEF Side, Owed
<1>14. o = Decrypt(p, NewSession(None), env, <<p, b.pairs + 1>>) /\ Ephemeral(p) = <<p, b.pairs + 1>>
  BY <1>1, <1>11, <1>13 DEF Ephemeral
<1>15. ASSUME o.why # None, Refuse(id, o.why), UNCHANGED <<mem, fresh, wire>>
       PROVE  OrderInv'
  <2>1. o = Decrypt(Peer(q), b.session, env, Ephemeral(p)) /\ Ephemeral(p) \in KeyPair
    BY <1>3, <1>8, <1>14, EphemeralType DEF IInv
  <2>2. Leaves(o, b.session)
    BY <1>3, <1>8, <1>11, <1>15, <2>1, FirstRead
  <2>3. Excused(<<id, o.why>>)
    BY <1>5, <2>2 DEF Leaves, Excused
  <2>4. refused' = refused \cup {<<id, o.why>>} /\ read' = read
    BY <1>15 DEF Refuse
  <2>5. Holds(p)' = Holds(p) /\ \A r \in Party \ {p} : mem'[r] = mem[r] /\ job'[r] = job[r]
    BY <1>2, <1>3, <1>15 DEF Holds
  <2>. QED  BY <1>2, <1>12, <1>15, <2>3, <2>4, <2>5, QuietKeeps DEF OrderInv
<1>16. ASSUME o.why = None, mem' = [mem EXCEPT ![p] = Sent(u)], Uses(p, u), wire' = Append(wire, y), Accept(p, id)
       PROVE  OrderInv'
  <2>1. read' = [read EXCEPT ![p] = Append(@, id)] /\ refused' = refused
    BY <1>16 DEF Accept
  <2>2. fresh' = [fresh EXCEPT ![p] = IF u.dhs = Ephemeral(p) THEN fresh[p] + 1 ELSE fresh[p]]
    BY <1>16 DEF Uses
  <2>3. /\ mem'[q] = mem[q] /\ job'[q] = job[q] /\ fresh'[q] = fresh[q] /\ texts'[q] = texts[q]
        /\ mem'[p] = Sent(u)
    BY <1>2, <1>3, <1>16, <2>2
  <2>4. y.from = p
    BY <1>1 DEF Envelope
  <2>5. /\ Taken(Side(q), Side(q)', env) /\ Len(read'[p]) = Len(read[p]) + 1 /\ read'[q] = read[q]
        /\ \A r \in Party : ReadBy(r) \subseteq ReadBy(r)'
    <3>1. wire' = wire \/ \E z : z.from = p /\ wire' = Append(wire, z)
      BY <1>16, <2>4
    <3>. QED  BY <1>1, <1>4, <1>9, <2>1, <2>3, <3>1, ReadSides
  <2>6. PICK c, d : c = Side(q)' /\ d = Side(p)'
    OBVIOUS
  <2>7. Taken(a, c, env)
    BY <1>6, <2>5, <2>6
  <2>8. WellFormed(u) /\ u.cks \in Chain
    <3>1. WellFormed(b.session) /\ Ephemeral(p) \in KeyPair /\ o = Decrypt(p, b.session, env, Ephemeral(p))
      BY <1>8, <1>11, <1>14, EphemeralType, NewType DEF IInv
    <3>. QED  BY <1>1, <1>4, <1>11, <1>16, <3>1, DecryptType
  <2>9. Sent(u) # None
    BY <2>8, SentType, NoneIsNoSession DEF WellFormed
  <2>10. /\ d.session = Sent(u) /\ d.pairs = PairsWith(p, b, u) /\ d.texts = b.texts /\ d.reads = b.reads + 1
         /\ d.owed = b.owed \cup {y}
    <3>1. Holds(p)' = Sent(u)
      BY <2>3, <2>9 DEF Holds
    <3>2. Posted(p)' = Posted(p) \cup {y}
      BY <1>1, <1>3, <1>16, <2>4, <2>5, PostedGrows
    <3>3. Owed(p)' = b.owed \cup {y}
      BY <1>12, <1>13, <3>2 DEF Owed
    <3>4. fresh'[p] = PairsWith(p, b, u)
      BY <1>3, <1>13, <1>14, <2>2 DEF PairsWith
    <3>. QED  BY <1>2, <1>13, <2>5, <2>6, <3>1, <3>3, <3>4 DEF Side
  <2>11. Orderly(p, d, c)
    BY <1>1, <1>4, <1>8, <1>10, <1>14, <1>16, <2>7, <2>10, AnswerOrder
  <2>12. \A r \in Party : Orderly(r, Side(r), Side(Peer(r)))'
    <3>1. Orderly(p, Side(p)', Side(Peer(p))')
      BY <1>1, <2>6, <2>11
    <3>. QED  BY <3>1, BothSides
  <2>13. \A r \in refused' : Excused(r)'
    <3>1. \A x \in 1..Len(wire) : wire[x].from \in Party
      BY DEF IInv, KeyInv, Signed
    <3>2. \A r : Excused(r) => Excused(r)'
      BY <1>3, <1>16, <2>5, <3>1, ExcusedStays
    <3>. QED  BY <2>1, <3>2 DEF OrderInv
  <2>14. texts' = [r \in Party |-> texts'[r]]
    BY <1>2 DEF OrderInv
  <2>. QED  BY <1>2, <2>12, <2>13, <2>14 DEF OrderInv
<1>. QED  BY <1>2, <1>15, <1>16

\* What was to be handed over is posted.
LEMMA WriteOrder ==
  ASSUME IInv, OrderInv, NEW p \in Party, WriteText(p), UNCHANGED chosen
  PROVE  OrderInv'
<1>1. PICK q, y : q = Peer(p) /\ y = job[p].arg
  OBVIOUS
<1>2. /\ job[p].do = "write" /\ wire' = Append(wire, y) /\ job' = [job EXCEPT ![p] = Idle]
      /\ UNCHANGED <<mem, fresh, texts, crashes, read, refused>>
  BY <1>1 DEF WriteText, Write, Done, countVars
<1>3. /\ q \in Party /\ q # p /\ Peer(q) = p /\ DOMAIN job = Party /\ IsSeq(wire) /\ ReadInv
  BY <1>1, PeerParty, PeerOfPeer DEF IInv, KeyInv, KeyTypes
<1>4. HasEnvelope(p) /\ ~HasEnvelope(p)' /\ y.from = p
  BY <1>1, <1>2, <1>3 DEF IInv, KeyInv, Pending, HasEnvelope, Idle
<1>5. Posted(p)' = Posted(p) \cup {y}
  BY <1>1, <1>2, <1>3, <1>4, PostedGrows
<1>6. Side(p)' = Side(p)
  <2>1. Owed(p)' = Owed(p)
    BY <1>1, <1>4, <1>5 DEF Owed
  <2>2. Holds(p)' = Holds(p)
    BY <1>2 DEF Holds
  <2>. QED  BY <1>2, <2>1, <2>2 DEF Side
<1>7. Side(q)' = Side(q)
  <2>1. /\ {id \in 1..Len(wire') : wire'[id].from = q} = {id \in 1..Len(wire) : wire[id].from = q}
        /\ \A id \in 1..Len(wire) : wire'[id] = wire[id]
    BY <1>2, <1>3, <1>4, PostedByPeer
  <2>2. ReadBy(p)' = ReadBy(p)
    BY <1>2 DEF ReadBy
  <2>3. Awaited(q)' = Awaited(q)
    BY <1>3, <2>1, <2>2 DEF Awaited
  <2>4. \A id \in Awaited(q) : wire'[id] = wire[id]
    BY <2>1 DEF Awaited
  <2>5. Posted(q)' = Posted(q)
    BY <2>3, <2>4 DEF Posted
  <2>6. job'[q] = job[q]
    BY <1>2, <1>3
  <2>7. Owed(q)' = Owed(q)
    BY <2>5, <2>6 DEF Owed, HasEnvelope
  <2>8. Holds(q)' = Holds(q)
    BY <1>2 DEF Holds
  <2>. QED  BY <1>2, <2>7, <2>8 DEF Side
<1>8. \A r \in Party : Orderly(r, Side(r), Side(Peer(r)))'
  <2>1. Orderly(p, Side(p), Side(q))
    BY <1>1 DEF OrderInv
  <2>2. Orderly(p, Side(p)', Side(Peer(p))')
    BY <1>1, <1>6, <1>7, <2>1
  <2>. QED  BY <2>2, BothSides
<1>9. \A r \in refused' : Excused(r)'
  <2>1. \A x \in 1..Len(wire) : wire[x].from \in Party
    BY DEF IInv, KeyInv, Signed
  <2>2. \A r \in Party : ReadBy(r) \subseteq ReadBy(r)'
    BY <1>2 DEF ReadBy
  <2>3. \A r : Excused(r) => Excused(r)'
    BY <1>2, <1>3, <2>1, <2>2, ExcusedStays
  <2>. QED  BY <1>2, <2>3 DEF OrderInv
<1>10. texts' = [r \in Party |-> texts'[r]]
  BY <1>2 DEF OrderInv
<1>. QED  BY <1>2, <1>8, <1>9, <1>10 DEF OrderInv

\* A start changes no side: nobody has saved a session before the first one.
LEMMA StartOrder ==
  ASSUME Bundles = Party, IInv, OnceInv, OrderInv, NEW p \in Party, Start(p)
  PROVE  OrderInv'
<1>1. /\ up[p] = "down" /\ mem' = [mem EXCEPT ![p] = Restore(disk[p])]
      /\ chosen' = [chosen EXCEPT ![p] = None]
      /\ UNCHANGED <<job, wire, read, refused, fresh, texts, crashes>>
  <2>1. IF p \in Bundles THEN chosen' = [chosen EXCEPT ![p] = None] ELSE TRUE
    BY DEF Start
  <2>2. up[p] = "down" /\ mem' = [mem EXCEPT ![p] = Restore(disk[p])] /\ UNCHANGED <<job, fresh, texts, crashes>>
    BY DEF Start, LoadPool
  <2>. QED  BY <2>1, <2>2 DEF Start, LoadPool, historyVars
<1>2. mem[p] = None /\ disk[p] = None
  BY <1>1 DEF OnceInv, OnceOf, OrderInv
<1>3. DOMAIN mem = Party /\ \A q \in Party : chosen'[q] \in {None, NoPeer}
  BY <1>1 DEF IInv, KeyInv, KeyTypes, ChosenInv, OrderInv
<1>4. \A q \in Party : mem'[q] = mem[q]
  BY <1>1, <1>2, <1>3 DEF Restore
<1>5. Holds(p)' = Holds(p) /\ (HasEnvelope(p)' <=> HasEnvelope(p))
  BY <1>1, <1>4 DEF Holds, HasEnvelope
<1>. QED  BY <1>1, <1>3, <1>4, <1>5, QuietKeeps

\* The other acts change no side.
OtherAct(p) ==
  \/ Resolve(p) \/ Publish(p) \/ Save(p) \/ Crash(p)
  \/ PersistText(p) /\ UNCHANGED chosen
  \/ \E i : ReceiveFirst(p, i)
  \/ \E k \in pool[p] : OtherFirst(p, k)

\* So they keep the order.
LEMMA OtherActsOrder ==
  ASSUME Bundles = Party, IInv, OnceInv, OrderInv, NEW p \in Party, crashes' = 0,
         OtherAct(p)
  PROVE  OrderInv'
<1>1. DOMAIN job = Party
  BY DEF IInv, KeyInv, KeyTypes
<1>2. ~Resolve(p) /\ ~Crash(p)
  <2>1. ~Resolve(p)
    BY DEF Resolve
  <2>2. ASSUME Crash(p)
        PROVE  FALSE
    <3>1. crashes = 0 /\ crashes' = crashes + 1
      BY <2>2 DEF Crash, Kill, OrderInv
    <3>. QED  BY <3>1
  <2>. QED  BY <2>1, <2>2
<1>. DEFINE Quiet == /\ UNCHANGED <<mem, wire, read, refused, fresh, texts, crashes, chosen>>
                     /\ \A q \in Party \ {p} : job'[q] = job[q]
                     /\ HasEnvelope(p)' <=> HasEnvelope(p)
                     /\ HasEnvelope(p) => job'[p].arg = job[p].arg
<1>3. Quiet
  <2>1. CASE Publish(p)
    BY <2>1 DEF Publish, countVars, historyVars, HasEnvelope
  <2>2. CASE PersistText(p) /\ UNCHANGED chosen
    BY <1>1, <2>2 DEF PersistText, Busy, countVars, historyVars, HasEnvelope
  <2>3. CASE Save(p)
    BY <1>1, <2>3 DEF Save, Done, countVars, historyVars, HasEnvelope, Idle
  <2>4. ASSUME NEW i, ReceiveFirst(p, i)
        PROVE  Quiet
    BY <1>1, <2>4 DEF ReceiveFirst, Delivers, Busy, countVars, HasEnvelope, Idle
  <2>5. ASSUME NEW k, OtherFirst(p, k)
        PROVE  Quiet
    BY <2>5 DEF OtherFirst, countVars, HasEnvelope
  <2>. QED  BY <1>2, <2>1, <2>2, <2>3, <2>4, <2>5 DEF OtherAct
<1>. QED  BY <1>3, QuietKeeps DEF Holds, OrderInv

\* A step of anybody keeps the order.
LEMMA OrderStep ==
  ASSUME Bundles = Party, MaxTexts <= MaxKept + 1, MaxTexts <= MaxSkip + 1,
         IInv, OnceInv, OrderInv, [Next]_vars, crashes' = 0
  PROVE  OrderInv'
<1>1. CASE Next
  <2>1. PICK p \in Party : Act(p)
    BY <1>1 DEF Next, Act
  <2>2. CASE Encrypt(p)
    BY <2>2, EncryptOrder
  <2>3. CASE WriteText(p) /\ UNCHANGED chosen
    BY <2>3, WriteOrder
  <2>4. ASSUME NEW i, ReceiveInSession(p, i)
        PROVE  OrderInv'
    BY <2>4, ReceiveOrder
  <2>5. ASSUME NEW i, DropUnknown(p, i)
        PROVE  OrderInv'
    BY <2>5, DropOrder
  <2>6. CASE Establish(p)
    BY <2>6, EstablishOrder
  <2>7. CASE Start(p)
    BY <2>7, StartOrder
  <2>8. CASE OtherAct(p)
    BY <2>8, OtherActsOrder
  <2>9. CASE Typing(p)
    BY <2>2, <2>3, <2>8, <2>9 DEF Typing, OtherAct
  <2>10. CASE Receiving(p)
    <3>1. CASE Establish(p)
      BY <2>6, <3>1
    <3>2. ASSUME NEW i, ReceiveInSession(p, i) \/ DropUnknown(p, i) \/ ReceiveFirst(p, i)
          PROVE  OrderInv'
      BY <2>4, <2>5, <2>8, <3>2 DEF OtherAct
    <3>3. CASE Save(p)
      BY <2>8, <3>3 DEF OtherAct
    <3>. QED  BY <2>10, <3>1, <3>2, <3>3 DEF Receiving
  <2>. QED  BY <2>1, <2>7, <2>8, <2>9, <2>10 DEF Act, OtherAct
<1>2. CASE UNCHANGED vars
  <2>1. UNCHANGED <<mem, job, wire, read, refused, fresh, texts, crashes, chosen>>
    BY <1>2 DEF vars, peerVars, memoryVars, countVars, historyVars
  <2>2. PICK p \in Party : TRUE
    BY RatchetAssumption
  <2>. QED  BY <2>1, <2>2, QuietKeeps DEF Holds, HasEnvelope, OrderInv
<1>. QED  BY <1>1, <1>2

\* At the beginning nothing was sent.
LEMMA OrderInit ==
  ASSUME Init
  PROVE  OrderInv
<1>1. /\ crashes = 0 /\ texts = [p \in Party |-> 0] /\ refused = {} /\ wire = <<>> /\ Len(wire) = 0
      /\ \A p \in Party : /\ chosen[p] = NoPeer /\ mem[p] = None /\ job[p] = Idle /\ fresh[p] = 0
                         /\ texts[p] = 0 /\ Len(read[p]) = 0
  BY EmptySeq DEF Init, PeersInit
<1>2. ASSUME NEW p \in Party
      PROVE  Silent(Side(p)) /\ Side(p).texts = 0
  <2>1. Awaited(p) = {}
    <3>1. 1..0 = {}
      OBVIOUS
    <3>. QED  BY <1>1, <3>1 DEF Awaited
  <2>2. Owed(p) = {}
    BY <1>1, <2>1 DEF Owed, Posted, HasEnvelope, Idle
  <2>3. Holds(p) = NewSession(None)
    BY <1>1 DEF Holds
  <2>. QED  BY <1>1, <2>2, <2>3 DEF Side, Silent
<1>3. ASSUME NEW p \in Party, NEW a, Silent(a), a.texts = 0, NEW k
      PROVE  Half(p, a, k)
  <2>1. PICK s : s = NewSession(None)
    OBVIOUS
  <2>2. /\ s.cks = None /\ s.ckr = None /\ s.dhr = None /\ s.skipped = <<>> /\ s.epochs = <<>> /\ s.root = Blank
    BY <2>1 DEF NewSession, Blank
  <2>3. WellFormed(s)
    BY <2>1, NewType
  <2>4. 0 \in 0..MaxTexts
    BY PeersAssumption
  <2>. QED  BY <1>3, <2>1, <2>2, <2>3, <2>4 DEF Half, Silent, Unheard
<1>4. ASSUME NEW p \in Party
      PROVE  Orderly(p, Side(p), Side(Peer(p)))
  <2>1. PICK a, b : a = Side(p) /\ b = Side(Peer(p))
    OBVIOUS
  <2>2. Silent(a) /\ Silent(b) /\ a.texts = 0 /\ b.texts = 0 /\ Peer(p) \in Party
    BY <1>2, <2>1, PeerParty
  <2>3. Half(p, a, b.pairs) /\ Half(Peer(p), b, a.pairs)
    BY <1>3, <2>2
  <2>4. BothOpen(p, a, b)
    BY <2>2 DEF BothOpen, Silent, NewSession
  <2>5. a.owed = {} /\ b.owed = {}
    BY <2>2 DEF Silent
  <2>. QED  BY <2>1, <2>3, <2>4, <2>5 DEF Orderly, Phase
<1>5. texts = [p \in Party |-> texts[p]]
  BY <1>1
<1>. QED  BY <1>1, <1>4, <1>5 DEF OrderInv

\* The order there is until a process is killed.
Ordered == crashes = 0 => OrderInv

\* Every step keeps it.
LEMMA OrderedKept ==
  ASSUME Bundles = Party, MaxTexts <= MaxKept + 1, MaxTexts <= MaxSkip + 1,
         IInv, OnceInv, Ordered, [Next]_vars
  PROVE  Ordered'
<1>. SUFFICES ASSUME crashes' = 0
              PROVE  OrderInv'
  BY DEF Ordered
<1>1. CASE Next
  <2>1. PICK p \in Party : Act(p)
    BY <1>1 DEF Next, Act
  <2>2. crashes = 0
    BY <2>1, CrashesGrow DEF OnceInv
  <2>. QED  BY <2>2, OrderStep DEF Ordered
<1>2. CASE UNCHANGED vars
  <2>1. crashes = 0
    BY <1>2 DEF vars, peerVars, countVars
  <2>. QED  BY <2>1, OrderStep DEF Ordered
<1>. QED  BY <1>1, <1>2

\* In order, only what comes too early, or a first message too late, is refused.
LEMMA OrderedRefuses ==
  ASSUME OrderInv
  PROVE  OnlyOrderRefuses
BY DEF OrderInv, Excused, Harmless, OnlyOrderRefuses, FreshRefusals

\* Over a relay that delivers in any order and again, two clients that were given
\* each other's bundle, as long as none is killed, and whose texts the cache of kept
\* keys and the reach of a chain have room for, refuse of what reaches them for the
\* first time only what comes before its epoch or its session, or a first message
\* that comes after.
THEOREM OnlyOrderRefusesAlways ==
  ASSUME Bundles = Party, MaxTexts <= MaxKept + 1, MaxTexts <= MaxSkip + 1
  PROVE  Spec => [](crashes = 0 => OnlyOrderRefuses)
<1>1. Init => Ordered
  BY OrderInit DEF Ordered
<1>2. IInv /\ OnceInv /\ Ordered /\ [Next]_vars => Ordered'
  BY OrderedKept
<1>3. Ordered => (crashes = 0 => OnlyOrderRefuses)
  BY OrderedRefuses DEF Ordered
<1>. QED  BY <1>1, <1>2, <1>3, Inductive, OnceAlways, PTL DEF Spec

\* Nobody is killed where none may be.
LEMMA NoneKilled ==
  ASSUME MaxCrashes = 0, crashes = 0, [Next]_vars
  PROVE  crashes' = 0
<1>1. CASE Next
  <2>1. PICK p \in Party : Act(p)
    BY <1>1 DEF Next, Act
  <2>2. ~Crash(p)
    <3>1. ~(0 < 0)
      OBVIOUS
    <3>. QED  BY <3>1 DEF Crash, Kill
  <2>. QED  BY <2>1, <2>2 DEF Act, Start, LoadPool, Resolve, Publish, Typing, Encrypt, PersistText, WriteText,
            Receiving, ReceiveInSession, DropUnknown, ReceiveFirst, Establish, Save, OtherFirst, peerVars, countVars
<1>2. CASE UNCHANGED vars
  BY <1>2 DEF vars, peerVars, countVars
<1>. QED  BY <1>1, <1>2

\* The same of the run that checks it, of its part where nobody is killed.
THEOREM OrderRefusesAlways ==
  ASSUME Bundles = Party, MaxCrashes = 0, MaxTexts <= MaxKept + 1, MaxTexts <= MaxSkip + 1
  PROVE  PartsSpec => []OrderRefuses
<1>. DEFINE Inv == part = "order" => IInv /\ OnceInv /\ OrderInv
<1>1. PartsInit => Inv
  BY IInvInit, OnceInit, OrderInit DEF PartsInit
<1>2. Inv /\ [PartsNext]_<<part, vars>> => Inv'
  <2>. SUFFICES ASSUME Inv, [PartsNext]_<<part, vars>>, part' = "order"
                PROVE  IInv' /\ OnceInv' /\ OrderInv'
    OBVIOUS
  <2>1. part = "order" /\ [Next]_vars
    BY DEF PartsNext
  <2>2. crashes = 0 /\ IInv /\ OnceInv /\ Ordered
    BY <2>1 DEF OrderInv, Ordered
  <2>3. crashes' = 0
    BY <2>1, <2>2, NoneKilled
  <2>4. IInv' /\ OnceInv' /\ Ordered'
    BY <2>1, <2>2, IInvStep, OnceKept, OrderedKept
  <2>. QED  BY <2>3, <2>4 DEF Ordered
<1>3. Inv => OrderRefuses
  BY TypesFollow, OrderedRefuses DEF IInv, ChosenInv, OrderRefuses
<1>. QED  BY <1>1, <1>2, <1>3, PTL DEF PartsSpec
=============================================================================
