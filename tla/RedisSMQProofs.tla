--------------------------- MODULE RedisSMQProofs ---------------------------
(***************************************************************************)
(* What the whole system guarantees for any number of consumers, queues    *)
(* and messages, and for batches of any size.  Type correctness needs      *)
(* nothing.  The other theorems assume that a consumer instance is run     *)
(* once and that no handler both throws and has a consume timeout; they    *)
(* hold for any namespaces and any Races until a collector takes for dead  *)
(* a consumer that can still fetch (mistaken): the README shows how each   *)
(* of these breaks a guarantee when it fails.                              *)
(*                                                                         *)
(* The argument, section by section: what the list operations of a batch   *)
(* do (an induction over the batch); the control invariant, which ties the *)
(* collector's and a consumer's knowledge to the processing queues         *)
(* (Control); every step that touches the lists as one of a few kinds of   *)
(* move (Transfer, Arrival and the two batch moves); what the lists may    *)
(* hold (Policy); where a published message is (Whereabouts) and that,     *)
(* while one set of workers runs at a time, it is in one place (Exact).    *)
(***************************************************************************)
EXTENDS RedisSMQ, ConsumerProofs, WellFoundedInduction

(***************************************************************************)
(* Induction over the naturals, and what iterating a step computes.        *)
(***************************************************************************)

\* Induction over the naturals, for a set: a set of naturals that holds 0 and
\* is closed under successor holds every natural.
LEMMA NatClosed ==
  ASSUME NEW T, 0 \in T, \A n \in Nat : n \in T => n + 1 \in T
  PROVE  \A n \in Nat : n \in T
<1> SUFFICES ASSUME Nat \ T # {} PROVE FALSE
  OBVIOUS
<1>1. PICK x \in Nat \ T : \A y \in Nat \ T : <<y, x>> \notin OpToRel(<, Nat)
  BY NatLessThanWellFounded, WFMin
<1>2. \A y \in Nat \ T : ~(y < x)
  BY <1>1 DEF OpToRel
<1>3. x - 1 \in Nat /\ x - 1 < x
  OBVIOUS
<1> QED BY <1>2, <1>3

\* A set of naturals that is not empty has a least element.
LEMMA NatLeast ==
  ASSUME NEW T, T \subseteq Nat, T # {}
  PROVE  \E x \in T : \A y \in T : x <= y
<1>1. PICK x \in T : \A y \in T : <<y, x>> \notin OpToRel(<, Nat)
  BY NatLessThanWellFounded, WFMin
<1>2. \A y \in T : ~(y < x) BY <1>1 DEF OpToRel
<1>3. \A y \in T : x <= y BY <1>2
<1> QED BY <1>3

\* f is the sequence of values that N steps of G give from a.
Iteration(f, a, N, G) == f[0] = a /\ \A n \in 1..N : f[n] = G[<<n, f[n - 1]>>]

\* Iterating a function n times from a start value is well defined.
LEMMA Iterate ==
  ASSUME NEW D, NEW a \in D, NEW N \in Nat, NEW G \in [(1..N) \X D -> D]
  PROVE  \E f \in [0..N -> D] : Iteration(f, a, N, G)
<1> DEFINE Runs(k, f) == f[0] = a /\ \A n \in 1..k : f[n] = G[<<n, f[n - 1]>>]
           T == {k \in Nat : k <= N => \E f \in [0..N -> D] : Runs(k, f)}
<1>1. 0 \in T
  <2>1. [i \in 0..N |-> a] \in [0..N -> D] /\ Runs(0, [i \in 0..N |-> a])
    OBVIOUS
  <2> QED BY <2>1
<1>2. ASSUME NEW k \in Nat, k \in T PROVE k + 1 \in T
  <2> SUFFICES ASSUME k + 1 <= N PROVE \E f \in [0..N -> D] : Runs(k + 1, f)
    OBVIOUS
  <2>1. PICK f \in [0..N -> D] : Runs(k, f)
    BY <1>2
  <2> DEFINE g == [f EXCEPT ![k + 1] = G[<<k + 1, f[k]>>]]
  <2>2. k \in 0..N /\ k + 1 \in 1..N OBVIOUS
  <2>3. <<k + 1, f[k]>> \in (1..N) \X D BY <2>2
  <2>4. g \in [0..N -> D] BY <2>2, <2>3
  <2>5. ASSUME NEW n \in 1..k + 1 PROVE g[n] = G[<<n, g[n - 1]>>]
    <3>1. n - 1 \in 0..N /\ n \in 0..N /\ n - 1 # k + 1 BY <2>2
    <3>2. g[n - 1] = f[n - 1] BY <3>1
    <3>3. CASE n = k + 1
      <4>1. n - 1 = k BY <3>3
      <4> QED BY <3>1, <3>2, <3>3, <4>1
    <3>4. CASE n # k + 1
      <4>1. n \in 1..k BY <3>4
      <4> QED BY <2>1, <3>1, <3>2, <3>4, <4>1
    <3> QED BY <3>3, <3>4
  <2>6. g[0] = a BY <2>1, <2>2
  <2> QED BY <2>4, <2>5, <2>6
<1>3. N \in T
  <2> HIDE DEF T
  <2> QED BY <1>1, <1>2, NatClosed
<1> QED BY <1>3 DEF Iteration

-----------------------------------------------------------------------------
\* m has a copy in the list s.
Has(m, s) == \E i \in 1..Len(s) : s[i].id = m
\* m has at most one copy in s.
Once(m, s) == \A i, j \in 1..Len(s) : s[i].id = m /\ s[j].id = m => i = j

\* t is s with the message e inserted somewhere.
Inserted(s, t, e) ==
  /\ Len(t) = Len(s) + 1
  /\ \E p \in 1..Len(t) :
       /\ t[p] = e
       /\ \A i \in 1..p - 1 : t[i] = s[i]
       /\ \A i \in p + 1..Len(t) : t[i] = s[i - 1]

\* The copies in a list and in the list with e inserted: only those of e differ.
LEMMA InsertedFacts ==
  ASSUME NEW s \in Seq(Entry), NEW t \in Seq(Entry), NEW e \in Entry, Inserted(s, t, e)
  PROVE  /\ Has(e.id, t)
         /\ \A m : m # e.id => (Has(m, t) <=> Has(m, s)) /\ (Once(m, t) <=> Once(m, s))
         /\ Once(e.id, t) <=> ~Has(e.id, s)
         /\ ToSet(t) = ToSet(s) \union {e}
<1>1. PICK p \in 1..Len(t) :
       /\ t[p] = e
       /\ \A i \in 1..p - 1 : t[i] = s[i]
       /\ \A i \in p + 1..Len(t) : t[i] = s[i - 1]
  BY DEF Inserted
<1>2. Len(t) = Len(s) + 1 /\ Len(s) \in Nat BY DEF Inserted
<1> DEFINE at(i) == IF i < p THEN i ELSE i + 1
<1>3. ASSUME NEW i \in 1..Len(s)
      PROVE  at(i) \in 1..Len(t) /\ at(i) # p /\ t[at(i)] = s[i]
  <2>1. CASE i < p BY <1>1, <1>2, <2>1
  <2>2. CASE ~(i < p)
    <3>1. i + 1 \in p + 1..Len(t) /\ (i + 1) - 1 = i BY <1>1, <1>2, <2>2
    <3> QED BY <1>1, <1>2, <2>2, <3>1
  <2> QED BY <2>1, <2>2
<1>4. ASSUME NEW k \in 1..Len(t), k # p
      PROVE  \E i \in 1..Len(s) : at(i) = k /\ t[k] = s[i]
  <2>1. CASE k < p 
    <3>1. k \in 1..Len(s) /\ at(k) = k /\ t[k] = s[k] BY <1>1, <1>2, <2>1
    <3> QED BY <3>1
  <2>2. CASE k > p
    <3>1. k - 1 \in 1..Len(s) /\ at(k - 1) = k /\ t[k] = s[k - 1] BY <1>1, <1>2, <2>2
    <3> QED BY <3>1
  <2>3. k < p \/ k > p BY <1>2, <1>4
  <2> QED BY <2>1, <2>2, <2>3
<1>5. \A i, j \in 1..Len(s) : at(i) = at(j) => i = j
  BY <1>1, <1>2
<1> HIDE DEF at
<1>6. Has(e.id, t) BY <1>1 DEF Has
<1>7. ASSUME NEW m, m # e.id
      PROVE  Has(m, t) <=> Has(m, s)
  BY <1>1, <1>3, <1>4, <1>7 DEF Has
<1>8. ASSUME NEW m, m # e.id, Once(m, t) PROVE Once(m, s)
  BY <1>3, <1>5, <1>8 DEF Once
<1>9. ASSUME NEW m, m # e.id, Once(m, s) PROVE Once(m, t)
  <2> SUFFICES ASSUME NEW k \in 1..Len(t), NEW l \in 1..Len(t), t[k].id = m, t[l].id = m
               PROVE  k = l
    BY DEF Once
  <2>1. k # p /\ l # p BY <1>1, <1>9
  <2>2. PICK i \in 1..Len(s) : at(i) = k /\ t[k] = s[i] BY <1>4, <2>1
  <2>3. PICK j \in 1..Len(s) : at(j) = l /\ t[l] = s[j] BY <1>4, <2>1
  <2>4. i = j BY <1>9, <2>2, <2>3 DEF Once
  <2> QED BY <2>2, <2>3, <2>4
<1>10. ASSUME Once(e.id, t), Has(e.id, s) PROVE FALSE
  <2>1. PICK i \in 1..Len(s) : s[i].id = e.id BY <1>10 DEF Has
  <2>2. at(i) \in 1..Len(t) /\ at(i) # p /\ t[at(i)].id = e.id BY <1>3, <2>1
  <2> QED BY <1>1, <1>10, <2>2 DEF Once
<1>11. ASSUME ~Has(e.id, s) PROVE Once(e.id, t)
  <2>1. \A k \in 1..Len(t) : t[k].id = e.id => k = p BY <1>4, <1>11 DEF Has
  <2> QED BY <2>1 DEF Once
<1>12. ToSet(t) = ToSet(s) \union {e}
  <2>1. ToSet(s) = {s[i] : i \in 1..Len(s)} /\ ToSet(t) = {t[i] : i \in 1..Len(t)}
    BY DEF ToSet
  <2>2. ASSUME NEW x \in ToSet(t) PROVE x \in ToSet(s) \union {e}
    <3>1. PICK k \in 1..Len(t) : x = t[k] BY <2>1
    <3>2. CASE k = p BY <1>1, <3>1, <3>2
    <3>3. CASE k # p
      <4>1. PICK i \in 1..Len(s) : t[k] = s[i] BY <1>4, <3>3
      <4> QED BY <2>1, <3>1, <4>1
    <3> QED BY <3>2, <3>3
  <2>3. \A x \in ToSet(s) : x \in ToSet(t) BY <1>3, <2>1
  <2>4. e \in ToSet(t) BY <1>1, <2>1
  <2> QED BY <2>2, <2>3, <2>4
<1> QED BY <1>6, <1>7, <1>8, <1>9, <1>10, <1>11, <1>12

\* LPUSH and RPUSH insert what they push.
LEMMA PushInserted ==
  ASSUME NEW s \in Seq(Entry), NEW e \in Entry
  PROVE  /\ <<e>> \o s \in Seq(Entry) /\ Inserted(s, <<e>> \o s, e)
         /\ Append(s, e) \in Seq(Entry) /\ Inserted(s, Append(s, e), e)
<1>1. <<e>> \o s \in Seq(Entry) /\ Len(<<e>> \o s) = Len(s) + 1 OBVIOUS
<1>2. (<<e>> \o s)[1] = e /\ \A i \in 2..Len(s) + 1 : (<<e>> \o s)[i] = s[i - 1]
  OBVIOUS
<1>3. Inserted(s, <<e>> \o s, e)
  <2>1. 1 \in 1..Len(s) + 1 /\ 1..1 - 1 = {} /\ 1 + 1 = 2 OBVIOUS
  <2> QED BY <1>1, <1>2, <2>1 DEF Inserted
<1>4. Append(s, e) \in Seq(Entry) /\ Len(Append(s, e)) = Len(s) + 1
      /\ Append(s, e)[Len(s) + 1] = e /\ \A i \in 1..Len(s) : Append(s, e)[i] = s[i]
  OBVIOUS
<1>5. Inserted(s, Append(s, e), e)
  <2>1. Len(s) + 1 \in 1..Len(s) + 1 /\ (Len(s) + 1) + 1..Len(s) + 1 = {}
        /\ (Len(s) + 1) - 1 = Len(s)
    OBVIOUS
  <2> QED BY <1>4, <2>1 DEF Inserted
<1> QED BY <1>1, <1>3, <1>4, <1>5

\* LPOP and RPOP undo an insertion.
LEMMA PopInserted ==
  ASSUME NEW s \in Seq(Entry), s # <<>>
  PROVE  /\ Inserted(Tail(s), s, Head(s)) /\ Inserted(Front(s), s, Last(s))
<1>1. /\ Len(s) \in Nat \ {0} /\ Tail(s) \in Seq(Entry) /\ Len(Tail(s)) = Len(s) - 1
      /\ Head(s) = s[1] /\ \A i \in 1..Len(s) - 1 : Tail(s)[i] = s[i + 1]
  OBVIOUS
<1>2. Inserted(Tail(s), s, Head(s))
  <2>1. 1 \in 1..Len(s) /\ 1..1 - 1 = {} /\ 1 + 1 = 2 BY <1>1
  <2>2. \A i \in 2..Len(s) : s[i] = Tail(s)[i - 1] 
    <3> TAKE i \in 2..Len(s)
    <3>1. i - 1 \in 1..Len(s) - 1 /\ (i - 1) + 1 = i BY <1>1
    <3> QED BY <1>1, <3>1
  <2> QED BY <1>1, <2>1, <2>2 DEF Inserted
<1>3. /\ Front(s) \in Seq(Entry) /\ Len(Front(s)) = Len(s) - 1
      /\ \A i \in 1..Len(s) - 1 : Front(s)[i] = s[i]
  BY <1>1 DEF Front
<1>4. Inserted(Front(s), s, Last(s))
  <2>1. Len(s) \in 1..Len(s) /\ Len(s) + 1..Len(s) = {} /\ Last(s) = s[Len(s)] BY <1>1 DEF Last
  <2> QED BY <1>1, <1>3, <2>1 DEF Inserted
<1> QED BY <1>2, <1>4

\* LREM of a copy that is there undoes an insertion.
LEMMA RemoveFirstInserted ==
  ASSUME NEW s \in Seq(Entry), NEW e \in ToSet(s)
  PROVE  RemoveFirst(s, e) \in Seq(Entry) /\ Inserted(RemoveFirst(s, e), s, e)
<1> DEFINE I == {i \in 1..Len(s) : s[i] = e}
<1>1. I # {} /\ I \subseteq Nat BY DEF ToSet
<1>2. PICK p \in I : p = Min(I) BY <1>1, NatLeast DEF Min
<1>3. RemoveFirst(s, e) = RemoveAt(s, p)
  BY <1>1, <1>2 DEF RemoveFirst, SelectInSeq
<1>0. p \in Nat /\ p >= 1 /\ p <= Len(s) /\ Len(s) \in Nat /\ s[p] = e BY <1>2
<1>4. PICK a \in Seq(Entry) :
        a = SubSeq(s, 1, p - 1) /\ Len(a) = p - 1 /\ \A i \in 1..p - 1 : a[i] = s[i]
  <2>1. /\ SubSeq(s, 1, p - 1) \in Seq(Entry) /\ Len(SubSeq(s, 1, p - 1)) = p - 1
        /\ \A i \in 1..p - 1 : SubSeq(s, 1, p - 1)[i] = s[i]
    BY <1>0
  <2> QED BY <2>1
<1>5. PICK b \in Seq(Entry) :
        /\ b = SubSeq(s, p + 1, Len(s)) /\ Len(b) = Len(s) - p
        /\ \A i \in 1..Len(s) - p : b[i] = s[i + p]
  <2>1. /\ SubSeq(s, p + 1, Len(s)) \in Seq(Entry)
        /\ Len(SubSeq(s, p + 1, Len(s))) = Len(s) - p
    BY <1>0
  <2>2. \A i \in 1..Len(s) - p : SubSeq(s, p + 1, Len(s))[i] = s[i + p]
    BY <1>0
  <2> QED BY <2>1, <2>2
<1>6. PICK r \in Seq(Entry) :
        /\ r = a \o b /\ Len(r) = Len(s) - 1
        /\ \A i \in 1..p - 1 : r[i] = a[i]
        /\ \A i \in p..Len(s) - 1 : r[i] = b[i - (p - 1)]
  <2>2. a \o b \in Seq(Entry) /\ Len(a \o b) = Len(a) + Len(b) OBVIOUS
  <2>3. \A i \in 1..Len(a) + Len(b) :
          (a \o b)[i] = IF i <= Len(a) THEN a[i] ELSE b[i - Len(a)]
    OBVIOUS
  <2>1. Len(a) = p - 1 /\ Len(b) = Len(s) - p BY <1>4, <1>5
  <2>4. \A i \in 1..p - 1 : (a \o b)[i] = a[i] BY <1>0, <2>1, <2>3
  <2>5. \A i \in p..Len(s) - 1 : (a \o b)[i] = b[i - (p - 1)]
    BY <1>0, <2>1, <2>3
  <2>6. Len(a \o b) = Len(s) - 1 BY <1>0, <2>1, <2>2
  <2> QED BY <2>2, <2>4, <2>5, <2>6
<1>7. ASSUME NEW i \in p + 1..Len(s) PROVE r[i - 1] = s[i]
  <2>1. /\ i - 1 \in p..Len(s) - 1 /\ (i - 1) - (p - 1) = i - p
        /\ i - p \in 1..Len(s) - p /\ (i - p) + p = i
    BY <1>0
  <2> QED BY <1>5, <1>6, <2>1
<1>8. RemoveAt(s, p) = r BY <1>4, <1>5, <1>6 DEF RemoveAt
<1>9. Inserted(r, s, e)
  <2>1. Len(s) = Len(r) + 1 /\ p \in 1..Len(s) /\ s[p] = e BY <1>0, <1>6
  <2>2. \A i \in 1..p - 1 : s[i] = r[i] BY <1>4, <1>6
  <2> QED BY <1>7, <2>1, <2>2 DEF Inserted
<1> QED BY <1>3, <1>6, <1>8, <1>9

\* LREM takes one copy off the list, or leaves the list alone.
LEMMA RemoveFirstType ==
  ASSUME NEW s \in Seq(Entry), NEW e
  PROVE  /\ RemoveFirst(s, e) \in Seq(Entry)
         /\ e \notin ToSet(s) => RemoveFirst(s, e) = s
<1>1. CASE e \in ToSet(s) BY <1>1, RemoveFirstInserted
<1>2. CASE e \notin ToSet(s)
  <2>1. ~\E i \in 1..Len(s) : s[i] = e BY <1>2 DEF ToSet
  <2> QED BY <1>2, <2>1 DEF RemoveFirst
<1> QED BY <1>1, <1>2

\* The LREMs of a batch, one after the other.
LEMMA LremSteps ==
  ASSUME NEW l \in Seq(Entry), NEW b \in Seq(Entry)
  PROVE  /\ lremSteps(l, b) \in [0..Len(b) -> Seq(Entry)]
         /\ lremSteps(l, b)[0] = l
         /\ \A n \in 1..Len(b) :
              lremSteps(l, b)[n] = RemoveFirst(lremSteps(l, b)[n - 1], b[n])
<1> DEFINE N == Len(b)
           G == [p \in (1..N) \X Seq(Entry) |-> RemoveFirst(p[2], b[p[1]])]
           Body(f) == [n \in 0..N |-> IF n = 0 THEN l
                                      ELSE RemoveFirst(f[n - 1], b[n])]
<1>1. N \in Nat OBVIOUS
<1>2. G \in [(1..N) \X Seq(Entry) -> Seq(Entry)] BY RemoveFirstType
<1>3. PICK g \in [0..N -> Seq(Entry)] : Iteration(g, l, N, G)
  <2> HIDE DEF N, G
  <2> QED BY <1>1, <1>2, Iterate
<1>4. \A n \in 1..N : g[n] = RemoveFirst(g[n - 1], b[n])
  <2> TAKE n \in 1..N
  <2>1. n - 1 \in 0..N OBVIOUS
  <2>2. <<n, g[n - 1]>> \in (1..N) \X Seq(Entry) BY <2>1
  <2> QED BY <1>3, <2>2 DEF Iteration
<1>5. g = Body(g) BY <1>3, <1>4 DEF Iteration
<1> DEFINE f == CHOOSE f : f = Body(f)
<1>6. f = Body(f) 
  <2> HIDE DEF Body
  <2> QED BY <1>5
<1>7. lremSteps(l, b) = f BY DEF lremSteps
<1> HIDE DEF f
<1>8. f[0] = l /\ \A n \in 1..N : f[n] = RemoveFirst(f[n - 1], b[n])
  BY <1>1, <1>6
<1>9. DOMAIN f = 0..N /\ f = [n \in 0..N |-> f[n]] BY <1>6
<1> DEFINE T == {n \in Nat : n <= N => f[n] \in Seq(Entry)}
<1>10. 0 \in T BY <1>8
<1>11. ASSUME NEW n \in Nat, n \in T PROVE n + 1 \in T
  <2> SUFFICES ASSUME n + 1 <= N PROVE f[n + 1] \in Seq(Entry) OBVIOUS
  <2>1. f[n] \in Seq(Entry) BY <1>1, <1>11
  <2>2. n + 1 \in 1..N /\ (n + 1) - 1 = n BY <1>1
  <2>3. f[n + 1] = RemoveFirst(f[n], b[n + 1]) BY <1>8, <2>2
  <2> QED BY <2>1, <2>3, RemoveFirstType
<1>12. \A n \in Nat : n \in T
  <2> HIDE DEF T
  <2> QED BY <1>10, <1>11, NatClosed
<1>13. \A n \in 0..N : f[n] \in Seq(Entry) BY <1>1, <1>12
<1>14. f \in [0..N -> Seq(Entry)] BY <1>9, <1>13
<1> QED BY <1>7, <1>8, <1>14

\* An element of a list is in its set.
LEMMA InToSet ==
  ASSUME NEW s \in Seq(Entry), NEW i \in 1..Len(s)
  PROVE  s[i] \in Entry /\ s[i] \in ToSet(s)
BY DEF ToSet

\* Counting an attempt.
LEMMA IncrType ==
  ASSUME NEW e \in Entry
  PROVE  /\ incrAttempts(e) \in Entry /\ incrAttempts(e).id = e.id
         /\ incrAttempts(e).attempts = e.attempts + 1
         /\ e.id \in MessageId /\ Home[e.id] \in Queue
<1>1. e.id \in MessageId /\ e.attempts \in Nat BY DEF Entry
<1>2. incrAttempts(e) = [id |-> e.id, attempts |-> e.attempts + 1]
  BY DEF incrAttempts, Entry
<1> QED BY <1>1, <1>2, StoreAssumption DEF Entry

\* The messages of a batch, which are also in the list it was read from and
\* have ids of their own.
Distinct(b) == \A i, j \in 1..Len(b) : b[i].id = b[j].id => i = j
BatchOf(b, l) == Distinct(b) /\ ToSet(b) \subseteq ToSet(l)

\* What one LREM does.
LEMMA RemoveFirstFacts ==
  ASSUME NEW s \in Seq(Entry), NEW e \in Entry, NEW r, r = RemoveFirst(s, e)
  PROVE  /\ ToSet(r) \subseteq ToSet(s)
         /\ \A m : Once(m, s) => Once(m, r)
         /\ \A m : m # e.id => (Has(m, r) <=> Has(m, s))
         /\ e \in ToSet(s) /\ Once(e.id, s) => ~Has(e.id, r)
         /\ \A x \in ToSet(s) : x.id # e.id => x \in ToSet(r)
<1>1. CASE e \notin ToSet(s)
  <2>1. r = s BY <1>1, RemoveFirstType
  <2> QED BY <1>1, <2>1
<1>2. CASE e \in ToSet(s)
  <2>1. r \in Seq(Entry) /\ Inserted(r, s, e) BY <1>2, RemoveFirstInserted
  <2>2. /\ \A m : m # e.id => (Has(m, s) <=> Has(m, r)) /\ (Once(m, s) <=> Once(m, r))
        /\ Once(e.id, s) <=> ~Has(e.id, r)
        /\ ToSet(s) = ToSet(r) \union {e}
    BY <2>1, InsertedFacts
  <2>3. ~Has(e.id, r) => Once(e.id, r) BY DEF Has, Once
  <2> QED BY <2>2, <2>3
<1> QED BY <1>1, <1>2

\* What the LREMs of a batch do.
LEMMA LremFacts ==
  ASSUME NEW l \in Seq(Entry), NEW b \in Seq(Entry), NEW r, r = lrem(l, b)
  PROVE  /\ r \in Seq(Entry)
         /\ ToSet(r) \subseteq ToSet(l)
         /\ \A m : Once(m, l) => Once(m, r)
         /\ \A m : ~Has(m, b) => (Has(m, r) <=> Has(m, l))
         /\ BatchOf(b, l) /\ (\A m \in MessageId : Once(m, l)) =>
              \A m : Has(m, b) => ~Has(m, r)
<1> DEFINE N == Len(b)
           Whole == BatchOf(b, l) /\ \A m \in MessageId : Once(m, l)
<1>1. PICK f \in [0..N -> Seq(Entry)] :
        /\ f = lremSteps(l, b) /\ f[0] = l
        /\ \A n \in 1..N : f[n] = RemoveFirst(f[n - 1], b[n])
  BY LremSteps
<1>2. N \in Nat /\ r = f[N] BY <1>1 DEF lrem
<1> DEFINE P(n) ==
      /\ ToSet(f[n]) \subseteq ToSet(l)
      /\ \A m : Once(m, l) => Once(m, f[n])
      /\ \A m : ~Has(m, b) => (Has(m, f[n]) <=> Has(m, l))
      /\ Whole => /\ \A i \in 1..n : ~Has(b[i].id, f[n])
                  /\ \A i \in n + 1..N : b[i] \in ToSet(f[n])
<1> DEFINE T == {n \in Nat : n <= N => P(n)}
<1>3. 0 \in T
  <2>1. Whole => \A i \in 1..N : b[i] \in ToSet(l) BY InToSet DEF BatchOf
  <2> QED BY <1>1, <2>1
<1>4. ASSUME NEW n \in Nat, n \in T PROVE n + 1 \in T
  <2> SUFFICES ASSUME n + 1 <= N PROVE P(n + 1) OBVIOUS
  <2>1. P(n) BY <1>2, <1>4
  <2>2. n \in 0..N /\ n + 1 \in 1..N /\ (n + 1) - 1 = n BY <1>2
  <2>3. PICK s \in Seq(Entry) : s = f[n] BY <2>2
  <2>4. PICK e \in Entry : e = b[n + 1] BY <2>2
  <2>5. f[n + 1] = RemoveFirst(s, e) BY <1>1, <2>2, <2>3, <2>4
  <2>6. Has(e.id, b) BY <2>2, <2>4 DEF Has
  <2>7. /\ ToSet(f[n + 1]) \subseteq ToSet(s)
        /\ \A m : Once(m, s) => Once(m, f[n + 1])
        /\ \A m : m # e.id => (Has(m, f[n + 1]) <=> Has(m, s))
        /\ e \in ToSet(s) /\ Once(e.id, s) => ~Has(e.id, f[n + 1])
        /\ \A x \in ToSet(s) : x.id # e.id => x \in ToSet(f[n + 1])
    BY <2>5, RemoveFirstFacts
  <2>8. ASSUME Whole
        PROVE  /\ \A i \in 1..n + 1 : ~Has(b[i].id, f[n + 1])
               /\ \A i \in n + 2..N : b[i] \in ToSet(f[n + 1])
    <3>1. e.id \in MessageId BY DEF Entry
    <3>2. e \in ToSet(s) /\ Once(e.id, s) BY <2>1, <2>2, <2>3, <2>4, <2>8, <3>1
    <3>3. \A i \in 1..N : i # n + 1 => b[i].id # e.id
      BY <2>2, <2>4, <2>8 DEF BatchOf, Distinct
    <3>4. \A i \in 1..n : ~Has(b[i].id, f[n + 1])
      BY <2>1, <2>2, <2>3, <2>7, <2>8, <3>3
    <3>5. ~Has(b[n + 1].id, f[n + 1]) BY <2>4, <2>7, <3>2
    <3>6. \A i \in n + 2..N : b[i] \in ToSet(f[n + 1])
      BY <2>1, <2>2, <2>3, <2>7, <2>8, <3>3
    <3> QED BY <3>4, <3>5, <3>6
  <2>9. (n + 1) + 1 = n + 2 OBVIOUS
  <2>10. \A m : ~Has(m, b) => (Has(m, f[n + 1]) <=> Has(m, l))
    BY <2>1, <2>3, <2>6, <2>7
  <2>11. \A m : Once(m, l) => Once(m, f[n + 1]) BY <2>1, <2>3, <2>7
  <2>12. ToSet(f[n + 1]) \subseteq ToSet(l) BY <2>1, <2>3, <2>7
  <2> QED BY <2>8, <2>9, <2>10, <2>11, <2>12
<1>5. \A n \in Nat : n \in T
  <2> HIDE DEF T
  <2> QED BY <1>3, <1>4, NatClosed
<1>6. P(N) BY <1>2, <1>5
<1>7. r \in Seq(Entry) BY <1>1, <1>2
<1>8. Whole => \A m : Has(m, b) => ~Has(m, r) BY <1>2, <1>6 DEF Has
<1> QED BY <1>2, <1>6, <1>7, <1>8

\* The LPUSHs of a batch, one after the other.
LEMMA LpushSteps ==
  ASSUME NEW b \in Seq(Entry), queue \in [Queue -> Seq(Entry)]
  PROVE  /\ lpushSteps(b) \in [0..Len(b) -> [Queue -> Seq(Entry)]]
         /\ lpushSteps(b)[0] = queue
         /\ \A n \in 1..Len(b) :
              lpushSteps(b)[n] = [lpushSteps(b)[n - 1] EXCEPT
                                    ![Home[b[n].id]] = <<incrAttempts(b[n])>> \o @]
<1> DEFINE N == Len(b)
           D == [Queue -> Seq(Entry)]
           Step(n, q) == [q EXCEPT ![Home[b[n].id]] = <<incrAttempts(b[n])>> \o @]
           G == [p \in (1..N) \X D |-> Step(p[1], p[2])]
           Body(f) == [n \in 0..N |-> IF n = 0 THEN queue ELSE Step(n, f[n - 1])]
<1>1. N \in Nat OBVIOUS
<1>2. ASSUME NEW n \in 1..N, NEW q \in D PROVE Step(n, q) \in D
  <2>1. b[n] \in Entry OBVIOUS
  <2>2. Home[b[n].id] \in Queue /\ incrAttempts(b[n]) \in Entry
    BY <2>1, IncrType
  <2>3. q[Home[b[n].id]] \in Seq(Entry) BY <2>2
  <2>4. <<incrAttempts(b[n])>> \o q[Home[b[n].id]] \in Seq(Entry)
    BY <2>2, <2>3, PushInserted
  <2> QED BY <2>2, <2>4
<1>3. G \in [(1..N) \X D -> D]
  <2> HIDE DEF Step, D, N
  <2> QED BY <1>2
<1>4. PICK g \in [0..N -> D] : Iteration(g, queue, N, G)
  <2> HIDE DEF N, G, D
  <2>1. queue \in D BY DEF D
  <2> QED BY <1>1, <1>3, <2>1, Iterate
<1> HIDE DEF Step, D
<1>5. \A n \in 1..N : g[n] = Step(n, g[n - 1])
  <2> TAKE n \in 1..N
  <2>1. n - 1 \in 0..N OBVIOUS
  <2>2. <<n, g[n - 1]>> \in (1..N) \X D BY <2>1
  <2> QED BY <1>4, <2>2 DEF Iteration
<1>6. g = Body(g) BY <1>4, <1>5 DEF Iteration
<1> DEFINE f == CHOOSE f : f = Body(f)
<1>7. f = Body(f)
  <2> HIDE DEF Body
  <2> QED BY <1>6
<1>8. lpushSteps(b) = f BY DEF lpushSteps, Step
<1> HIDE DEF f
<1>9. f[0] = queue /\ \A n \in 1..N : f[n] = Step(n, f[n - 1])
  BY <1>1, <1>7
<1>10. DOMAIN f = 0..N /\ f = [n \in 0..N |-> f[n]] BY <1>7
<1> DEFINE T == {n \in Nat : n <= N => f[n] \in D}
<1>11. 0 \in T BY <1>9 DEF D
<1>12. ASSUME NEW n \in Nat, n \in T PROVE n + 1 \in T
  <2> SUFFICES ASSUME n + 1 <= N PROVE f[n + 1] \in D OBVIOUS
  <2>1. f[n] \in D BY <1>1, <1>12
  <2>2. n + 1 \in 1..N /\ (n + 1) - 1 = n BY <1>1
  <2>3. f[n + 1] = Step(n + 1, f[n]) BY <1>9, <2>2
  <2> QED BY <1>2, <2>1, <2>2, <2>3
<1>13. \A n \in Nat : n \in T
  <2> HIDE DEF T
  <2> QED BY <1>11, <1>12, NatClosed
<1>14. \A n \in 0..N : f[n] \in D BY <1>1, <1>13
<1>15. f \in [0..N -> D] BY <1>10, <1>14
<1> QED BY <1>8, <1>9, <1>15 DEF Step, D

\* The queues r hold what the queues held and the batch b, counted once more.
Lpushed(b, r) ==
  \A q \in Queue :
    /\ \A e \in ToSet(r[q]) : \/ e \in ToSet(queue[q])
                               \/ \E x \in ToSet(b) : e = incrAttempts(x)
    /\ \A m : Has(m, r[q]) <=> Has(m, queue[q]) \/ (Has(m, b) /\ Home[m] = q)
    /\ Distinct(b) => \A m : Once(m, queue[q]) /\ ~(Has(m, b) /\ Has(m, queue[q]))
                                => Once(m, r[q])

\* What the LPUSHs of a batch do.
LEMMA LpushFacts ==
  ASSUME NEW b \in Seq(Entry), queue \in [Queue -> Seq(Entry)],
         NEW r, r = lpush(b)
  PROVE  r \in [Queue -> Seq(Entry)] /\ Lpushed(b, r)
<1> DEFINE N == Len(b)
           In(m, n) == \E i \in 1..n : b[i].id = m
<1>1. PICK f \in [0..N -> [Queue -> Seq(Entry)]] :
        /\ f = lpushSteps(b) /\ f[0] = queue
        /\ \A n \in 1..N : f[n] = [f[n - 1] EXCEPT
                                  ![Home[b[n].id]] = <<incrAttempts(b[n])>> \o @]
  BY LpushSteps
<1>2. N \in Nat /\ r = f[N] BY <1>1 DEF lpush
<1> DEFINE Pushed(n, q) ==
      /\ \A e \in ToSet(f[n][q]) : \/ e \in ToSet(queue[q])
                                    \/ \E x \in ToSet(b) : e = incrAttempts(x)
      /\ \A m : Has(m, f[n][q]) <=> \/ Has(m, queue[q])
                                    \/ In(m, n) /\ Home[m] = q
      /\ Distinct(b) => \A m : Once(m, queue[q]) /\ ~(Has(m, b) /\ Has(m, queue[q]))
                                  => Once(m, f[n][q])
           T == {n \in Nat : n <= N => \A q \in Queue : Pushed(n, q)}
<1>3. 0 \in T 
  <2>1. \A q \in Queue : Pushed(0, q) BY <1>1
  <2> HIDE DEF Pushed
  <2> QED BY <2>1
<1>4. ASSUME NEW n \in Nat, n \in T PROVE n + 1 \in T
  <2> HIDE DEF Pushed
  <2> SUFFICES ASSUME n + 1 <= N, NEW q \in Queue PROVE Pushed(n + 1, q)
    OBVIOUS
  <2>0. Pushed(n, q) BY <1>2, <1>4
  <2> HIDE DEF T
  <2> USE DEF Pushed
  <2>1. /\ \A e \in ToSet(f[n][q]) : \/ e \in ToSet(queue[q])
                                     \/ \E x \in ToSet(b) : e = incrAttempts(x)
        /\ \A m : Has(m, f[n][q]) <=> Has(m, queue[q]) \/ (In(m, n) /\ Home[m] = q)
        /\ Distinct(b) => \A m : Once(m, queue[q]) /\ ~(Has(m, b) /\ Has(m, queue[q]))
                                   => Once(m, f[n][q])
    BY <2>0
  <2>2. n \in 0..N /\ n + 1 \in 1..N /\ (n + 1) - 1 = n BY <1>2
  <2>3. PICK x \in Entry : x = b[n + 1] BY <2>2
  <2>4. PICK e \in Entry : e = incrAttempts(x) /\ e.id = x.id
    BY <2>3, IncrType
  <2>5. PICK h \in Queue : h = Home[x.id] BY <2>3, IncrType
  <2>6. PICK s \in Seq(Entry) : s = f[n][q] BY <2>2
  <2>7. f[n + 1] = [f[n] EXCEPT ![h] = <<e>> \o @]
    BY <1>1, <2>2, <2>3, <2>4, <2>5
  <2>8. f[n] \in [Queue -> Seq(Entry)] BY <2>2
  <2>9. \A m : In(m, n + 1) <=> In(m, n) \/ m = x.id
    BY <2>2, <2>3
  <2>10. x \in ToSet(b) /\ Has(x.id, b) BY <2>2, <2>3, InToSet DEF Has
  <2>11. CASE q # h
    <3>1. f[n + 1][q] = f[n][q] BY <2>7, <2>8, <2>11
    <3> HIDE DEF In
    <3> QED BY <2>1, <2>5, <2>9, <2>11, <3>1
  <2>12. CASE q = h
    <3>1. PICK t \in Seq(Entry) : t = f[n + 1][q] /\ Inserted(s, t, e)
      <4>1. f[n + 1][q] = <<e>> \o s BY <2>6, <2>7, <2>8, <2>12
      <4> QED BY <4>1, PushInserted
    <3>2. /\ Has(e.id, t)
          /\ \A m : m # e.id => (Has(m, t) <=> Has(m, s)) /\ (Once(m, t) <=> Once(m, s))
          /\ Once(e.id, t) <=> ~Has(e.id, s)
          /\ ToSet(t) = ToSet(s) \union {e}
      BY <3>1, InsertedFacts
    <3>3. \A y \in ToSet(t) : \/ y \in ToSet(queue[q])
                               \/ \E z \in ToSet(b) : y = incrAttempts(z)
      BY <2>1, <2>4, <2>6, <2>10, <3>2
    <3>4. Distinct(b) => ~In(x.id, n)
      BY <2>2, <2>3 DEF Distinct
    <3> HIDE DEF In
    <3>5. \A m : Has(m, t) <=> Has(m, queue[q]) \/ (In(m, n + 1) /\ Home[m] = q)
      BY <2>1, <2>4, <2>5, <2>6, <2>9, <2>12, <3>2
    <3>6. ASSUME Distinct(b), NEW m, Once(m, queue[q]), ~(Has(m, b) /\ Has(m, queue[q]))
          PROVE  Once(m, t)
      <4>1. CASE m # e.id BY <2>1, <2>6, <3>2, <3>6, <4>1
      <4>2. CASE m = e.id
        <5>1. ~Has(m, s) BY <2>1, <2>4, <2>6, <2>10, <3>4, <3>6, <4>2
        <5> QED BY <3>2, <4>2, <5>1
      <4> QED BY <4>1, <4>2
    <3> QED BY <3>1, <3>3, <3>5, <3>6
  <2> QED BY <2>11, <2>12
<1>5. \A n \in Nat : n \in T
  <2> HIDE DEF T
  <2> QED BY <1>3, <1>4, NatClosed
<1>6. \A q \in Queue : Pushed(N, q)
  <2> HIDE DEF Pushed
  <2> QED BY <1>2, <1>5
<1>7. r \in [Queue -> Seq(Entry)] BY <1>1, <1>2
<1>8. \A m : In(m, N) <=> Has(m, b) BY DEF Has
<1> HIDE DEF In
<1> QED BY <1>2, <1>6, <1>7, <1>8 DEF Lpushed

\* A message of a batch has a last copy in it.
LEMMA LastCopy ==
  ASSUME NEW b \in Seq(Entry), NEW m, Has(m, b)
  PROVE  \E i \in 1..Len(b) : b[i].id = m /\ \A j \in i + 1..Len(b) : b[j].id # m
<1> DEFINE T == {k \in Nat : \E i \in 1..Len(b) : b[i].id = m /\ k = Len(b) - i}
<1>1. PICK i \in 1..Len(b) : b[i].id = m BY DEF Has
<1>2. Len(b) \in Nat /\ Len(b) - i \in T BY <1>1
<1>3. PICK x \in T : \A y \in T : x <= y
  <2>1. T # {} /\ T \subseteq Nat BY <1>2
  <2> HIDE DEF T
  <2> QED BY <2>1, NatLeast
<1>4. PICK k \in 1..Len(b) : b[k].id = m /\ x = Len(b) - k BY <1>3
<1>5. ASSUME NEW j \in k + 1..Len(b), b[j].id = m PROVE FALSE
  <2>1. j \in 1..Len(b) /\ Len(b) - j \in Nat BY <1>2
  <2>2. Len(b) - j \in T BY <1>5, <2>1
  <2>3. Len(b) - k <= Len(b) - j BY <1>3, <1>4, <2>2
  <2> QED BY <1>2, <2>1, <2>3
<1> QED BY <1>4, <1>5

\* What the ZADD and HSET of a batch do.
LEMMA ScheduleFacts ==
  ASSUME NEW b \in Seq(Entry), scheduled \subseteq Entry, NEW r, r = schedule(b)
  PROVE  /\ r \subseteq Entry
         /\ \A e \in r : \/ e \in scheduled /\ ~Has(e.id, b)
                         \/ \E x \in ToSet(b) : e = incrAttempts(x)
         /\ \A e \in scheduled : ~Has(e.id, b) => e \in r
         /\ \A m : Has(m, b) => \E e \in r : e.id = m
         /\ \A e, f \in r : e.id = f.id /\ Has(e.id, b) => e = f
<1> DEFINE isLast(i) == \A j \in i + 1..Len(b) : b[j].id # b[i].id
           new == {incrAttempts(b[i]) : i \in {i \in 1..Len(b) : isLast(i)}}
           old == {e \in scheduled : e.id \notin {x.id : x \in ToSet(b)}}
<1>1. r = old \union new BY DEF schedule
<1>2. \A m : Has(m, b) <=> m \in {x.id : x \in ToSet(b)}
  <2>1. \A m : Has(m, b) => m \in {x.id : x \in ToSet(b)} BY InToSet DEF Has
  <2>2. \A m : m \in {x.id : x \in ToSet(b)} => Has(m, b) BY DEF Has, ToSet
  <2> QED BY <2>1, <2>2
<1>3. \A e \in old : e \in scheduled /\ ~Has(e.id, b) BY <1>2
<1>4. ASSUME NEW e \in new
      PROVE  \E i \in 1..Len(b) : /\ isLast(i) /\ e = incrAttempts(b[i])
                                  /\ e \in Entry /\ e.id = b[i].id
                                  /\ b[i] \in ToSet(b)
  BY InToSet, IncrType
<1>5. \A e \in scheduled : ~Has(e.id, b) => e \in old BY <1>2
<1>6. ASSUME NEW m, Has(m, b) PROVE \E e \in new : e.id = m
  <2>1. PICK i \in 1..Len(b) : b[i].id = m /\ \A j \in i + 1..Len(b) : b[j].id # m
    BY <1>6, LastCopy
  <2>2. incrAttempts(b[i]).id = m BY <2>1, InToSet, IncrType
  <2>3. isLast(i) BY <2>1
  <2> QED BY <2>2, <2>3
<1>7. ASSUME NEW e \in r, NEW f \in r, e.id = f.id, Has(e.id, b) PROVE e = f
  <2>1. e \in new /\ f \in new BY <1>1, <1>3, <1>7
  <2>2. PICK i \in 1..Len(b) : isLast(i) /\ e = incrAttempts(b[i]) /\ e.id = b[i].id
    BY <1>4, <2>1
  <2>3. PICK j \in 1..Len(b) : isLast(j) /\ f = incrAttempts(b[j]) /\ f.id = b[j].id
    BY <1>4, <2>1
  <2>4. ~(i < j) /\ ~(j < i) BY <1>7, <2>2, <2>3
  <2>5. i = j BY <2>4
  <2> QED BY <2>2, <2>3, <2>5
<1> HIDE DEF new, old
<1>8. old \subseteq Entry BY <1>3
<1>9. new \subseteq Entry BY <1>4
<1>10. \A e \in r : \/ e \in scheduled /\ ~Has(e.id, b)
                    \/ \E x \in ToSet(b) : e = incrAttempts(x)
  BY <1>1, <1>3, <1>4
<1>11. \A e \in scheduled : ~Has(e.id, b) => e \in r BY <1>1, <1>5
<1>12. \A m : Has(m, b) => \E e \in r : e.id = m BY <1>1, <1>6
<1> QED BY <1>1, <1>7, <1>8, <1>9, <1>10, <1>11, <1>12

-----------------------------------------------------------------------------
(***************************************************************************)
(* The inductive invariant, part by part.                                  *)
(***************************************************************************)

\* No collector is at work on the queue of a consumer that can still fetch.
NoMistake == \A w, c \in Consumer : TakenForDead(w, c) => ~Connected(c)

\* The types of all variables but the history.
StateTypeOK ==
  /\ TypeOK
  /\ GCTypeOK
  /\ RequeueTypeOK
  /\ DelayTypeOK
  /\ workers \subseteq Consumer
  /\ overlapped \in BOOLEAN
  /\ unregistered \subseteq Consumer

\* c has gone through setUpProcessingQueue (or its failure).
Registered(c) ==
  runs[c] # 0 /\ power[c] \notin {"starting", "connected", "beating"}

\* c cannot fetch any more, and never will.
Offline(c) ==
  runs[c] # 0 /\ power[c] \in {"deaf", "down", "crashed"} /\ polls[c] = 0

\* Its processing queue is empty: its message was settled or collected.
Emptied(c) == Offline(c) /\ processing[c] = <<>>

\* A consumer is in its loop, or over and emptied.
Stages == \A c \in Consumer : InLoop(c) \/ Emptied(c)

\* What registration means.
Registration ==
  \A c \in Consumer :
    /\ power[c] \in {"deaf", "down"} => polls[c] = 0
    /\ c \in index => Registered(c)
    /\ c \notin index \union unregistered => polls[c] = 0 /\ processing[c] = <<>>

\* The reason of the move op still holds for what the queue of c has.
Reason(op, c) ==
  \A e \in ToSet(processing[c]) : Justified([op |-> op, entry |-> e])

\* What the collector has learned of c is still true.
CollectorKnows ==
  \A w, c \in Consumer :
    /\ gc[w][c] # "idle" => Registered(c)
    /\ gc[w][c] \notin {"idle", "alive"} => Offline(c)
    /\ gc[w][c] = "destroy" => processing[c] = <<>>
    /\ gc[w][c] \in RetryOp => Reason(gc[w][c], c)

\* The control part of the invariant.
Control == StateTypeOK /\ Stages /\ Registration /\ CollectorKnows

-----------------------------------------------------------------------------
(***************************************************************************)
(* Type correctness.                                                       *)
(***************************************************************************)

\* What a worker has read, and what it reads.
LEMMA LrangeFacts ==
  ASSUME NEW l \in Seq(Entry)
  PROVE  /\ lrange(l) \in Seq(Entry)
         /\ Len(lrange(l)) <= Len(l)
         /\ \A i \in 1..Len(lrange(l)) : lrange(l)[i] = l[i]
<1> DEFINE T == {Len(l), BatchSize}
<1>1. T \subseteq Nat /\ T # {} BY BatchSizeAssumption
<1>2. PICK k \in T : \A y \in T : k <= y
  <2> HIDE DEF T
  <2> QED BY <1>1, NatLeast
<1>3. Min(T) \in T /\ \A y \in T : Min(T) <= y
  <2> HIDE DEF T
  <2> QED BY <1>2 DEF Min
<1>4. PICK n \in Nat : n = Min(T) /\ n <= Len(l) BY <1>1, <1>3
<1>5. lrange(l) = SubSeq(l, 1, n) BY <1>4 DEF lrange
<1>6. n \in Nat /\ n <= Len(l) /\ Len(l) \in Nat BY <1>4
<1>7. SubSeq(l, 1, n) \in Seq(Entry) /\ Len(SubSeq(l, 1, n)) = n BY <1>6
<1>8. \A i \in 1..n : SubSeq(l, 1, n)[i] = l[i] BY <1>6
<1> QED BY <1>5, <1>6, <1>7, <1>8

\* Killing the workers of a consumer leaves their variables well typed.
LEMMA KillType ==
  ASSUME StateTypeOK, NEW c \in Consumer, KillWorkers(c), TypeOK'
  PROVE  StateTypeOK'
<1>1. GCTypeOK' BY DEF KillWorkers, StateTypeOK, GCTypeOK, GCTask
<1>2. RequeueTypeOK' BY DEF KillWorkers, StateTypeOK, RequeueTypeOK
<1>3. DelayTypeOK' BY DEF KillWorkers, StateTypeOK, DelayTypeOK
<1>4. workers' \subseteq Consumer /\ overlapped' \in BOOLEAN /\ unregistered' \subseteq Consumer
  BY DEF KillWorkers, StateTypeOK
<1> QED BY <1>1, <1>2, <1>3, <1>4 DEF StateTypeOK

\* The moves of the workers keep the lists well typed.
LEMMA WorkerType ==
  ASSUME StateTypeOK, NEW w \in Consumer, WorkerStep(w)
  PROVE  StateTypeOK'
<1> USE DEF StateTypeOK, RequeueTypeOK, DelayTypeOK, GCTypeOK
<1>1. CASE GCStep(w)
  <2> USE DEF GCTask, SetTask
  <2>1. UNCHANGED <<consumerVars, requeueBatch, delayVars, poolVars>>
    BY <1>1 DEF GCStep
  <2>2. ASSUME StoreTypeOK', GCTypeOK' PROVE StateTypeOK'
    BY <2>1, <2>2 DEF consumerVars, delayVars, poolVars, TypeOK
  <2>3. CASE GCTick(w)
    BY <2>2, <2>3 DEF GCTick, storeVars, lists, TypeOK, StoreTypeOK
  <2>4. ASSUME NEW c \in Consumer, handleProcessingQueue(w, c) PROVE StateTypeOK'
    BY <2>2, <2>4 DEF handleProcessingQueue, storeVars, lists, TypeOK, StoreTypeOK
  <2>5. ASSUME NEW c \in Consumer, handleOfflineConsumer(w, c) PROVE StateTypeOK'
    <3>1. retry(Head(processing[c]), elapsed) \in RetryOp BY DEF retry, RetryOp
    <3>2. GCTypeOK' BY <2>5, <3>1 DEF handleOfflineConsumer
    <3> QED
      BY <2>2, <2>5, <3>2 DEF handleOfflineConsumer, storeVars, lists, TypeOK, StoreTypeOK
  <2>6. ASSUME NEW c \in Consumer, Collect(w, c) PROVE StateTypeOK'
    <3>1. KeysOf(w, c) \in Queue BY StoreAssumption DEF KeysOf, Queue
    <3>2. StoreTypeOK'
      BY <2>6, <3>1, SettleType DEF Collect, TypeOK
    <3> QED BY <2>2, <2>6, <3>2 DEF Collect
  <2>7. ASSUME NEW c \in Consumer, destroyProcessingQueue(w, c) PROVE StateTypeOK'
    <3>1. <<>> \in Seq(Entry) OBVIOUS
    <3>2. StoreTypeOK'
      BY <2>7, <3>1 DEF destroyProcessingQueue, TypeOK, StoreTypeOK
    <3> QED BY <2>2, <2>7, <3>2 DEF destroyProcessingQueue
  <2> QED BY <1>1, <2>3, <2>4, <2>5, <2>6, <2>7 DEF GCStep
<1>2. CASE RequeueStep(w)
  <2>1. UNCHANGED <<consumerVars, gc, delayVars, poolVars>>
    BY <1>2 DEF RequeueStep
  <2>2. ASSUME StoreTypeOK', RequeueTypeOK' PROVE StateTypeOK'
    BY <2>1, <2>2 DEF consumerVars, delayVars, poolVars, TypeOK
  <2>3. CASE RequeueRead(w)
    <3>1. lrange(requeueList) \in Seq(Entry) BY LrangeFacts DEF TypeOK, StoreTypeOK
    <3> QED BY <2>2, <2>3, <3>1 DEF RequeueRead, storeVars, lists, TypeOK, StoreTypeOK
  <2>4. CASE RequeueExec(w)
    <3>1. /\ lrem(requeueList, requeueBatch[w]) \in Seq(Entry)
          /\ lpush(requeueBatch[w]) \in [Queue -> Seq(Entry)]
      BY LremFacts, LpushFacts DEF TypeOK, StoreTypeOK
    <3>2. StoreTypeOK' BY <2>4, <3>1 DEF RequeueExec, TypeOK, StoreTypeOK
    <3> QED BY <2>2, <2>4, <3>2 DEF RequeueExec
  <2> QED BY <1>2, <2>3, <2>4 DEF RequeueStep
<1>3. CASE DelayStep(w)
  <2>1. UNCHANGED <<consumerVars, gc, requeueBatch, poolVars>>
    BY <1>3 DEF DelayStep
  <2>2. ASSUME StoreTypeOK', DelayTypeOK' PROVE StateTypeOK'
    BY <2>1, <2>2 DEF consumerVars, poolVars, TypeOK
  <2>3. CASE DelayRead(w)
    <3>1. lrange(delayList) \in Seq(Entry) BY LrangeFacts DEF TypeOK, StoreTypeOK
    <3> QED BY <2>2, <2>3, <3>1 DEF DelayRead, storeVars, lists, TypeOK, StoreTypeOK
  <2>4. CASE DelayExec(w)
    <3>1. PICK b \in Seq(Entry) : b = delayBatch[w] OBVIOUS
    <3>2. lrem(delayList, b) \in Seq(Entry) BY LremFacts DEF TypeOK, StoreTypeOK
    <3>3. schedule(b) \subseteq Entry BY ScheduleFacts
    <3>4. StoreTypeOK' BY <2>4, <3>1, <3>2 DEF DelayExec, TypeOK, StoreTypeOK
    <3>5. DelayTypeOK' BY <2>4, <3>1, <3>3 DEF DelayExec
    <3> QED BY <2>2, <3>4, <3>5
  <2> QED BY <1>3, <2>3, <2>4 DEF DelayStep
<1>4. CASE ScheduleStep(w)
  <2>1. UNCHANGED <<consumerVars, gc, requeueBatch, poolVars>>
    BY <1>4 DEF ScheduleStep
  <2>2. ASSUME StoreTypeOK', DelayTypeOK' PROVE StateTypeOK'
    BY <2>1, <2>2 DEF consumerVars, poolVars, TypeOK
  <2>3. CASE fetchIds(w)
    BY <2>2, <2>3 DEF fetchIds, storeVars, lists, TypeOK, StoreTypeOK
  <2>4. CASE fetchMessages(w)
    BY <2>2, <2>4 DEF fetchMessages, storeVars, lists, TypeOK, StoreTypeOK
  <2>5. ASSUME NEW e \in dueBatch[w], enqueue(w, e) PROVE StateTypeOK'
    <3>1. e \in Entry OBVIOUS
    <3>2. Home[e.id] \in Queue BY <3>1, IncrType
    <3>3. Append(queue[Home[e.id]], e) \in Seq(Entry)
      BY <3>1, <3>2 DEF TypeOK, StoreTypeOK
    <3>4. StoreTypeOK' BY <2>5, <3>3 DEF enqueue, TypeOK, StoreTypeOK
    <3>5. DelayTypeOK' BY <2>5 DEF enqueue
    <3> QED BY <2>2, <3>4, <3>5
  <2> QED BY <1>4, <2>3, <2>4, <2>5 DEF ScheduleStep
<1>5. CASE WorkerPanics(w)
  <2>1. TypeOK'
    BY <1>5 DEF WorkerPanics, Dies, TypeOK, StoreTypeOK, Power, storeVars, lists
  <2> QED BY <1>5, <2>1, KillType DEF WorkerPanics
<1> QED BY <1>1, <1>2, <1>3, <1>4, <1>5 DEF WorkerStep

\* The steps of a consumer.
LEMMA ConsumerType ==
  ASSUME StateTypeOK, NEW c \in Consumer, ConsumerStep(c)
  PROVE  StateTypeOK'
<1> USE DEF StateTypeOK, RequeueTypeOK, DelayTypeOK, GCTypeOK
<1>1. CASE (PowerStep(c) \/ LoopStep(c)) /\ UNCHANGED <<workerVars, poolVars>>
  <2>1. TypeOK' BY <1>1, PowerType, LoopType
  <2> QED BY <1>1, <2>1 DEF workerVars, poolVars, delayVars
<1>2. CASE SetUpFails(c)
  BY <1>2 DEF SetUpFails, TypeOK, StoreTypeOK, Power, storeVars, lists, workerVars, delayVars
<1>3. CASE CrashWithWorkers(c)
  <2>1. TypeOK'
    BY <1>3 DEF CrashWithWorkers, Crash, Dies, TypeOK, StoreTypeOK, Power, storeVars, lists
  <2> QED BY <1>3, <2>1, KillType DEF CrashWithWorkers
<1>4. CASE StartWorkers(c)
  BY <1>4 DEF StartWorkers, TypeOK, StoreTypeOK, vars, storeVars, lists, consumerVars,
              workerVars, delayVars
<1>5. CASE tearDownConsumerWorkers(c)
  <2>1. TypeOK'
    BY <1>5 DEF tearDownConsumerWorkers, TypeOK, StoreTypeOK, vars, storeVars, lists,
                consumerVars
  <2> QED BY <1>5, <2>1, KillType DEF tearDownConsumerWorkers
<1>6. CASE HeartbeatExpires(c)
  BY <1>6 DEF HeartbeatExpires, TypeOK, StoreTypeOK, Heartbeat, lists, consumerVars,
              workerVars, delayVars, poolVars
<1> QED BY <1>1, <1>2, <1>3, <1>4, <1>5, <1>6 DEF ConsumerStep, PowerStep

\* Every variable of the system keeps its type.
LEMMA StateNextType == StateTypeOK /\ [SysStep]_stateVars => StateTypeOK'
<1> SUFFICES ASSUME StateTypeOK, [SysStep]_stateVars PROVE StateTypeOK'
  OBVIOUS
<1> USE DEF StateTypeOK, RequeueTypeOK, DelayTypeOK, GCTypeOK
<1>1. ASSUME NEW m \in MessageId, Produce(m) PROVE StateTypeOK'
  <2>1. [id |-> m, attempts |-> 0] \in Entry BY DEF Entry
  <2>2. Home[m] \in Queue BY StoreAssumption
  <2>3. Append(queue[Home[m]], [id |-> m, attempts |-> 0]) \in Seq(Entry)
    BY <2>1, <2>2 DEF TypeOK, StoreTypeOK
  <2>4. StoreTypeOK' BY <1>1, <2>3 DEF Produce, TypeOK, StoreTypeOK
  <2> QED BY <1>1, <2>4 DEF Produce, TypeOK, consumerVars, workerVars, delayVars, poolVars
<1>2. ASSUME NEW m \in MessageId, ClockStep(m) PROVE StateTypeOK'
  <2>1. CASE TTLElapses(m) /\ UNCHANGED <<consumerVars, workerVars, poolVars>>
    BY <2>1 DEF TTLElapses, TypeOK, StoreTypeOK, lists, consumerVars, workerVars,
                delayVars, poolVars
  <2>2. CASE BecomesDue(m) /\ UNCHANGED <<consumerVars, gc, requeueBatch, poolVars>>
    BY <2>2 DEF BecomesDue, TypeOK, StoreTypeOK, storeVars, lists, consumerVars, poolVars
  <2> QED BY <1>2, <2>1, <2>2 DEF ClockStep
<1>3. CASE UNCHANGED stateVars
  BY <1>3 DEF stateVars, vars, storeVars, lists, consumerVars, workerVars, delayVars,
              poolVars, TypeOK, StoreTypeOK
<1>4. workers \subseteq Consumer OBVIOUS
<1> QED BY <1>1, <1>2, <1>3, <1>4, ConsumerType, WorkerType DEF SysStep

\* Without a mistake so far, a step makes none.
LEMMA UnmistakenStep ==
  ASSUME SysTypeOK, [SysNext]_sysVars, mistaken' = {}
  PROVE  mistaken = {} /\ [SysStep]_stateVars /\ [NoMistake']_stateVars
<1>1. CASE SysNext
  <2>1. mistaken' = mistaken \union
          {c \in Consumer : Connected(c)' /\ \E w \in Consumer : TakenForDead(w, c)'}
    BY <1>1 DEF SysNext, Record
  <2>2. mistaken = {} BY <2>1
  <2>3. \A w, c \in Consumer : TakenForDead(w, c)' => ~(Connected(c)') BY <2>1
  <2>4. NoMistake' BY <2>3 DEF NoMistake
  <2> QED BY <1>1, <2>2, <2>4 DEF SysNext
<1>2. CASE UNCHANGED sysVars BY <1>2 DEF sysVars
<1> QED BY <1>1, <1>2

\* The history keeps its type too.
LEMMA SysNextType == SysTypeOK /\ [SysNext]_sysVars => SysTypeOK'
<1> SUFFICES ASSUME SysTypeOK, [SysNext]_sysVars PROVE SysTypeOK'
  OBVIOUS
<1>1. StateTypeOK BY DEF SysTypeOK, StateTypeOK
<1>2. [SysStep]_stateVars BY DEF SysNext, sysVars
<1>3. StateTypeOK' BY <1>1, <1>2, StateNextType
<1>4. CASE UNCHANGED sysVars BY <1>3, <1>4 DEF sysVars, SysTypeOK, StateTypeOK
<1>5. CASE SysNext
  <2>1. mistaken' \subseteq Consumer BY <1>5 DEF SysNext, Record, SysTypeOK
  <2>2. ASSUME NEW c \in Consumer, NEW e \in ToSet(processing[c]) \union ToSet(processing'[c])
        PROVE  e.id \in MessageId
    <3>1. processing[c] \in Seq(Entry) /\ processing'[c] \in Seq(Entry)
      BY <1>1, <1>3 DEF StateTypeOK, TypeOK, StoreTypeOK
    <3>2. e \in Entry BY <3>1 DEF ToSet
    <3> QED BY <3>2 DEF Entry
  <2>3. exposed' = exposed \union
          {e.id : e \in UNION {ToSet(processing[c]) \union ToSet(processing'[c]) :
                                c \in mistaken'}}
    BY <1>5 DEF SysNext, Record
  <2>4. exposed' \subseteq MessageId BY <2>1, <2>2, <2>3 DEF SysTypeOK
  <2> QED BY <1>3, <2>1, <2>4 DEF SysTypeOK, StateTypeOK
<1> QED BY <1>4, <1>5

\* Initially every variable of the system has its type.
LEMMA SysInitType == SysInit => SysTypeOK /\ StateTypeOK
<1> SUFFICES ASSUME SysInit PROVE SysTypeOK /\ StateTypeOK OBVIOUS
<1>1. TypeOK BY InitType DEF SysInit, Init
<1>2. gc \in [Consumer -> [Consumer -> GCTask]]
  BY DEF SysInit, GCInit, GCTask
<1>3. requeueBatch \in [Consumer -> Seq(Entry)] /\ delayBatch \in [Consumer -> Seq(Entry)]
  BY DEF SysInit, RequeueInit, DelayInit
<1> QED BY <1>1, <1>2, <1>3
    DEF SysInit, GCInit, RequeueInit, DelayInit, SysTypeOK, StateTypeOK, GCTypeOK,
        RequeueTypeOK, DelayTypeOK, GCTask

\* Every list, batch and connection of the whole system holds what its type
\* says, whatever the consumers, messages, bounds and races are.
THEOREM SysTypeCorrect == SysSpec => []SysTypeOK
BY SysInitType, SysNextType, PTL DEF SysSpec

-----------------------------------------------------------------------------
(***************************************************************************)
(* What a step does to one consumer: it keeps its stage, and what others   *)
(* have learned of it stays true.                                          *)
(***************************************************************************)
Evolves(c) ==
  /\ (InLoop(c) \/ Emptied(c))'
  /\ Registered(c) => Registered(c)'
  /\ Offline(c) => Offline(c)' /\ ToSet(processing'[c]) \subseteq ToSet(processing[c])
  /\ power'[c] \in {"deaf", "down"} => polls'[c] = 0
  /\ c \in index' => Registered(c)'
  /\ c \notin index' \union unregistered' => polls'[c] = 0 /\ processing'[c] = <<>>

\* What the collector w knows of c.
Knows(w, c) ==
  /\ gc[w][c] # "idle" => Registered(c)
  /\ gc[w][c] \notin {"idle", "alive"} => Offline(c)
  /\ gc[w][c] = "destroy" => processing[c] = <<>>
  /\ gc[w][c] \in RetryOp => Reason(gc[w][c], c)

\* A list is empty when it has no element.
LEMMA EmptyList ==
  /\ ToSet(<<>>) = {}
  /\ \A s \in Seq(Entry) : ToSet(s) = {} => s = <<>>
<1>1. ToSet(<<>>) = {} BY DEF ToSet
<1>2. ASSUME NEW s \in Seq(Entry), s # <<>> PROVE ToSet(s) # {}
  <2>1. 1 \in 1..Len(s) BY <1>2
  <2> QED BY <2>1, InToSet
<1> QED BY <1>1, <1>2

\* A pop leaves a part of the list.
LEMMA PopPart ==
  ASSUME NEW s \in Seq(Entry), NEW t \in {LPopped(s), RPopped(s)}
  PROVE  /\ t \in Seq(Entry) /\ ToSet(t) \subseteq ToSet(s)
         /\ Len(s) <= 1 => t = <<>>
<1>1. CASE s = <<>>
  <2>1. t = s BY <1>1 DEF LPopped, RPopped
  <2> QED BY <1>1, <2>1
<1>2. CASE s # <<>>
  <2>1. t \in {Tail(s), Front(s)} BY <1>2 DEF LPopped, RPopped
  <2>2. PICK x \in Entry : t \in Seq(Entry) /\ Inserted(t, s, x)
    BY <1>2, <2>1, PopInserted, FrontLastType
  <2>3. ToSet(t) \subseteq ToSet(s) BY <2>2, InsertedFacts
  <2>4. Len(s) = Len(t) + 1 BY <2>2 DEF Inserted
  <2>5. Len(s) <= 1 => t = <<>> BY <2>2, <2>4
  <2> QED BY <2>2, <2>3, <2>5
<1> QED BY <1>1, <1>2

\* The system keeps what every consumer keeps.
LEMMA Evolution ==
  ASSUME Control, StateTypeOK', \A c \in Consumer : Evolves(c),
         succeeded \subseteq succeeded', elapsed \subseteq elapsed'
  PROVE  /\ Stages' /\ Registration'
         /\ \A w, c \in Consumer : gc'[w][c] \in {gc[w][c], "idle"} => Knows(w, c)'
<1>1. Stages' /\ Registration' BY DEF Evolves, Stages, Registration
<1>2. ASSUME NEW w \in Consumer, NEW c \in Consumer, gc'[w][c] \in {gc[w][c], "idle"}
      PROVE  Knows(w, c)'
  <2>1. CASE gc'[w][c] = "idle" BY <2>1 DEF Knows, RetryOp
  <2>2. CASE gc'[w][c] = gc[w][c]
    <3>1. Knows(w, c) /\ Evolves(c) BY DEF Control, CollectorKnows, Knows
    <3>2. processing'[c] \in Seq(Entry) /\ processing[c] \in Seq(Entry)
      BY DEF Control, StateTypeOK, TypeOK, StoreTypeOK
    <3>3. CASE gc[w][c] \in {"idle", "alive"}
      BY <2>2, <3>1, <3>3 DEF Knows, Evolves, RetryOp
    <3>4. CASE gc[w][c] \notin {"idle", "alive"}
      <4>1. /\ Offline(c)' /\ Registered(c)'
            /\ ToSet(processing'[c]) \subseteq ToSet(processing[c])
        BY <3>1, <3>4 DEF Knows, Evolves
      <4>2. gc[w][c] = "destroy" => processing'[c] = <<>>
        BY <3>1, <3>2, <4>1, EmptyList DEF Knows
      <4>3. gc[w][c] \in RetryOp => Reason(gc[w][c], c)'
        <5>1. PICK op : op = gc[w][c] /\ op = gc'[w][c] BY <2>2
        <5>2. ASSUME gc[w][c] \in RetryOp, NEW e \in ToSet(processing'[c])
              PROVE  Justified([op |-> op, entry |-> e])'
          <6>1. Justified([op |-> op, entry |-> e])
            BY <3>1, <4>1, <5>1, <5>2 DEF Knows, Reason
          <6> QED BY <6>1, StaysJustified
        <5> QED BY <5>1, <5>2 DEF Reason
      <4> QED BY <2>2, <3>4, <4>1, <4>2, <4>3 DEF Knows
    <3> QED BY <3>3, <3>4
  <2> QED BY <1>2, <2>1, <2>2
<1> QED BY <1>1, <1>2

\* A consumer no step touches.
LEMMA Untouched ==
  ASSUME Control, NEW c \in Consumer,
         polls'[c] = polls[c], inbox'[c] = inbox[c], jobs'[c] = jobs[c],
         cmds'[c] = cmds[c], processing'[c] = processing[c],
         power'[c] = power[c], runs'[c] = runs[c],
         c \in index' <=> c \in index, c \in unregistered' <=> c \in unregistered,
         succeeded \subseteq succeeded', elapsed \subseteq elapsed'
  PROVE  Evolves(c)
<1>1. InLoop(c) => InLoop(c)' BY OtherLoops
<1>2. Emptied(c) => Emptied(c)' BY DEF Emptied, Offline
<1> QED BY <1>1, <1>2 DEF Control, Stages, Registration, Evolves, Registered, Offline

\* What the steps of the loop do to the processing queue and the fetches.
LEMMA LoopEffect ==
  ASSUME TypeOK, NEW c \in Consumer, LoopStep(c)
  PROVE  /\ runs' = runs /\ index' = index
         /\ power' = power \/ (power[c] = "starting" /\ power'[c] = "crashed")
         /\ \/ polls'[c] = polls[c] /\ processing'[c] = processing[c]
            \/ polls[c] > 0 /\ Dequeue(c)
            \/ /\ ExecCmd(c)
               /\ processing'[c] \in {LPopped(processing[c]), RPopped(processing[c])}
<1> USE DEF TypeOK, StoreTypeOK, storeVars, lists
<1>1. CASE Dequeue(c) BY <1>1 DEF Dequeue, dequeue
<1>2. CASE ReceiveExpired(c) BY <1>2 DEF ReceiveExpired
<1>3. CASE Receive(c) BY <1>3 DEF Receive
<1>4. CASE ReceiveThrows(c) BY <1>4 DEF ReceiveThrows
<1>5. CASE JobStep(c)
  BY <1>5 DEF JobStep, HandlerSucceeds, HandlerFails, HandlerIgnored, TimerFires,
              TimerPanics
<1>6. CASE ExecCmd(c)
  BY <1>6 DEF ExecCmd, Settle, acknowledge, deadLetterMessage, delayBeforeRequeue,
              requeue
<1> QED BY <1>1, <1>2, <1>3, <1>4, <1>5, <1>6 DEF LoopStep

\* A step of the loop.
LEMMA LoopEvolves ==
  ASSUME Control, NoStaleTimers, NEW c \in Consumer, LoopStep(c),
         unregistered' = unregistered
  PROVE  Evolves(c)
<1> USE DEF Control, StateTypeOK
<1>0. TypeOK OBVIOUS
<1>1. /\ power[c] \in {"deaf", "down"} => polls[c] = 0
      /\ c \in index => Registered(c)
      /\ c \notin index \union unregistered => polls[c] = 0 /\ processing[c] = <<>>
      /\ InLoop(c) \/ Emptied(c)
      /\ processing[c] \in Seq(Entry) /\ polls[c] \in Nat
  BY <1>0 DEF Registration, Stages, TypeOK, StoreTypeOK
<1> HIDE DEF Control, StateTypeOK
<1>2. runs' = runs /\ index' = index
      /\ (power' = power \/ (power[c] = "starting" /\ power'[c] = "crashed"))
  BY <1>0, LoopEffect
<1>3. power[c] # "starting"
  <2>1. CASE Emptied(c) BY <2>1 DEF Emptied, Offline
  <2>2. CASE InLoop(c)
    <3>1. ~Unused(c)
      BY <1>1 DEF Unused, UnderWay, LoopStep, JobStep, Dequeue, ReceiveExpired,
                  Receive, ReceiveThrows, ExecCmd
    <3> QED BY <2>2, <3>1, UsedPower
  <2> QED BY <1>1, <2>1, <2>2
<1>4. power' = power BY <1>2, <1>3
<1>5. Registered(c) => Registered(c)' BY <1>2, <1>4 DEF Registered
<1>6. CASE polls'[c] = polls[c] /\ processing'[c] = processing[c]
  <2>1. InLoop(c) => InLoop(c)' BY <1>0, LoopLoop
  <2>2. Emptied(c) => Emptied(c)' BY <1>2, <1>4, <1>6 DEF Emptied, Offline
  <2>3. Offline(c) => Offline(c)' BY <1>2, <1>4, <1>6 DEF Offline
  <2> QED BY <1>1, <1>2, <1>4, <1>5, <1>6, <2>1, <2>2, <2>3 DEF Evolves
<1>7. CASE polls[c] > 0 /\ Dequeue(c)
  <2>1. ~Offline(c) /\ ~Emptied(c) BY <1>7 DEF Offline, Emptied
  <2>2. InLoop(c)' BY <1>0, <1>1, <2>1, LoopLoop
  <2>3. power[c] \notin {"deaf", "down"} /\ c \in index \union unregistered
    BY <1>1, <1>7
  <2> QED BY <1>1, <1>2, <1>4, <1>5, <2>1, <2>2, <2>3 DEF Evolves
<1>8. CASE /\ ExecCmd(c)
           /\ processing'[c] \in {LPopped(processing[c]), RPopped(processing[c])}
  <2>1. /\ ToSet(processing'[c]) \subseteq ToSet(processing[c])
        /\ processing[c] = <<>> => processing'[c] = <<>>
    <3>1. Len(<<>>) <= 1 OBVIOUS
    <3> QED BY <1>1, <1>8, <3>1, PopPart
  <2>2. ~isRunning(c) => polls' = polls BY <1>8 DEF ExecCmd
  <2>3. Offline(c) => Offline(c)' BY <1>2, <1>4, <2>2 DEF Offline, isRunning
  <2>4. Emptied(c) => Emptied(c)' BY <2>1, <2>3 DEF Emptied
  <2>5. InLoop(c) => InLoop(c)' BY <1>0, LoopLoop
  <2>6. power'[c] \in {"deaf", "down"} => polls'[c] = 0
    BY <1>1, <1>4, <2>2 DEF isRunning
  <2>7. ASSUME c \notin index' \union unregistered'
        PROVE  polls'[c] = 0 /\ processing'[c] = <<>>
    <3>1. polls[c] = 0 /\ processing[c] = <<>> BY <1>1, <1>2, <2>7
    <3>2. CASE InLoop(c)
      <4>1. cmds[c] # <<>> BY <1>8 DEF ExecCmd
      <4>2. processing[c] = <<Head(cmds[c]).entry>> BY <1>0, <3>2, <4>1, StageFacts
      <4>3. <<Head(cmds[c]).entry>> # <<>> OBVIOUS
      <4> QED BY <3>1, <4>2, <4>3
    <3>3. CASE Emptied(c)
      BY <2>1, <2>2, <3>1, <3>3 DEF Emptied, Offline, isRunning
    <3> QED BY <1>1, <3>2, <3>3
  <2> QED BY <1>1, <1>2, <1>5, <2>1, <2>3, <2>4, <2>5, <2>6, <2>7 DEF Evolves, Registered
<1> QED BY <1>0, <1>6, <1>7, <1>8, LoopEffect

\* Going up, going down, dying.
LEMMA PowerEvolves ==
  ASSUME Control, SingleUse, NEW c \in Consumer, PowerStep(c) \/ Dies(c),
         unregistered' = unregistered
  PROVE  Evolves(c)
<1>0. TypeOK BY DEF Control, StateTypeOK
<1>1. /\ power[c] \in {"deaf", "down"} => polls[c] = 0
      /\ c \in index => Registered(c)
      /\ c \notin index \union unregistered => polls[c] = 0 /\ processing[c] = <<>>
      /\ InLoop(c) \/ Emptied(c)
      /\ polls[c] \in Nat /\ runs[c] \in Nat /\ MaxRuns \in Nat
      /\ power[c] \in Power /\ index \subseteq Consumer
  BY <1>0, ConsumerAssumption DEF Control, Registration, Stages, TypeOK, StoreTypeOK
<1>2. runs[c] = 0 => power[c] = "down" BY <1>1 DEF InLoop, Emptied, Offline
<1>3. InLoop(c) => InLoop(c)' BY <1>0, PowerLoop, DiesLoop
<1>4. processing' = processing
  BY DEF PowerStep, Run, setUpBroker, setUpHeartbeat, setUpProcessingQueue, Beat,
         Shutdown, tearDownHeartbeat, tearDownConsumerRedisClient,
         tearDownSharedRedisClient, Crash, Dies, ConnectionLost, storeVars, lists
<1>5. ASSUME Offline(c) => Offline(c)', Registered(c) => Registered(c)',
             power'[c] \in {"deaf", "down"} => polls'[c] = 0,
             c \in index' => Registered(c)',
             c \notin index' \union unregistered => polls'[c] = 0 /\ processing[c] = <<>>
      PROVE  Evolves(c)
  <2>1. Emptied(c) => Emptied(c)' BY <1>4, <1>5 DEF Emptied
  <2> QED BY <1>1, <1>3, <1>4, <1>5, <2>1 DEF Evolves
<1> USE DEF TypeOK, storeVars, lists, consumerVars, Offline, Registered
<1>6. CASE Run(c) BY <1>0, <1>1, <1>2, <1>5, <1>6 DEF Run, SingleUse
<1>7. CASE setUpBroker(c) BY <1>0, <1>1, <1>2, <1>5, <1>7 DEF setUpBroker
<1>8. CASE setUpHeartbeat(c) BY <1>0, <1>1, <1>2, <1>5, <1>8 DEF setUpHeartbeat
<1>9. CASE setUpProcessingQueue(c)
  BY <1>0, <1>1, <1>2, <1>5, <1>9 DEF setUpProcessingQueue
<1>10. CASE Beat(c) BY <1>0, <1>1, <1>2, <1>5, <1>10 DEF Beat
<1>11. CASE Shutdown(c) BY <1>0, <1>1, <1>2, <1>5, <1>11 DEF Shutdown, isRunning
<1>12. CASE tearDownHeartbeat(c)
  BY <1>0, <1>1, <1>2, <1>5, <1>12 DEF tearDownHeartbeat
<1>13. CASE tearDownConsumerRedisClient(c)
  BY <1>0, <1>1, <1>2, <1>5, <1>13 DEF tearDownConsumerRedisClient
<1>14. CASE tearDownSharedRedisClient(c)
  BY <1>0, <1>1, <1>2, <1>5, <1>14 DEF tearDownSharedRedisClient
<1>15. CASE Dies(c) 
  BY <1>0, <1>1, <1>2, <1>5, <1>15 DEF Dies
<1>16. CASE ConnectionLost(c)
  BY <1>0, <1>1, <1>2, <1>5, <1>16 DEF ConnectionLost
<1> QED
  BY <1>6, <1>7, <1>8, <1>9, <1>10, <1>11, <1>12, <1>13, <1>14, <1>15, <1>16
  DEF PowerStep, Crash

\* Base.run goes up although the registration failed.
LEMMA SetUpFailsEvolves ==
  ASSUME Control, NEW c \in Consumer, SetUpFails(c)
  PROVE  Evolves(c)
<1>0. TypeOK BY DEF Control, StateTypeOK
<1>1. InLoop(c) \/ Emptied(c) BY DEF Control, Stages
<1>2. Unused(c) /\ runs[c] # 0
  BY <1>1 DEF SetUpFails, InLoop, Emptied, Offline
<1>3. /\ power'[c] = "up" /\ polls'[c] = 1 /\ runs' = runs /\ inbox' = inbox
      /\ jobs' = jobs /\ cmds' = cmds /\ processing' = processing
      /\ c \in unregistered'
  BY <1>0, <1>2 DEF SetUpFails, Unused, UnderWay, TypeOK, storeVars, lists
<1>4. Fetching(c)' BY <1>2, <1>3 DEF Unused, Fetching, UnderWay
<1>5. InLoop(c)' BY <1>2, <1>3, <1>4 DEF InLoop
<1>6. ~Offline(c) BY DEF SetUpFails, Offline
<1> QED BY <1>2, <1>3, <1>5, <1>6 DEF Evolves, Registered

\* What the step of c, or its death, leaves alone.
LEMMA OwnFrame ==
  ASSUME TypeOK, NEW c \in Consumer, PowerStep(c) \/ LoopStep(c) \/ Dies(c)
  PROVE  /\ succeeded \subseteq succeeded' /\ elapsed' = elapsed
         /\ index \subseteq index' /\ index' \subseteq index \union {c}
         /\ \A d \in Consumer \ {c} :
              /\ polls'[d] = polls[d] /\ inbox'[d] = inbox[d]
              /\ jobs'[d] = jobs[d] /\ cmds'[d] = cmds[d]
              /\ processing'[d] = processing[d]
              /\ power'[d] = power[d] /\ runs'[d] = runs[d]
<1>1. CASE PowerStep(c) \/ LoopStep(c)
  <2>1. index \subseteq index' /\ index' \subseteq index \union {c}
    <3>1. CASE PowerStep(c)
      BY <3>1 DEF PowerStep, Run, setUpBroker, setUpHeartbeat, setUpProcessingQueue,
                  Beat, Shutdown, tearDownHeartbeat, tearDownConsumerRedisClient,
                  tearDownSharedRedisClient, Crash, Dies, ConnectionLost, storeVars
    <3>2. CASE LoopStep(c) BY <3>2, LoopEffect
    <3> QED BY <1>1, <3>1, <3>2
  <2> QED BY <1>1, <2>1, StepFrame
<1>2. CASE Dies(c)
  BY <1>2 DEF Dies, TypeOK, StoreTypeOK, storeVars, lists
<1> QED BY <1>1, <1>2

\* A step of one consumer moves that consumer only.
LEMMA OwnEvolves ==
  ASSUME Control, SingleUse, NoStaleTimers, NEW c \in Consumer,
         PowerStep(c) \/ LoopStep(c) \/ Dies(c), unregistered' = unregistered
  PROVE  /\ succeeded \subseteq succeeded' /\ elapsed \subseteq elapsed'
         /\ \A d \in Consumer : Evolves(d)
<1>1. TypeOK BY DEF Control, StateTypeOK
<1>2. Evolves(c) BY LoopEvolves, PowerEvolves
<1>3. ASSUME NEW d \in Consumer \ {c} PROVE Evolves(d)
  BY <1>1, OwnFrame, Untouched
<1> QED BY <1>1, <1>2, <1>3, OwnFrame

\* A step that touches no consumer and no processing queue.
LEMMA AllUntouched ==
  ASSUME Control, UNCHANGED <<consumerVars, processing, index, unregistered>>,
         elapsed \subseteq elapsed'
  PROVE  /\ succeeded \subseteq succeeded' /\ elapsed \subseteq elapsed'
         /\ \A d \in Consumer : Evolves(d)
BY Untouched DEF consumerVars

\* The collectors learn nothing, or forget.
LEMMA ControlKept ==
  ASSUME Control, StateTypeOK', \A d \in Consumer : Evolves(d),
         succeeded \subseteq succeeded', elapsed \subseteq elapsed',
         \A w, c \in Consumer : gc'[w][c] \in {gc[w][c], "idle"}
  PROVE  Control'
<1>1. Stages' /\ Registration' /\ \A w, c \in Consumer : Knows(w, c)'
  BY Evolution
<1> QED BY <1>1 DEF Control, CollectorKnows, Knows

\* Collector w learns something of c.
LEMMA ControlLearned ==
  ASSUME Control, StateTypeOK', \A d \in Consumer : Evolves(d),
         succeeded \subseteq succeeded', elapsed \subseteq elapsed',
         NEW w \in Consumer, NEW c \in Consumer, NEW t, SetTask(w, c, t), Knows(w, c)'
  PROVE  Control'
<1>1. Stages' /\ Registration' /\ \A v, d \in Consumer :
        gc'[v][d] \in {gc[v][d], "idle"} => Knows(v, d)'
  BY Evolution
<1>2. \A v, d \in Consumer : <<v, d>> # <<w, c>> => gc'[v][d] = gc[v][d]
  BY DEF SetTask, Control, StateTypeOK, GCTypeOK
<1>3. \A v, d \in Consumer : Knows(v, d)' BY <1>1, <1>2
<1> QED BY <1>1, <1>3 DEF Control, CollectorKnows, Knows

\* Killed workers forget what they have learned.
LEMMA KillForgets ==
  ASSUME StateTypeOK, NEW c \in Consumer, KillWorkers(c)
  PROVE  \A w, d \in Consumer : gc'[w][d] \in {gc[w][d], "idle"}
BY DEF KillWorkers, StateTypeOK, GCTypeOK

\* A registered consumer that cannot fetch is offline.
LEMMA Unconnected ==
  ASSUME Control, NEW c \in Consumer, ~Connected(c), Registered(c)
  PROVE  Offline(c)
<1>1. /\ power[c] \in Power /\ polls[c] \in Nat
      /\ power[c] \in {"deaf", "down"} => polls[c] = 0
  BY DEF Control, StateTypeOK, TypeOK, Registration
<1> QED BY <1>1 DEF Connected, Offline, Registered, Power

\* The collector.
LEMMA CollectorControl ==
  ASSUME Control, NoMistake', StateTypeOK', NEW w \in Consumer, GCStep(w)
  PROVE  Control'
<1>0. /\ StateTypeOK /\ TypeOK /\ StoreTypeOK /\ gc \in [Consumer -> [Consumer -> GCTask]]
      /\ \A v, c \in Consumer : Knows(v, c)
  BY DEF Control, StateTypeOK, TypeOK, GCTypeOK, CollectorKnows, Knows
<1>1. UNCHANGED <<consumerVars, poolVars>> BY DEF GCStep
<1>2. UNCHANGED <<power, polls, inbox, jobs, cmds, runs, succeeded, unregistered>>
  BY <1>1 DEF consumerVars, poolVars
<1>3. ASSUME UNCHANGED storeVars
      PROVE  /\ succeeded \subseteq succeeded' /\ elapsed \subseteq elapsed'
             /\ \A d \in Consumer : Evolves(d)
             /\ processing' = processing /\ elapsed' = elapsed
  BY <1>1, <1>3, AllUntouched DEF storeVars, lists, poolVars
<1>4. CASE GCTick(w)
  <2>1. \A v, c \in Consumer : gc'[v][c] \in {gc[v][c], "idle"} \/ (c \in index /\ gc'[v][c] = "alive")
    BY <1>0, <1>4 DEF GCTick
  <2>2. /\ succeeded \subseteq succeeded' /\ elapsed \subseteq elapsed'
        /\ \A d \in Consumer : Evolves(d)
    BY <1>3, <1>4 DEF GCTick
  <2>3. Stages' /\ Registration' /\ \A v, c \in Consumer :
          gc'[v][c] \in {gc[v][c], "idle"} => Knows(v, c)'
    BY <2>2, Evolution
  <2>4. ASSUME NEW v \in Consumer, NEW c \in Consumer, c \in index, gc'[v][c] = "alive"
        PROVE  Knows(v, c)'
    <3>1. Registered(c)' BY <1>2, <2>4 DEF Control, Registration, Registered
    <3> QED BY <2>4, <3>1 DEF Knows, RetryOp
  <2>5. \A v, c \in Consumer : Knows(v, c)' BY <2>1, <2>3, <2>4
  <2> QED BY <2>3, <2>5 DEF Control, CollectorKnows, Knows
<1>5. ASSUME NEW c \in Consumer, handleProcessingQueue(w, c)
      PROVE  Control'
  <2>1. /\ succeeded \subseteq succeeded' /\ elapsed \subseteq elapsed'
        /\ \A d \in Consumer : Evolves(d)
    BY <1>3, <1>5 DEF handleProcessingQueue
  <2>2. Registered(c) BY <1>0, <1>5 DEF handleProcessingQueue, Knows
  <2>3. CASE isAlive(w, c)
    <3>1. SetTask(w, c, "idle") BY <1>5, <2>3 DEF handleProcessingQueue
    <3>2. \A v, d \in Consumer : gc'[v][d] \in {gc[v][d], "idle"}
      BY <1>0, <3>1 DEF SetTask
    <3> QED BY <2>1, <3>2, ControlKept
  <2>4. CASE ~isAlive(w, c)
    <3>1. SetTask(w, c, "inspect") BY <1>5, <2>4 DEF handleProcessingQueue
    <3>2. gc'[w][c] = "inspect" BY <1>0, <3>1 DEF SetTask
    <3>3. Offline(c)
      <4>1. ~(Connected(c)') BY <3>2 DEF NoMistake, TakenForDead
      <4>2. ~Connected(c) BY <1>2, <4>1 DEF Connected
      <4> QED BY <2>2, <4>2, Unconnected
    <3>4. Offline(c)' /\ Registered(c)' BY <1>2, <2>2, <3>3 DEF Offline, Registered
    <3>5. Knows(w, c)' BY <3>2, <3>4 DEF Knows, RetryOp
    <3> QED BY <2>1, <3>1, <3>5, ControlLearned
  <2> QED BY <2>3, <2>4
<1>6. ASSUME NEW c \in Consumer, handleOfflineConsumer(w, c)
      PROVE  Control'
  <2>1. /\ succeeded \subseteq succeeded' /\ elapsed \subseteq elapsed'
        /\ \A d \in Consumer : Evolves(d)
        /\ processing' = processing /\ elapsed' = elapsed
    BY <1>3, <1>6 DEF handleOfflineConsumer
  <2>2. Registered(c) /\ Offline(c) BY <1>0, <1>6 DEF handleOfflineConsumer, Knows
  <2>3. Offline(c)' /\ Registered(c)' BY <1>2, <2>2 DEF Offline, Registered
  <2>4. CASE processing[c] = <<>>
    <3>1. SetTask(w, c, "destroy") BY <1>6, <2>4 DEF handleOfflineConsumer
    <3>2. gc'[w][c] = "destroy" BY <1>0, <3>1 DEF SetTask
    <3>3. Knows(w, c)' BY <2>1, <2>3, <2>4, <3>2 DEF Knows, RetryOp
    <3> QED BY <2>1, <3>1, <3>3, ControlLearned
  <2>5. CASE processing[c] # <<>>
    <3>1. PICK e \in Entry : e = Head(processing[c])
      BY <1>0, <2>5, FrontLastType DEF StoreTypeOK
    <3>2. PICK op \in RetryOp : op = retry(e, elapsed)
      BY DEF retry, RetryOp
    <3>3. SetTask(w, c, op) BY <1>6, <2>5, <3>1, <3>2 DEF handleOfflineConsumer
    <3>4. gc'[w][c] = op BY <1>0, <3>3 DEF SetTask
    <3>5. Justified([op |-> op, entry |-> e])
      BY <3>2, RetryJustified
    <3>6. Justified([op |-> op, entry |-> e])' BY <2>1, <3>5, StaysJustified
    <3>7. ToSet(processing[c]) = {e}
      <4>1. Len(processing[c]) <= 1
        BY <1>0, <2>5, StageFacts DEF Control, Stages, Emptied
      <4>2. processing[c] \in Seq(Entry) BY <1>0 DEF StoreTypeOK
      <4>3. processing[c] = <<e>> BY <2>5, <3>1, <4>1, <4>2
      <4> QED BY <4>3, Singleton
    <3>8. Reason(op, c)' BY <2>1, <3>6, <3>7 DEF Reason
    <3>9. Knows(w, c)' BY <2>3, <3>2, <3>4, <3>8 DEF Knows, RetryOp
    <3> QED BY <2>1, <3>3, <3>9, ControlLearned
  <2> QED BY <2>4, <2>5
\* The queue of c loses its message.
<1>7. ASSUME NEW c \in Consumer, NEW t \in {"destroy", "idle"}, Offline(c), Registered(c),
             SetTask(w, c, t), processing' = [processing EXCEPT ![c] = <<>>],
             index' \in {index, index \ {c}}, elapsed' = elapsed
      PROVE  Control'
  <2>1. Offline(c)' /\ Registered(c)' /\ processing'[c] = <<>> /\ polls'[c] = 0
    BY <1>0, <1>2, <1>7 DEF Offline, Registered, StoreTypeOK
  <2>2. Evolves(c)
    <3>1. Emptied(c)' BY <2>1 DEF Emptied
    <3>2. ToSet(processing'[c]) = {} BY <2>1, EmptyList
    <3> QED BY <2>1, <3>1, <3>2 DEF Evolves
  <2>3. ASSUME NEW d \in Consumer \ {c} PROVE Evolves(d)
    <3>1. processing'[d] = processing[d] /\ (d \in index' <=> d \in index)
      BY <1>0, <1>7, <2>3 DEF StoreTypeOK
    <3> QED BY <1>2, <1>7, <3>1, Untouched
  <2>4. gc'[w][c] = t BY <1>0, <1>7 DEF SetTask
  <2>5. Knows(w, c)' BY <2>1, <2>4, <1>7 DEF Knows, RetryOp
  <2> QED BY <1>2, <1>7, <2>2, <2>3, <2>5, ControlLearned
<1>8. ASSUME NEW c \in Consumer, Collect(w, c) PROVE Control'
  <2>1. Registered(c) /\ Offline(c) BY <1>0, <1>8 DEF Collect, Knows, RetryOp
  <2>2. processing[c] \in Seq(Entry) BY <1>0 DEF StoreTypeOK
  <2>3. Len(processing[c]) <= 1
    <3>1. CASE Emptied(c) BY <3>1 DEF Emptied
    <3>2. CASE InLoop(c) BY <1>0, <3>2, StageFacts
    <3> QED BY <3>1, <3>2 DEF Control, Stages
  <2>4. LPopped(processing[c]) = <<>> /\ RPopped(processing[c]) = <<>>
    BY <2>2, <2>3, PopPart
  <2>5. processing' = [processing EXCEPT ![c] = <<>>]
    BY <1>8, <2>4
    DEF Collect, Settle, acknowledge, deadLetterMessage, delayBeforeRequeue, requeue
  <2> QED BY <1>7, <1>8, <2>1, <2>5 DEF Collect
<1>9. ASSUME NEW c \in Consumer, destroyProcessingQueue(w, c) PROVE Control'
  <2>1. Registered(c) /\ Offline(c) BY <1>0, <1>9 DEF destroyProcessingQueue, Knows
  <2> QED BY <1>7, <1>9, <2>1 DEF destroyProcessingQueue
<1> QED BY <1>4, <1>5, <1>6, <1>8, <1>9 DEF GCStep

\* Every step keeps the control part of the invariant.
LEMMA ControlNext ==
  ASSUME SingleUse, NoStaleTimers, Control, [SysStep]_stateVars, [NoMistake']_stateVars
  PROVE  Control'
<1>0. StateTypeOK /\ StateTypeOK' /\ workers \subseteq Consumer
  BY StateNextType DEF Control, StateTypeOK
<1>1. ASSUME UNCHANGED <<consumerVars, processing, index, unregistered>>,
             elapsed \subseteq elapsed',
             \A w, c \in Consumer : gc'[w][c] \in {gc[w][c], "idle"}
      PROVE  Control'
  BY <1>0, <1>1, AllUntouched, ControlKept
<1>2. ASSUME NEW m \in MessageId, Produce(m) \/ ClockStep(m) PROVE Control'
  BY <1>1, <1>2 DEF Produce, ClockStep, TTLElapses, BecomesDue, workerVars, poolVars,
                    storeVars, lists
<1>3. ASSUME NEW c \in Consumer, ConsumerStep(c) PROVE Control'
  <2>1. CASE (PowerStep(c) \/ LoopStep(c)) /\ UNCHANGED <<workerVars, poolVars>>
    <3>1. gc' = gc /\ unregistered' = unregistered BY <2>1 DEF workerVars, poolVars
    <3> QED BY <1>0, <2>1, <3>1, OwnEvolves, ControlKept
  <2>2. CASE SetUpFails(c)
    <3>1. /\ gc' = gc /\ succeeded' = succeeded /\ elapsed' = elapsed
      BY <2>2 DEF SetUpFails, workerVars, storeVars
    <3>2. ASSUME NEW d \in Consumer \ {c} PROVE Evolves(d)
      BY <1>0, <2>2, Untouched
      DEF SetUpFails, StateTypeOK, TypeOK, storeVars, lists
    <3> QED BY <1>0, <2>2, <3>1, <3>2, SetUpFailsEvolves, ControlKept
  <2>3. CASE CrashWithWorkers(c)
    <3>1. Dies(c) /\ KillWorkers(c) /\ unregistered' = unregistered
      BY <2>3 DEF CrashWithWorkers, Crash, KillWorkers
    <3> QED BY <1>0, <3>1, KillForgets, OwnEvolves, ControlKept
  <2>4. CASE StartWorkers(c)
    BY <1>1, <2>4 DEF StartWorkers, vars, workerVars, storeVars, lists
  <2>5. CASE tearDownConsumerWorkers(c)
    <3>1. \A w, d \in Consumer : gc'[w][d] \in {gc[w][d], "idle"}
      BY <1>0, <2>5, KillForgets DEF tearDownConsumerWorkers
    <3> QED BY <1>1, <2>5, <3>1
            DEF tearDownConsumerWorkers, KillWorkers, vars, storeVars, lists
  <2>6. CASE HeartbeatExpires(c)
    BY <1>1, <2>6 DEF HeartbeatExpires, workerVars, poolVars, lists
  <2> QED BY <1>3, <2>1, <2>2, <2>3, <2>4, <2>5, <2>6 DEF ConsumerStep, PowerStep
<1>4. CASE UNCHANGED stateVars
  BY <1>1, <1>4 DEF stateVars, vars, storeVars, lists, workerVars, poolVars
<1>5. ASSUME NEW w \in Consumer, WorkerStep(w), NoMistake' PROVE Control'
  <2>1. CASE GCStep(w) BY <1>0, <1>5, <2>1, CollectorControl
  <2>2. CASE RequeueStep(w)
    BY <1>1, <2>2 DEF RequeueStep, RequeueRead, RequeueExec, storeVars, lists, poolVars
  <2>3. CASE DelayStep(w)
    BY <1>1, <2>3 DEF DelayStep, DelayRead, DelayExec, storeVars, lists, poolVars
  <2>4. CASE ScheduleStep(w)
    BY <1>1, <2>4 DEF ScheduleStep, fetchIds, fetchMessages, enqueue, storeVars, lists,
                      poolVars
  <2>5. CASE WorkerPanics(w)
    <3>1. Dies(w) /\ KillWorkers(w) /\ unregistered' = unregistered
      BY <2>5 DEF WorkerPanics, KillWorkers
    <3> QED BY <1>0, <3>1, KillForgets, OwnEvolves, ControlKept
  <2> QED BY <1>5, <2>1, <2>2, <2>3, <2>4, <2>5 DEF WorkerStep
<1> QED BY <1>0, <1>2, <1>3, <1>4, <1>5 DEF SysStep

\* Initially nobody is registered but the consumers that are up.
LEMMA ControlInit == SysInit => Control
<1> SUFFICES ASSUME SysInit PROVE Control OBVIOUS
<1>1. StateTypeOK BY SysInitType
<1>2. IndInv BY InitIndInv DEF SysInit, Init
<1>3. Stages BY <1>2 DEF IndInv, LoopInvariant, Stages
<1>4. Registration
  BY DEF SysInit, StoreInit, ConsumerInit, Registration, Registered
<1>5. CollectorKnows BY DEF SysInit, GCInit, CollectorKnows, RetryOp
<1> QED BY <1>1, <1>3, <1>4, <1>5 DEF Control

\* The control part of the invariant, until a connected consumer is taken for
\* dead.
THEOREM ControlHolds ==
  ASSUME SingleUse, NoStaleTimers
  PROVE  SysSpec => [](mistaken = {} => Control)
<1>1. SysTypeOK /\ (mistaken = {} => Control) /\ [SysNext]_sysVars
        => (mistaken = {} => Control)'
  BY UnmistakenStep, ControlNext
<1> QED BY <1>1, ControlInit, SysTypeCorrect, PTL DEF SysSpec

\* Every message in the processing queue of a consumer whose registration
\* did not fail is in a queue the collector knows of, until a collector takes a
\* consumer for dead that can still fetch.
THEOREM RecoveryFindsAll ==
  ASSUME SingleUse, NoStaleTimers
  PROVE  SysSpec => []Recoverable
<1>1. (mistaken = {} => Control) => Recoverable
  BY DEF Control, Registration, Recoverable, Findable
<1> QED BY <1>1, ControlHolds, PTL

-----------------------------------------------------------------------------
(***************************************************************************)
(* What a step does to the messages.                                       *)
(***************************************************************************)
\* Neither the schedule nor what the workers have read changes.
Still == UNCHANGED <<scheduled, requeueBatch, delayBatch, dueBatch, workers, overlapped>>

\* No list changes.
Quiet == UNCHANGED <<lists, published>> /\ Still

\* Workers die, the lists stay.
Kills(c) == KillWorkers(c) /\ UNCHANGED <<lists, published>>

\* c fetches a message.
Fetches(c) == dequeue(c) /\ published' = published /\ Still

\* The end of the processing queue of c moves, for a reason.
Moves(op, c, q) == Settle(op, c, q) /\ Reason(op, c) /\ published' = published /\ Still

\* Every step is one of these.
LEMMA SysCases ==
  ASSUME Control, [SysStep]_stateVars
  PROVE  /\ succeeded \subseteq succeeded' /\ elapsed \subseteq elapsed'
         /\ \/ Quiet
            \/ \E c \in Consumer : Kills(c) \/ StartWorkers(c) \/ Fetches(c)
            \/ \E c \in Consumer : \E op \in Op : \E q \in Queue : Moves(op, c, q)
            \/ \E m \in MessageId : Produce(m)
            \/ \E w \in workers : RequeueStep(w) \/ DelayStep(w) \/ ScheduleStep(w)
<1>0. /\ StateTypeOK /\ TypeOK /\ StoreTypeOK /\ workers \subseteq Consumer
      /\ \A v, c \in Consumer : Knows(v, c)
  BY DEF Control, StateTypeOK, TypeOK, CollectorKnows, Knows
<1>1. ASSUME NEW m \in MessageId, ClockStep(m)
      PROVE  Quiet /\ succeeded \subseteq succeeded' /\ elapsed \subseteq elapsed'
  <2>1. CASE TTLElapses(m) /\ UNCHANGED <<consumerVars, workerVars, poolVars>>
    BY <2>1 DEF TTLElapses, consumerVars, workerVars, delayVars, poolVars, Quiet, Still
  <2>2. CASE BecomesDue(m) /\ UNCHANGED <<consumerVars, gc, requeueBatch, poolVars>>
    BY <2>2 DEF BecomesDue, consumerVars, poolVars, storeVars, Quiet, Still
  <2> QED BY <1>1, <2>1, <2>2 DEF ClockStep
<1>2. ASSUME NEW m \in MessageId, Produce(m)
      PROVE  succeeded \subseteq succeeded' /\ elapsed \subseteq elapsed'
  BY <1>2 DEF Produce, consumerVars
<1>3. ASSUME NEW c \in Consumer, PowerStep(c) \/ LoopStep(c), UNCHANGED <<workerVars, poolVars>>
      PROVE  /\ succeeded \subseteq succeeded' /\ elapsed \subseteq elapsed'
             /\ \/ Quiet \/ Fetches(c)
                \/ \E op \in Op : \E q \in Queue : Moves(op, c, q)
  <2>1. succeeded \subseteq succeeded' /\ elapsed \subseteq elapsed' BY <1>0, <1>3, OwnFrame
  <2>2. Still BY <1>3 DEF workerVars, poolVars, delayVars, Still
  <2>3. CASE PowerStep(c)
    <3>1. UNCHANGED <<lists, published>>
      BY <2>3 DEF PowerStep, Run, setUpBroker, setUpHeartbeat, setUpProcessingQueue,
                  Beat, Shutdown, tearDownHeartbeat, tearDownConsumerRedisClient,
                  tearDownSharedRedisClient, Crash, Dies, ConnectionLost, storeVars
    <3> QED BY <2>1, <2>2, <3>1 DEF Quiet
  <2>4. CASE Dequeue(c) BY <2>1, <2>2, <2>4 DEF Dequeue, Fetches
  <2>5. CASE ReceiveExpired(c) \/ Receive(c) \/ ReceiveThrows(c) \/ JobStep(c)
    <3>1. UNCHANGED <<lists, published>>
      BY <2>5 DEF ReceiveExpired, Receive, ReceiveThrows, JobStep, HandlerSucceeds,
                  HandlerFails, HandlerIgnored, TimerFires, TimerPanics, storeVars
    <3> QED BY <2>1, <2>2, <3>1 DEF Quiet
  <2>6. CASE ExecCmd(c)
    <3>1. PICK k \in Cmd : k = Head(cmds[c])
      BY <1>0, <2>6, FrontLastType DEF ExecCmd, TypeOK
    <3>2. k.op \in Op /\ k.entry \in Entry BY DEF Cmd
    <3>3. QueueOf[c] \in Queue BY StoreAssumption
    <3>4. Reason(k.op, c)
      <4>1. CASE InLoop(c)
        <5>1. Settling(c)
          BY <2>6, <4>1 DEF ExecCmd, InLoop, Fetching, Delivering, Consuming, Ended,
                            UnderWay
        <5>2. PICK x \in Cmd : /\ cmds[c] = <<x>> /\ processing[c] = <<x.entry>>
                               /\ Justified(x)
          <6>1. cmds[c] \in Seq(Cmd) BY <1>0 DEF TypeOK
          <6> QED BY <5>1, <6>1 DEF Settling, UnderWay, ToSet
        <5>3. x = k BY <3>1, <5>2, Singleton
        <5>4. ToSet(processing[c]) = {k.entry} BY <3>2, <5>2, <5>3, Singleton
        <5>5. Justified([op |-> k.op, entry |-> k.entry]) BY <5>2, <5>3 DEF Justified
        <5> QED BY <5>4, <5>5 DEF Reason
      <4>2. CASE Emptied(c)
        <5>1. ToSet(processing[c]) = {} BY <4>2, EmptyList DEF Emptied
        <5> QED BY <5>1 DEF Reason
      <4> QED BY <4>1, <4>2 DEF Control, Stages
    <3>5. Moves(k.op, c, QueueOf[c])
      BY <2>2, <2>6, <3>1, <3>4 DEF ExecCmd, Moves
    <3> QED BY <2>1, <3>2, <3>3, <3>5
  <2> QED BY <1>3, <2>3, <2>4, <2>5, <2>6 DEF LoopStep
<1>4. ASSUME NEW c \in Consumer, Dies(c), KillWorkers(c)
      PROVE  succeeded \subseteq succeeded' /\ elapsed \subseteq elapsed' /\ Kills(c)
  BY <1>4 DEF Dies, storeVars, Kills
<1>5. ASSUME NEW c \in Consumer, ConsumerStep(c)
      PROVE  /\ succeeded \subseteq succeeded' /\ elapsed \subseteq elapsed'
             /\ \/ Quiet \/ Kills(c) \/ StartWorkers(c) \/ Fetches(c)
                \/ \E op \in Op : \E q \in Queue : Moves(op, c, q)
  <2>1. CASE (PowerStep(c) \/ LoopStep(c)) /\ UNCHANGED <<workerVars, poolVars>>
    BY <1>3, <2>1
  <2>2. CASE SetUpFails(c)
    BY <2>2 DEF SetUpFails, storeVars, workerVars, delayVars, Quiet, Still
  <2>3. CASE CrashWithWorkers(c) BY <1>4, <2>3 DEF CrashWithWorkers, Crash
  <2>4. CASE StartWorkers(c)
    BY <2>4 DEF StartWorkers, vars, storeVars, consumerVars
  <2>5. CASE tearDownConsumerWorkers(c)
    BY <2>5 DEF tearDownConsumerWorkers, vars, storeVars, consumerVars, Kills
  <2>6. CASE HeartbeatExpires(c)
    BY <2>6 DEF HeartbeatExpires, consumerVars, workerVars, delayVars, poolVars, Quiet,
                Still
  <2> QED BY <1>5, <2>1, <2>2, <2>3, <2>4, <2>5, <2>6 DEF ConsumerStep, PowerStep
<1>6. ASSUME NEW w \in workers, GCStep(w)
      PROVE  /\ succeeded \subseteq succeeded' /\ elapsed \subseteq elapsed'
             /\ \/ Quiet
                \/ \E c \in Consumer : \E op \in Op : \E q \in Queue : Moves(op, c, q)
  <2>1. w \in Consumer /\ Still /\ succeeded' = succeeded
    BY <1>0, <1>6 DEF GCStep, consumerVars, delayVars, poolVars, Still
  <2>2. ASSUME UNCHANGED storeVars PROVE Quiet /\ elapsed' = elapsed
    BY <2>1, <2>2 DEF storeVars, Quiet
  <2>3. CASE GCTick(w) BY <2>1, <2>2, <2>3 DEF GCTick
  <2>4. ASSUME NEW c \in Consumer, handleProcessingQueue(w, c) \/ handleOfflineConsumer(w, c)
        PROVE  Quiet /\ elapsed' = elapsed
    BY <2>2, <2>4 DEF handleProcessingQueue, handleOfflineConsumer
  <2>5. ASSUME NEW c \in Consumer, Collect(w, c)
        PROVE  /\ elapsed' = elapsed
               /\ \E op \in Op : \E q \in Queue : Moves(op, c, q)
    <3>1. gc[w][c] \in Op /\ Reason(gc[w][c], c)
      BY <1>0, <2>1, <2>5 DEF Collect, Op, Knows
    <3>2. KeysOf(w, c) \in Queue BY <2>1, StoreAssumption DEF KeysOf, Queue
    <3>3. Moves(gc[w][c], c, KeysOf(w, c)) BY <2>1, <2>5, <3>1 DEF Collect, Moves
    <3> QED BY <2>5, <3>1, <3>2, <3>3 DEF Collect
  <2>6. ASSUME NEW c \in Consumer, destroyProcessingQueue(w, c)
        PROVE  Quiet /\ elapsed' = elapsed
    <3>1. processing[c] = <<>> BY <1>0, <2>1, <2>6 DEF destroyProcessingQueue, Knows
    <3>2. processing' = processing
      BY <1>0, <2>6, <3>1 DEF destroyProcessingQueue, StoreTypeOK
    <3> QED BY <2>1, <2>6, <3>2 DEF destroyProcessingQueue, Quiet, lists
  <2> QED BY <1>6, <2>1, <2>3, <2>4, <2>5, <2>6 DEF GCStep
<1>7. ASSUME NEW w \in workers, RequeueStep(w) \/ DelayStep(w) \/ ScheduleStep(w)
      PROVE  succeeded \subseteq succeeded' /\ elapsed \subseteq elapsed'
  BY <1>7 DEF RequeueStep, RequeueRead, RequeueExec, DelayStep, DelayRead, DelayExec,
              ScheduleStep, fetchIds, fetchMessages, enqueue, storeVars, consumerVars
<1>8. CASE UNCHANGED stateVars
  BY <1>8 DEF stateVars, vars, storeVars, consumerVars, workerVars, delayVars, poolVars,
              Quiet, Still
<1>9. ASSUME NEW w \in workers, WorkerPanics(w)
      PROVE  succeeded \subseteq succeeded' /\ elapsed \subseteq elapsed' /\ Kills(w)
  BY <1>0, <1>4, <1>9 DEF WorkerPanics
<1>10. CASE \E m \in MessageId : Produce(m) \/ ClockStep(m) BY <1>1, <1>2, <1>10
<1>11. CASE \E c \in Consumer : ConsumerStep(c) BY <1>5, <1>11
<1>12. CASE \E w \in workers : WorkerStep(w)
  BY <1>0, <1>6, <1>7, <1>9, <1>12 DEF WorkerStep
<1> QED BY <1>8, <1>10, <1>11, <1>12 DEF SysStep

-----------------------------------------------------------------------------
(***************************************************************************)
(* The lists of Redis, by name.                                            *)
(***************************************************************************)
ListKind == {"queue", "processing", "requeue", "delay", "acknowledged", "deadLetter"}
Names(a) == IF a \in {"queue", "acknowledged", "deadLetter"} THEN Queue
            ELSE IF a = "processing" THEN Consumer ELSE {"all"}
ListAt(a, x) == CASE a = "queue" -> queue[x]
                  [] a = "processing" -> processing[x]
                  [] a = "requeue" -> requeueList
                  [] a = "delay" -> delayList
                  [] a = "acknowledged" -> acknowledged[x]
                  [] a = "deadLetter" -> deadLetter[x]

\* Each of them is a list of messages.
LEMMA ListAtType ==
  /\ StoreTypeOK => \A a \in ListKind : \A x \in Names(a) : ListAt(a, x) \in Seq(Entry)
  /\ StoreTypeOK' => \A a \in ListKind : \A x \in Names(a) : ListAt(a, x)' \in Seq(Entry)
BY DEF StoreTypeOK, ListKind, Names, ListAt

\* The message e moves from the list x of kind a to the list y of kind b.
Transfer(e, a, x, b, y) ==
  /\ e \in Entry /\ a \in ListKind /\ b \in ListKind /\ a # b
  /\ x \in Names(a) /\ y \in Names(b)
  /\ Inserted(ListAt(a, x)', ListAt(a, x), e)
  /\ Inserted(ListAt(b, y), ListAt(b, y)', e)
  /\ \A k \in ListKind : \A z \in Names(k) :
       <<k, z>> \notin {<<a, x>>, <<b, y>>} => ListAt(k, z)' = ListAt(k, z)

\* What BRPOPLPUSH does.
LEMMA DequeueTransfer ==
  ASSUME StoreTypeOK, NEW c \in Consumer, dequeue(c)
  PROVE  \E e \in Entry : Transfer(e, "queue", QueueOf[c], "processing", c)
<1> DEFINE q == QueueOf[c]
<1>1. q \in Queue BY StoreAssumption
<1>2. PICK s \in Seq(Entry) : s = queue[q] /\ s # <<>>
  BY <1>1 DEF dequeue, StoreTypeOK
<1>3. PICK p \in Seq(Entry) : p = processing[c] BY DEF StoreTypeOK
<1>4. PICK e \in Entry : e = Last(s) BY <1>2, FrontLastType
<1>5. queue'[q] = Front(s) /\ processing'[c] = <<e>> \o p
  BY <1>1, <1>2, <1>3, <1>4 DEF dequeue, StoreTypeOK
<1>6. Inserted(Front(s), s, e) /\ Inserted(p, <<e>> \o p, e)
  BY <1>2, <1>4, PopInserted, PushInserted
<1>7. /\ ListAt("queue", q) = s /\ ListAt("queue", q)' = Front(s)
      /\ ListAt("processing", c) = p /\ ListAt("processing", c)' = <<e>> \o p
  BY <1>2, <1>3, <1>5 DEF ListAt
<1>8. ASSUME NEW k \in ListKind, NEW z \in Names(k),
             <<k, z>> \notin {<<"queue", q>>, <<"processing", c>>}
      PROVE  ListAt(k, z)' = ListAt(k, z)
  BY <1>1, <1>8 DEF dequeue, StoreTypeOK, ListKind, Names, ListAt
<1>9. "queue" \in ListKind /\ "processing" \in ListKind /\ q \in Names("queue")
      /\ c \in Names("processing")
  BY <1>1 DEF ListKind, Names
<1> QED BY <1>6, <1>7, <1>8, <1>9 DEF Transfer

\* Where a move ends.
Target(op) == CASE op = "acknowledge" -> "acknowledged"
                [] op = "deadLetter" -> "deadLetter"
                [] op = "delay" -> "delay"
                [] op = "requeue" -> "requeue"
TargetName(op, q) == IF op \in {"acknowledge", "deadLetter"} THEN q ELSE "all"

\* What the moves of ProcessingHandler do.
LEMMA SettleTransfer ==
  ASSUME StoreTypeOK, NEW c \in Consumer, NEW q \in Queue, NEW op \in Op, Settle(op, c, q)
  PROVE  \/ UNCHANGED lists
         \/ \E e \in ToSet(processing[c]) :
              Transfer(e, "processing", c, Target(op), TargetName(op, q))
<1>1. PICK p \in Seq(Entry) : p = processing[c] BY DEF StoreTypeOK
<1>2. PICK b \in ListKind : b = Target(op) /\ b \notin {"queue", "processing"}
  BY DEF ListKind, Target, Op, RetryOp
<1>3. PICK y \in Names(b) : y = TargetName(op, q)
  BY <1>2 DEF Names, Target, TargetName, Op, RetryOp
<1>4. CASE p = <<>>
  <2>1. LPopped(p) = p /\ RPopped(p) = p BY <1>4 DEF LPopped, RPopped
  <2>2. processing' = processing
    BY <1>1, <2>1 DEF Settle, acknowledge, deadLetterMessage, delayBeforeRequeue, requeue,
                      StoreTypeOK
  <2>3. \A t : lpoprpush(p, t) = t /\ rpoplpush(p, t) = t
    BY <1>4 DEF lpoprpush, rpoplpush
  <2>4. UNCHANGED <<queue, requeueList, delayList, acknowledged, deadLetter>>
    BY <1>1, <2>3 DEF Settle, acknowledge, deadLetterMessage, delayBeforeRequeue, requeue,
                      StoreTypeOK
  <2> QED BY <2>2, <2>4 DEF lists
<1>5. CASE p # <<>>
  <2>1. PICK l \in Seq(Entry) : l = ListAt(b, y) BY <1>2, <1>3, ListAtType
  <2>2. PICK e \in Entry, t \in Seq(Entry), r \in Seq(Entry) :
          /\ Inserted(t, p, e) /\ Inserted(l, r, e)
          /\ processing' = [processing EXCEPT ![c] = t]
          /\ ListAt(b, y)' = r
    <3>1. CASE op \in {"acknowledge", "deadLetter"}
      <4>1. Head(p) \in Entry /\ Tail(p) \in Seq(Entry) BY <1>5, FrontLastType
      <4>2. Inserted(Tail(p), p, Head(p)) BY <1>5, PopInserted
      <4>3. Append(l, Head(p)) \in Seq(Entry) /\ Inserted(l, Append(l, Head(p)), Head(p))
        BY <4>1, PushInserted
      <4>4. processing' = [processing EXCEPT ![c] = Tail(p)]
        BY <1>1, <1>5, <3>1 DEF Settle, acknowledge, deadLetterMessage, LPopped
      <4>5. ListAt(b, y)' = Append(l, Head(p))
        BY <1>1, <1>2, <1>3, <1>5, <2>1, <3>1
        DEF Settle, acknowledge, deadLetterMessage, lpoprpush, ListAt, Target, TargetName,
            StoreTypeOK
      <4> QED BY <4>1, <4>2, <4>3, <4>4, <4>5
    <3>2. CASE op \in {"delay", "requeue"}
      <4>1. Last(p) \in Entry /\ Front(p) \in Seq(Entry) BY <1>5, FrontLastType
      <4>2. Inserted(Front(p), p, Last(p)) BY <1>5, PopInserted
      <4>3. <<Last(p)>> \o l \in Seq(Entry) /\ Inserted(l, <<Last(p)>> \o l, Last(p))
        BY <4>1, PushInserted
      <4>4. processing' = [processing EXCEPT ![c] = Front(p)]
        BY <1>1, <1>5, <3>2 DEF Settle, delayBeforeRequeue, requeue, RPopped
      <4>5. ListAt(b, y)' = <<Last(p)>> \o l
        BY <1>1, <1>2, <1>3, <1>5, <2>1, <3>2
        DEF Settle, delayBeforeRequeue, requeue, rpoplpush, ListAt, Target, TargetName
      <4> QED BY <4>1, <4>2, <4>3, <4>4, <4>5
    <3> QED BY <3>1, <3>2 DEF Op, RetryOp
  <2>3. /\ ListAt("processing", c) = p /\ ListAt("processing", c)' = t
    BY <1>1, <2>2 DEF ListAt, StoreTypeOK
  <2>4. ASSUME NEW k \in ListKind, NEW z \in Names(k),
               <<k, z>> \notin {<<"processing", c>>, <<b, y>>}
        PROVE  ListAt(k, z)' = ListAt(k, z)
    <3>1. CASE k = "processing" BY <2>2, <2>4, <3>1 DEF ListAt, Names, StoreTypeOK
    <3>2. CASE k # "processing"
      BY <1>2, <1>3, <2>4, <3>2
      DEF Settle, acknowledge, deadLetterMessage, delayBeforeRequeue, requeue, StoreTypeOK,
          ListKind, Names, ListAt, Target, TargetName
    <3> QED BY <3>1, <3>2
  <2>5. e \in ToSet(p) BY <2>2, InsertedFacts
  <2>6. "processing" \in ListKind /\ c \in Names("processing") BY DEF ListKind, Names
  <2>7. Transfer(e, "processing", c, b, y)
    BY <1>2, <1>3, <2>1, <2>2, <2>3, <2>4, <2>6 DEF Transfer
  <2> QED BY <1>1, <1>2, <1>3, <2>5, <2>7
<1> QED BY <1>4, <1>5

\* The message e arrives in the list y of kind b.
Arrival(e, b, y) ==
  /\ e \in Entry /\ b \in ListKind /\ y \in Names(b)
  /\ Inserted(ListAt(b, y), ListAt(b, y)', e)
  /\ \A k \in ListKind : \A z \in Names(k) :
       <<k, z>> # <<b, y>> => ListAt(k, z)' = ListAt(k, z)

\* What RPUSH to a queue does.
LEMMA PushArrival ==
  ASSUME StoreTypeOK, NEW e \in Entry, NEW h \in Queue,
         queue' = [queue EXCEPT ![h] = Append(@, e)],
         UNCHANGED <<processing, requeueList, delayList, acknowledged, deadLetter>>
  PROVE  Arrival(e, "queue", h)
<1>1. PICK s \in Seq(Entry) : s = queue[h] BY DEF StoreTypeOK
<1>2. Inserted(s, Append(s, e), e) BY PushInserted
<1>3. ListAt("queue", h) = s /\ ListAt("queue", h)' = Append(s, e)
  BY <1>1 DEF ListAt, StoreTypeOK
<1>4. ASSUME NEW k \in ListKind, NEW z \in Names(k), <<k, z>> # <<"queue", h>>
      PROVE  ListAt(k, z)' = ListAt(k, z)
  BY <1>4 DEF StoreTypeOK, ListKind, Names, ListAt
<1>5. "queue" \in ListKind /\ h \in Names("queue") BY DEF ListKind, Names
<1> QED BY <1>2, <1>3, <1>4, <1>5 DEF Arrival

\* What a step leaves alone.
LEMMA SameLists ==
  ASSUME UNCHANGED lists
  PROVE  \A k \in ListKind : \A z \in Names(k) : ListAt(k, z)' = ListAt(k, z)
BY DEF lists, ListKind, Names, ListAt

-----------------------------------------------------------------------------
(***************************************************************************)
(* What the lists hold follows the policy.                                 *)
(***************************************************************************)
Below(e) == RetryThreshold[e.id] > 0 => e.attempts < RetryThreshold[e.id]
Retriable(e) == ~isPeriodic(e) /\ ~hasRetryThresholdExceeded(e)

\* A list of kind a may hold e.
Fits(a, e) ==
  /\ a = "queue" => Below(e)
  /\ a \in {"requeue", "delay"} => Retriable(e)
  /\ a = "acknowledged" => e.id \in succeeded
  /\ a = "deadLetter" => \/ isPeriodic(e) \/ hasRetryThresholdExceeded(e)
                         \/ hasExpired(e, elapsed)

\* Every list, the schedule and every batch hold what fits.
Policy ==
  /\ \A a \in ListKind : \A x \in Names(a) : \A e \in ToSet(ListAt(a, x)) : Fits(a, e)
  /\ \A e \in scheduled : Below(e)
  /\ \A w \in Consumer :
       /\ \A e \in dueBatch[w] : Below(e)
       /\ \A e \in ToSet(requeueBatch[w]) : Retriable(e)
       /\ \A e \in ToSet(delayBatch[w]) : Retriable(e)

\* A step that adds only what fits.
LEMMA PolicyKept ==
  ASSUME Policy, succeeded \subseteq succeeded', elapsed \subseteq elapsed',
         \A a \in ListKind : \A x \in Names(a) : \A e \in ToSet(ListAt(a, x)') :
           e \in ToSet(ListAt(a, x)) \/ Fits(a, e),
         \A e \in scheduled' : e \in scheduled \/ Below(e),
         \A w \in Consumer :
           /\ \A e \in dueBatch'[w] : e \in dueBatch[w] \/ Below(e)
           /\ \A e \in ToSet(requeueBatch'[w]) : e \in ToSet(requeueBatch[w]) \/ Retriable(e)
           /\ \A e \in ToSet(delayBatch'[w]) : e \in ToSet(delayBatch[w]) \/ Retriable(e)
  PROVE  Policy'
<1>1. \A a, e : Fits(a, e) => Fits(a, e)'
  BY DEF Fits, hasExpired, isPeriodic, hasRetryThresholdExceeded, Below, Retriable
<1>2. \A e : (Below(e) => Below(e)') /\ (Retriable(e) => Retriable(e)')
  BY DEF Below, Retriable, isPeriodic, hasRetryThresholdExceeded
<1>3. ASSUME NEW a \in ListKind, NEW x \in Names(a), NEW e \in ToSet(ListAt(a, x)')
      PROVE  Fits(a, e)'
  BY <1>1 DEF Policy
<1>4. \A e \in scheduled' : Below(e)' BY <1>2 DEF Policy
<1>5. ASSUME NEW w \in Consumer
      PROVE  /\ \A e \in dueBatch'[w] : Below(e)'
             /\ \A e \in ToSet(requeueBatch'[w]) : Retriable(e)'
             /\ \A e \in ToSet(delayBatch'[w]) : Retriable(e)'
  BY <1>2 DEF Policy
<1>6. \A a \in ListKind : \A x \in Names(a) : \A e \in ToSet(ListAt(a, x)') : Fits(a, e)'
  BY <1>3
<1> QED BY <1>4, <1>5, <1>6 DEF Policy

\* A message that may be retried is below its threshold after one attempt more.
LEMMA RetriableBelow ==
  ASSUME NEW e \in Entry, Retriable(e)
  PROVE  Below(incrAttempts(e))
<1>1. incrAttempts(e).id = e.id /\ incrAttempts(e).attempts = e.attempts + 1 BY IncrType
<1>2. e.attempts \in Nat /\ RetryThreshold[e.id] \in Nat
  BY MessageAssumption DEF Entry
<1> QED BY <1>1, <1>2 DEF Retriable, Below, hasRetryThresholdExceeded

\* Every step adds only what fits.
LEMMA PolicyNext ==
  ASSUME Control, Policy, [SysStep]_stateVars
  PROVE  Policy'
<1>0. /\ StateTypeOK /\ StoreTypeOK /\ workers \subseteq Consumer /\ StateTypeOK' /\ StoreTypeOK'
      /\ requeueBatch \in [Consumer -> Seq(Entry)] /\ delayBatch \in [Consumer -> Seq(Entry)]
      /\ dueBatch \in [Consumer -> SUBSET Entry] /\ scheduled \subseteq Entry
  BY StateNextType DEF Control, StateTypeOK, TypeOK, RequeueTypeOK, DelayTypeOK
<1>1. succeeded \subseteq succeeded' /\ elapsed \subseteq elapsed' BY SysCases
<1>2. \A a \in ListKind : \A x \in Names(a) :
        ListAt(a, x) \in Seq(Entry) /\ ListAt(a, x)' \in Seq(Entry)
  BY <1>0, ListAtType
<1> DEFINE Fit == \A a \in ListKind : \A x \in Names(a) : \A e \in ToSet(ListAt(a, x)') :
                    e \in ToSet(ListAt(a, x)) \/ Fits(a, e)
<1>3. ASSUME Fit, Still PROVE Policy'
  BY <1>1, <1>3, PolicyKept DEF Still
<1>4. UNCHANGED lists => Fit BY SameLists
<1>5. CASE Quiet BY <1>3, <1>4, <1>5 DEF Quiet
<1>6. ASSUME NEW c \in Consumer, Kills(c) PROVE Policy'
  <2>1. Fit BY <1>4, <1>6 DEF Kills
  <2>2. ToSet(<<>>) = {} BY EmptyList
  <2>3. ASSUME NEW w \in Consumer
        PROVE  /\ dueBatch'[w] \in {dueBatch[w], {}}
               /\ requeueBatch'[w] \in {requeueBatch[w], <<>>}
               /\ delayBatch'[w] \in {delayBatch[w], <<>>}
    BY <1>0, <1>6 DEF Kills, KillWorkers
  <2>4. scheduled' = scheduled BY <1>6 DEF Kills, KillWorkers
  <2> HIDE DEF Fit
  <2>5. ASSUME NEW w \in Consumer
        PROVE  /\ \A e \in dueBatch'[w] : e \in dueBatch[w]
               /\ \A e \in ToSet(requeueBatch'[w]) : e \in ToSet(requeueBatch[w])
               /\ \A e \in ToSet(delayBatch'[w]) : e \in ToSet(delayBatch[w])
    BY <2>2, <2>3
  <2> QED BY <1>1, <2>1, <2>4, <2>5, PolicyKept DEF Fit
<1>7. ASSUME NEW c \in Consumer, StartWorkers(c) PROVE Policy'
  <2>1. Fit BY <1>4, <1>7 DEF StartWorkers, vars, storeVars
  <2>2. UNCHANGED <<scheduled, requeueBatch, delayBatch, dueBatch>>
    BY <1>7 DEF StartWorkers, workerVars, delayVars
  <2> QED BY <1>1, <2>1, <2>2, PolicyKept
<1>8. ASSUME NEW e \in Entry, NEW b \in ListKind, NEW y \in Names(b), Fits(b, e),
             Inserted(ListAt(b, y), ListAt(b, y)', e),
             NEW k \in ListKind, NEW z \in Names(k), NEW f \in ToSet(ListAt(k, z)'),
             <<k, z>> = <<b, y>> \/ ToSet(ListAt(k, z)') \subseteq ToSet(ListAt(k, z))
      PROVE  f \in ToSet(ListAt(k, z)) \/ Fits(k, f)
  <2>1. PICK s \in Seq(Entry), t \in Seq(Entry) : s = ListAt(b, y) /\ t = ListAt(b, y)'
    BY <1>2
  <2>2. ToSet(t) = ToSet(s) \union {e} BY <1>8, <2>1, InsertedFacts
  <2> QED BY <1>8, <2>1, <2>2
<1>9. ASSUME NEW e, NEW a, NEW x, NEW b, NEW y, Transfer(e, a, x, b, y), Fits(b, e)
      PROVE  Fit
  <2>1. PICK s \in Seq(Entry), t \in Seq(Entry) : s = ListAt(a, x)' /\ t = ListAt(a, x)
    BY <1>2, <1>9 DEF Transfer
  <2>2. ToSet(s) \subseteq ToSet(t) BY <1>9, <2>1, InsertedFacts DEF Transfer
  <2>3. \A k \in ListKind : \A z \in Names(k) :
          <<k, z>> = <<b, y>> \/ ToSet(ListAt(k, z)') \subseteq ToSet(ListAt(k, z))
    BY <1>9, <2>1, <2>2 DEF Transfer
  <2> QED BY <1>8, <1>9, <2>3 DEF Transfer
<1>10. ASSUME NEW e, NEW b, NEW y, Arrival(e, b, y), Fits(b, e) PROVE Fit
  <2>1. \A k \in ListKind : \A z \in Names(k) :
          <<k, z>> = <<b, y>> \/ ToSet(ListAt(k, z)') \subseteq ToSet(ListAt(k, z))
    BY <1>10 DEF Arrival
  <2> QED BY <1>8, <1>10, <2>1 DEF Arrival
<1>11. ASSUME NEW c \in Consumer, Fetches(c) PROVE Policy'
  <2>1. PICK e \in Entry : Transfer(e, "queue", QueueOf[c], "processing", c)
    BY <1>0, <1>11, DequeueTransfer DEF Fetches
  <2>2. Fits("processing", e) BY DEF Fits
  <2> QED BY <1>3, <1>9, <1>11, <2>1, <2>2 DEF Fetches
<1>12. ASSUME NEW c \in Consumer, NEW op \in Op, NEW q \in Queue, Moves(op, c, q)
       PROVE  Policy'
  <2>1. CASE UNCHANGED lists BY <1>3, <1>4, <1>12, <2>1 DEF Moves
  <2>2. ASSUME NEW e \in ToSet(processing[c]),
               Transfer(e, "processing", c, Target(op), TargetName(op, q))
        PROVE  Policy'
    <3>1. Justified([op |-> op, entry |-> e]) BY <1>12, <2>2 DEF Moves, Reason
    <3>2. Fits(Target(op), e)
      BY <3>1 DEF Fits, Target, Justified, Retriable, Op, RetryOp
    <3> QED BY <1>3, <1>9, <1>12, <2>2, <3>2 DEF Moves
  <2> QED BY <1>0, <1>12, <2>1, <2>2, SettleTransfer DEF Moves
<1>13. ASSUME NEW m \in MessageId, Produce(m) PROVE Policy'
  <2>1. PICK e \in Entry : e = [id |-> m, attempts |-> 0] BY DEF Entry
  <2>2. Home[m] \in Queue BY StoreAssumption
  <2>3. Arrival(e, "queue", Home[m]) BY <1>0, <1>13, <2>1, <2>2, PushArrival DEF Produce
  <2>4. RetryThreshold[m] \in Nat BY MessageAssumption
  <2>5. Fits("queue", e) BY <2>1, <2>4 DEF Fits, Below
  <2>6. Still BY <1>13 DEF Produce, workerVars, delayVars, poolVars, Still
  <2> QED BY <1>3, <1>10, <2>3, <2>5, <2>6
<1>14. ASSUME NEW w \in workers, RequeueStep(w) PROVE Policy'
  <2>0. w \in Consumer BY <1>0
  <2>1. UNCHANGED <<scheduled, delayBatch, dueBatch>>
    BY <1>14 DEF RequeueStep, delayVars
  <2>2. CASE RequeueRead(w)
    <3>1. PICK r \in Seq(Entry) :
            /\ r = lrange(requeueList) /\ Len(r) <= Len(requeueList)
            /\ \A i \in 1..Len(r) : r[i] = requeueList[i]
      BY <1>0, LrangeFacts DEF StoreTypeOK
    <3>2. ToSet(r) \subseteq ToSet(requeueList)
      <4>1. requeueList \in Seq(Entry) BY <1>0 DEF StoreTypeOK
      <4>2. \A i \in 1..Len(r) : i \in 1..Len(requeueList) BY <3>1, <4>1
      <4>3. \A i \in 1..Len(r) : r[i] \in ToSet(requeueList) BY <3>1, <4>1, <4>2, InToSet
      <4> QED BY <4>3 DEF ToSet
    <3>3. \A e \in ToSet(requeueList) : Retriable(e)
      <4>1. "requeue" \in ListKind /\ "all" \in Names("requeue")
            /\ ListAt("requeue", "all") = requeueList
        BY DEF ListKind, Names, ListAt
      <4> QED BY <4>1 DEF Policy, Fits
    <3>4. requeueBatch' = [requeueBatch EXCEPT ![w] = r] BY <2>2, <3>1 DEF RequeueRead
    <3>5. Fit BY <1>4, <2>2 DEF RequeueRead, storeVars
    <3>6. ASSUME NEW v \in Consumer, NEW e \in ToSet(requeueBatch'[v])
          PROVE  e \in ToSet(requeueBatch[v]) \/ Retriable(e)
      <4>1. CASE v = w BY <1>0, <2>0, <3>2, <3>3, <3>4, <3>6, <4>1
      <4>2. CASE v # w BY <1>0, <2>0, <3>4, <3>6, <4>2
      <4> QED BY <4>1, <4>2
    <3> QED BY <1>1, <2>1, <3>5, <3>6, PolicyKept
  <2>3. CASE RequeueExec(w)
    <3>1. PICK b \in Seq(Entry) : b = requeueBatch[w] BY <1>0, <2>0
    <3>2. \A q \in Queue : \A e \in ToSet(queue'[q]) :
            e \in ToSet(queue[q]) \/ \E x \in ToSet(b) : e = incrAttempts(x)
      <4>1. queue' = lpush(b) /\ queue \in [Queue -> Seq(Entry)]
        BY <1>0, <2>3, <3>1 DEF RequeueExec, StoreTypeOK
      <4>2. Lpushed(b, queue') BY <4>1, LpushFacts
      <4> QED BY <4>2 DEF Lpushed
    <3>3. \A x \in ToSet(b) : x \in Entry /\ Retriable(x)
      BY <2>0, <3>1 DEF Policy, ToSet
    <3>4. \A q \in Queue : \A e \in ToSet(queue'[q]) : e \in ToSet(queue[q]) \/ Below(e)
      BY <3>2, <3>3, RetriableBelow
    <3>5. ToSet(requeueList') \subseteq ToSet(requeueList)
      <4>1. requeueList' = lrem(requeueList, b) /\ requeueList \in Seq(Entry)
        BY <1>0, <2>3, <3>1 DEF RequeueExec, StoreTypeOK
      <4> QED BY <4>1, LremFacts
    <3>6. Fit
      <4> SUFFICES ASSUME NEW k \in ListKind, NEW z \in Names(k), NEW e \in ToSet(ListAt(k, z)')
                   PROVE  e \in ToSet(ListAt(k, z)) \/ Fits(k, e)
        OBVIOUS
      <4>1. CASE k = "queue" BY <3>4, <4>1 DEF ListAt, Names, Fits
      <4>2. CASE k = "requeue" BY <3>5, <4>2 DEF ListAt
      <4>3. CASE k \notin {"queue", "requeue"}
        <5>1. ListAt(k, z)' = ListAt(k, z)
          BY <2>3, <4>3 DEF RequeueExec, ListAt, ListKind
        <5> QED BY <5>1
      <4> QED BY <4>1, <4>2, <4>3
    <3>7. \A v \in Consumer : requeueBatch'[v] \in {requeueBatch[v], <<>>}
      BY <1>0, <2>3 DEF RequeueExec
    <3>8. \A v \in Consumer : \A e \in ToSet(requeueBatch'[v]) : e \in ToSet(requeueBatch[v])
      BY <3>7, EmptyList
    <3> HIDE DEF Fit
    <3> QED BY <1>1, <2>1, <3>6, <3>8, PolicyKept DEF Fit
  <2> QED BY <1>14, <2>2, <2>3 DEF RequeueStep
<1>15. ASSUME NEW w \in workers, DelayStep(w) PROVE Policy'
  <2>0. w \in Consumer BY <1>0
  <2>1. UNCHANGED <<requeueBatch, dueBatch>>
    BY <1>15 DEF DelayStep, DelayRead, DelayExec
  <2>2. CASE DelayRead(w)
    <3>1. PICK r \in Seq(Entry) :
            /\ r = lrange(delayList) /\ Len(r) <= Len(delayList)
            /\ \A i \in 1..Len(r) : r[i] = delayList[i]
      BY <1>0, LrangeFacts DEF StoreTypeOK
    <3>2. ToSet(r) \subseteq ToSet(delayList)
      <4>1. delayList \in Seq(Entry) BY <1>0 DEF StoreTypeOK
      <4>2. \A i \in 1..Len(r) : i \in 1..Len(delayList) BY <3>1, <4>1
      <4>3. \A i \in 1..Len(r) : r[i] \in ToSet(delayList) BY <3>1, <4>1, <4>2, InToSet
      <4> QED BY <4>3 DEF ToSet
    <3>3. \A e \in ToSet(delayList) : Retriable(e)
      <4>1. "delay" \in ListKind /\ "all" \in Names("delay")
            /\ ListAt("delay", "all") = delayList
        BY DEF ListKind, Names, ListAt
      <4> QED BY <4>1 DEF Policy, Fits
    <3>4. delayBatch' = [delayBatch EXCEPT ![w] = r] BY <2>2, <3>1 DEF DelayRead
    <3>5. Fit /\ scheduled' = scheduled BY <1>4, <2>2 DEF DelayRead, storeVars
    <3>6. ASSUME NEW v \in Consumer, NEW e \in ToSet(delayBatch'[v])
          PROVE  e \in ToSet(delayBatch[v]) \/ Retriable(e)
      <4>1. CASE v = w BY <1>0, <2>0, <3>2, <3>3, <3>4, <3>6, <4>1
      <4>2. CASE v # w BY <1>0, <2>0, <3>4, <3>6, <4>2
      <4> QED BY <4>1, <4>2
    <3> QED BY <1>1, <2>1, <3>5, <3>6, PolicyKept
  <2>3. CASE DelayExec(w)
    <3>1. PICK b \in Seq(Entry) : b = delayBatch[w] BY <1>0, <2>0
    <3>2. \A e \in scheduled' : e \in scheduled \/ \E x \in ToSet(b) : e = incrAttempts(x)
      BY <1>0, <2>3, <3>1, ScheduleFacts DEF DelayExec
    <3>3. \A x \in ToSet(b) : x \in Entry /\ Retriable(x)
      BY <2>0, <3>1 DEF Policy, ToSet
    <3>4. \A e \in scheduled' : e \in scheduled \/ Below(e)
      BY <3>2, <3>3, RetriableBelow
    <3>5. ToSet(delayList') \subseteq ToSet(delayList)
      <4>1. delayList' = lrem(delayList, b) /\ delayList \in Seq(Entry)
        BY <1>0, <2>3, <3>1 DEF DelayExec, StoreTypeOK
      <4> QED BY <4>1, LremFacts
    <3>6. Fit
      <4> SUFFICES ASSUME NEW k \in ListKind, NEW z \in Names(k), NEW e \in ToSet(ListAt(k, z)')
                   PROVE  e \in ToSet(ListAt(k, z)) \/ Fits(k, e)
        OBVIOUS
      <4>1. CASE k = "delay" BY <3>5, <4>1 DEF ListAt
      <4>2. CASE k # "delay"
        <5>1. ListAt(k, z)' = ListAt(k, z)
          BY <2>3, <4>2 DEF DelayExec, ListAt, ListKind
        <5> QED BY <5>1
      <4> QED BY <4>1, <4>2
    <3>7. \A v \in Consumer : delayBatch'[v] \in {delayBatch[v], <<>>}
      BY <1>0, <2>3 DEF DelayExec
    <3>8. \A v \in Consumer : \A e \in ToSet(delayBatch'[v]) : e \in ToSet(delayBatch[v])
      BY <3>7, EmptyList
    <3> HIDE DEF Fit
    <3> QED BY <1>1, <2>1, <3>4, <3>6, <3>8, PolicyKept DEF Fit
  <2> QED BY <1>15, <2>2, <2>3 DEF DelayStep
<1>16. ASSUME NEW w \in workers, ScheduleStep(w) PROVE Policy'
  <2>0. w \in Consumer BY <1>0
  <2>1. UNCHANGED <<requeueBatch, delayBatch>>
    BY <1>16 DEF ScheduleStep, fetchIds, fetchMessages, enqueue
  <2>2. CASE fetchIds(w)
    <3>1. Fit /\ UNCHANGED <<scheduled, dueBatch>> BY <1>4, <2>2 DEF fetchIds, storeVars
    <3> QED BY <1>1, <2>1, <3>1, PolicyKept
  <2>3. CASE fetchMessages(w)
    <3>1. Fit /\ scheduled' = scheduled BY <1>4, <2>3 DEF fetchMessages, storeVars
    <3>2. \A v \in Consumer : \A e \in dueBatch'[v] : e \in dueBatch[v] \/ e \in scheduled
      BY <1>0, <2>3 DEF fetchMessages
    <3>3. \A e \in scheduled : Below(e) BY DEF Policy
    <3> HIDE DEF Fit
    <3> QED BY <1>1, <2>1, <3>1, <3>2, <3>3, PolicyKept DEF Fit
  <2>4. ASSUME NEW e \in dueBatch[w], enqueue(w, e) PROVE Policy'
    <3>1. e \in Entry /\ Home[e.id] \in Queue BY <1>0, <2>0, IncrType
    <3>2. Arrival(e, "queue", Home[e.id]) BY <1>0, <2>4, <3>1, PushArrival DEF enqueue
    <3>3. Fits("queue", e) BY <2>0 DEF Fits, Policy
    <3>4. Fit BY <1>10, <3>2, <3>3
    <3>5. scheduled' \subseteq scheduled
          /\ \A v \in Consumer : \A f \in dueBatch'[v] : f \in dueBatch[v]
      BY <1>0, <2>4 DEF enqueue
    <3> HIDE DEF Fit
    <3> QED BY <1>1, <2>1, <3>4, <3>5, PolicyKept DEF Fit
  <2> QED BY <1>16, <2>2, <2>3, <2>4 DEF ScheduleStep
<1> HIDE DEF Fit
<1> QED BY <1>5, <1>6, <1>7, <1>11, <1>12, <1>13, <1>14, <1>15, <1>16, SysCases

\* Initially nothing is stored.
LEMMA PolicyInit == SysInit => Policy
<1> SUFFICES ASSUME SysInit PROVE Policy OBVIOUS
<1>1. \A a \in ListKind : \A x \in Names(a) : ListAt(a, x) = <<>>
  BY DEF SysInit, StoreInit, ListKind, Names, ListAt
<1>2. /\ scheduled = {}
      /\ \A w \in Consumer : dueBatch[w] = {} /\ requeueBatch[w] = <<>> /\ delayBatch[w] = <<>>
  BY DEF SysInit, DelayInit, RequeueInit
<1> QED BY <1>1, <1>2, EmptyList DEF Policy

\* The policy holds of every list, of the schedule and of every batch, until a
\* collector takes a consumer for dead that can still fetch.
THEOREM PolicyHolds ==
  ASSUME SingleUse, NoStaleTimers
  PROVE  SysSpec => [](mistaken = {} => Policy)
<1>1. /\ SysTypeOK /\ (mistaken = {} => Control) /\ (mistaken = {} => Policy)
      /\ [SysNext]_sysVars
      => (mistaken = {} => Policy)'
  BY UnmistakenStep, PolicyNext
<1> QED BY <1>1, PolicyInit, ControlHolds, SysTypeCorrect, PTL DEF SysSpec

\* A message is delivered at most retryThreshold times, whoever puts it back,
\* until a collector takes a consumer for dead that can still fetch.
THEOREM AttemptsBounded ==
  ASSUME SingleUse, NoStaleTimers
  PROVE  SysSpec => []ThresholdRespected
<1>1. (mistaken = {} => Policy) => ThresholdRespected
  <2> SUFFICES ASSUME Policy, mistaken = {} PROVE ThresholdRespected
    BY DEF ThresholdRespected
  <2>1. ASSUME NEW q \in Queue, NEW e \in ToSet(queue[q]) PROVE Below(e)
    <3>1. "queue" \in ListKind /\ q \in Names("queue") /\ ListAt("queue", q) = queue[q]
      BY DEF ListKind, Names, ListAt
    <3> QED BY <3>1 DEF Policy, Fits
  <2>2. ASSUME NEW e \in ToSet(requeueList) \union ToSet(delayList) PROVE Retriable(e)
    <3>1. /\ "requeue" \in ListKind /\ "all" \in Names("requeue")
          /\ ListAt("requeue", "all") = requeueList
          /\ "delay" \in ListKind /\ "all" \in Names("delay")
          /\ ListAt("delay", "all") = delayList
      BY DEF ListKind, Names, ListAt
    <3> QED BY <3>1 DEF Policy, Fits
  <2> QED BY <2>1, <2>2 DEF ThresholdRespected, Below, Retriable
<1> QED BY <1>1, PolicyHolds, PTL

\* Where a message ends follows Broker.retry, whichever of the consumer and the
\* garbage collector settles it: only consumed messages are acknowledged, only
\* messages below their threshold wait for a retry, only the others are
\* dead-lettered, until a collector takes a consumer for dead that can still
\* fetch.
THEOREM SettledByPolicy ==
  ASSUME SingleUse, NoStaleTimers
  PROVE  SysSpec => [](mistaken = {} => AcknowledgedSucceeded /\ RetryPolicy)
<1>1. Policy => AcknowledgedSucceeded /\ RetryPolicy
  <2> SUFFICES ASSUME Policy PROVE AcknowledgedSucceeded /\ RetryPolicy OBVIOUS
  <2>1. ASSUME NEW q \in Queue
        PROVE  /\ \A e \in ToSet(acknowledged[q]) : Fits("acknowledged", e)
               /\ \A e \in ToSet(deadLetter[q]) : Fits("deadLetter", e)
    <3>1. /\ "acknowledged" \in ListKind /\ q \in Names("acknowledged")
          /\ ListAt("acknowledged", q) = acknowledged[q]
          /\ "deadLetter" \in ListKind /\ q \in Names("deadLetter")
          /\ ListAt("deadLetter", q) = deadLetter[q]
      BY DEF ListKind, Names, ListAt
    <3> QED BY <3>1 DEF Policy
  <2>2. ASSUME NEW e \in ToSet(requeueList) \union ToSet(delayList) PROVE Retriable(e)
    <3>1. /\ "requeue" \in ListKind /\ "all" \in Names("requeue")
          /\ ListAt("requeue", "all") = requeueList
          /\ "delay" \in ListKind /\ "all" \in Names("delay")
          /\ ListAt("delay", "all") = delayList
      BY DEF ListKind, Names, ListAt
    <3> QED BY <3>1 DEF Policy, Fits
  <2> QED BY <2>1, <2>2 DEF AcknowledgedSucceeded, RetryPolicy, Fits, Retriable
<1> QED BY <1>1, PolicyHolds, PTL

-----------------------------------------------------------------------------
(***************************************************************************)
(* Where a message is: the places of Redis are the lists and the schedule. *)
(***************************************************************************)
Kind == ListKind \union {"schedule"}

At(m, a, x) == IF a = "schedule" THEN \E e \in scheduled : e.id = m
               ELSE Has(m, ListAt(a, x))

\* The place holds at most one copy of m.
Uniq(m, a, x) == IF a = "schedule" THEN \A e, f \in scheduled : e.id = m /\ f.id = m => e = f
                 ELSE Once(m, ListAt(a, x))

Somewhere(m) == \E a \in Kind : \E x \in Names(a) : At(m, a, x)

Single(m) ==
  /\ \A a \in Kind : \A x \in Names(a) : Uniq(m, a, x)
  /\ \A a, b \in Kind : \A x \in Names(a), y \in Names(b) :
       At(m, a, x) /\ At(m, b, y) => <<a, x>> = <<b, y>>

\* What a place without m looks like.
LEMMA NotAtUniq ==
  \A m : \A a \in Kind : \A x \in Names(a) : ~At(m, a, x)' => Uniq(m, a, x)'
BY DEF At, Uniq, Has, Once

\* m stays where it is.
LEMMA StaysPut ==
  ASSUME NEW m,
         \A k \in Kind : \A z \in Names(k) : At(m, k, z)' <=> At(m, k, z)
  PROVE  /\ Somewhere(m)' <=> Somewhere(m)
         /\ (\A k \in Kind : \A z \in Names(k) : Uniq(m, k, z) => Uniq(m, k, z)') =>
              (Single(m) => Single(m)')
BY DEF Somewhere, Single

\* m moves from one place to another.
LEMMA MovesOn ==
  ASSUME NEW m, NEW a \in Kind, NEW x \in Names(a), NEW b \in Kind, NEW y \in Names(b),
         <<a, x>> # <<b, y>>, At(m, b, y)',
         \A k \in Kind : \A z \in Names(k) :
           <<k, z>> \notin {<<a, x>>, <<b, y>>} =>
             (At(m, k, z)' <=> At(m, k, z)) /\ (Uniq(m, k, z) => Uniq(m, k, z)')
  PROVE  /\ Somewhere(m)'
         /\ Single(m) /\ At(m, a, x) /\ ~At(m, a, x)' /\ Uniq(m, b, y)' => Single(m)'
<1>1. Somewhere(m)' BY DEF Somewhere
<1>2. ASSUME Single(m), At(m, a, x), ~At(m, a, x)', Uniq(m, b, y)' PROVE Single(m)'
  <2>1. \A k \in Kind : \A z \in Names(k) : Uniq(m, k, z)'
    BY <1>2, NotAtUniq DEF Single
  <2>2. \A k \in Kind : \A z \in Names(k) : At(m, k, z)' => <<k, z>> = <<b, y>>
    BY <1>2 DEF Single
  <2> QED BY <2>1, <2>2 DEF Single
<1> QED BY <1>1, <1>2

\* m appears.
LEMMA Appears ==
  ASSUME NEW m, NEW b \in Kind, NEW y \in Names(b), At(m, b, y)', ~Somewhere(m),
         \A k \in Kind : \A z \in Names(k) :
           <<k, z>> # <<b, y>> => (At(m, k, z)' <=> At(m, k, z))
  PROVE  Somewhere(m)' /\ (Uniq(m, b, y)' => Single(m)')
<1>1. \A k \in Kind : \A z \in Names(k) : At(m, k, z)' => <<k, z>> = <<b, y>>
  BY DEF Somewhere
<1>2. \A k \in Kind : \A z \in Names(k) : <<k, z>> # <<b, y>> => Uniq(m, k, z)'
  BY <1>1, NotAtUniq
<1>3. Somewhere(m)' BY DEF Somewhere
<1> QED BY <1>1, <1>2, <1>3 DEF Single

\* A place no step touches.
LEMMA SamePlace ==
  ASSUME NEW k \in Kind, NEW z \in Names(k),
         IF k = "schedule" THEN scheduled' = scheduled ELSE ListAt(k, z)' = ListAt(k, z)
  PROVE  \A m : (At(m, k, z)' <=> At(m, k, z)) /\ (Uniq(m, k, z) => Uniq(m, k, z)')
BY DEF At, Uniq

\* A message that comes to a list, or leaves it.
LEMMA InsertedPlace ==
  ASSUME NEW k \in ListKind, NEW z \in Names(k), NEW e \in Entry,
         NEW s \in Seq(Entry), NEW t \in Seq(Entry), s = ListAt(k, z), t = ListAt(k, z)'
  PROVE  /\ Inserted(s, t, e) =>
              /\ At(e.id, k, z)' /\ (~At(e.id, k, z) => Uniq(e.id, k, z)')
              /\ \A m : m # e.id => /\ At(m, k, z)' <=> At(m, k, z)
                                    /\ Uniq(m, k, z) => Uniq(m, k, z)'
         /\ Inserted(t, s, e) =>
              /\ At(e.id, k, z) /\ (Uniq(e.id, k, z) => ~At(e.id, k, z)')
              /\ \A m : m # e.id => /\ At(m, k, z)' <=> At(m, k, z)
                                    /\ Uniq(m, k, z) => Uniq(m, k, z)'
<1>1. k # "schedule" BY DEF ListKind
<1>2. \A m : /\ At(m, k, z) <=> Has(m, s)
             /\ At(m, k, z)' <=> Has(m, t)
             /\ Uniq(m, k, z) <=> Once(m, s)
             /\ Uniq(m, k, z)' <=> Once(m, t)
  BY <1>1 DEF At, Uniq
<1>3. ASSUME Inserted(s, t, e)
      PROVE  /\ Has(e.id, t) /\ (~Has(e.id, s) => Once(e.id, t))
             /\ \A m : m # e.id => (Has(m, t) <=> Has(m, s)) /\ (Once(m, s) => Once(m, t))
  BY <1>3, InsertedFacts
<1>4. ASSUME Inserted(t, s, e)
      PROVE  /\ Has(e.id, s) /\ (Once(e.id, s) => ~Has(e.id, t))
             /\ \A m : m # e.id => (Has(m, t) <=> Has(m, s)) /\ (Once(m, s) => Once(m, t))
  BY <1>4, InsertedFacts
<1> QED BY <1>2, <1>3, <1>4

\* Nothing moves.
LEMMA StillKeeps ==
  ASSUME UNCHANGED <<lists, scheduled>>
  PROVE  \A m : (Somewhere(m)' <=> Somewhere(m)) /\ (Single(m) => Single(m)')
<1>1. \A k \in Kind : \A z \in Names(k) : k # "schedule" => ListAt(k, z)' = ListAt(k, z)
  BY SameLists DEF Kind
<1>2. \A m : \A k \in Kind : \A z \in Names(k) :
        (At(m, k, z)' <=> At(m, k, z)) /\ (Uniq(m, k, z) => Uniq(m, k, z)')
  BY <1>1, SamePlace
<1> QED BY <1>2, StaysPut

\* A transfer.
LEMMA TransferKeeps ==
  ASSUME StoreTypeOK, StoreTypeOK', scheduled' = scheduled,
         NEW e, NEW a, NEW x, NEW b, NEW y, Transfer(e, a, x, b, y)
  PROVE  \A m : (Somewhere(m)' <=> Somewhere(m)) /\ (Single(m) => Single(m)')
<1>0. e \in Entry /\ a \in ListKind /\ b \in ListKind /\ a # b
      /\ x \in Names(a) /\ y \in Names(b) /\ a \in Kind /\ b \in Kind
  BY DEF Transfer, Kind
<1>1. PICK s \in Seq(Entry), t \in Seq(Entry) :
        s = ListAt(a, x) /\ t = ListAt(a, x)' /\ Inserted(t, s, e)
  BY <1>0, ListAtType DEF Transfer
<1>2. PICK l \in Seq(Entry), r \in Seq(Entry) :
        l = ListAt(b, y) /\ r = ListAt(b, y)' /\ Inserted(l, r, e)
  BY <1>0, ListAtType DEF Transfer
<1>3. /\ At(e.id, a, x) /\ (Uniq(e.id, a, x) => ~At(e.id, a, x)')
      /\ \A m : m # e.id => /\ At(m, a, x)' <=> At(m, a, x)
                            /\ Uniq(m, a, x) => Uniq(m, a, x)'
  BY <1>0, <1>1, InsertedPlace
<1>4. /\ At(e.id, b, y)' /\ (~At(e.id, b, y) => Uniq(e.id, b, y)')
      /\ \A m : m # e.id => /\ At(m, b, y)' <=> At(m, b, y)
                            /\ Uniq(m, b, y) => Uniq(m, b, y)'
  BY <1>0, <1>2, InsertedPlace
<1>5. ASSUME NEW k \in Kind, NEW z \in Names(k), <<k, z>> \notin {<<a, x>>, <<b, y>>}
      PROVE  \A m : (At(m, k, z)' <=> At(m, k, z)) /\ (Uniq(m, k, z) => Uniq(m, k, z)')
  <2>1. k # "schedule" => ListAt(k, z)' = ListAt(k, z) BY <1>5 DEF Transfer, Kind
  <2> QED BY <2>1, SamePlace
<1>6. ASSUME NEW m, m # e.id
      PROVE  (Somewhere(m)' <=> Somewhere(m)) /\ (Single(m) => Single(m)')
  <2>1. \A k \in Kind : \A z \in Names(k) :
          (At(m, k, z)' <=> At(m, k, z)) /\ (Uniq(m, k, z) => Uniq(m, k, z)')
    BY <1>3, <1>4, <1>5, <1>6
  <2> QED BY <2>1, StaysPut
<1>7. /\ Somewhere(e.id)'
      /\ Single(e.id) /\ At(e.id, a, x) /\ ~At(e.id, a, x)' /\ Uniq(e.id, b, y)'
           => Single(e.id)'
  <2>1. <<a, x>> # <<b, y>> BY <1>0
  <2> QED BY <1>0, <1>4, <1>5, <2>1, MovesOn
<1>8. Somewhere(e.id) BY <1>0, <1>3 DEF Somewhere
<1>9. Single(e.id) => ~At(e.id, a, x)' /\ Uniq(e.id, b, y)'
  <2>1. Single(e.id) => Uniq(e.id, a, x) /\ ~At(e.id, b, y)
    BY <1>0, <1>3 DEF Single
  <2> QED BY <1>3, <1>4, <2>1
<1>10. (Somewhere(e.id)' <=> Somewhere(e.id)) /\ (Single(e.id) => Single(e.id)')
  BY <1>3, <1>7, <1>8, <1>9
<1> QED BY <1>6, <1>10

\* An arrival of a message that is nowhere.
LEMMA ArrivalKeeps ==
  ASSUME StoreTypeOK, StoreTypeOK', scheduled' = scheduled,
         NEW e, NEW b, NEW y, Arrival(e, b, y), ~Somewhere(e.id)
  PROVE  /\ Somewhere(e.id)' /\ Single(e.id)'
         /\ \A m : m # e.id => (Somewhere(m)' <=> Somewhere(m)) /\ (Single(m) => Single(m)')
<1>0. e \in Entry /\ b \in ListKind /\ y \in Names(b) /\ b \in Kind
  BY DEF Arrival, Kind
<1>1. PICK l \in Seq(Entry), r \in Seq(Entry) :
        l = ListAt(b, y) /\ r = ListAt(b, y)' /\ Inserted(l, r, e)
  BY <1>0, ListAtType DEF Arrival
<1>2. /\ At(e.id, b, y)' /\ (~At(e.id, b, y) => Uniq(e.id, b, y)')
      /\ \A m : m # e.id => /\ At(m, b, y)' <=> At(m, b, y)
                            /\ Uniq(m, b, y) => Uniq(m, b, y)'
  BY <1>0, <1>1, InsertedPlace
<1>3. ASSUME NEW k \in Kind, NEW z \in Names(k), <<k, z>> # <<b, y>>
      PROVE  \A m : (At(m, k, z)' <=> At(m, k, z)) /\ (Uniq(m, k, z) => Uniq(m, k, z)')
  <2>1. k # "schedule" => ListAt(k, z)' = ListAt(k, z) BY <1>3 DEF Arrival, Kind
  <2> QED BY <2>1, SamePlace
<1>4. ASSUME NEW m, m # e.id
      PROVE  (Somewhere(m)' <=> Somewhere(m)) /\ (Single(m) => Single(m)')
  <2>1. \A k \in Kind : \A z \in Names(k) :
          (At(m, k, z)' <=> At(m, k, z)) /\ (Uniq(m, k, z) => Uniq(m, k, z)')
    BY <1>2, <1>3, <1>4
  <2> QED BY <2>1, StaysPut
<1>5. Somewhere(e.id)' /\ (Uniq(e.id, b, y)' => Single(e.id)')
  BY <1>0, <1>2, <1>3, Appears
<1>6. ~At(e.id, b, y) BY <1>0 DEF Somewhere
<1> QED BY <1>2, <1>4, <1>5, <1>6

\* The MULTI of the requeue worker: the batch moves to the queues.
LEMMA RequeueKeeps ==
  ASSUME StoreTypeOK, StoreTypeOK', scheduled' = scheduled,
         NEW w \in Consumer, RequeueExec(w), NEW b \in Seq(Entry), b = requeueBatch[w]
  PROVE  /\ \A m \in MessageId : IF Has(m, b) THEN Somewhere(m)'
                                 ELSE Somewhere(m)' <=> Somewhere(m)
         /\ BatchOf(b, requeueList) /\ (\A m \in MessageId : Single(m)) =>
              \A m \in MessageId : Single(m)'
<1>1. PICK l \in Seq(Entry), r \in Seq(Entry) :
        l = requeueList /\ r = requeueList' /\ r = lrem(l, b)
  BY DEF StoreTypeOK, RequeueExec
<1>2. /\ \A m : Once(m, l) => Once(m, r)
      /\ \A m : ~Has(m, b) => (Has(m, r) <=> Has(m, l))
      /\ BatchOf(b, l) /\ (\A m \in MessageId : Once(m, l)) => \A m : Has(m, b) => ~Has(m, r)
  BY <1>1, LremFacts
<1>3. Lpushed(b, queue')
  <2>1. queue' = lpush(b) /\ queue \in [Queue -> Seq(Entry)] BY DEF RequeueExec, StoreTypeOK
  <2> QED BY <2>1, LpushFacts
<1>4. \A q \in Queue :
        /\ \A m : Has(m, queue'[q]) <=> Has(m, queue[q]) \/ (Has(m, b) /\ Home[m] = q)
        /\ Distinct(b) => \A m : Once(m, queue[q]) /\ ~(Has(m, b) /\ Has(m, queue[q]))
                                    => Once(m, queue'[q])
  BY <1>3 DEF Lpushed
<1>5. \A m : \A q \in Queue : /\ At(m, "queue", q) <=> Has(m, queue[q])
                              /\ At(m, "queue", q)' <=> Has(m, queue'[q])
                              /\ Uniq(m, "queue", q) <=> Once(m, queue[q])
                              /\ Uniq(m, "queue", q)' <=> Once(m, queue'[q])
  BY DEF At, Uniq, ListAt
<1>6. \A m : /\ At(m, "requeue", "all") <=> Has(m, l)
             /\ At(m, "requeue", "all")' <=> Has(m, r)
             /\ Uniq(m, "requeue", "all") <=> Once(m, l)
             /\ Uniq(m, "requeue", "all")' <=> Once(m, r)
  BY <1>1 DEF At, Uniq, ListAt
<1>7. ASSUME NEW k \in Kind, NEW z \in Names(k), k \notin {"queue", "requeue"}
      PROVE  \A m : (At(m, k, z)' <=> At(m, k, z)) /\ (Uniq(m, k, z) => Uniq(m, k, z)')
  <2>1. k # "schedule" => ListAt(k, z)' = ListAt(k, z)
    BY <1>7 DEF RequeueExec, ListAt, Kind, ListKind
  <2> QED BY <2>1, SamePlace
<1>8. /\ Names("queue") = Queue /\ Names("requeue") = {"all"}
      /\ "queue" \in Kind /\ "requeue" \in Kind
  BY DEF Names, Kind, ListKind
<1>9. ASSUME NEW m \in MessageId, ~Has(m, b)
      PROVE  /\ Somewhere(m)' <=> Somewhere(m)
             /\ Distinct(b) /\ Single(m) => Single(m)'
  <2>1. \A k \in Kind : \A z \in Names(k) : At(m, k, z)' <=> At(m, k, z)
    BY <1>2, <1>4, <1>5, <1>6, <1>7, <1>8, <1>9
  <2>2. ASSUME Distinct(b) PROVE \A k \in Kind : \A z \in Names(k) : Uniq(m, k, z) => Uniq(m, k, z)'
    BY <1>2, <1>4, <1>5, <1>6, <1>7, <1>8, <1>9, <2>2
  <2> QED BY <2>1, <2>2, StaysPut
<1>10. ASSUME NEW m \in MessageId, Has(m, b)
       PROVE  /\ Somewhere(m)'
              /\ BatchOf(b, l) /\ (\A n \in MessageId : Single(n)) => Single(m)'
  <2>1. PICK h \in Queue : h = Home[m] BY StoreAssumption
  <2>2. At(m, "queue", h)' BY <1>4, <1>5, <1>10, <2>1
  <2>3. Somewhere(m)' BY <1>8, <2>2 DEF Somewhere
  <2>4. ASSUME BatchOf(b, l), \A n \in MessageId : Single(n) PROVE Single(m)'
    <3>1. Single(m) /\ Distinct(b) BY <2>4 DEF BatchOf
    <3>2. Has(m, l)
      <4>1. PICK i \in 1..Len(b) : b[i].id = m BY <1>10 DEF Has
      <4>2. b[i] \in ToSet(l) BY <2>4, <4>1, InToSet DEF BatchOf
      <4> QED BY <4>1, <4>2 DEF Has, ToSet
    <3>3. \A n \in MessageId : Once(n, l) BY <1>6, <1>8, <2>4 DEF Single
    <3>4. ~At(m, "requeue", "all")' BY <1>2, <1>6, <1>10, <2>4, <3>3
    <3>5. ASSUME NEW q \in Queue PROVE ~Has(m, queue[q]) /\ Once(m, queue[q])
      BY <1>5, <1>6, <1>8, <3>1, <3>2 DEF Single
    <3>6. Uniq(m, "queue", h)' BY <1>4, <1>5, <3>1, <3>5
    <3>7. ASSUME NEW k \in Kind, NEW z \in Names(k),
                 <<k, z>> \notin {<<"requeue", "all">>, <<"queue", h>>}
          PROVE  (At(m, k, z)' <=> At(m, k, z)) /\ (Uniq(m, k, z) => Uniq(m, k, z)')
      <4>1. CASE k = "queue"
        <5>1. z \in Queue /\ z # h BY <1>8, <3>7, <4>1
        <5>2. Has(m, queue'[z]) <=> Has(m, queue[z]) BY <1>4, <2>1, <5>1
        <5>3. Once(m, queue'[z]) BY <1>4, <3>1, <3>5, <5>1
        <5> QED BY <1>5, <4>1, <5>1, <5>2, <5>3
      <4>2. CASE k = "requeue" BY <1>8, <3>7, <4>2
      <4>3. CASE k \notin {"queue", "requeue"} BY <1>7, <4>3
      <4> QED BY <4>1, <4>2, <4>3
    <3>8. At(m, "requeue", "all") BY <1>6, <3>2
    <3>9. "all" \in Names("requeue") /\ h \in Names("queue") /\ <<"requeue", "all">> # <<"queue", h>>
      BY <1>8
    <3> QED BY <1>8, <2>2, <3>1, <3>4, <3>6, <3>7, <3>8, <3>9, MovesOn
  <2> QED BY <2>3, <2>4
<1> QED BY <1>1, <1>9, <1>10 DEF BatchOf

\* The MULTI of the delay worker: the batch moves to the schedule.
LEMMA DelayKeeps ==
  ASSUME StoreTypeOK, StoreTypeOK', scheduled \subseteq Entry,
         NEW w \in Consumer, DelayExec(w), NEW b \in Seq(Entry), b = delayBatch[w]
  PROVE  /\ \A m \in MessageId : IF Has(m, b) THEN Somewhere(m)'
                                 ELSE Somewhere(m)' <=> Somewhere(m)
         /\ BatchOf(b, delayList) /\ (\A m \in MessageId : Single(m)) =>
              (\A m \in MessageId : Single(m)') /\ scheduled \subseteq scheduled'
<1>1. PICK l \in Seq(Entry), r \in Seq(Entry) :
        l = delayList /\ r = delayList' /\ r = lrem(l, b)
  BY DEF StoreTypeOK, DelayExec
<1>2. /\ \A m : Once(m, l) => Once(m, r)
      /\ \A m : ~Has(m, b) => (Has(m, r) <=> Has(m, l))
      /\ BatchOf(b, l) /\ (\A m \in MessageId : Once(m, l)) => \A m : Has(m, b) => ~Has(m, r)
  BY <1>1, LremFacts
<1>3. PICK s : s = scheduled' /\ s = schedule(b) BY DEF DelayExec
<1>4. /\ \A e \in s : \/ e \in scheduled /\ ~Has(e.id, b)
                      \/ \E x \in ToSet(b) : e = incrAttempts(x)
      /\ \A e \in scheduled : ~Has(e.id, b) => e \in s
      /\ \A m : Has(m, b) => \E e \in s : e.id = m
      /\ \A e, f \in s : e.id = f.id /\ Has(e.id, b) => e = f
  BY <1>3, ScheduleFacts
<1>5. \A e \in s : ~Has(e.id, b) => e \in scheduled
  <2>1. ASSUME NEW x \in ToSet(b) PROVE Has(incrAttempts(x).id, b)
    <3>1. x \in Entry /\ incrAttempts(x).id = x.id BY IncrType DEF ToSet
    <3>2. Has(x.id, b) BY DEF Has, ToSet
    <3> QED BY <3>1, <3>2
  <2> QED BY <1>4, <2>1
<1>6. \A m : /\ At(m, "schedule", "all") <=> \E e \in scheduled : e.id = m
             /\ At(m, "schedule", "all")' <=> \E e \in s : e.id = m
             /\ Uniq(m, "schedule", "all") <=>
                  \A e, f \in scheduled : e.id = m /\ f.id = m => e = f
             /\ Uniq(m, "schedule", "all")' <=>
                  \A e, f \in s : e.id = m /\ f.id = m => e = f
  BY <1>3 DEF At, Uniq
<1>7. \A m : /\ At(m, "delay", "all") <=> Has(m, l)
             /\ At(m, "delay", "all")' <=> Has(m, r)
             /\ Uniq(m, "delay", "all") <=> Once(m, l)
             /\ Uniq(m, "delay", "all")' <=> Once(m, r)
  BY <1>1 DEF At, Uniq, ListAt
<1>8. ASSUME NEW k \in Kind, NEW z \in Names(k), k \notin {"schedule", "delay"}
      PROVE  \A m : (At(m, k, z)' <=> At(m, k, z)) /\ (Uniq(m, k, z) => Uniq(m, k, z)')
  <2>1. ListAt(k, z)' = ListAt(k, z)
    BY <1>8 DEF DelayExec, ListAt, Kind, ListKind
  <2> QED BY <1>8, <2>1, SamePlace
<1>9. /\ Names("schedule") = {"all"} /\ Names("delay") = {"all"}
      /\ "schedule" \in Kind /\ "delay" \in Kind
  BY DEF Names, Kind, ListKind
<1>10. ASSUME NEW m \in MessageId, ~Has(m, b)
       PROVE  (Somewhere(m)' <=> Somewhere(m)) /\ (Single(m) => Single(m)')
  <2>1. (At(m, "schedule", "all")' <=> At(m, "schedule", "all"))
        /\ (Uniq(m, "schedule", "all") => Uniq(m, "schedule", "all")')
    BY <1>4, <1>5, <1>6, <1>10
  <2>2. \A k \in Kind : \A z \in Names(k) :
          (At(m, k, z)' <=> At(m, k, z)) /\ (Uniq(m, k, z) => Uniq(m, k, z)')
    BY <1>2, <1>7, <1>8, <1>9, <1>10, <2>1
  <2> QED BY <2>2, StaysPut
<1>11. ASSUME NEW m \in MessageId, Has(m, b)
       PROVE  /\ Somewhere(m)'
              /\ BatchOf(b, l) /\ (\A n \in MessageId : Single(n)) =>
                   Single(m)' /\ \A e \in scheduled : e.id # m
  <2>1. At(m, "schedule", "all")' /\ Uniq(m, "schedule", "all")'
    BY <1>4, <1>6, <1>11
  <2>2. Somewhere(m)' BY <1>9, <2>1 DEF Somewhere
  <2>3. ASSUME BatchOf(b, l), \A n \in MessageId : Single(n)
        PROVE  Single(m)' /\ \A e \in scheduled : e.id # m
    <3>1. Single(m) BY <2>3
    <3>2. Has(m, l)
      <4>1. PICK i \in 1..Len(b) : b[i].id = m BY <1>11 DEF Has
      <4>2. b[i] \in ToSet(l) BY <2>3, <4>1, InToSet DEF BatchOf
      <4>3. PICK j \in 1..Len(l) : l[j] = b[i] BY <4>2 DEF ToSet
      <4> QED BY <4>1, <4>3 DEF Has
    <3>3. \A n \in MessageId : Once(n, l) BY <1>7, <1>9, <2>3 DEF Single
    <3>4. ~At(m, "delay", "all")' BY <1>2, <1>7, <1>11, <2>3, <3>3
    <3>5. At(m, "delay", "all") BY <1>7, <3>2
    <3>6. <<"delay", "all">> # <<"schedule", "all">> OBVIOUS
    <3>7. ~At(m, "schedule", "all") BY <1>9, <3>1, <3>5, <3>6 DEF Single
    <3>8. \A k \in Kind : \A z \in Names(k) :
            <<k, z>> \notin {<<"delay", "all">>, <<"schedule", "all">>} =>
              (At(m, k, z)' <=> At(m, k, z)) /\ (Uniq(m, k, z) => Uniq(m, k, z)')
      BY <1>8, <1>9
    <3>9. "all" \in Names("delay") /\ "all" \in Names("schedule") BY <1>9
    <3>10. Single(m)' BY <1>9, <2>1, <3>1, <3>4, <3>5, <3>6, <3>8, <3>9, MovesOn
    <3> QED BY <1>6, <3>7, <3>10
  <2> QED BY <2>2, <2>3
<1>12. ASSUME BatchOf(b, l), \A n \in MessageId : Single(n) PROVE scheduled \subseteq s
  <2>1. \A e \in scheduled : e.id \in MessageId BY DEF Entry
  <2> QED BY <1>4, <1>11, <1>12, <2>1
<1> QED BY <1>1, <1>3, <1>10, <1>11, <1>12

\* The MULTI of the schedule worker: one message moves to its queue.
LEMMA EnqueueKeeps ==
  ASSUME StoreTypeOK, StoreTypeOK', NEW w \in Consumer, NEW e \in Entry, enqueue(w, e)
  PROVE  /\ Somewhere(e.id)'
         /\ e \in scheduled /\ Single(e.id) => Single(e.id)'
         /\ \A m : m # e.id => (Somewhere(m)' <=> Somewhere(m)) /\ (Single(m) => Single(m)')
<1>1. PICK h \in Queue : h = Home[e.id] BY IncrType
<1>2. Arrival(e, "queue", h) BY <1>1, PushArrival DEF enqueue
<1>3. PICK l \in Seq(Entry), r \in Seq(Entry) :
        l = ListAt("queue", h) /\ r = ListAt("queue", h)' /\ Inserted(l, r, e)
  BY <1>2, ListAtType DEF Arrival
<1>4. /\ Names("queue") = Queue /\ Names("schedule") = {"all"} /\ "queue" \in ListKind
      /\ "queue" \in Kind /\ "schedule" \in Kind
  BY DEF Names, Kind, ListKind
<1>5. /\ At(e.id, "queue", h)' /\ (~At(e.id, "queue", h) => Uniq(e.id, "queue", h)')
      /\ \A m : m # e.id => /\ At(m, "queue", h)' <=> At(m, "queue", h)
                            /\ Uniq(m, "queue", h) => Uniq(m, "queue", h)'
  BY <1>3, <1>4, InsertedPlace
<1>6. ~At(e.id, "schedule", "all")' BY DEF At, enqueue
<1>7. \A m : m # e.id => /\ At(m, "schedule", "all")' <=> At(m, "schedule", "all")
                         /\ Uniq(m, "schedule", "all") => Uniq(m, "schedule", "all")'
  BY DEF At, Uniq, enqueue
<1>8. ASSUME NEW k \in Kind, NEW z \in Names(k),
             <<k, z>> \notin {<<"schedule", "all">>, <<"queue", h>>}
      PROVE  \A m : (At(m, k, z)' <=> At(m, k, z)) /\ (Uniq(m, k, z) => Uniq(m, k, z)')
  <2>1. k # "schedule" BY <1>4, <1>8
  <2>2. ListAt(k, z)' = ListAt(k, z) BY <1>2, <1>8, <2>1 DEF Arrival, Kind
  <2> QED BY <2>1, <2>2, SamePlace
<1>9. ASSUME NEW m, m # e.id
      PROVE  (Somewhere(m)' <=> Somewhere(m)) /\ (Single(m) => Single(m)')
  <2>1. \A k \in Kind : \A z \in Names(k) :
          (At(m, k, z)' <=> At(m, k, z)) /\ (Uniq(m, k, z) => Uniq(m, k, z)')
    BY <1>5, <1>7, <1>8, <1>9
  <2> QED BY <2>1, StaysPut
<1>10. <<"schedule", "all">> # <<"queue", h>> /\ "all" \in Names("schedule")
       /\ h \in Names("queue")
  BY <1>4
<1>11. /\ Somewhere(e.id)'
       /\ /\ Single(e.id) /\ At(e.id, "schedule", "all") /\ ~At(e.id, "schedule", "all")'
          /\ Uniq(e.id, "queue", h)'
          => Single(e.id)'
  BY <1>4, <1>5, <1>8, <1>10, MovesOn
<1>12. ASSUME e \in scheduled, Single(e.id) PROVE Single(e.id)'
  <2>1. At(e.id, "schedule", "all") BY <1>12 DEF At
  <2>2. ~At(e.id, "queue", h) BY <1>4, <1>10, <1>12, <2>1 DEF Single
  <2> QED BY <1>5, <1>6, <1>11, <1>12, <2>1, <2>2
<1> QED BY <1>9, <1>11, <1>12

-----------------------------------------------------------------------------
(***************************************************************************)
(* Nothing is lost.                                                        *)
(***************************************************************************)
\* A worker has read m and not yet moved it.
InBatch(m, w) ==
  Has(m, requeueBatch[w]) \/ Has(m, delayBatch[w]) \/ \E e \in dueBatch[w] : e.id = m

\* Redis has the messages that were published, and the workers read no others.
Whereabouts ==
  \A m \in MessageId :
    /\ m \in published <=> Somewhere(m)
    /\ \A w \in Consumer : InBatch(m, w) => m \in published

\* What a worker reads off a list is on it.
LEMMA ReadFacts ==
  ASSUME NEW l \in Seq(Entry), NEW r, r = lrange(l)
  PROVE  /\ r \in Seq(Entry)
         /\ \A m : Has(m, r) => Has(m, l)
         /\ (\A m \in MessageId : Once(m, l)) => BatchOf(r, l)
<1>1. r \in Seq(Entry) /\ Len(r) <= Len(l) /\ \A i \in 1..Len(r) : r[i] = l[i]
  BY LrangeFacts
<1>2. \A i \in 1..Len(r) : i \in 1..Len(l) BY <1>1
<1>3. \A m : Has(m, r) => Has(m, l) BY <1>1, <1>2 DEF Has
<1>4. ASSUME \A m \in MessageId : Once(m, l) PROVE Distinct(r)
  <2> SUFFICES ASSUME NEW i \in 1..Len(r), NEW j \in 1..Len(r), r[i].id = r[j].id
               PROVE  i = j
    BY DEF Distinct
  <2>1. i \in 1..Len(l) /\ j \in 1..Len(l) /\ l[i] = r[i] /\ l[j] = r[j]
    BY <1>1, <1>2
  <2>2. PICK m \in MessageId : m = r[i].id
    <3>1. r[i] \in Entry BY <1>1
    <3> QED BY <3>1, IncrType
  <2>3. Once(m, l) BY <1>4
  <2> QED BY <2>1, <2>2, <2>3 DEF Once
<1>5. ToSet(r) \subseteq ToSet(l)
  <2>1. \A i \in 1..Len(r) : r[i] \in ToSet(l) BY <1>1, <1>2, InToSet
  <2> QED BY <2>1 DEF ToSet
<1> QED BY <1>1, <1>3, <1>4, <1>5 DEF BatchOf

\* What is in a list or in the schedule is somewhere.
LEMMA FoundSomewhere ==
  \A m : /\ Has(m, requeueList) => Somewhere(m)
         /\ Has(m, delayList) => Somewhere(m)
         /\ (\E e \in scheduled : e.id = m) => Somewhere(m)
<1>1. /\ "requeue" \in Kind /\ "delay" \in Kind /\ "schedule" \in Kind
      /\ "all" \in Names("requeue") /\ "all" \in Names("delay") /\ "all" \in Names("schedule")
  BY DEF Kind, ListKind, Names
<1>2. \A m : /\ Has(m, requeueList) => At(m, "requeue", "all")
             /\ Has(m, delayList) => At(m, "delay", "all")
             /\ (\E e \in scheduled : e.id = m) => At(m, "schedule", "all")
  BY DEF At, ListAt
<1> QED BY <1>1, <1>2 DEF Somewhere

\* Every step keeps the messages that were published.
LEMMA WhereaboutsNext ==
  ASSUME Control, Whereabouts, [SysStep]_stateVars
  PROVE  Whereabouts'
<1>0. /\ StateTypeOK /\ StoreTypeOK /\ workers \subseteq Consumer /\ StoreTypeOK'
      /\ requeueBatch \in [Consumer -> Seq(Entry)] /\ delayBatch \in [Consumer -> Seq(Entry)]
      /\ dueBatch \in [Consumer -> SUBSET Entry] /\ scheduled \subseteq Entry
  BY StateNextType DEF Control, StateTypeOK, TypeOK, RequeueTypeOK, DelayTypeOK
<1>1. \A m : ~Has(m, <<>>) BY DEF Has
<1>2. ASSUME published' = published,
             \A m \in MessageId : Somewhere(m)' <=> Somewhere(m),
             \A m \in MessageId : \A w \in Consumer : InBatch(m, w)' => InBatch(m, w) \/ Somewhere(m)
      PROVE  Whereabouts'
  BY <1>2 DEF Whereabouts
<1>3. ASSUME Still PROVE \A m \in MessageId : \A w \in Consumer : InBatch(m, w)' => InBatch(m, w)
  BY <1>3 DEF Still, InBatch
<1>4. CASE Quiet
  BY <1>2, <1>3, <1>4, StillKeeps DEF Quiet, Still
<1>5. ASSUME NEW c \in Consumer, Kills(c) PROVE Whereabouts'
  <2>1. UNCHANGED <<lists, scheduled>> /\ published' = published
    BY <1>5 DEF Kills, KillWorkers
  <2>2. \A w \in Consumer : /\ dueBatch'[w] \in {dueBatch[w], {}}
                            /\ requeueBatch'[w] \in {requeueBatch[w], <<>>}
                            /\ delayBatch'[w] \in {delayBatch[w], <<>>}
    BY <1>0, <1>5 DEF Kills, KillWorkers
  <2>3. \A m \in MessageId : \A w \in Consumer : InBatch(m, w)' => InBatch(m, w)
    BY <1>1, <2>2 DEF InBatch
  <2> QED BY <1>2, <2>1, <2>3, StillKeeps
<1>6. ASSUME NEW c \in Consumer, StartWorkers(c) PROVE Whereabouts'
  <2>1. /\ UNCHANGED <<lists, scheduled, published>>
        /\ UNCHANGED <<requeueBatch, delayBatch, dueBatch>>
    BY <1>6 DEF StartWorkers, vars, storeVars, workerVars, delayVars
  <2> QED BY <1>2, <2>1, StillKeeps DEF InBatch
<1>7. ASSUME NEW c \in Consumer, Fetches(c) PROVE Whereabouts'
  <2>1. PICK e \in Entry : Transfer(e, "queue", QueueOf[c], "processing", c)
    BY <1>0, <1>7, DequeueTransfer DEF Fetches
  <2>2. \A m \in MessageId : Somewhere(m)' <=> Somewhere(m)
    BY <1>0, <1>7, <2>1, TransferKeeps DEF Fetches, Still
  <2> QED BY <1>2, <1>3, <1>7, <2>2 DEF Fetches
<1>8. ASSUME NEW c \in Consumer, NEW op \in Op, NEW q \in Queue, Moves(op, c, q)
      PROVE  Whereabouts'
  <2>1. \A m \in MessageId : Somewhere(m)' <=> Somewhere(m)
    <3>1. CASE UNCHANGED lists BY <1>8, <3>1, StillKeeps DEF Moves, Still
    <3>2. ASSUME NEW e, Transfer(e, "processing", c, Target(op), TargetName(op, q))
          PROVE  \A m \in MessageId : Somewhere(m)' <=> Somewhere(m)
      BY <1>0, <1>8, <3>2, TransferKeeps DEF Moves, Still
    <3> QED BY <1>0, <1>8, <3>1, <3>2, SettleTransfer DEF Moves
  <2> QED BY <1>2, <1>3, <1>8, <2>1 DEF Moves
<1>9. ASSUME NEW m \in MessageId, Produce(m) PROVE Whereabouts'
  <2>1. PICK e \in Entry : e = [id |-> m, attempts |-> 0] /\ e.id = m
    <3>1. [id |-> m, attempts |-> 0] \in Entry BY DEF Entry
    <3> QED BY <3>1
  <2>2. Home[m] \in Queue BY StoreAssumption
  <2>3. Arrival(e, "queue", Home[m]) BY <1>0, <1>9, <2>1, <2>2, PushArrival DEF Produce
  <2>4. Still BY <1>9 DEF Produce, workerVars, delayVars, poolVars, Still
  <2>5. ~Somewhere(m) /\ published' = published \union {m} BY <1>9 DEF Produce, Whereabouts
  <2>6. Somewhere(m)' /\ \A n : n # m => (Somewhere(n)' <=> Somewhere(n))
    BY <1>0, <2>1, <2>3, <2>4, <2>5, ArrivalKeeps DEF Still
  <2> QED BY <1>3, <2>4, <2>5, <2>6 DEF Whereabouts
<1>10. ASSUME NEW w \in workers, RequeueStep(w) PROVE Whereabouts'
  <2>0. w \in Consumer BY <1>0
  <2>1. UNCHANGED <<scheduled, delayBatch, dueBatch>>
    BY <1>10 DEF RequeueStep, delayVars
  <2>2. CASE RequeueRead(w)
    <3>1. UNCHANGED <<lists, published>> BY <2>2 DEF RequeueRead, storeVars
    <3>2. requeueList \in Seq(Entry) BY <1>0 DEF StoreTypeOK
    <3>3. requeueBatch' = [requeueBatch EXCEPT ![w] = lrange(requeueList)]
      BY <2>2 DEF RequeueRead
    <3>4. \A m : Has(m, lrange(requeueList)) => Somewhere(m)
      BY <3>2, ReadFacts, FoundSomewhere
    <3>5. ASSUME NEW m \in MessageId, NEW v \in Consumer, InBatch(m, v)'
          PROVE  InBatch(m, v) \/ Somewhere(m)
      <4>1. requeueBatch'[v] \in {requeueBatch[v], lrange(requeueList)}
        BY <1>0, <3>3
      <4> QED BY <2>1, <3>4, <3>5, <4>1 DEF InBatch
    <3> QED BY <1>2, <2>1, <3>1, <3>5, StillKeeps
  <2>3. CASE RequeueExec(w)
    <3>1. PICK b \in Seq(Entry) : b = requeueBatch[w] BY <1>0, <2>0
    <3>2. published' = published BY <2>3 DEF RequeueExec
    <3>3. \A m \in MessageId : IF Has(m, b) THEN Somewhere(m)'
                               ELSE Somewhere(m)' <=> Somewhere(m)
      BY <1>0, <2>0, <2>1, <2>3, <3>1, RequeueKeeps
    <3>4. \A m \in MessageId : Has(m, b) => Somewhere(m)
      BY <2>0, <3>1 DEF Whereabouts, InBatch
    <3>5. \A v \in Consumer : requeueBatch'[v] \in {requeueBatch[v], <<>>}
      BY <1>0, <2>3 DEF RequeueExec
    <3>6. \A m \in MessageId : \A v \in Consumer : InBatch(m, v)' => InBatch(m, v)
      BY <1>1, <2>1, <3>5 DEF InBatch
    <3> QED BY <1>2, <3>2, <3>3, <3>4, <3>6
  <2> QED BY <1>10, <2>2, <2>3 DEF RequeueStep
<1>11. ASSUME NEW w \in workers, DelayStep(w) PROVE Whereabouts'
  <2>0. w \in Consumer BY <1>0
  <2>1. UNCHANGED <<requeueBatch, dueBatch>>
    BY <1>11 DEF DelayStep, DelayRead, DelayExec
  <2>2. CASE DelayRead(w)
    <3>1. UNCHANGED <<lists, published, scheduled>> BY <2>2 DEF DelayRead, storeVars
    <3>2. delayList \in Seq(Entry) BY <1>0 DEF StoreTypeOK
    <3>3. delayBatch' = [delayBatch EXCEPT ![w] = lrange(delayList)]
      BY <2>2 DEF DelayRead
    <3>4. \A m : Has(m, lrange(delayList)) => Somewhere(m)
      BY <3>2, ReadFacts, FoundSomewhere
    <3>5. ASSUME NEW m \in MessageId, NEW v \in Consumer, InBatch(m, v)'
          PROVE  InBatch(m, v) \/ Somewhere(m)
      <4>1. delayBatch'[v] \in {delayBatch[v], lrange(delayList)}
        BY <1>0, <3>3
      <4> QED BY <2>1, <3>4, <3>5, <4>1 DEF InBatch
    <3> QED BY <1>2, <3>1, <3>5, StillKeeps
  <2>3. CASE DelayExec(w)
    <3>1. PICK b \in Seq(Entry) : b = delayBatch[w] BY <1>0, <2>0
    <3>2. published' = published BY <2>3 DEF DelayExec
    <3>3. \A m \in MessageId : IF Has(m, b) THEN Somewhere(m)'
                               ELSE Somewhere(m)' <=> Somewhere(m)
      BY <1>0, <2>0, <2>3, <3>1, DelayKeeps
    <3>4. \A m \in MessageId : Has(m, b) => Somewhere(m)
      BY <2>0, <3>1 DEF Whereabouts, InBatch
    <3>5. \A v \in Consumer : delayBatch'[v] \in {delayBatch[v], <<>>}
      BY <1>0, <2>3 DEF DelayExec
    <3>6. \A m \in MessageId : \A v \in Consumer : InBatch(m, v)' => InBatch(m, v)
      BY <1>1, <2>1, <3>5 DEF InBatch
    <3> QED BY <1>2, <3>2, <3>3, <3>4, <3>6
  <2> QED BY <1>11, <2>2, <2>3 DEF DelayStep
<1>12. ASSUME NEW w \in workers, ScheduleStep(w) PROVE Whereabouts'
  <2>0. w \in Consumer BY <1>0
  <2>1. UNCHANGED <<requeueBatch, delayBatch>>
    BY <1>12 DEF ScheduleStep, fetchIds, fetchMessages, enqueue
  <2>2. CASE fetchIds(w)
    <3>1. UNCHANGED <<lists, published, scheduled, dueBatch>> BY <2>2 DEF fetchIds, storeVars
    <3> QED BY <1>2, <2>1, <3>1, StillKeeps DEF InBatch
  <2>3. CASE fetchMessages(w)
    <3>1. UNCHANGED <<lists, published, scheduled>> BY <2>3 DEF fetchMessages, storeVars
    <3>2. \A v \in Consumer : \A e \in dueBatch'[v] : e \in dueBatch[v] \/ e \in scheduled
      BY <1>0, <2>3 DEF fetchMessages
    <3>3. \A m \in MessageId : \A v \in Consumer : InBatch(m, v)' => InBatch(m, v) \/ Somewhere(m)
      BY <2>1, <3>2, FoundSomewhere DEF InBatch
    <3> QED BY <1>2, <3>1, <3>3, StillKeeps
  <2>4. ASSUME NEW e \in dueBatch[w], enqueue(w, e) PROVE Whereabouts'
    <3>1. e \in Entry /\ e.id \in MessageId BY <1>0, <2>0, IncrType
    <3>2. Somewhere(e.id)' /\ \A m : m # e.id => (Somewhere(m)' <=> Somewhere(m))
      BY <1>0, <2>0, <2>4, <3>1, EnqueueKeeps
    <3>3. Somewhere(e.id) BY <2>0, <3>1 DEF Whereabouts, InBatch
    <3>4. published' = published /\ \A v \in Consumer : dueBatch'[v] \subseteq dueBatch[v]
      BY <1>0, <2>4 DEF enqueue
    <3>5. \A m \in MessageId : \A v \in Consumer : InBatch(m, v)' => InBatch(m, v)
      BY <2>1, <3>4 DEF InBatch
    <3> QED BY <1>2, <3>2, <3>3, <3>4, <3>5
  <2> QED BY <1>12, <2>2, <2>3, <2>4 DEF ScheduleStep
<1> QED BY <1>4, <1>5, <1>6, <1>7, <1>8, <1>9, <1>10, <1>11, <1>12, SysCases

\* Initially nothing is stored and nothing has been published.
LEMMA EmptyInit ==
  ASSUME SysInit
  PROVE  /\ \A m : \A a \in Kind : \A x \in Names(a) : ~At(m, a, x) /\ Uniq(m, a, x)
         /\ scheduled = {} /\ published = {}
         /\ \A w \in Consumer : dueBatch[w] = {} /\ requeueBatch[w] = <<>> /\ delayBatch[w] = <<>>
<1>1. \A a \in ListKind : \A x \in Names(a) : ListAt(a, x) = <<>>
  BY DEF SysInit, StoreInit, ListKind, Names, ListAt
<1>2. /\ scheduled = {} /\ published = {}
      /\ \A w \in Consumer : dueBatch[w] = {} /\ requeueBatch[w] = <<>> /\ delayBatch[w] = <<>>
  BY DEF SysInit, StoreInit, DelayInit, RequeueInit
<1>3. \A m : ~Has(m, <<>>) /\ Once(m, <<>>) BY DEF Has, Once
<1>4. ASSUME NEW m, NEW a \in Kind, NEW x \in Names(a) PROVE ~At(m, a, x) /\ Uniq(m, a, x)
  <2>1. CASE a = "schedule" BY <1>2, <2>1 DEF At, Uniq
  <2>2. CASE a # "schedule"
    <3>1. ListAt(a, x) = <<>> BY <1>1, <2>2 DEF Kind
    <3> QED BY <1>3, <2>2, <3>1 DEF At, Uniq
  <2> QED BY <2>1, <2>2
<1> QED BY <1>2, <1>4

\* Initially no message is published, so none is missing.
LEMMA WhereaboutsInit == SysInit => Whereabouts
<1> SUFFICES ASSUME SysInit PROVE Whereabouts OBVIOUS
<1>1. \A m : ~Has(m, <<>>) BY DEF Has
<1> QED BY <1>1, EmptyInit DEF Whereabouts, Somewhere, InBatch

\* A message that is somewhere has a place.
LEMMA SomewherePlaces ==
  ASSUME NEW m, Somewhere(m)
  PROVE  Places(m) # {}
<1>0. PICK a \in Kind : \E x \in Names(a) : At(m, a, x) BY DEF Somewhere
<1>1. PICK x \in Names(a) : At(m, a, x) BY <1>0
<1>2. CASE a = "schedule"
  <2>1. PICK e \in scheduled : e.id = m BY <1>1, <1>2 DEF At
  <2>2. <<"scheduled", e>> \in Places(m) BY <2>1 DEF Places
  <2> QED BY <2>2
<1>3. CASE a # "schedule"
  <2>1. PICK i \in Copies(m, ListAt(a, x)) : TRUE BY <1>1, <1>3 DEF At, Has, Copies
  <2>2. CASE a = "queue"
    <3>1. x \in Queue /\ i \in Copies(m, queue[x]) BY <2>1, <2>2 DEF ListAt, Names
    <3>2. <<"queue", x, i>> \in Places(m) BY <3>1 DEF Places
    <3> QED BY <3>2
  <2>3. CASE a = "processing"
    <3>1. x \in Consumer /\ i \in Copies(m, processing[x]) BY <2>1, <2>3 DEF ListAt, Names
    <3>2. <<"processing", x, i>> \in Places(m) BY <3>1 DEF Places
    <3> QED BY <3>2
  <2>4. CASE a = "requeue"
    <3>1. i \in Copies(m, requeueList) BY <2>1, <2>4 DEF ListAt
    <3>2. <<"requeue", i>> \in Places(m) BY <3>1 DEF Places
    <3> QED BY <3>2
  <2>5. CASE a = "delay"
    <3>1. i \in Copies(m, delayList) BY <2>1, <2>5 DEF ListAt
    <3>2. <<"delay", i>> \in Places(m) BY <3>1 DEF Places
    <3> QED BY <3>2
  <2>6. CASE a = "acknowledged"
    <3>1. x \in Queue /\ i \in Copies(m, acknowledged[x]) BY <2>1, <2>6 DEF ListAt, Names
    <3>2. <<"acknowledged", x, i>> \in Places(m) BY <3>1 DEF Places
    <3> QED BY <3>2
  <2>7. CASE a = "deadLetter"
    <3>1. x \in Queue /\ i \in Copies(m, deadLetter[x]) BY <2>1, <2>7 DEF ListAt, Names
    <3>2. <<"deadLetter", x, i>> \in Places(m) BY <3>1 DEF Places
    <3> QED BY <3>2
  <2> QED BY <1>3, <2>2, <2>3, <2>4, <2>5, <2>6, <2>7 DEF Kind, ListKind
<1> QED BY <1>2, <1>3

\* "Messages are not lost in case of consumer failures", until a collector
\* takes a consumer for dead that can still fetch.
THEOREM MessagesAreNotLost ==
  ASSUME SingleUse, NoStaleTimers
  PROVE  SysSpec => []MessagesKept
<1>1. /\ SysTypeOK /\ (mistaken = {} => Control) /\ (mistaken = {} => Whereabouts)
      /\ [SysNext]_sysVars
      => (mistaken = {} => Whereabouts)'
  BY UnmistakenStep, WhereaboutsNext
<1>2. (mistaken = {} => Control) /\ (mistaken = {} => Whereabouts) => MessagesKept
  BY SomewherePlaces
  DEF Whereabouts, MessagesKept, NothingLost, Control, StateTypeOK, TypeOK, StoreTypeOK
<1> QED BY <1>1, <1>2, WhereaboutsInit, ControlHolds, SysTypeCorrect, PTL DEF SysSpec

-----------------------------------------------------------------------------
(***************************************************************************)
(* Nothing is duplicated while one set of workers runs at a time.          *)
(***************************************************************************)
\* One set of workers; workers that do not run have read nothing.
Pool ==
  /\ ~overlapped => \A v, w \in workers : v = w
  /\ \A w \in Consumer \ workers :
       requeueBatch[w] = <<>> /\ delayBatch[w] = <<>> /\ dueBatch[w] = {}

\* Every message has one copy, and what the workers have read is still there.
Exact ==
  ~overlapped =>
    /\ \A m \in MessageId : Single(m)
    /\ \A w \in Consumer : /\ BatchOf(requeueBatch[w], requeueList)
                           /\ BatchOf(delayBatch[w], delayList)
                           /\ dueBatch[w] \subseteq scheduled

\* Workers start when none run, or an overlap is on record.
LEMMA PoolNext ==
  ASSUME Control, Pool, [SysStep]_stateVars
  PROVE  Pool'
<1>0. /\ workers \subseteq Consumer
      /\ requeueBatch \in [Consumer -> Seq(Entry)] /\ delayBatch \in [Consumer -> Seq(Entry)]
      /\ dueBatch \in [Consumer -> SUBSET Entry]
  BY DEF Control, StateTypeOK, RequeueTypeOK, DelayTypeOK
<1>1. ASSUME Still PROVE Pool' BY <1>1 DEF Still, Pool
<1>2. CASE Quiet BY <1>1, <1>2 DEF Quiet
<1>3. ASSUME NEW c \in Consumer, Kills(c) PROVE Pool'
  BY <1>0, <1>3 DEF Kills, KillWorkers, Pool
<1>4. ASSUME NEW c \in Consumer, StartWorkers(c) PROVE Pool'
  <2>1. UNCHANGED <<requeueBatch, delayBatch, dueBatch>>
    BY <1>4 DEF StartWorkers, workerVars, delayVars
  <2> QED BY <1>0, <1>4, <2>1 DEF StartWorkers, Pool
<1>5. ASSUME NEW c \in Consumer, Fetches(c) PROVE Pool' BY <1>1, <1>5 DEF Fetches
<1>6. ASSUME NEW c \in Consumer, NEW op \in Op, NEW q \in Queue, Moves(op, c, q)
      PROVE  Pool'
  BY <1>1, <1>6 DEF Moves
<1>7. ASSUME NEW m \in MessageId, Produce(m) PROVE Pool'
  BY <1>1, <1>7 DEF Produce, workerVars, delayVars, poolVars, Still
<1>8. ASSUME NEW w \in workers, RequeueStep(w) \/ DelayStep(w) \/ ScheduleStep(w) PROVE Pool'
  <2>1. UNCHANGED <<workers, overlapped>>
    BY <1>8 DEF RequeueStep, DelayStep, ScheduleStep, poolVars
  <2>2. \A v \in Consumer \ workers : /\ requeueBatch'[v] = requeueBatch[v]
                                      /\ delayBatch'[v] = delayBatch[v]
                                      /\ dueBatch'[v] = dueBatch[v]
    <3>1. CASE RequeueStep(w)
      BY <1>0, <3>1 DEF RequeueStep, RequeueRead, RequeueExec, delayVars
    <3>2. CASE DelayStep(w)
      BY <1>0, <3>2 DEF DelayStep, DelayRead, DelayExec
    <3>3. CASE ScheduleStep(w)
      BY <1>0, <3>3 DEF ScheduleStep, fetchIds, fetchMessages, enqueue
    <3> QED BY <1>8, <3>1, <3>2, <3>3
  <2> QED BY <2>1, <2>2 DEF Pool
<1> QED BY <1>2, <1>3, <1>4, <1>5, <1>6, <1>7, <1>8, SysCases

\* Nothing read is trivially still there, and so is what is read off a list.
LEMMA BatchFacts ==
  /\ \A l : BatchOf(<<>>, l)
  /\ \A b, l, r : BatchOf(b, l) /\ ToSet(l) \subseteq ToSet(r) => BatchOf(b, r)
<1>1. ToSet(<<>>) = {} BY EmptyList
<1>2. Distinct(<<>>) BY DEF Distinct
<1> QED BY <1>1, <1>2 DEF BatchOf

\* A transfer from a queue or a processing queue takes nothing off the lists
\* the workers read.
LEMMA TransferGrows ==
  ASSUME StoreTypeOK, StoreTypeOK', NEW e, NEW a \in {"queue", "processing"}, NEW x,
         NEW b, NEW y, Transfer(e, a, x, b, y)
  PROVE  ToSet(requeueList) \subseteq ToSet(requeueList') /\ ToSet(delayList) \subseteq ToSet(delayList')
<1>1. ASSUME NEW k \in {"requeue", "delay"}
      PROVE  ToSet(ListAt(k, "all")) \subseteq ToSet(ListAt(k, "all")')
  <2>1. k \in ListKind /\ "all" \in Names(k) /\ Names(k) = {"all"} /\ k # a
    BY DEF ListKind, Names
  <2>2. PICK l \in Seq(Entry), r \in Seq(Entry) : l = ListAt(k, "all") /\ r = ListAt(k, "all")'
    BY <2>1, ListAtType
  <2>3. CASE k = b
    <3>1. y = "all" /\ Inserted(l, r, e) /\ e \in Entry BY <2>1, <2>2, <2>3 DEF Transfer
    <3>2. ToSet(r) = ToSet(l) \union {e} BY <3>1, InsertedFacts
    <3> QED BY <2>2, <3>2
  <2>4. CASE k # b
    <3>1. l = r BY <2>1, <2>2, <2>4 DEF Transfer
    <3> QED BY <2>2, <3>1
  <2> QED BY <2>3, <2>4
<1>2. /\ ListAt("requeue", "all") = requeueList /\ ListAt("requeue", "all")' = requeueList'
      /\ ListAt("delay", "all") = delayList /\ ListAt("delay", "all")' = delayList'
  BY DEF ListAt
<1> QED BY <1>1, <1>2

\* Every step keeps one copy.
LEMMA ExactNext ==
  ASSUME Control, Whereabouts, Pool, Exact, [SysStep]_stateVars
  PROVE  Exact'
<1>0. /\ StateTypeOK /\ StoreTypeOK /\ workers \subseteq Consumer /\ StoreTypeOK'
      /\ requeueBatch \in [Consumer -> Seq(Entry)] /\ delayBatch \in [Consumer -> Seq(Entry)]
      /\ dueBatch \in [Consumer -> SUBSET Entry] /\ scheduled \subseteq Entry
      /\ requeueList \in Seq(Entry) /\ delayList \in Seq(Entry)
  BY StateNextType DEF Control, StateTypeOK, TypeOK, RequeueTypeOK, DelayTypeOK, StoreTypeOK
<1>1. overlapped => overlapped'
  BY DEF SysStep, stateVars, poolVars, Produce, ClockStep, ConsumerStep, SetUpFails,
         CrashWithWorkers, KillWorkers, StartWorkers, tearDownConsumerWorkers,
         HeartbeatExpires, WorkerStep, GCStep, RequeueStep, DelayStep, ScheduleStep,
         WorkerPanics
<1> SUFFICES ASSUME ~overlapped' PROVE Exact'
  BY DEF Exact
<1>2. /\ ~overlapped
      /\ \A m \in MessageId : Single(m)
      /\ \A w \in Consumer : /\ BatchOf(requeueBatch[w], requeueList)
                             /\ BatchOf(delayBatch[w], delayList)
                             /\ dueBatch[w] \subseteq scheduled
  BY <1>1 DEF Exact
<1>3. \A m \in MessageId : Once(m, requeueList) /\ Once(m, delayList)
                           /\ Uniq(m, "schedule", "all")
  <2>1. /\ "requeue" \in Kind /\ "delay" \in Kind /\ "schedule" \in Kind
        /\ "all" \in Names("requeue") /\ "all" \in Names("delay") /\ "all" \in Names("schedule")
    BY DEF Kind, ListKind, Names
  <2>2. \A m \in MessageId : /\ Uniq(m, "requeue", "all") /\ Uniq(m, "delay", "all")
                             /\ Uniq(m, "schedule", "all")
    BY <1>2, <2>1 DEF Single
  <2> QED BY <2>2 DEF Uniq, ListAt
<1>4. ASSUME \A m \in MessageId : Single(m)',
             ToSet(requeueList) \subseteq ToSet(requeueList'),
             ToSet(delayList) \subseteq ToSet(delayList'),
             scheduled \subseteq scheduled',
             \A w \in Consumer : /\ dueBatch'[w] \in {dueBatch[w], {}}
                                 /\ requeueBatch'[w] \in {requeueBatch[w], <<>>}
                                 /\ delayBatch'[w] \in {delayBatch[w], <<>>}
      PROVE  Exact'
  <2>1. ASSUME NEW w \in Consumer
        PROVE  /\ BatchOf(requeueBatch'[w], requeueList')
               /\ BatchOf(delayBatch'[w], delayList')
               /\ dueBatch'[w] \subseteq scheduled'
    BY <1>2, <1>4, BatchFacts
  <2> QED BY <1>4, <2>1 DEF Exact, BatchOf, Distinct
<1>5. ASSUME Still, \A m \in MessageId : Single(m)',
             ToSet(requeueList) \subseteq ToSet(requeueList'),
             ToSet(delayList) \subseteq ToSet(delayList')
      PROVE  Exact'
  BY <1>4, <1>5 DEF Still
<1>6. ASSUME UNCHANGED <<lists, scheduled>>
      PROVE  /\ \A m \in MessageId : Single(m)'
             /\ requeueList' = requeueList /\ delayList' = delayList
  BY <1>2, <1>6, StillKeeps DEF lists
<1>7. CASE Quiet BY <1>5, <1>6, <1>7 DEF Quiet, Still
<1>8. ASSUME NEW c \in Consumer, Kills(c) PROVE Exact'
  <2>1. UNCHANGED <<lists, scheduled>> BY <1>8 DEF Kills, KillWorkers
  <2>2. \A w \in Consumer : /\ dueBatch'[w] \in {dueBatch[w], {}}
                            /\ requeueBatch'[w] \in {requeueBatch[w], <<>>}
                            /\ delayBatch'[w] \in {delayBatch[w], <<>>}
    BY <1>0, <1>8 DEF Kills, KillWorkers
  <2> QED BY <1>4, <1>6, <2>1, <2>2
<1>9. ASSUME NEW c \in Consumer, StartWorkers(c) PROVE Exact'
  <2>1. UNCHANGED <<lists, scheduled, requeueBatch, delayBatch, dueBatch>>
    BY <1>9 DEF StartWorkers, vars, storeVars, workerVars, delayVars
  <2> QED BY <1>4, <1>6, <2>1
<1>10. ASSUME NEW c \in Consumer, Fetches(c) PROVE Exact'
  <2>1. PICK e \in Entry : Transfer(e, "queue", QueueOf[c], "processing", c)
    BY <1>0, <1>10, DequeueTransfer DEF Fetches
  <2>2. \A m \in MessageId : Single(m)'
    BY <1>0, <1>2, <1>10, <2>1, TransferKeeps DEF Fetches, Still
  <2>3. /\ ToSet(requeueList) \subseteq ToSet(requeueList')
        /\ ToSet(delayList) \subseteq ToSet(delayList')
    BY <1>0, <2>1, TransferGrows
  <2> QED BY <1>5, <1>10, <2>2, <2>3 DEF Fetches
<1>11. ASSUME NEW c \in Consumer, NEW op \in Op, NEW q \in Queue, Moves(op, c, q)
       PROVE  Exact'
  <2>1. CASE UNCHANGED lists BY <1>5, <1>6, <1>11, <2>1 DEF Moves, Still
  <2>2. ASSUME NEW e, Transfer(e, "processing", c, Target(op), TargetName(op, q))
        PROVE  Exact'
    <3>1. \A m \in MessageId : Single(m)'
      BY <1>0, <1>2, <1>11, <2>2, TransferKeeps DEF Moves, Still
    <3>2. /\ ToSet(requeueList) \subseteq ToSet(requeueList')
          /\ ToSet(delayList) \subseteq ToSet(delayList')
      BY <1>0, <2>2, TransferGrows
    <3> QED BY <1>5, <1>11, <3>1, <3>2 DEF Moves
  <2> QED BY <1>0, <1>11, <2>1, <2>2, SettleTransfer DEF Moves
<1>12. ASSUME NEW m \in MessageId, Produce(m) PROVE Exact'
  <2>1. PICK e \in Entry : e = [id |-> m, attempts |-> 0] /\ e.id = m
    <3>1. [id |-> m, attempts |-> 0] \in Entry BY DEF Entry
    <3> QED BY <3>1
  <2>2. Home[m] \in Queue BY StoreAssumption
  <2>3. Arrival(e, "queue", Home[m]) BY <1>0, <1>12, <2>1, <2>2, PushArrival DEF Produce
  <2>4. Still BY <1>12 DEF Produce, workerVars, delayVars, poolVars, Still
  <2>5. ~Somewhere(m) BY <1>12 DEF Produce, Whereabouts
  <2>6. Single(m)' /\ \A n : n # m => (Single(n) => Single(n)')
    BY <1>0, <2>1, <2>3, <2>4, <2>5, ArrivalKeeps DEF Still
  <2>7. \A n \in MessageId : Single(n)' BY <1>2, <2>6
  <2>8. requeueList' = requeueList /\ delayList' = delayList BY <1>12 DEF Produce
  <2> QED BY <1>5, <2>4, <2>7, <2>8
<1>13. ASSUME NEW w \in workers, NEW v \in Consumer, v # w
       PROVE  requeueBatch[v] = <<>> /\ delayBatch[v] = <<>> /\ dueBatch[v] = {}
  BY <1>2, <1>13 DEF Pool
<1>14. ASSUME NEW w \in workers, RequeueStep(w) PROVE Exact'
  <2>0. w \in Consumer BY <1>0
  <2>1. UNCHANGED <<scheduled, delayBatch, dueBatch>>
    BY <1>14 DEF RequeueStep, delayVars
  <2>2. CASE RequeueRead(w)
    <3>1. UNCHANGED <<lists, scheduled>> BY <2>1, <2>2 DEF RequeueRead, storeVars
    <3>2. requeueBatch' = [requeueBatch EXCEPT ![w] = lrange(requeueList)]
      BY <2>2 DEF RequeueRead
    <3>3. BatchOf(lrange(requeueList), requeueList) BY <1>0, <1>3, ReadFacts
    <3>4. ASSUME NEW v \in Consumer
          PROVE  /\ BatchOf(requeueBatch'[v], requeueList')
                 /\ BatchOf(delayBatch'[v], delayList')
                 /\ dueBatch'[v] \subseteq scheduled'
      <4>1. requeueBatch'[v] \in {requeueBatch[v], lrange(requeueList)} BY <1>0, <3>2
      <4>2. BatchOf(requeueBatch'[v], requeueList) BY <1>2, <3>3, <4>1
      <4> QED BY <1>2, <1>6, <2>1, <3>1, <4>2
    <3> QED BY <1>6, <3>1, <3>4 DEF Exact, BatchOf, Distinct
  <2>3. CASE RequeueExec(w)
    <3>1. PICK b \in Seq(Entry) : b = requeueBatch[w] BY <1>0, <2>0
    <3>2. \A m \in MessageId : Single(m)'
      BY <1>0, <1>2, <2>0, <2>1, <2>3, <3>1, RequeueKeeps
    <3>3. \A v \in Consumer : requeueBatch'[v] = <<>>
      BY <1>0, <1>13, <2>3 DEF RequeueExec
    <3>4. delayList' = delayList BY <2>3 DEF RequeueExec
    <3>5. ASSUME NEW v \in Consumer
          PROVE  /\ BatchOf(requeueBatch'[v], requeueList')
                 /\ BatchOf(delayBatch'[v], delayList')
                 /\ dueBatch'[v] \subseteq scheduled'
      BY <1>2, <2>1, <3>3, <3>4, BatchFacts
    <3> QED BY <3>2, <3>5 DEF Exact, BatchOf, Distinct
  <2> QED BY <1>14, <2>2, <2>3 DEF RequeueStep
<1>15. ASSUME NEW w \in workers, DelayStep(w) PROVE Exact'
  <2>0. w \in Consumer BY <1>0
  <2>1. UNCHANGED <<requeueBatch, dueBatch>>
    BY <1>15 DEF DelayStep, DelayRead, DelayExec
  <2>2. CASE DelayRead(w)
    <3>1. UNCHANGED <<lists, scheduled>> BY <2>2 DEF DelayRead, storeVars
    <3>2. delayBatch' = [delayBatch EXCEPT ![w] = lrange(delayList)]
      BY <2>2 DEF DelayRead
    <3>3. BatchOf(lrange(delayList), delayList) BY <1>0, <1>3, ReadFacts
    <3>4. ASSUME NEW v \in Consumer
          PROVE  /\ BatchOf(requeueBatch'[v], requeueList')
                 /\ BatchOf(delayBatch'[v], delayList')
                 /\ dueBatch'[v] \subseteq scheduled'
      <4>1. delayBatch'[v] \in {delayBatch[v], lrange(delayList)} BY <1>0, <3>2
      <4>2. BatchOf(delayBatch'[v], delayList) BY <1>2, <3>3, <4>1
      <4> QED BY <1>2, <1>6, <2>1, <3>1, <4>2
    <3> QED BY <1>6, <3>1, <3>4 DEF Exact, BatchOf, Distinct
  <2>3. CASE DelayExec(w)
    <3>1. PICK b \in Seq(Entry) : b = delayBatch[w] BY <1>0, <2>0
    <3>2. (\A m \in MessageId : Single(m)') /\ scheduled \subseteq scheduled'
      BY <1>0, <1>2, <2>0, <2>3, <3>1, DelayKeeps
    <3>3. \A v \in Consumer : delayBatch'[v] = <<>>
      BY <1>0, <1>13, <2>3 DEF DelayExec
    <3>4. requeueList' = requeueList BY <2>3 DEF DelayExec
    <3>5. ASSUME NEW v \in Consumer
          PROVE  /\ BatchOf(requeueBatch'[v], requeueList')
                 /\ BatchOf(delayBatch'[v], delayList')
                 /\ dueBatch'[v] \subseteq scheduled'
      BY <1>2, <2>1, <3>2, <3>3, <3>4, BatchFacts
    <3> QED BY <3>2, <3>5 DEF Exact, BatchOf, Distinct
  <2> QED BY <1>15, <2>2, <2>3 DEF DelayStep
<1>16. ASSUME NEW w \in workers, ScheduleStep(w) PROVE Exact'
  <2>0. w \in Consumer BY <1>0
  <2>1. UNCHANGED <<requeueBatch, delayBatch>>
    BY <1>16 DEF ScheduleStep, fetchIds, fetchMessages, enqueue
  <2>2. CASE fetchIds(w)
    <3>1. UNCHANGED <<lists, scheduled, dueBatch>> BY <2>2 DEF fetchIds, storeVars
    <3> QED BY <1>4, <1>6, <2>1, <3>1
  <2>3. CASE fetchMessages(w)
    <3>1. UNCHANGED <<lists, scheduled>> BY <2>3 DEF fetchMessages, storeVars
    <3>2. \A v \in Consumer : dueBatch'[v] \subseteq scheduled
      BY <1>0, <1>2, <2>3 DEF fetchMessages
    <3>3. ASSUME NEW v \in Consumer
          PROVE  /\ BatchOf(requeueBatch'[v], requeueList')
                 /\ BatchOf(delayBatch'[v], delayList')
                 /\ dueBatch'[v] \subseteq scheduled'
      BY <1>2, <1>6, <2>1, <3>1, <3>2
    <3> QED BY <1>6, <3>1, <3>3 DEF Exact, BatchOf, Distinct
  <2>4. ASSUME NEW e \in dueBatch[w], enqueue(w, e) PROVE Exact'
    <3>1. e \in Entry /\ e.id \in MessageId /\ e \in scheduled BY <1>0, <1>2, <2>0, IncrType
    <3>2. \A m \in MessageId : Single(m)'
      <4>1. /\ e \in scheduled /\ Single(e.id) => Single(e.id)'
            /\ \A m : m # e.id => (Single(m) => Single(m)')
        BY <1>0, <2>0, <2>4, <3>1, EnqueueKeeps
      <4> QED BY <1>2, <3>1, <4>1
    <3>3. requeueList' = requeueList /\ delayList' = delayList BY <2>4 DEF enqueue
    <3>4. ASSUME NEW v \in Consumer PROVE dueBatch'[v] \subseteq scheduled'
      <4>1. CASE v # w BY <1>0, <1>13, <2>4, <4>1 DEF enqueue
      <4>2. CASE v = w
        <5>1. dueBatch'[v] = dueBatch[w] \ {e} BY <1>0, <2>0, <2>4, <4>2 DEF enqueue
        <5>2. \A f, g \in scheduled : f.id = e.id /\ g.id = e.id => f = g
          BY <1>3, <3>1 DEF Uniq
        <5>3. \A f \in dueBatch[w] \ {e} : f \in scheduled /\ f.id # e.id
          BY <1>2, <2>0, <3>1, <5>2
        <5> QED BY <2>4, <5>1, <5>3 DEF enqueue
      <4> QED BY <4>1, <4>2
    <3>5. ASSUME NEW v \in Consumer
          PROVE  /\ BatchOf(requeueBatch'[v], requeueList')
                 /\ BatchOf(delayBatch'[v], delayList')
                 /\ dueBatch'[v] \subseteq scheduled'
      BY <1>2, <2>1, <3>3, <3>4
    <3> QED BY <3>2, <3>5 DEF Exact, BatchOf, Distinct
  <2> QED BY <1>16, <2>2, <2>3, <2>4 DEF ScheduleStep
<1> QED BY <1>7, <1>8, <1>9, <1>10, <1>11, <1>12, <1>14, <1>15, <1>16, SysCases

\* Initially nothing is stored and no worker runs.
LEMMA ExactInit == SysInit => Pool /\ Exact
<1> SUFFICES ASSUME SysInit PROVE Pool /\ Exact OBVIOUS
<1>1. Pool BY EmptyInit DEF SysInit, Pool
<1>2. \A m : Single(m) BY EmptyInit DEF Single
<1> QED BY <1>1, <1>2, EmptyInit, BatchFacts DEF Exact

\* Where everything is: the whole invariant.
Located == Control /\ Whereabouts /\ Pool /\ Exact

\* The invariant the last theorems rest on: the control of the processes, the
\* whereabouts of every message and, while one set of workers runs at a time,
\* that it is in one place; until a collector takes a consumer for dead that can
\* still fetch.
THEOREM LocatedHolds ==
  ASSUME SingleUse, NoStaleTimers
  PROVE  SysSpec => [](mistaken = {} => Located)
<1>1. SysTypeOK /\ (mistaken = {} => Located) /\ [SysNext]_sysVars
        => (mistaken = {} => Located)'
  BY UnmistakenStep, ControlNext, WhereaboutsNext, PoolNext, ExactNext DEF Located
<1>2. SysInit => Located BY ControlInit, WhereaboutsInit, ExactInit DEF Located
<1> QED BY <1>1, <1>2, SysTypeCorrect, PTL DEF SysSpec

\* How Places names the copy number i in the list x of kind a.
Tag(a, x, i) == IF a \in {"requeue", "delay"} THEN <<a, i>> ELSE <<a, x, i>>

\* A place is a copy in a list or in the schedule.
LEMMA PlaceOf ==
  ASSUME NEW m, NEW p \in Places(m)
  PROVE  \/ \E e \in scheduled : e.id = m /\ p = <<"scheduled", e>>
         \/ \E a \in ListKind : \E x \in Names(a) : \E i \in Copies(m, ListAt(a, x)) :
              p = Tag(a, x, i)
<1> DEFINE Goal == \E a \in ListKind : \E x \in Names(a) : \E i \in Copies(m, ListAt(a, x)) :
                     p = Tag(a, x, i)
<1>0. ASSUME NEW a \in ListKind, NEW x \in Names(a), NEW i \in Copies(m, ListAt(a, x)),
             p = Tag(a, x, i)
      PROVE  Goal
  BY <1>0
<1> HIDE DEF Goal
<1>1. ASSUME NEW q \in Queue, NEW i \in Copies(m, queue[q]), p = <<"queue", q, i>> PROVE Goal
  <2>1. "queue" \in ListKind /\ q \in Names("queue") /\ ListAt("queue", q) = queue[q]
    BY DEF ListKind, Names, ListAt
  <2> QED BY <1>0, <1>1, <2>1 DEF Tag
<1>2. ASSUME NEW c \in Consumer, NEW i \in Copies(m, processing[c]),
             p = <<"processing", c, i>>
      PROVE  Goal
  <2>1. "processing" \in ListKind /\ c \in Names("processing")
        /\ ListAt("processing", c) = processing[c]
    BY DEF ListKind, Names, ListAt
  <2> QED BY <1>0, <1>2, <2>1 DEF Tag
<1>3. ASSUME NEW i \in Copies(m, requeueList), p = <<"requeue", i>> PROVE Goal
  <2>1. "requeue" \in ListKind /\ "all" \in Names("requeue")
        /\ ListAt("requeue", "all") = requeueList
    BY DEF ListKind, Names, ListAt
  <2> QED BY <1>0, <1>3, <2>1 DEF Tag
<1>4. ASSUME NEW i \in Copies(m, delayList), p = <<"delay", i>> PROVE Goal
  <2>1. "delay" \in ListKind /\ "all" \in Names("delay")
        /\ ListAt("delay", "all") = delayList
    BY DEF ListKind, Names, ListAt
  <2> QED BY <1>0, <1>4, <2>1 DEF Tag
<1>5. ASSUME NEW q \in Queue, NEW i \in Copies(m, acknowledged[q]),
             p = <<"acknowledged", q, i>>
      PROVE  Goal
  <2>1. "acknowledged" \in ListKind /\ q \in Names("acknowledged")
        /\ ListAt("acknowledged", q) = acknowledged[q]
    BY DEF ListKind, Names, ListAt
  <2> QED BY <1>0, <1>5, <2>1 DEF Tag
<1>6. ASSUME NEW q \in Queue, NEW i \in Copies(m, deadLetter[q]), p = <<"deadLetter", q, i>>
      PROVE  Goal
  <2>1. "deadLetter" \in ListKind /\ q \in Names("deadLetter")
        /\ ListAt("deadLetter", q) = deadLetter[q]
    BY DEF ListKind, Names, ListAt
  <2> QED BY <1>0, <1>6, <2>1 DEF Tag
<1>7. (\E e \in scheduled : e.id = m /\ p = <<"scheduled", e>>) \/ Goal
  BY <1>1, <1>2, <1>3, <1>4, <1>5, <1>6 DEF Places
<1> QED BY <1>7 DEF Goal

\* A message with one copy has at most one place.
LEMMA SinglePlace ==
  ASSUME NEW m, Single(m)
  PROVE  Cardinality(Places(m)) <= 1
<1>1. ASSUME NEW p \in Places(m), NEW q \in Places(m) PROVE p = q
  <2>1. ASSUME NEW a \in ListKind, NEW x \in Names(a), NEW i \in Copies(m, ListAt(a, x))
        PROVE  a \in Kind /\ a # "schedule" /\ At(m, a, x)
    BY DEF Copies, At, Has, Kind, ListKind
  <2>2. ASSUME NEW e \in scheduled, e.id = m
        PROVE  "schedule" \in Kind /\ "all" \in Names("schedule") /\ At(m, "schedule", "all")
    BY <2>2 DEF At, Kind, ListKind, Names
  <2>3. ASSUME NEW e \in scheduled, e.id = m,
               NEW a \in ListKind, NEW x \in Names(a), NEW i \in Copies(m, ListAt(a, x))
        PROVE  FALSE
    BY <2>1, <2>2, <2>3 DEF Single
  <2>4. CASE \E e \in scheduled : e.id = m /\ p = <<"scheduled", e>>
    <3>1. PICK e \in scheduled : e.id = m /\ p = <<"scheduled", e>> BY <2>4
    <3>2. PICK f \in scheduled : f.id = m /\ q = <<"scheduled", f>> BY <2>3, <3>1, PlaceOf
    <3>3. Uniq(m, "schedule", "all") BY <2>2, <3>1 DEF Single
    <3>4. e = f BY <3>1, <3>2, <3>3 DEF Uniq
    <3> QED BY <3>1, <3>2, <3>4
  <2>5. CASE \E a \in ListKind : \E x \in Names(a) : \E i \in Copies(m, ListAt(a, x)) :
               p = Tag(a, x, i)
    <3>1. PICK a \in ListKind : \E x \in Names(a) : \E i \in Copies(m, ListAt(a, x)) :
            p = Tag(a, x, i)
      BY <2>5
    <3>2. PICK x \in Names(a) : \E i \in Copies(m, ListAt(a, x)) : p = Tag(a, x, i) BY <3>1
    <3>3. PICK i \in Copies(m, ListAt(a, x)) : p = Tag(a, x, i) BY <3>2
    <3>4. PICK b \in ListKind : \E y \in Names(b) : \E j \in Copies(m, ListAt(b, y)) :
            q = Tag(b, y, j)
      BY <2>3, <3>3, PlaceOf
    <3>5. PICK y \in Names(b) : \E j \in Copies(m, ListAt(b, y)) : q = Tag(b, y, j) BY <3>4
    <3>6. PICK j \in Copies(m, ListAt(b, y)) : q = Tag(b, y, j) BY <3>5
    <3>7. <<a, x>> = <<b, y>> BY <2>1, <3>3, <3>6 DEF Single
    <3>8. a = b /\ x = y BY <3>7
    <3>9. Once(m, ListAt(a, x)) BY <2>1, <3>3 DEF Single, Uniq
    <3>10. i = j BY <3>3, <3>6, <3>8, <3>9 DEF Once, Copies
    <3> QED BY <3>3, <3>6, <3>8, <3>10
  <2> QED BY <2>4, <2>5, PlaceOf
<1>2. CASE Places(m) = {} BY <1>2, FS_EmptySet
<1>3. CASE Places(m) # {}
  <2>1. PICK p : Places(m) = {p}
    <3>1. PICK p \in Places(m) : TRUE BY <1>3
    <3>2. Places(m) = {p} BY <1>1, <3>1
    <3> QED BY <3>2
  <2>2. Cardinality({p}) = 1 BY FS_Singleton
  <2> QED BY <2>1, <2>2
<1> QED BY <1>2, <1>3

\* No step leaves two copies of a message, as long as one set of workers runs
\* at a time and no collector has taken a consumer for dead that can still fetch.
THEOREM NoMessageIsDuplicated ==
  ASSUME SingleUse, NoStaleTimers
  PROVE  SysSpec => []NoDuplicates
<1>1. (mistaken = {} => Located) => NoDuplicates
  BY SinglePlace DEF Located, Exact, NoDuplicates, Control, StateTypeOK, TypeOK, StoreTypeOK
<1> QED BY <1>1, LocatedHolds, PTL

\* What a running consumer has fetched or is consuming is in its queue.
LEMMA HeldAt ==
  ASSUME Control, NEW c \in Consumer, NEW m, Holds(c, m)
  PROVE  At(m, "processing", c)
<1>1. TypeOK /\ power[c] = "up" BY DEF Control, StateTypeOK, Holds, isRunning
<1>2. InLoop(c) BY <1>1 DEF Control, Stages, Emptied, Offline
<1>3. PICK e : processing[c] = <<e>> /\ e.id = m
  BY <1>1, <1>2, StageFacts DEF Holds
<1>4. Has(m, processing[c])
  <2>1. Len(<<e>>) = 1 /\ <<e>>[1] = e OBVIOUS
  <2> QED BY <1>3, <2>1 DEF Has
<1> QED BY <1>4 DEF At, ListAt

\* "A message can be delivered only to one consumer at a time", while one set of
\* workers runs, until a collector takes a consumer for dead that can still fetch.
THEOREM OneConsumerAtATime ==
  ASSUME SingleUse, NoStaleTimers
  PROVE  SysSpec => []HeldByOne
<1>1. (mistaken = {} => Located) => HeldByOne
  <2> SUFFICES ASSUME Located, ~overlapped, NEW m \in MessageId,
                      NEW c \in Consumer, NEW d \in Consumer, Holds(c, m), Holds(d, m)
               PROVE  c = d
    BY DEF HeldByOne, DeliveredToOne
  <2>1. At(m, "processing", c) /\ At(m, "processing", d) BY HeldAt DEF Located
  <2>2. Single(m) BY DEF Located, Exact
  <2>3. "processing" \in Kind /\ c \in Names("processing") /\ d \in Names("processing")
    BY DEF Kind, ListKind, Names
  <2>4. <<"processing", c>> = <<"processing", d>> BY <2>1, <2>2, <2>3 DEF Single
  <2> QED BY <2>4
<1> QED BY <1>1, LocatedHolds, PTL
=============================================================================
