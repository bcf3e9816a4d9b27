------------------------ MODULE AdministrationProofs ------------------------
(***************************************************************************)
(* What deleting, requeuing and purging messages guarantees while any      *)
(* number of consumers and callers work on lists of any length, with locks *)
(* that expire and callers that die at any time.                           *)
(*                                                                         *)
(* The inductive invariant, beside the types: who holds a lock is in the   *)
(* call it was taken for, and conversely unless it expired (LockInCall,    *)
(* Locking); what a call has read is of the message it names (Reading);    *)
(* what a deletion has read stays in its list until someone who needs no   *)
(* lock takes it (Telling); nothing is lost; and a message that no requeue *)
(* has copied is in one place (Exact).                                     *)
(***************************************************************************)
EXTENDS MessageAdministration, TLAPS, WellFoundedInduction, SequenceTheorems

\* What r has asked for, if anything.
Requests == request \in [Caller -> Request \union {<<>>}]

\* r is in a deletion that has taken its lock.
Deleting(r) ==
  \/ pc[r] \in {"locked", "releasing"}
  \/ pc[r] = "read" /\ request[r].op = "delete"

\* A deletion has its lock unless that expired, and no one else has it.
Locking ==
  \A r \in Caller :
    /\ pc[r] \in {"locked", "releasing"} => request[r].op = "delete"
    /\ Deleting(r) /\ request[r].list \notin lapsed => lock[request[r].list] = r

\* A call has read a text of the message it names.
Reading ==
  \A r \in Caller :
    pc[r] = "read" => found[r] # {} /\ \A t \in found[r] : t.id = request[r].id

\* Someone who takes no lock may have been there first, or the lock expired.
Excused(r) ==
  \/ request[r].list \in {"pending"} \union lapsed
  \/ <<NoOne, request[r].id>> \in removed
  \/ request[r].id \in moved

\* What a deletion has read is still in its list; what it says it removed was
\* there.
Tells(r) ==
  request[r] \in Request /\ request[r].op = "delete" /\ ~Excused(r) =>
    /\ pc[r] = "read" => \E t \in found[r] : t \in ToSet(list[request[r].list])
    /\ pc[r] \in {"releasing", "answered"} /\ answer[r] = "ok"
         => <<r, request[r].id>> \in removed

\* What all callers may say.
Telling == \A r \in Caller : Tells(r)

\* A consumer works on one message at a time.
OneAtATime == \A c \in Consumer : Len(processing[c]) <= 1

\* m has a copy in the list s.
Has(m, s) == \E i \in 1..Len(s) : s[i].id = m

\* m has at most one copy in s.
Once(m, s) == \A i, j \in 1..Len(s) : s[i].id = m /\ s[j].id = m => i = j

\* m has at most one copy in the lists and the processing queues together.
Single(m) ==
  /\ \A l \in ListName : Once(m, list[l])
  /\ \A k, l \in ListName : Has(m, list[k]) /\ Has(m, list[l]) => k = l
  /\ \A l \in ListName, c \in Consumer : ~(Has(m, list[l]) /\ Has(m, processing[c]))
  /\ \A c, d \in Consumer : Has(m, processing[c]) /\ Has(m, processing[d]) => c = d

\* Only what was published, or copied, is stored; what was not copied is once.
Exact ==
  \A m \in MessageId : m \notin copied =>
    /\ Single(m)
    /\ m \notin published => /\ \A l \in ListName : ~Has(m, list[l])
                             /\ \A c \in Consumer : ~Has(m, processing[c])

\* The inductive invariant.
AdminInv ==
  /\ AdminTypeOK /\ Requests
  /\ LockInCall /\ Locking /\ Reading /\ Telling
  /\ OneAtATime /\ AdminNothingLost /\ Exact

-----------------------------------------------------------------------------
(***************************************************************************)
(* List operations.                                                        *)
(***************************************************************************)

\* A set of naturals that is not empty has a least element.
LEMMA NatLeast ==
  ASSUME NEW T, T \subseteq Nat, T # {}
  PROVE  \E x \in T : \A y \in T : x <= y
<1>1. PICK x \in T : \A y \in T : <<y, x>> \notin OpToRel(<, Nat)
  BY NatLessThanWellFounded, WFMin
<1>2. \A y \in T : ~(y < x) BY <1>1 DEF OpToRel
<1>3. \A y \in T : x <= y BY <1>2
<1> QED BY <1>3

\* t is s with the text e inserted somewhere.
Inserted(s, t, e) ==
  /\ Len(t) = Len(s) + 1
  /\ \E p \in 1..Len(t) :
       /\ t[p] = e
       /\ \A i \in 1..p - 1 : t[i] = s[i]
       /\ \A i \in p + 1..Len(t) : t[i] = s[i - 1]

\* The copies in a list and in the list with e inserted: only those of e differ.
LEMMA InsertedFacts ==
  ASSUME NEW s \in Seq(Text), NEW t \in Seq(Text), NEW e \in Text, Inserted(s, t, e)
  PROVE  /\ Has(e.id, t)
         /\ \A m : m # e.id => (Has(m, t) <=> Has(m, s)) /\ (Once(m, t) <=> Once(m, s))
         /\ Once(e.id, t) <=> ~Has(e.id, s)
         /\ ToSet(t) = ToSet(s) \union {e}
<1>1. PICK p \in 1..Len(t) :
       /\ t[p] = e
       /\ \A i \in 1..p - 1 : t[i] = s[i]
       /\ \A i \in p + 1..Len(t) : t[i] = s[i - 1]
  BY DEF Inserted
<1>2. Len(t) = Len(s) + 1 /\ Len(s) \in Nat BY DEF Inserted
<1> DEFINE at(i) == IF i < p THEN i ELSE i + 1
<1>3. ASSUME NEW i \in 1..Len(s)
      PROVE  at(i) \in 1..Len(t) /\ at(i) # p /\ t[at(i)] = s[i]
  <2>1. CASE i < p BY <1>1, <1>2, <2>1
  <2>2. CASE ~(i < p)
    <3>1. i + 1 \in p + 1..Len(t) /\ (i + 1) - 1 = i BY <1>1, <1>2, <2>2
    <3> QED BY <1>1, <1>2, <2>2, <3>1
  <2> QED BY <2>1, <2>2
<1>4. ASSUME NEW k \in 1..Len(t), k # p
      PROVE  \E i \in 1..Len(s) : at(i) = k /\ t[k] = s[i]
  <2>1. CASE k < p 
    <3>1. k \in 1..Len(s) /\ at(k) = k /\ t[k] = s[k] BY <1>1, <1>2, <2>1
    <3> QED BY <3>1
  <2>2. CASE k > p
    <3>1. k - 1 \in 1..Len(s) /\ at(k - 1) = k /\ t[k] = s[k - 1] BY <1>1, <1>2, <2>2
    <3> QED BY <3>1
  <2>3. k < p \/ k > p BY <1>2, <1>4
  <2> QED BY <2>1, <2>2, <2>3
<1>5. \A i, j \in 1..Len(s) : at(i) = at(j) => i = j
  BY <1>1, <1>2
<1> HIDE DEF at
<1>6. Has(e.id, t) BY <1>1 DEF Has
<1>7. ASSUME NEW m, m # e.id
      PROVE  Has(m, t) <=> Has(m, s)
  BY <1>1, <1>3, <1>4, <1>7 DEF Has
<1>8. ASSUME NEW m, m # e.id, Once(m, t) PROVE Once(m, s)
  BY <1>3, <1>5, <1>8 DEF Once
<1>9. ASSUME NEW m, m # e.id, Once(m, s) PROVE Once(m, t)
  <2> SUFFICES ASSUME NEW k \in 1..Len(t), NEW l \in 1..Len(t), t[k].id = m, t[l].id = m
               PROVE  k = l
    BY DEF Once
  <2>1. k # p /\ l # p BY <1>1, <1>9
  <2>2. PICK i \in 1..Len(s) : at(i) = k /\ t[k] = s[i] BY <1>4, <2>1
  <2>3. PICK j \in 1..Len(s) : at(j) = l /\ t[l] = s[j] BY <1>4, <2>1
  <2>4. i = j BY <1>9, <2>2, <2>3 DEF Once
  <2> QED BY <2>2, <2>3, <2>4
<1>10. ASSUME Once(e.id, t), Has(e.id, s) PROVE FALSE
  <2>1. PICK i \in 1..Len(s) : s[i].id = e.id BY <1>10 DEF Has
  <2>2. at(i) \in 1..Len(t) /\ at(i) # p /\ t[at(i)].id = e.id BY <1>3, <2>1
  <2> QED BY <1>1, <1>10, <2>2 DEF Once
<1>11. ASSUME ~Has(e.id, s) PROVE Once(e.id, t)
  <2>1. \A k \in 1..Len(t) : t[k].id = e.id => k = p BY <1>4, <1>11 DEF Has
  <2> QED BY <2>1 DEF Once
<1>12. ToSet(t) = ToSet(s) \union {e}
  <2>1. ToSet(s) = {s[i] : i \in 1..Len(s)} /\ ToSet(t) = {t[i] : i \in 1..Len(t)}
    BY DEF ToSet
  <2>2. ASSUME NEW x \in ToSet(t) PROVE x \in ToSet(s) \union {e}
    <3>1. PICK k \in 1..Len(t) : x = t[k] BY <2>1
    <3>2. CASE k = p BY <1>1, <3>1, <3>2
    <3>3. CASE k # p
      <4>1. PICK i \in 1..Len(s) : t[k] = s[i] BY <1>4, <3>3
      <4> QED BY <2>1, <3>1, <4>1
    <3> QED BY <3>2, <3>3
  <2>3. \A x \in ToSet(s) : x \in ToSet(t) BY <1>3, <2>1
  <2>4. e \in ToSet(t) BY <1>1, <2>1
  <2> QED BY <2>2, <2>3, <2>4
<1> QED BY <1>6, <1>7, <1>8, <1>9, <1>10, <1>11, <1>12

\* LPUSH and RPUSH insert what they push.
LEMMA PushInserted ==
  ASSUME NEW s \in Seq(Text), NEW e \in Text
  PROVE  /\ <<e>> \o s \in Seq(Text) /\ Inserted(s, <<e>> \o s, e)
         /\ Append(s, e) \in Seq(Text) /\ Inserted(s, Append(s, e), e)
<1>1. <<e>> \o s \in Seq(Text) /\ Len(<<e>> \o s) = Len(s) + 1 OBVIOUS
<1>2. (<<e>> \o s)[1] = e /\ \A i \in 2..Len(s) + 1 : (<<e>> \o s)[i] = s[i - 1]
  OBVIOUS
<1>3. Inserted(s, <<e>> \o s, e)
  <2>1. 1 \in 1..Len(s) + 1 /\ 1..1 - 1 = {} /\ 1 + 1 = 2 OBVIOUS
  <2> QED BY <1>1, <1>2, <2>1 DEF Inserted
<1>4. Append(s, e) \in Seq(Text) /\ Len(Append(s, e)) = Len(s) + 1
      /\ Append(s, e)[Len(s) + 1] = e /\ \A i \in 1..Len(s) : Append(s, e)[i] = s[i]
  OBVIOUS
<1>5. Inserted(s, Append(s, e), e)
  <2>1. Len(s) + 1 \in 1..Len(s) + 1 /\ (Len(s) + 1) + 1..Len(s) + 1 = {}
        /\ (Len(s) + 1) - 1 = Len(s)
    OBVIOUS
  <2> QED BY <1>4, <2>1 DEF Inserted
<1> QED BY <1>1, <1>3, <1>4, <1>5

\* LPOP and RPOP undo an insertion.
LEMMA PopInserted ==
  ASSUME NEW s \in Seq(Text), s # <<>>
  PROVE  /\ Inserted(Tail(s), s, Head(s)) /\ Inserted(Front(s), s, Last(s))
<1>1. /\ Len(s) \in Nat \ {0} /\ Tail(s) \in Seq(Text) /\ Len(Tail(s)) = Len(s) - 1
      /\ Head(s) = s[1] /\ \A i \in 1..Len(s) - 1 : Tail(s)[i] = s[i + 1]
  OBVIOUS
<1>2. Inserted(Tail(s), s, Head(s))
  <2>1. 1 \in 1..Len(s) /\ 1..1 - 1 = {} /\ 1 + 1 = 2 BY <1>1
  <2>2. \A i \in 2..Len(s) : s[i] = Tail(s)[i - 1] 
    <3> TAKE i \in 2..Len(s)
    <3>1. i - 1 \in 1..Len(s) - 1 /\ (i - 1) + 1 = i BY <1>1
    <3> QED BY <1>1, <3>1
  <2> QED BY <1>1, <2>1, <2>2 DEF Inserted
<1>3. /\ Front(s) \in Seq(Text) /\ Len(Front(s)) = Len(s) - 1
      /\ \A i \in 1..Len(s) - 1 : Front(s)[i] = s[i]
  BY <1>1 DEF Front
<1>4. Inserted(Front(s), s, Last(s))
  <2>1. Len(s) \in 1..Len(s) /\ Len(s) + 1..Len(s) = {} /\ Last(s) = s[Len(s)] BY <1>1 DEF Last
  <2> QED BY <1>1, <1>3, <2>1 DEF Inserted
<1> QED BY <1>2, <1>4

\* The elements of a list of texts.
LEMMA InToSet ==
  ASSUME NEW s \in Seq(Text)
  PROVE  /\ \A i \in 1..Len(s) : s[i] \in ToSet(s)
         /\ \A x \in ToSet(s) : x \in Text /\ \E i \in 1..Len(s) : s[i] = x
         /\ Ids(ToSet(s)) \subseteq MessageId
<1>1. ToSet(s) = {s[i] : i \in 1..Len(s)} BY DEF ToSet
<1>2. \A x \in ToSet(s) : x \in Text /\ \E i \in 1..Len(s) : s[i] = x BY <1>1
<1>3. \A x \in Text : x.id \in MessageId BY DEF Text
<1> QED BY <1>1, <1>2, <1>3 DEF Ids

\* A list that is not empty and has at most one element.
LEMMA OneElement ==
  ASSUME NEW s \in Seq(Text), s # <<>>, Len(s) <= 1
  PROVE  Len(s) = 1 /\ s[1] \in Text /\ s = <<s[1]>>
<1>1. Len(s) \in Nat /\ Len(s) # 0 OBVIOUS
<1>2. Len(s) = 1 BY <1>1
<1>3. s[1] \in Text BY <1>2
<1> QED BY <1>2, <1>3

\* Taking out the element at a position undoes an insertion there.
LEMMA RemoveAtInserted ==
  ASSUME NEW s \in Seq(Text), NEW p \in Nat, p >= 1, p <= Len(s)
  PROVE  RemoveAt(s, p) \in Seq(Text) /\ Inserted(RemoveAt(s, p), s, s[p])
<1>0. p \in Nat /\ p >= 1 /\ p <= Len(s) /\ Len(s) \in Nat OBVIOUS
<1>4. PICK a \in Seq(Text) :
        a = SubSeq(s, 1, p - 1) /\ Len(a) = p - 1 /\ \A i \in 1..p - 1 : a[i] = s[i]
  <2>1. /\ SubSeq(s, 1, p - 1) \in Seq(Text) /\ Len(SubSeq(s, 1, p - 1)) = p - 1
        /\ \A i \in 1..p - 1 : SubSeq(s, 1, p - 1)[i] = s[i]
    BY <1>0
  <2> QED BY <2>1
<1>5. PICK b \in Seq(Text) :
        /\ b = SubSeq(s, p + 1, Len(s)) /\ Len(b) = Len(s) - p
        /\ \A i \in 1..Len(s) - p : b[i] = s[i + p]
  <2>1. /\ SubSeq(s, p + 1, Len(s)) \in Seq(Text)
        /\ Len(SubSeq(s, p + 1, Len(s))) = Len(s) - p
    BY <1>0
  <2>2. \A i \in 1..Len(s) - p : SubSeq(s, p + 1, Len(s))[i] = s[i + p]
    BY <1>0
  <2> QED BY <2>1, <2>2
<1>6. PICK r \in Seq(Text) :
        /\ r = a \o b /\ Len(r) = Len(s) - 1
        /\ \A i \in 1..p - 1 : r[i] = a[i]
        /\ \A i \in p..Len(s) - 1 : r[i] = b[i - (p - 1)]
  <2>2. a \o b \in Seq(Text) /\ Len(a \o b) = Len(a) + Len(b) OBVIOUS
  <2>3. \A i \in 1..Len(a) + Len(b) :
          (a \o b)[i] = IF i <= Len(a) THEN a[i] ELSE b[i - Len(a)]
    OBVIOUS
  <2>1. Len(a) = p - 1 /\ Len(b) = Len(s) - p BY <1>4, <1>5
  <2>4. \A i \in 1..p - 1 : (a \o b)[i] = a[i] BY <1>0, <2>1, <2>3
  <2>5. \A i \in p..Len(s) - 1 : (a \o b)[i] = b[i - (p - 1)]
    BY <1>0, <2>1, <2>3
  <2>6. Len(a \o b) = Len(s) - 1 BY <1>0, <2>1, <2>2
  <2> QED BY <2>2, <2>4, <2>5, <2>6
<1>7. ASSUME NEW i \in p + 1..Len(s) PROVE r[i - 1] = s[i]
  <2>1. /\ i - 1 \in p..Len(s) - 1 /\ (i - 1) - (p - 1) = i - p
        /\ i - p \in 1..Len(s) - p /\ (i - p) + p = i
    BY <1>0
  <2> QED BY <1>5, <1>6, <2>1
<1>8. RemoveAt(s, p) = r BY <1>4, <1>5, <1>6 DEF RemoveAt
<1>9. Inserted(r, s, s[p])
  <2>1. Len(s) = Len(r) + 1 /\ p \in 1..Len(s) BY <1>0, <1>6
  <2>2. \A i \in 1..p - 1 : s[i] = r[i] BY <1>4, <1>6
  <2> QED BY <1>7, <2>1, <2>2 DEF Inserted
<1> QED BY <1>6, <1>8, <1>9

\* LREM of a text read before: one copy goes, or none is there.
LEMMA LremInserted ==
  ASSUME NEW s \in Seq(Text), NEW T, NEW t, t = Lrem(s, T)
  PROVE  /\ t \in Seq(Text)
         /\ \/ t = s /\ ToSet(s) \cap T = {}
            \/ \E e \in ToSet(s) \cap T : Inserted(t, s, e)
<1> DEFINE I == {i \in 1..Len(s) : s[i] \in T}
<1>1. CASE I = {}
  <2>1. t = s BY <1>1 DEF Lrem, RemoveFirstMatch
  <2>2. ToSet(s) \cap T = {} BY <1>1 DEF ToSet
  <2> QED BY <2>1, <2>2
<1>2. CASE I # {}
  <2>1. I \subseteq Nat OBVIOUS
  <2>2. PICK p \in I : p = Min(I) BY <1>2, <2>1, NatLeast DEF Min
  <2>7. \E i \in 1..Len(s) : s[i] \in T BY <1>2
  <2>3. t = RemoveAt(s, p)
    BY <1>2, <2>2, <2>7 DEF Lrem, RemoveFirstMatch, SelectInSeq
  <2>8. p \in 1..Len(s) /\ s[p] \in T BY <2>2
  <2>4. s[p] \in ToSet(s) \cap T BY <2>8, InToSet
  <2>5. p \in Nat /\ p >= 1 /\ p <= Len(s) BY <2>2
  <2>6. t \in Seq(Text) /\ Inserted(t, s, s[p]) BY <2>3, <2>5, RemoveAtInserted
  <2> QED BY <2>4, <2>6
<1> QED BY <1>1, <1>2

-----------------------------------------------------------------------------
(***************************************************************************)
(* Type correctness.                                                       *)
(***************************************************************************)

\* Every step keeps the types.
LEMMA AdminNextType ==
  ASSUME AdminTypeOK, Requests, OneAtATime, [AdminNext]_adminVars
  PROVE  AdminTypeOK' /\ Requests' /\ OneAtATime'
<1> USE DEF AdminTypeOK, Requests, OneAtATime, redisVars, callVars, historyVars
<1>1. ASSUME NEW m \in MessageId, Produce(m) PROVE AdminTypeOK' /\ Requests' /\ OneAtATime'
  <2>1. PICK s \in Stamp :
          list' = [list EXCEPT !["pending"] = Append(@, [id |-> m, stamp |-> s])]
    BY <1>1 DEF Produce
  <2>2. list' \in [ListName -> Seq(Text)]
    <3>1. [id |-> m, stamp |-> s] \in Text BY DEF Text
    <3> QED BY <2>1, <3>1 DEF ListName
  <2> QED BY <1>1, <2>2 DEF Produce
<1>2. ASSUME NEW c \in Consumer, dequeue(c) PROVE AdminTypeOK' /\ Requests' /\ OneAtATime'
  <2>1. PICK s \in Seq(Text) : s = list["pending"] /\ s # <<>> BY <1>2 DEF dequeue, ListName
  <2>2. Last(s) \in Text /\ Front(s) \in Seq(Text) BY <2>1 DEF Last, Front
  <2>3. list' \in [ListName -> Seq(Text)] /\ Last(s).id \in MessageId
    BY <1>2, <2>1, <2>2 DEF dequeue, Text
  <2>4. <<Last(s)>> \in Seq(Text) /\ Len(<<Last(s)>>) = 1 BY <2>2
  <2>5. processing' = [processing EXCEPT ![c] = <<Last(s)>>] BY <1>2, <2>1 DEF dequeue
  <2>6. processing' \in [Consumer -> Seq(Text)] /\ \A d \in Consumer : Len(processing'[d]) <= 1
    BY <2>4, <2>5
  <2> QED BY <1>2, <2>1, <2>3, <2>6 DEF dequeue
<1>3. ASSUME NEW c \in Consumer, NEW l \in ListName, Settle(c, l)
      PROVE  AdminTypeOK' /\ Requests' /\ OneAtATime'
  <2>1. list[l] \o processing[c] \in Seq(Text) OBVIOUS
  <2>2. <<>> \in Seq(Text) /\ Len(<<>>) = 0 OBVIOUS
  <2>3. processing' \in [Consumer -> Seq(Text)] /\ \A d \in Consumer : Len(processing'[d]) <= 1
    BY <1>3, <2>2 DEF Settle
  <2> QED BY <1>3, <2>1, <2>3 DEF Settle
<1>4. ASSUME NEW c \in Consumer, Retry(c) PROVE AdminTypeOK' /\ Requests' /\ OneAtATime'
  <2>1. PICK s \in Stamp : list' = [list EXCEPT !["pending"] =
                                      <<[processing[c][1] EXCEPT !.stamp = s]>> \o @]
    BY <1>4 DEF Retry
  <2>2. processing[c][1] \in Text BY <1>4 DEF Retry
  <2>3. [processing[c][1] EXCEPT !.stamp = s] \in Text BY <2>2 DEF Text
  <2>4. list' \in [ListName -> Seq(Text)] BY <2>1, <2>3 DEF ListName
  <2>5. <<>> \in Seq(Text) /\ Len(<<>>) = 0 OBVIOUS
  <2>6. processing' \in [Consumer -> Seq(Text)] /\ \A d \in Consumer : Len(processing'[d]) <= 1
    BY <1>4, <2>5 DEF Retry
  <2> QED BY <1>4, <2>4, <2>6 DEF Retry
<1>5. ASSUME NEW r \in Caller, NEW l \in ListName, getPaginatedListMessages(r, l)
      PROVE  AdminTypeOK' /\ Requests' /\ OneAtATime'
  <2>1. \A i \in 1..Len(list[l]) :
          [list |-> l, at |-> i - 1, id |-> list[l][i].id] \in Item
    <3> TAKE i \in 1..Len(list[l])
    <3>1. list[l][i] \in Text /\ i - 1 \in Nat OBVIOUS
    <3>2. list[l][i].id \in MessageId BY <3>1 DEF Text
    <3> QED BY <3>1, <3>2 DEF Item
  <2> QED BY <1>5, <2>1 DEF getPaginatedListMessages
<1>6. ASSUME NEW r \in Caller, NEW op \in {"delete", "requeue"}, NEW p \in BOOLEAN,
             Ask(r, op, p)
      PROVE  AdminTypeOK' /\ Requests' /\ OneAtATime'
  <2>1. PICK item \in listing[r] : request' = [request EXCEPT ![r] =
            [op |-> op, list |-> item.list, at |-> item.at, id |-> item.id,
             withPriority |-> p]]
    BY <1>6 DEF Ask
  <2>2. [op |-> op, list |-> item.list, at |-> item.at, id |-> item.id,
         withPriority |-> p] \in Request
    BY DEF Item, Request
  <2>3. request' \in [Caller -> Request \union {<<>>}] BY <2>1, <2>2
  <2>4. pc' = [pc EXCEPT ![r] = "asked"] /\ requests' = requests + 1 /\ requests < MaxRequests
    BY <1>6 DEF Ask
  <2>5. \A q \in Caller : request'[q] \in Request \/ pc'[q] = "idle" BY <2>1, <2>2, <2>4
  <2>6. pc' \in [Caller -> Pc] /\ requests' \in 0..MaxRequests BY <2>4, AdminAssumption DEF Pc
  <2> QED BY <1>6, <2>3, <2>5, <2>6 DEF Ask
<1>7. ASSUME NEW r \in Caller, lockFN(r) PROVE AdminTypeOK' /\ Requests' /\ OneAtATime'
  <2>1. request[r] \in Request /\ request[r].list \in ListName BY <1>7 DEF lockFN, Request
  <2> QED BY <1>7, <2>1 DEF lockFN, Pc, Answer
<1>8. ASSUME NEW r \in Caller, getListMessageAtSequenceId(r)
      PROVE  AdminTypeOK' /\ Requests' /\ OneAtATime'
  <2>1. request[r] \in Request /\ request[r].list \in ListName
    BY <1>8 DEF getListMessageAtSequenceId, Request
  <2>2. lrange(r) \subseteq Text BY <2>1 DEF lrange
  <2>3. /\ pc' = [pc EXCEPT ![r] = IF lrange(r) # {} THEN "read"
                          ELSE IF pc[r] = "locked" THEN "releasing" ELSE "answered"]
        /\ answer' = [answer EXCEPT ![r] =
                       IF lrange(r) = {} THEN MissingIs(request[r].list) ELSE "ok"]
        /\ found' = [found EXCEPT ![r] = lrange(r)]
    BY <1>8 DEF getListMessageAtSequenceId
  <2>4. pc' \in [Caller -> Pc] /\ answer' \in [Caller -> Answer]
        /\ found' \in [Caller -> SUBSET Text]
    BY <2>2, <2>3 DEF Pc, Answer, MissingIs
  <2>5. \A q \in Caller : request'[q] \in Request \/ pc'[q] = "idle"
    BY <1>8, <2>1, <2>3 DEF getListMessageAtSequenceId
  <2> QED BY <1>8, <2>4, <2>5 DEF getListMessageAtSequenceId
<1>9. ASSUME NEW r \in Caller, deleteListMessageAtSequenceId(r)
      PROVE  AdminTypeOK' /\ Requests' /\ OneAtATime'
  <2>1. PICK l \in ListName : request[r] \in Request /\ request[r].list = l
    BY <1>9 DEF deleteListMessageAtSequenceId, Request
  <2>2. Lrem(list[l], found[r]) \in Seq(Text) BY LremInserted
  <2>3. list' \in [ListName -> Seq(Text)]
    BY <1>9, <2>1, <2>2 DEF deleteListMessageAtSequenceId, lremOne
  <2>4. TakenBy(r, l, found[r]) \subseteq (Caller \union {NoOne}) \X MessageId
    BY DEF TakenBy, Text
  <2> QED BY <1>9, <2>1, <2>3, <2>4 DEF deleteListMessageAtSequenceId, Pc
<1>10. ASSUME NEW r \in Caller, releaseLock(r) PROVE AdminTypeOK' /\ Requests' /\ OneAtATime'
  <2>1. request[r] \in Request /\ request[r].list \in ListName BY <1>10 DEF releaseLock, Request
  <2> QED BY <1>10, <2>1 DEF releaseLock, Pc
<1>11. ASSUME NEW r \in Caller, requeueListMessage(r)
       PROVE  AdminTypeOK' /\ Requests' /\ OneAtATime'
  <2>1. PICK l \in ListName : request[r] \in Request /\ request[r].list = l
    BY <1>11 DEF requeueListMessage, Request
  <2>2. PICK t \in Seq(Text) : t = Lrem(list[l], found[r]) BY LremInserted
  <2>3. PICK s \in Stamp :
          IF request[r].withPriority
            THEN /\ list' = [list EXCEPT ![l] = t]
                 /\ withPriority' = {x \in withPriority : x.id # request[r].id}
                                      \union {[id |-> request[r].id, stamp |-> s]}
            ELSE /\ list' = [[list EXCEPT ![l] = t] EXCEPT !["pending"] =
                              Append(@, [id |-> request[r].id, stamp |-> s])]
                 /\ UNCHANGED withPriority
    BY <1>11, <2>1, <2>2 DEF requeueListMessage, lremOne
  <2>4. [id |-> request[r].id, stamp |-> s] \in Text BY <2>1 DEF Text, Request
  <2>5. [list EXCEPT ![l] = t] \in [ListName -> Seq(Text)] BY <2>2
  <2>6. list' \in [ListName -> Seq(Text)]
    <3>1. PICK f \in [ListName -> Seq(Text)] : f = [list EXCEPT ![l] = t] BY <2>5
    <3>2. list' = f \/ list' = [f EXCEPT !["pending"] =
                                 Append(f["pending"], [id |-> request[r].id, stamp |-> s])]
      BY <2>3, <3>1 DEF ListName
    <3>3. "pending" \in ListName BY DEF ListName
    <3>4. Append(f["pending"], [id |-> request[r].id, stamp |-> s]) \in Seq(Text)
      BY <2>4, <3>1, <3>3
    <3> QED BY <3>1, <3>2, <3>4
  <2>7. withPriority' \subseteq Text BY <2>3, <2>4
  <2>8. moved' \subseteq MessageId /\ copied' \subseteq MessageId
    <3>1. request[r].id \in MessageId BY <2>1 DEF Request
    <3>2. \A x \in found[r] : x.id \in MessageId BY DEF Text
    <3>3. Ids(found[r] \cap ToSet(list[l])) \subseteq MessageId BY <3>2 DEF Ids
    <3>4. /\ moved' = moved \union Ids(found[r] \cap ToSet(list[l]))
          /\ copied' = copied \union ({request[r].id} \ Ids(found[r] \cap ToSet(list[l])))
      BY <1>11, <2>1 DEF requeueListMessage, RequeueHistory
    <3> QED BY <3>1, <3>3, <3>4
  <2>9. pc' = [pc EXCEPT ![r] = "answered"] /\ found' = [found EXCEPT ![r] = {}]
    BY <1>11 DEF requeueListMessage
  <2>10. pc' \in [Caller -> Pc] /\ found' \in [Caller -> SUBSET Text] BY <2>9 DEF Pc
  <2>11. \A q \in Caller : request[q] \in Request \/ pc'[q] = "idle" BY <2>1, <2>9
  <2> QED BY <1>11, <2>6, <2>7, <2>8, <2>10, <2>11 DEF requeueListMessage
<1>12. ASSUME NEW l \in ListName, purge(l) PROVE AdminTypeOK' /\ Requests' /\ OneAtATime'
  <2>1. Ids(ToSet(list[l])) \subseteq MessageId BY InToSet
  <2>2. <<>> \in Seq(Text) OBVIOUS
  <2>3. requests' \in 0..MaxRequests BY <1>12, AdminAssumption DEF purge
  <2> QED BY <1>12, <2>1, <2>2, <2>3 DEF purge
<1>13. ASSUME NEW r \in Caller, Crash(r) PROVE AdminTypeOK' /\ Requests' /\ OneAtATime'
  BY <1>13 DEF Crash, InFlight, Pc
<1>14. ASSUME NEW l \in ListName, LockExpires(l) PROVE AdminTypeOK' /\ Requests' /\ OneAtATime'
  BY <1>14 DEF LockExpires
<1>15. CASE UNCHANGED adminVars BY <1>15 DEF adminVars
<1> QED BY <1>1, <1>2, <1>3, <1>4, <1>5, <1>6, <1>7, <1>8, <1>9, <1>10, <1>11, <1>12,
           <1>13, <1>14, <1>15
        DEF AdminNext, CallStep, ListName

-----------------------------------------------------------------------------
(***************************************************************************)
(* The locks, and what a call has read.                                    *)
(***************************************************************************)

\* The steps that change what callers know, or what is known of them.
LEMMA CallCases ==
  ASSUME [AdminNext]_adminVars
  PROVE  \/ UNCHANGED <<lock, request, pc, found, answer, lapsed, moved, copied>>
         \/ \E r \in Caller : CallStep(r) \/ Crash(r)
         \/ \E r \in Caller : \E op \in {"delete", "requeue"}, p \in BOOLEAN : Ask(r, op, p)
         \/ \E l \in ListName : LockExpires(l)
<1> DEFINE Idle == UNCHANGED <<lock, request, pc, found, answer, lapsed, moved, copied>>
<1>1. ASSUME NEW m, Produce(m) PROVE Idle BY <1>1 DEF Produce, callVars, historyVars
<1>2. ASSUME NEW c, dequeue(c) PROVE Idle BY <1>2 DEF dequeue, callVars
<1>3. ASSUME NEW c, Retry(c) PROVE Idle BY <1>3 DEF Retry, callVars, historyVars
<1>4. ASSUME NEW c, NEW l, Settle(c, l) PROVE Idle BY <1>4 DEF Settle, callVars, historyVars
<1>5. ASSUME NEW r, NEW l, getPaginatedListMessages(r, l) PROVE Idle
  BY <1>5 DEF getPaginatedListMessages, historyVars
<1>6. ASSUME NEW l, purge(l) PROVE Idle BY <1>6 DEF purge
<1>7. CASE UNCHANGED adminVars BY <1>7 DEF adminVars, callVars, historyVars
<1>9. Idle => UNCHANGED <<lock, request, pc, found, answer, lapsed, moved, copied>> BY DEF Idle
<1> HIDE DEF Idle
<1>8. CASE AdminNext
  <2>1. CASE \E m \in MessageId : Produce(m) BY <1>1, <1>9, <2>1
  <2>2. CASE \E c \in Consumer : \/ dequeue(c) \/ Retry(c)
                               \/ \E l \in {"acknowledged", "deadLetter"} : Settle(c, l)
    BY <1>2, <1>3, <1>4, <1>9, <2>2
  <2>3. CASE \E r \in Caller : \E l \in ListName : getPaginatedListMessages(r, l)
    BY <1>5, <1>9, <2>3
  <2>4. CASE \E l \in ListName : purge(l) BY <1>6, <1>9, <2>4
  <2> QED BY <1>8, <2>1, <2>2, <2>3, <2>4 DEF AdminNext
<1> QED BY <1>7, <1>8, <1>9

\* A caller that is not in a deletion holds no lock.
LEMMA NoLock ==
  ASSUME LockInCall, NEW r \in Caller,
         pc[r] \notin {"locked", "read", "releasing", "crashed"}
  PROVE  \A l \in ListName : lock[l] # r
<1> SUFFICES ASSUME NEW l \in ListName, lock[l] = r PROVE FALSE OBVIOUS
<1>1. lock[l] # NoOne BY AdminAssumption
<1>2. pc[lock[l]] \in {"locked", "read", "releasing", "crashed"} BY <1>1 DEF LockInCall
<1> QED BY <1>2

\* Every step keeps the locks in the calls they were taken for.
LEMMA LockNext ==
  ASSUME AdminTypeOK, Requests, LockInCall, Locking, [AdminNext]_adminVars
  PROVE  LockInCall' /\ Locking'
<1> USE DEF AdminTypeOK, Requests, LockInCall, Locking, Deleting, redisVars, callVars,
            historyVars
<1>1. CASE UNCHANGED <<lock, request, pc, lapsed>> BY <1>1
<1>2. ASSUME NEW r \in Caller, NEW op \in {"delete", "requeue"}, NEW p \in BOOLEAN,
             Ask(r, op, p)
      PROVE  LockInCall' /\ Locking'
  <2>1. /\ pc[r] \in {"idle", "answered"} /\ pc' = [pc EXCEPT ![r] = "asked"]
        /\ UNCHANGED <<lock, lapsed>>
        /\ \A q \in Caller : q # r => request'[q] = request[q]
    BY <1>2 DEF Ask
  <2>2. \A l \in ListName : lock[l] # r BY <2>1, NoLock
  <2>3. LockInCall' BY <2>1, <2>2
  <2>4. Locking' BY <2>1
  <2> QED BY <2>3, <2>4
<1>3. ASSUME NEW r \in Caller, lockFN(r) PROVE LockInCall' /\ Locking'
  <2>1. PICK l \in ListName : request[r] \in Request /\ request[r].list = l
    BY <1>3 DEF lockFN, Request
  <2>2. /\ pc[r] = "asked" /\ request[r].op = "delete" /\ UNCHANGED <<request, lapsed>>
        /\ \A k \in ListName : lock[k] # r
    BY <1>3, NoLock DEF lockFN
  <2>3. CASE lock[l] = NoOne
    <3>1. lock' = [lock EXCEPT ![l] = r] /\ pc' = [pc EXCEPT ![r] = "locked"]
      BY <1>3, <2>1, <2>3 DEF lockFN
    <3>2. LockInCall' BY <2>1, <2>2, <3>1
    <3>3. ASSUME NEW q \in Caller
          PROVE  /\ pc'[q] \in {"locked", "releasing"} => request[q].op = "delete"
                 /\ Deleting(q)' /\ request[q].list \notin lapsed => lock'[request[q].list] = q
      <4>1. CASE q = r BY <2>1, <2>2, <3>1, <4>1
      <4>2. CASE q # r
        <5>1. pc'[q] = pc[q] BY <3>1, <4>2
        <5>2. request[q] \in Request \/ pc[q] = "idle" OBVIOUS
        <5>3. Deleting(q) /\ request[q].list \notin lapsed => request[q].list # l
          BY <2>3, AdminAssumption
        <5> QED BY <2>2, <3>1, <5>1, <5>3
      <4> QED BY <4>1, <4>2
    <3> QED BY <2>2, <3>2, <3>3
  <2>4. CASE lock[l] # NoOne
    <3>1. lock' = lock /\ pc' = [pc EXCEPT ![r] = "answered"]
      BY <1>3, <2>1, <2>4 DEF lockFN
    <3> QED BY <2>2, <3>1
  <2> QED BY <2>3, <2>4
<1>4. ASSUME NEW r \in Caller, getListMessageAtSequenceId(r) PROVE LockInCall' /\ Locking'
  <2>1. /\ UNCHANGED <<lock, request, lapsed>>
        /\ \/ pc[r] = "locked" /\ pc' = [pc EXCEPT ![r] = "read"]
           \/ pc[r] = "locked" /\ pc' = [pc EXCEPT ![r] = "releasing"]
           \/ /\ pc[r] = "asked" /\ request[r].op = "requeue"
              /\ pc' = [pc EXCEPT ![r] = "read"]
           \/ /\ pc[r] = "asked" /\ request[r].op = "requeue"
              /\ pc' = [pc EXCEPT ![r] = "answered"]
    BY <1>4 DEF getListMessageAtSequenceId
  <2>2. LockInCall'
    <3>1. CASE pc[r] = "locked"
      <4>1. \A q \in Caller : pc[q] \in {"locked", "read", "releasing", "crashed"} =>
              pc'[q] \in {"locked", "read", "releasing", "crashed"}
        BY <2>1, <3>1
      <4>2. \A l \in ListName : lock[l] # NoOne => lock[l] \in Caller OBVIOUS
      <4> QED BY <2>1, <4>1, <4>2
    <3>2. CASE pc[r] = "asked"
      <4>1. \A l \in ListName : lock[l] # r BY <3>2, NoLock
      <4> QED BY <2>1, <3>2, <4>1
    <3> QED BY <2>1, <3>1, <3>2
  <2>3. \A q \in Caller : q # r => (Deleting(q)' <=> Deleting(q)) /\ pc'[q] = pc[q] BY <2>1
  <2>4. Deleting(r)' => Deleting(r) BY <2>1
  <2>5. pc'[r] = "releasing" => request[r].op = "delete" BY <2>1
  <2> HIDE DEF Deleting
  <2>6. Locking' BY <2>1, <2>3, <2>4, <2>5
  <2> QED BY <2>2, <2>6
<1>5. ASSUME NEW r \in Caller, deleteListMessageAtSequenceId(r) PROVE LockInCall' /\ Locking'
  BY <1>5 DEF deleteListMessageAtSequenceId
<1>6. ASSUME NEW r \in Caller, releaseLock(r) PROVE LockInCall' /\ Locking'
  <2>1. PICK l \in ListName : request[r] \in Request /\ request[r].list = l
    BY <1>6 DEF releaseLock, Request
  <2>2. /\ pc[r] = "releasing" /\ pc' = [pc EXCEPT ![r] = "answered"]
        /\ lock' = IF lock[l] = r THEN [lock EXCEPT ![l] = NoOne] ELSE lock
        /\ UNCHANGED <<request, lapsed>>
    BY <1>6, <2>1 DEF releaseLock
  <2>3. \A k \in ListName : lock[k] = r => k = l BY <2>1, AdminAssumption
  <2>4. LockInCall' BY <2>2, <2>3
  <2>5. Locking' BY <2>2
  <2> QED BY <2>4, <2>5
<1>7. ASSUME NEW r \in Caller, requeueListMessage(r) PROVE LockInCall' /\ Locking'
  BY <1>7, AdminAssumption DEF requeueListMessage
<1>8. ASSUME NEW r \in Caller, Crash(r) PROVE LockInCall' /\ Locking'
  BY <1>8, AdminAssumption DEF Crash, InFlight
<1>9. ASSUME NEW l \in ListName, LockExpires(l) PROVE LockInCall' /\ Locking'
  <2>1. /\ lock[l] # NoOne /\ lock' = [lock EXCEPT ![l] = NoOne]
        /\ lapsed' = IF lock[l] \in InFlight THEN lapsed \union {l} ELSE lapsed
        /\ UNCHANGED <<request, pc>>
    BY <1>9 DEF LockExpires
  <2>2. LockInCall' BY <2>1
  <2>3. ASSUME NEW q \in Caller, Deleting(q), request[q].list \notin lapsed'
        PROVE  lock'[request[q].list] = q
    <3>1. request[q].list \notin lapsed BY <2>1, <2>3
    <3>2. lock[request[q].list] = q BY <2>3, <3>1
    <3>3. q \in InFlight BY <2>3 DEF InFlight
    <3>4. request[q].list # l BY <2>1, <2>3, <3>2, <3>3
    <3> QED BY <2>1, <3>2, <3>4
  <2>4. Locking' BY <2>1, <2>3
  <2> QED BY <2>2, <2>4
<1> QED BY <1>1, <1>2, <1>3, <1>4, <1>5, <1>6, <1>7, <1>8, <1>9, CallCases DEF CallStep

\* Every step keeps what a call has read, as long as the call needs it.
LEMMA ReadNext ==
  ASSUME AdminTypeOK, Requests, Reading, [AdminNext]_adminVars
  PROVE  Reading'
<1> USE DEF AdminTypeOK, Requests, Reading, redisVars, callVars, historyVars
<1>1. CASE UNCHANGED <<request, pc, found>> BY <1>1
<1>2. ASSUME NEW r \in Caller, getListMessageAtSequenceId(r) PROVE Reading'
  <2>1. \A t \in lrange(r) : t.id = request[r].id BY DEF lrange
  <2> QED BY <1>2, <2>1 DEF getListMessageAtSequenceId
<1>3. ASSUME NEW r \in Caller, NEW op \in {"delete", "requeue"}, NEW p \in BOOLEAN,
             Ask(r, op, p)
      PROVE  Reading'
  BY <1>3 DEF Ask
<1>4. ASSUME NEW r \in Caller, \/ lockFN(r) \/ deleteListMessageAtSequenceId(r)
                               \/ releaseLock(r) \/ requeueListMessage(r) \/ Crash(r)
      PROVE  Reading'
  <2>1. /\ UNCHANGED request /\ pc'[r] # "read"
        /\ \A q \in Caller : q # r => pc'[q] = pc[q] /\ found'[q] = found[q]
    BY <1>4 DEF lockFN, deleteListMessageAtSequenceId, releaseLock, requeueListMessage, Crash
  <2> QED BY <2>1
<1> QED BY <1>1, <1>2, <1>3, <1>4, CallCases DEF CallStep, LockExpires

-----------------------------------------------------------------------------
(***************************************************************************)
(* What the steps do to the lists and the processing queues.               *)
(***************************************************************************)

\* The steps that change a list or a processing queue.
ProduceStep(e) ==
  /\ e.id \notin published /\ published' = published \union {e.id}
  /\ list' = [list EXCEPT !["pending"] = Append(@, e)]
  /\ UNCHANGED <<withPriority, processing, copied, removed>>

\* c takes e off the queue.
FetchStep(c, e) ==
  /\ processing[c] = <<>> /\ processing' = [processing EXCEPT ![c] = <<e>>]
  /\ \E s \in Seq(Text) : /\ Inserted(s, list["pending"], e)
                          /\ list' = [list EXCEPT !["pending"] = s]
  /\ UNCHANGED <<withPriority, copied, removed, published>>

\* The message of c goes to the list l, as f.
SettleStep(c, l, e, f) ==
  /\ processing[c] = <<e>> /\ f.id = e.id
  /\ processing' = [processing EXCEPT ![c] = <<>>]
  /\ \E s \in Seq(Text) : Inserted(list[l], s, f) /\ list' = [list EXCEPT ![l] = s]
  /\ UNCHANGED <<withPriority, copied, removed, published>>

\* The kinds of step.
LEMMA ListCases ==
  ASSUME AdminTypeOK, Requests, OneAtATime, [AdminNext]_adminVars
  PROVE  \/ UNCHANGED <<list, withPriority, processing, copied, removed, published>>
         \/ \E e \in Text : ProduceStep(e)
         \/ \E c \in Consumer, e \in Text : FetchStep(c, e)
         \/ \E c \in Consumer, l \in ListName, e \in Text, f \in Text : SettleStep(c, l, e, f)
         \/ \E r \in Caller : deleteListMessageAtSequenceId(r) \/ requeueListMessage(r)
         \/ \E l \in ListName : purge(l)
<1> DEFINE Idle == UNCHANGED <<list, withPriority, processing, copied, removed, published>>
<1> USE DEF AdminTypeOK, OneAtATime
<1>1. ASSUME NEW m \in MessageId, Produce(m) PROVE \E e \in Text : ProduceStep(e)
  <2>1. PICK s \in Stamp :
          list' = [list EXCEPT !["pending"] = Append(@, [id |-> m, stamp |-> s])]
    BY <1>1 DEF Produce
  <2>4. [id |-> m, stamp |-> s] \in Text BY DEF Text
  <2>2. PICK e \in Text : e = [id |-> m, stamp |-> s] /\ e.id = m BY <2>4
  <2>3. ProduceStep(e) BY <1>1, <2>1, <2>2 DEF Produce, ProduceStep, historyVars
  <2> QED BY <2>3
<1>2. ASSUME NEW c \in Consumer, dequeue(c) PROVE \E e \in Text : FetchStep(c, e)
  <2>1. PICK s \in Seq(Text) : s = list["pending"] /\ s # <<>> BY <1>2 DEF dequeue, ListName
  <2>2. Last(s) \in Text /\ Front(s) \in Seq(Text) BY <2>1 DEF Last, Front
  <2>3. Inserted(Front(s), s, Last(s)) BY <2>1, PopInserted
  <2>4. /\ processing[c] = <<>> /\ processing' = [processing EXCEPT ![c] = <<Last(s)>>]
        /\ list' = [list EXCEPT !["pending"] = Front(s)]
        /\ UNCHANGED <<withPriority, copied, removed, published>>
    BY <1>2, <2>1 DEF dequeue
  <2>5. FetchStep(c, Last(s)) BY <2>1, <2>2, <2>3, <2>4 DEF FetchStep
  <2> QED BY <2>2, <2>5
<1>3. ASSUME NEW c \in Consumer, processing[c] # <<>>
      PROVE  processing[c][1] \in Text /\ processing[c] = <<processing[c][1]>>
  <2>1. PICK s \in Seq(Text) : s = processing[c] /\ s # <<>> /\ Len(s) <= 1 BY <1>3
  <2>2. s[1] \in Text /\ s = <<s[1]>> BY <2>1, OneElement
  <2> QED BY <2>1, <2>2
<1>4. ASSUME NEW c \in Consumer, NEW l \in ListName, Settle(c, l)
      PROVE  \E e \in Text : SettleStep(c, l, e, e)
  <2>1. PICK e \in Text : processing[c] = <<e>> BY <1>3, <1>4 DEF Settle
  <2>2. PICK s \in Seq(Text) : s = Append(list[l], e) /\ Inserted(list[l], s, e)
    BY PushInserted
  <2>6. list[l] \in Seq(Text) OBVIOUS
  <2>7. Append(list[l], e) = list[l] \o <<e>> BY <2>6, AppendIsConcat
  <2>3. s = list[l] \o processing[c] BY <2>1, <2>2, <2>7
  <2>4. list' = [list EXCEPT ![l] = s] BY <1>4, <2>3 DEF Settle
  <2>5. SettleStep(c, l, e, e) BY <1>4, <2>1, <2>2, <2>4 DEF Settle, SettleStep, historyVars
  <2> QED BY <2>5
<1>5. ASSUME NEW c \in Consumer, Retry(c)
      PROVE  \E e \in Text, f \in Text : SettleStep(c, "pending", e, f)
  <2>1. PICK e \in Text : e = processing[c][1] /\ processing[c] = <<e>> BY <1>3, <1>5 DEF Retry
  <2>2. PICK x \in Stamp : list' = [list EXCEPT !["pending"] =
                                      <<[e EXCEPT !.stamp = x]>> \o @]
    BY <1>5, <2>1 DEF Retry
  <2>8. [e EXCEPT !.stamp = x] \in Text /\ [e EXCEPT !.stamp = x].id = e.id BY DEF Text
  <2>3. PICK f \in Text : f = [e EXCEPT !.stamp = x] /\ f.id = e.id BY <2>8
  <2>4. list["pending"] \in Seq(Text) BY DEF ListName
  <2>5. PICK s \in Seq(Text) : s = <<f>> \o list["pending"] /\ Inserted(list["pending"], s, f)
    BY <2>4, PushInserted
  <2>6. list' = [list EXCEPT !["pending"] = s] BY <2>2, <2>3, <2>5
  <2>7. SettleStep(c, "pending", e, f)
    BY <1>5, <2>1, <2>3, <2>5, <2>6 DEF Retry, SettleStep, historyVars
  <2> QED BY <2>7
<1>6. ASSUME NEW r, NEW l, getPaginatedListMessages(r, l) PROVE Idle
  BY <1>6 DEF getPaginatedListMessages, redisVars, historyVars
<1>7. ASSUME NEW r, \/ lockFN(r) \/ getListMessageAtSequenceId(r) \/ releaseLock(r) \/ Crash(r)
      PROVE  Idle
  BY <1>7 DEF lockFN, getListMessageAtSequenceId, releaseLock, Crash, redisVars, historyVars
<1>8. ASSUME NEW r, NEW op, NEW p, Ask(r, op, p) PROVE Idle
  BY <1>8 DEF Ask, redisVars, historyVars
<1>9. ASSUME NEW l, LockExpires(l) PROVE Idle BY <1>9 DEF LockExpires, redisVars
<1>10. CASE UNCHANGED adminVars BY <1>10 DEF adminVars, redisVars, historyVars
<1>11. Idle => UNCHANGED <<list, withPriority, processing, copied, removed, published>> BY DEF Idle
<1> HIDE DEF Idle
<1>12. CASE AdminNext
  <2>1. CASE \E m \in MessageId : Produce(m) BY <1>1, <2>1
  <2>2. CASE \E c \in Consumer : dequeue(c) BY <1>2, <2>2
  <2>3. CASE \E c \in Consumer : Retry(c)
    <3>1. PICK c \in Consumer : Retry(c) BY <2>3
    <3>2. PICK e \in Text, f \in Text : SettleStep(c, "pending", e, f) BY <1>5, <3>1
    <3>3. "pending" \in ListName BY DEF ListName
    <3> QED BY <3>2, <3>3
  <2>4. CASE \E c \in Consumer : \E l \in {"acknowledged", "deadLetter"} : Settle(c, l)
    <3>1. PICK c \in Consumer : \E l \in {"acknowledged", "deadLetter"} : Settle(c, l) BY <2>4
    <3>2. PICK l \in {"acknowledged", "deadLetter"} : Settle(c, l) BY <3>1
    <3>3. l \in ListName BY DEF ListName
    <3>4. PICK e \in Text : SettleStep(c, l, e, e) BY <1>4, <3>2, <3>3
    <3> QED BY <3>3, <3>4
  <2>5. CASE \E r \in Caller : CallStep(r) \/ Crash(r) BY <1>7, <1>11, <2>5 DEF CallStep
  <2>6. CASE \E r \in Caller : \E l \in ListName : getPaginatedListMessages(r, l)
    BY <1>6, <1>11, <2>6
  <2>7. CASE \E r \in Caller : \E op \in {"delete", "requeue"}, p \in BOOLEAN : Ask(r, op, p)
    BY <1>8, <1>11, <2>7
  <2>8. CASE \E l \in ListName : purge(l) \/ LockExpires(l) BY <1>9, <1>11, <2>8
  <2> QED BY <1>12, <2>1, <2>2, <2>3, <2>4, <2>5, <2>6, <2>7, <2>8 DEF AdminNext
<1> QED BY <1>10, <1>12

\* What a deletion or a requeue does to its list.
LEMMA TakeFacts ==
  ASSUME AdminTypeOK, Requests, NEW r \in Caller, pc[r] = "read"
  PROVE  \E l \in ListName : \E s \in Seq(Text) :
           /\ request[r] \in Request /\ request[r].list = l
           /\ s = Lrem(list[l], found[r])
           /\ lremOne(l, found[r]) = [list EXCEPT ![l] = s]
           /\ \/ s = list[l] /\ ToSet(list[l]) \cap found[r] = {}
              \/ \E e \in ToSet(list[l]) \cap found[r] : Inserted(s, list[l], e)
<1>1. PICK l \in ListName : request[r] \in Request /\ request[r].list = l
  BY DEF AdminTypeOK, Request
<1>2. list[l] \in Seq(Text) BY DEF AdminTypeOK
<1>3. PICK s : s = Lrem(list[l], found[r]) OBVIOUS
<1>4. lremOne(l, found[r]) = [list EXCEPT ![l] = s] BY <1>3 DEF lremOne
<1> QED BY <1>1, <1>2, <1>3, <1>4, LremInserted

\* What a step keeps of the elements of a list.
LEMMA InsertedKeeps ==
  ASSUME NEW s \in Seq(Text), NEW t \in Seq(Text), NEW e \in Text, Inserted(s, t, e)
  PROVE  /\ ToSet(t) = ToSet(s) \union {e}
         /\ Ids(ToSet(t)) = Ids(ToSet(s)) \union {e.id}
<1>1. ToSet(t) = ToSet(s) \union {e} BY InsertedFacts
<1> QED BY <1>1 DEF Ids

-----------------------------------------------------------------------------
(***************************************************************************)
(* What a deletion says.                                                   *)
(***************************************************************************)

\* A step that is not of the caller q, and takes nothing that q has read from
\* its list unless that excuses q.
LEMMA TellsKept ==
  ASSUME Reading, NEW q \in Caller, Tells(q),
         request'[q] = request[q], pc'[q] = pc[q], found'[q] = found[q], answer'[q] = answer[q],
         lapsed \subseteq lapsed', moved \subseteq moved', removed \subseteq removed',
         /\ pc[q] = "read" /\ request[q].op = "delete"
         /\ request[q].list \in ListName \ {"pending"} /\ request[q].list \notin lapsed'
         => \A t \in ToSet(list[request[q].list]) : t.id = request[q].id =>
              \/ t \in ToSet(list'[request[q].list])
              \/ <<NoOne, t.id>> \in removed' \/ t.id \in moved'
  PROVE  Tells(q)'
<1> SUFFICES ASSUME request[q] \in Request, request[q].op = "delete", ~Excused(q)'
             PROVE  /\ pc[q] = "read" => \E t \in found[q] : t \in ToSet(list'[request[q].list])
                    /\ pc[q] \in {"releasing", "answered"} /\ answer[q] = "ok"
                         => <<q, request[q].id>> \in removed'
  BY DEF Tells
<1>1. /\ ~Excused(q) /\ request[q].list \in ListName \ {"pending"}
      /\ request[q].list \notin lapsed'
      /\ <<NoOne, request[q].id>> \notin removed' /\ request[q].id \notin moved'
  BY DEF Excused, Request
<1>2. ASSUME pc[q] = "read" PROVE \E t \in found[q] : t \in ToSet(list'[request[q].list])
  <2>1. PICK t \in found[q] : t \in ToSet(list[request[q].list]) BY <1>1, <1>2 DEF Tells
  <2>2. t.id = request[q].id BY <1>2 DEF Reading
  <2> QED BY <1>1, <1>2, <2>1, <2>2
<1>3. pc[q] \in {"releasing", "answered"} /\ answer[q] = "ok" => <<q, request[q].id>> \in removed
  BY <1>1 DEF Tells
<1> QED BY <1>2, <1>3

\* A step of no caller that takes nothing from a list without saying so.
LEMMA TellingKept ==
  ASSUME Telling, Reading, UNCHANGED <<request, pc, found, answer, lapsed, moved>>,
         removed \subseteq removed',
         \A l \in ListName \ {"pending"} : \A t \in ToSet(list[l]) :
           t \in ToSet(list'[l]) \/ <<NoOne, t.id>> \in removed'
  PROVE  Telling'
<1>1. ASSUME NEW q \in Caller PROVE Tells(q)'
  <2>1. Tells(q) BY DEF Telling
  <2> QED BY <2>1, TellsKept
<1> QED BY <1>1 DEF Telling

\* Every step keeps what a deletion may say.
LEMMA TellingNext ==
  ASSUME AdminTypeOK, Requests, OneAtATime, LockInCall, Locking, Reading, Telling,
         AdminTypeOK', [AdminNext]_adminVars
  PROVE  Telling'
<1> DEFINE CallsAlone == UNCHANGED <<request, pc, found, answer, lapsed, moved>>
<1> USE DEF ListName
<1>1. ASSUME NEW m \in MessageId, Produce(m) PROVE Telling'
  <2>1. /\ CallsAlone /\ removed' = removed
        /\ \A l \in ListName \ {"pending"} : list'[l] = list[l]
    BY <1>1 DEF Produce, callVars, historyVars, AdminTypeOK
  <2> QED BY <2>1, TellingKept
<1>2. ASSUME NEW c \in Consumer, dequeue(c) \/ Retry(c) PROVE Telling'
  <2>1. /\ CallsAlone /\ removed' = removed
        /\ \A l \in ListName \ {"pending"} : list'[l] = list[l]
    BY <1>2 DEF dequeue, Retry, callVars, historyVars, AdminTypeOK
  <2> QED BY <2>1, TellingKept
<1>3. ASSUME NEW c \in Consumer, NEW l \in {"acknowledged", "deadLetter"}, Settle(c, l)
      PROVE Telling'
  <2>1. CallsAlone /\ removed' = removed /\ list' = [list EXCEPT ![l] = @ \o processing[c]]
    BY <1>3 DEF Settle, callVars, historyVars
  <2>2. PICK s \in Seq(Text), t \in Seq(Text) : s = list[l] /\ t = processing[c]
    BY DEF AdminTypeOK
  <2>3. \A x \in ToSet(s) : x \in ToSet(s \o t)
    <3> TAKE x \in ToSet(s)
    <3>1. PICK i \in 1..Len(s) : s[i] = x BY InToSet
    <3>2. s \o t \in Seq(Text) /\ i \in 1..Len(s \o t) /\ (s \o t)[i] = x BY <3>1
    <3> QED BY <3>2, InToSet
  <2>4. \A k \in ListName \ {"pending"} : \A x \in ToSet(list[k]) : x \in ToSet(list'[k])
    BY <2>1, <2>2, <2>3 DEF AdminTypeOK
  <2> QED BY <2>1, <2>4, TellingKept
<1>4. ASSUME NEW l \in ListName, purge(l) PROVE Telling'
  <2>1. CallsAlone /\ list' = [list EXCEPT ![l] = <<>>]
        /\ removed' = removed \union ({NoOne} \X Ids(ToSet(list[l])))
    BY <1>4 DEF purge
  <2>2. ASSUME NEW k \in ListName, NEW t \in ToSet(list[k])
        PROVE  t \in ToSet(list'[k]) \/ <<NoOne, t.id>> \in removed'
    <3>1. CASE k = l
      <4>1. t.id \in Ids(ToSet(list[l])) BY <2>2, <3>1 DEF Ids
      <4> QED BY <2>1, <4>1
    <3>2. CASE k # l BY <2>1, <2>2, <3>2 DEF AdminTypeOK
    <3> QED BY <3>1, <3>2
  <2> QED BY <2>1, <2>2, TellingKept
<1>5. ASSUME NEW r \in Caller, NEW l \in ListName, getPaginatedListMessages(r, l) PROVE Telling'
  <2>1. CallsAlone /\ removed' = removed /\ list' = list
    BY <1>5 DEF getPaginatedListMessages, redisVars, historyVars
  <2> QED BY <2>1, TellingKept
<1>6. ASSUME NEW r \in Caller, NEW op \in {"delete", "requeue"}, NEW p \in BOOLEAN,
             Ask(r, op, p)
      PROVE  Telling'
  <2>1. /\ UNCHANGED <<found, answer, lapsed, moved, removed, list>> /\ pc'[r] = "asked"
        /\ \A q \in Caller : q # r => request'[q] = request[q] /\ pc'[q] = pc[q]
    BY <1>6 DEF Ask, redisVars, historyVars, AdminTypeOK, Requests
  <2>2. Tells(r)' BY <2>1 DEF Tells
  <2>3. ASSUME NEW q \in Caller, q # r PROVE Tells(q)'
    <3>1. Tells(q) BY DEF Telling
    <3> QED BY <2>1, <2>3, <3>1, TellsKept
  <2> QED BY <2>2, <2>3 DEF Telling
<1>7. ASSUME NEW r \in Caller, lockFN(r) \/ getListMessageAtSequenceId(r) \/ releaseLock(r)
                               \/ Crash(r)
      PROVE  Telling'
  <2>1. /\ UNCHANGED <<request, lapsed, moved, removed, list>>
        /\ \A q \in Caller : q # r =>
             pc'[q] = pc[q] /\ found'[q] = found[q] /\ answer'[q] = answer[q]
    BY <1>7 DEF lockFN, getListMessageAtSequenceId, releaseLock, Crash, redisVars, historyVars,
                AdminTypeOK
  <2>2. ASSUME NEW q \in Caller, q # r PROVE Tells(q)'
    <3>1. Tells(q) BY DEF Telling
    <3> QED BY <2>1, <2>2, <3>1, TellsKept
  <2>3. CASE lockFN(r)
    <3>1. pc'[r] = "locked" \/ (pc'[r] = "answered" /\ answer'[r] = "couldNotLock")
      BY <2>3 DEF lockFN, AdminTypeOK
    <3>2. Tells(r)' BY <3>1 DEF Tells
    <3> QED BY <2>2, <3>2 DEF Telling
  <2>4. CASE getListMessageAtSequenceId(r)
    <3>1. CASE lrange(r) # {}
      <4>1. pc'[r] = "read" /\ found'[r] = lrange(r)
        BY <2>4, <3>1 DEF getListMessageAtSequenceId, AdminTypeOK
      <4>2. PICK t \in lrange(r) : TRUE BY <3>1
      <4>3. request[r] \in Request => t \in ToSet(list[request[r].list])
        <5> SUFFICES ASSUME request[r] \in Request PROVE t \in ToSet(list[request[r].list])
          OBVIOUS
        <5>1. list[request[r].list] \in Seq(Text) BY DEF AdminTypeOK, Request
        <5>2. PICK i \in 1..Len(list[request[r].list]) : t = list[request[r].list][i]
          BY <4>2 DEF lrange
        <5> QED BY <5>1, <5>2, InToSet
      <4>4. Tells(r)' BY <2>1, <4>1, <4>2, <4>3 DEF Tells
      <4> QED BY <2>2, <4>4 DEF Telling
    <3>2. CASE lrange(r) = {}
      <4>1. /\ answer'[r] = MissingIs(request[r].list)
            /\ pc'[r] = "releasing" \/ (pc'[r] = "answered" /\ request[r].op = "requeue")
        BY <2>4, <3>2 DEF getListMessageAtSequenceId, AdminTypeOK
      <4>2. request[r].list = "pending" \/ answer'[r] = "notFound" BY <4>1 DEF MissingIs
      <4>3. Tells(r)' BY <2>1, <4>1, <4>2 DEF Tells, Excused
      <4> QED BY <2>2, <4>3 DEF Telling
    <3> QED BY <3>1, <3>2
  <2>5. CASE releaseLock(r)
    <3>1. pc[r] = "releasing" /\ pc'[r] = "answered" /\ answer' = answer
      BY <2>5 DEF releaseLock, AdminTypeOK
    <3>2. Tells(r) BY DEF Telling
    <3>3. Tells(r)' BY <2>1, <3>1, <3>2 DEF Tells, Excused
    <3> QED BY <2>2, <3>3 DEF Telling
  <2>6. CASE Crash(r)
    <3>1. pc'[r] = "crashed" BY <2>6 DEF Crash, AdminTypeOK
    <3>2. Tells(r)' BY <3>1 DEF Tells
    <3> QED BY <2>2, <3>2 DEF Telling
  <2> QED BY <1>7, <2>3, <2>4, <2>5, <2>6
<1>8. ASSUME NEW r \in Caller, deleteListMessageAtSequenceId(r) PROVE Telling'
  <2>1. pc[r] = "read" /\ request[r].op = "delete" BY <1>8 DEF deleteListMessageAtSequenceId
  <2>2. PICK l \in ListName : \E s \in Seq(Text) :
          request[r] \in Request /\ request[r].list = l
          /\ lremOne(l, found[r]) = [list EXCEPT ![l] = s]
    BY <2>1, TakeFacts
  <2>3. PICK s \in Seq(Text) : lremOne(l, found[r]) = [list EXCEPT ![l] = s] BY <2>2
  <2>4. /\ list' = [list EXCEPT ![l] = s] /\ removed' = removed \union TakenBy(r, l, found[r])
        /\ pc' = [pc EXCEPT ![r] = "releasing"]
        /\ UNCHANGED <<request, found, answer, lapsed, moved>>
    BY <1>8, <2>2, <2>3 DEF deleteListMessageAtSequenceId
  <2>5. Tells(r)'
    <3> SUFFICES ASSUME ~Excused(r)' PROVE <<r, request[r].id>> \in removed'
      BY <2>4 DEF Tells, AdminTypeOK
    <3>1. ~Excused(r) BY <2>4 DEF Excused
    <3>2. PICK t \in found[r] : t \in ToSet(list[l])
      BY <2>1, <2>2, <3>1 DEF Telling, Tells
    <3>3. t.id = request[r].id BY <2>1 DEF Reading
    <3>4. <<r, t.id>> \in TakenBy(r, l, found[r]) BY <3>2 DEF TakenBy
    <3> QED BY <2>4, <3>3, <3>4
  <2>6. ASSUME NEW q \in Caller, q # r PROVE Tells(q)'
    <3>1. Tells(q) /\ pc'[q] = pc[q] BY <2>4, <2>6 DEF Telling, AdminTypeOK
    <3>2. pc[q] = "read" /\ request[q].op = "delete" /\ request[q].list \notin lapsed
          => request[q].list # l
      BY <2>1, <2>2, <2>6 DEF Locking, Deleting
    <3>3. \A k \in ListName : k # l => list'[k] = list[k] BY <2>4 DEF AdminTypeOK
    <3>4. removed \subseteq removed' BY <2>4
    <3> QED BY <2>4, <3>1, <3>2, <3>3, <3>4, TellsKept
  <2> QED BY <2>5, <2>6 DEF Telling
<1>9. ASSUME NEW r \in Caller, requeueListMessage(r) PROVE Telling'
  <2>1. pc[r] = "read" /\ request[r].op = "requeue" BY <1>9 DEF requeueListMessage
  <2>2. PICK l \in ListName : \E s \in Seq(Text) :
          /\ request[r] \in Request /\ request[r].list = l
          /\ lremOne(l, found[r]) = [list EXCEPT ![l] = s]
          /\ \/ s = list[l] /\ ToSet(list[l]) \cap found[r] = {}
             \/ \E e \in ToSet(list[l]) \cap found[r] : Inserted(s, list[l], e)
    BY <2>1, TakeFacts
  <2>3. PICK s \in Seq(Text) :
          /\ lremOne(l, found[r]) = [list EXCEPT ![l] = s]
          /\ \/ s = list[l] /\ ToSet(list[l]) \cap found[r] = {}
             \/ \E e \in ToSet(list[l]) \cap found[r] : Inserted(s, list[l], e)
    BY <2>2
  <2>4. /\ pc' = [pc EXCEPT ![r] = "answered"] /\ found' = [found EXCEPT ![r] = {}]
        /\ UNCHANGED <<request, answer, lapsed, removed>>
        /\ moved' = moved \union Ids(found[r] \cap ToSet(list[l]))
    BY <1>9, <2>2 DEF requeueListMessage, RequeueHistory
  <2>5. \A k \in ListName \ {"pending"} : list'[k] = IF k = l THEN s ELSE list[k]
    BY <1>9, <2>2, <2>3 DEF requeueListMessage, AdminTypeOK
  <2>6. ASSUME NEW t \in ToSet(list[l]) PROVE t \in ToSet(s) \/ t.id \in moved'
    <3>1. CASE s = list[l] BY <3>1
    <3>2. ASSUME NEW e \in ToSet(list[l]) \cap found[r], Inserted(s, list[l], e)
          PROVE  t \in ToSet(s) \/ t.id \in moved'
      <4>1. list[l] \in Seq(Text) BY DEF AdminTypeOK
      <4>2. e \in Text BY <4>1, InToSet
      <4>3. t \in ToSet(s) \/ t = e BY <2>6, <3>2, <4>1, <4>2, InsertedKeeps
      <4>4. e.id \in Ids(found[r] \cap ToSet(list[l])) BY DEF Ids
      <4> QED BY <2>4, <4>3, <4>4
    <3> QED BY <2>3, <3>1, <3>2
  <2>7. Tells(r)' BY <2>1, <2>4 DEF Tells
  <2>8. ASSUME NEW q \in Caller, q # r PROVE Tells(q)'
    <3>1. Tells(q) /\ pc'[q] = pc[q] /\ found'[q] = found[q]
      BY <2>4, <2>8 DEF Telling, AdminTypeOK
    <3>2. \A k \in ListName \ {"pending"} : \A t \in ToSet(list[k]) :
            t \in ToSet(list'[k]) \/ t.id \in moved'
      BY <2>5, <2>6
    <3>3. moved \subseteq moved' BY <2>4
    <3> QED BY <2>4, <3>1, <3>2, <3>3, TellsKept
  <2> QED BY <2>7, <2>8 DEF Telling
<1>10. ASSUME NEW l \in ListName, LockExpires(l) PROVE Telling'
  <2>1. /\ UNCHANGED <<request, pc, found, answer, moved, removed, list>>
        /\ lapsed \subseteq lapsed'
    BY <1>10 DEF LockExpires, redisVars
  <2>2. ASSUME NEW q \in Caller PROVE Tells(q)'
    <3>1. Tells(q) BY DEF Telling
    <3> QED BY <2>1, <3>1, TellsKept
  <2> QED BY <2>2 DEF Telling
<1>11. CASE UNCHANGED adminVars
  <2>1. CallsAlone /\ removed' = removed /\ list' = list
    BY <1>11 DEF adminVars, redisVars, callVars, historyVars
  <2> QED BY <2>1, TellingKept
<1> HIDE DEF ListName
<1>12. CASE AdminNext
  BY <1>1, <1>2, <1>3, <1>4, <1>5, <1>6, <1>7, <1>8, <1>9, <1>10, <1>12
  DEF AdminNext, CallStep
<1> QED BY <1>11, <1>12

-----------------------------------------------------------------------------
(***************************************************************************)
(* Nothing is lost.                                                        *)
(***************************************************************************)

\* m is stored.
InStore(m) ==
  \/ \E l \in ListName : m \in Ids(ToSet(list[l]))
  \/ m \in Ids(withPriority)
  \/ \E c \in Consumer : m \in Ids(ToSet(processing[c]))

\* Someone has removed m.
IsRemoved(m) == \E r \in Caller \union {NoOne} : <<r, m>> \in removed

\* The two ways to say that m is stored.
LEMMA StoredIsInStore == \A m : m \in Stored <=> InStore(m)
BY DEF Stored, InStore, InLists, InWork

\* The ids of a processing queue with one message, and without.
LEMMA WorkIds ==
  /\ \A e : Ids(ToSet(<<e>>)) = {e.id}
  /\ Ids(ToSet(<<>>)) = {}
<1>1. \A e : ToSet(<<e>>) = {e}
  <2> TAKE e
  <2>1. DOMAIN <<e>> = {1} /\ <<e>>[1] = e OBVIOUS
  <2> QED BY <2>1 DEF ToSet
<1>2. ToSet(<<>>) = {} BY DEF ToSet
<1> QED BY <1>1, <1>2 DEF Ids

\* What every step does with a message that is stored.
LEMMA StoredNext ==
  ASSUME AdminTypeOK, Requests, OneAtATime, Reading, [AdminNext]_adminVars,
         NEW m \in MessageId
  PROVE  /\ InStore(m) => InStore(m)' \/ IsRemoved(m)'
         /\ IsRemoved(m) => IsRemoved(m)'
         /\ m \in published' => m \in published \/ InStore(m)'
<1> DEFINE Goal == /\ InStore(m) => InStore(m)' \/ IsRemoved(m)'
                   /\ IsRemoved(m) => IsRemoved(m)'
                   /\ m \in published' => m \in published \/ InStore(m)'
<1>1. CASE UNCHANGED <<list, withPriority, processing, copied, removed, published>>
  BY <1>1 DEF InStore, IsRemoved
<1>2. ASSUME NEW e \in Text, ProduceStep(e) PROVE Goal
  <2>1. PICK s \in Seq(Text) : s = list["pending"] BY DEF AdminTypeOK, ListName
  <2>2. "pending" \in ListName BY DEF ListName
  <2>3. PICK t \in Seq(Text) : t = Append(s, e) /\ Inserted(s, t, e) BY PushInserted
  <2>4. Ids(ToSet(t)) = Ids(ToSet(s)) \union {e.id}
    <3>1. Inserted(s, t, e) BY <2>3
    <3> QED BY <3>1, InsertedKeeps
  <2>5. list' = [list EXCEPT !["pending"] = t] BY <1>2, <2>1, <2>3 DEF ProduceStep
  <2>6. \A l \in ListName : Ids(ToSet(list[l])) \subseteq Ids(ToSet(list'[l]))
    BY <2>1, <2>4, <2>5 DEF AdminTypeOK
  <2>7. e.id \in Ids(ToSet(list'["pending"])) BY <2>2, <2>4, <2>5 DEF AdminTypeOK
  <2> QED BY <1>2, <2>2, <2>6, <2>7 DEF ProduceStep, InStore, IsRemoved
<1>3. ASSUME NEW c \in Consumer, NEW e \in Text, FetchStep(c, e) PROVE Goal
  <2>1. "pending" \in ListName /\ list["pending"] \in Seq(Text) BY DEF AdminTypeOK, ListName
  <2>2. PICK s \in Seq(Text) : Inserted(s, list["pending"], e)
                               /\ list' = [list EXCEPT !["pending"] = s]
    BY <1>3 DEF FetchStep
  <2>3. Ids(ToSet(list["pending"])) = Ids(ToSet(s)) \union {e.id} BY <2>1, <2>2, InsertedKeeps
  <2>4. /\ processing[c] = <<>> /\ processing' = [processing EXCEPT ![c] = <<e>>]
        /\ UNCHANGED <<withPriority, copied, removed, published>>
    BY <1>3 DEF FetchStep
  <2>5. \A l \in ListName : \A n \in Ids(ToSet(list[l])) : n \in Ids(ToSet(list'[l])) \/ n = e.id
    BY <2>2, <2>3 DEF AdminTypeOK
  <2>6. Ids(ToSet(processing'[c])) = {e.id} BY <2>4, WorkIds DEF AdminTypeOK
  <2>7. \A d \in Consumer : Ids(ToSet(processing[d])) \subseteq Ids(ToSet(processing'[d]))
    BY <2>4, WorkIds DEF AdminTypeOK
  <2> QED BY <2>4, <2>5, <2>6, <2>7 DEF InStore, IsRemoved
<1>4. ASSUME NEW c \in Consumer, NEW l \in ListName, NEW e \in Text, NEW f \in Text,
             SettleStep(c, l, e, f)
      PROVE  Goal
  <2>1. list[l] \in Seq(Text) BY DEF AdminTypeOK
  <2>2. PICK s \in Seq(Text) : Inserted(list[l], s, f) /\ list' = [list EXCEPT ![l] = s]
    BY <1>4 DEF SettleStep
  <2>3. Ids(ToSet(s)) = Ids(ToSet(list[l])) \union {f.id} BY <2>1, <2>2, InsertedKeeps
  <2>4. /\ processing[c] = <<e>> /\ processing' = [processing EXCEPT ![c] = <<>>]
        /\ UNCHANGED <<withPriority, copied, removed, published>> /\ f.id = e.id
    BY <1>4 DEF SettleStep
  <2>5. \A k \in ListName : Ids(ToSet(list[k])) \subseteq Ids(ToSet(list'[k]))
    BY <2>2, <2>3 DEF AdminTypeOK
  <2>6. e.id \in Ids(ToSet(list'[l])) BY <2>2, <2>3, <2>4 DEF AdminTypeOK
  <2>7. \A d \in Consumer : \A n \in Ids(ToSet(processing[d])) :
          n \in Ids(ToSet(processing'[d])) \/ n = e.id
    BY <2>4, WorkIds DEF AdminTypeOK
  <2> QED BY <2>4, <2>5, <2>6, <2>7 DEF InStore, IsRemoved
<1>5. ASSUME NEW r \in Caller, deleteListMessageAtSequenceId(r) \/ requeueListMessage(r)
      PROVE  Goal
  <2>1. pc[r] = "read" BY <1>5 DEF deleteListMessageAtSequenceId, requeueListMessage
  <2>2. PICK l \in ListName : \E s \in Seq(Text) :
          /\ request[r] \in Request /\ request[r].list = l
          /\ lremOne(l, found[r]) = [list EXCEPT ![l] = s]
          /\ \/ s = list[l] /\ ToSet(list[l]) \cap found[r] = {}
             \/ \E e \in ToSet(list[l]) \cap found[r] : Inserted(s, list[l], e)
    BY <2>1, TakeFacts
  <2>3. PICK s \in Seq(Text) :
          /\ lremOne(l, found[r]) = [list EXCEPT ![l] = s]
          /\ \/ s = list[l] /\ ToSet(list[l]) \cap found[r] = {}
             \/ \E e \in ToSet(list[l]) \cap found[r] : Inserted(s, list[l], e)
    BY <2>2
  <2>4. \A n \in Ids(ToSet(list[l])) : \/ n \in Ids(ToSet(s))
                                       \/ n = request[r].id /\ \E e \in ToSet(list[l]) \cap found[r] : TRUE
    <3>1. CASE s = list[l] BY <3>1
    <3>2. ASSUME NEW e \in ToSet(list[l]) \cap found[r], Inserted(s, list[l], e)
          PROVE  \A n \in Ids(ToSet(list[l])) : n \in Ids(ToSet(s)) \/ n = request[r].id
      <4>1. list[l] \in Seq(Text) BY DEF AdminTypeOK
      <4>2. e \in Text BY <4>1, InToSet
      <4>3. e.id = request[r].id BY <2>1 DEF Reading
      <4> QED BY <3>2, <4>1, <4>2, <4>3, InsertedKeeps
    <3> QED BY <2>3, <3>1, <3>2
  <2>5. CASE deleteListMessageAtSequenceId(r)
    <3>1. /\ list' = [list EXCEPT ![l] = s] /\ removed' = removed \union TakenBy(r, l, found[r])
          /\ UNCHANGED <<withPriority, processing, published>>
      BY <2>2, <2>3, <2>5 DEF deleteListMessageAtSequenceId
    <3>2. ASSUME NEW n \in Ids(ToSet(list[l])), n \notin Ids(ToSet(s))
          PROVE  <<r, n>> \in removed'
      <4>1. PICK e \in ToSet(list[l]) \cap found[r] : n = request[r].id BY <2>4, <3>2
      <4>2. e.id = request[r].id BY <2>1 DEF Reading
      <4>3. <<r, e.id>> \in TakenBy(r, l, found[r]) BY DEF TakenBy
      <4> QED BY <3>1, <4>1, <4>2, <4>3
    <3>3. \A k \in ListName : \A n \in Ids(ToSet(list[k])) :
            n \in Ids(ToSet(list'[k])) \/ <<r, n>> \in removed'
      BY <3>1, <3>2 DEF AdminTypeOK
    <3> QED BY <3>1, <3>3 DEF InStore, IsRemoved
  <2>6. CASE requeueListMessage(r)
    <3>1. PICK x \in Stamp :
          IF request[r].withPriority
            THEN /\ list' = [list EXCEPT ![l] = s]
                 /\ withPriority' = {y \in withPriority : y.id # request[r].id}
                                      \union {[id |-> request[r].id, stamp |-> x]}
            ELSE /\ list' = [[list EXCEPT ![l] = s] EXCEPT !["pending"] =
                              Append(@, [id |-> request[r].id, stamp |-> x])]
                 /\ UNCHANGED withPriority
      BY <2>2, <2>3, <2>6 DEF requeueListMessage
    <3>2. [id |-> request[r].id, stamp |-> x] \in Text BY <2>2 DEF Text, Request
    <3>3. PICK a \in Text : a = [id |-> request[r].id, stamp |-> x] /\ a.id = request[r].id
      BY <3>2
    <3>4. UNCHANGED <<processing, removed, published>> BY <2>6 DEF requeueListMessage
    <3>5. CASE request[r].withPriority
      <4>1. \A k \in ListName : \A n \in Ids(ToSet(list[k])) :
              n \in Ids(ToSet(list'[k])) \/ n = request[r].id
        BY <2>4, <3>1, <3>5 DEF AdminTypeOK
      <4>2. withPriority' = {y \in withPriority : y.id # request[r].id} \union {a}
        BY <3>1, <3>3, <3>5
      <4>3. request[r].id \in Ids(withPriority') BY <3>3, <4>2 DEF Ids
      <4>4. Ids(withPriority) \subseteq Ids(withPriority') BY <3>3, <4>2 DEF Ids
      <4> QED BY <3>4, <4>1, <4>3, <4>4 DEF InStore, IsRemoved
    <3>6. CASE ~request[r].withPriority
      <4>1. PICK f \in [ListName -> Seq(Text)] : f = [list EXCEPT ![l] = s] BY DEF AdminTypeOK
      <4>2. "pending" \in ListName BY DEF ListName
      <4>3. PICK t \in Seq(Text) : t = Append(f["pending"], a) /\ Inserted(f["pending"], t, a)
        BY <4>2, PushInserted
      <4>4. list' = [f EXCEPT !["pending"] = t] /\ withPriority' = withPriority
        BY <3>1, <3>3, <3>6, <4>1, <4>3
      <4>5. Ids(ToSet(t)) = Ids(ToSet(f["pending"])) \union {a.id}
        <5>1. Inserted(f["pending"], t, a) /\ f["pending"] \in Seq(Text) BY <4>2, <4>3
        <5> QED BY <5>1, InsertedKeeps
      <4>6. \A k \in ListName : \A n \in Ids(ToSet(list[k])) :
              n \in Ids(ToSet(f[k])) \/ n = request[r].id
        BY <2>4, <4>1 DEF AdminTypeOK
      <4>7. \A k \in ListName : Ids(ToSet(f[k])) \subseteq Ids(ToSet(list'[k])) BY <4>4, <4>5
      <4>8. request[r].id \in Ids(ToSet(list'["pending"])) BY <3>3, <4>2, <4>4, <4>5
      <4> QED BY <3>4, <4>2, <4>4, <4>6, <4>7, <4>8 DEF InStore, IsRemoved
    <3> QED BY <3>5, <3>6
  <2> QED BY <1>5, <2>5, <2>6
<1>6. ASSUME NEW l \in ListName, purge(l) PROVE Goal
  <2>1. /\ list' = [list EXCEPT ![l] = <<>>] /\ UNCHANGED <<withPriority, processing, published>>
        /\ removed' = removed \union ({NoOne} \X Ids(ToSet(list[l])))
    BY <1>6 DEF purge
  <2>2. \A k \in ListName : \A n \in Ids(ToSet(list[k])) :
          n \in Ids(ToSet(list'[k])) \/ <<NoOne, n>> \in removed'
    BY <2>1 DEF AdminTypeOK
  <2> QED BY <2>1, <2>2 DEF InStore, IsRemoved
<1> HIDE DEF Goal
<1>8. UNCHANGED <<list, withPriority, processing, copied, removed, published>> => Goal
  BY <1>1 DEF Goal
<1>7. Goal BY <1>8, <1>2, <1>3, <1>4, <1>5, <1>6, ListCases
<1> QED BY <1>7 DEF Goal

\* Every step keeps what is published or says who removed it.
LEMMA LossNext ==
  ASSUME AdminTypeOK, Requests, OneAtATime, Reading, AdminNothingLost, AdminTypeOK',
         [AdminNext]_adminVars
  PROVE  AdminNothingLost'
<1>1. ASSUME NEW m \in published' PROVE InStore(m)' \/ IsRemoved(m)'
  <2>1. m \in MessageId BY DEF AdminTypeOK
  <2>2. m \in published => InStore(m) \/ IsRemoved(m)
    BY StoredIsInStore DEF AdminNothingLost, IsRemoved
  <2> QED BY <2>1, <2>2, StoredNext
<1>2. ASSUME NEW m, InStore(m)' PROVE m \in Stored'
  BY <1>2 DEF InStore, Stored, InLists, InWork
<1> QED BY <1>1, <1>2 DEF AdminNothingLost, IsRemoved

-----------------------------------------------------------------------------
(***************************************************************************)
(* What no requeue copied is in one place.                                 *)
(***************************************************************************)

\* m is in no list and no processing queue.
Nowhere(m) == /\ \A l \in ListName : ~Has(m, list[l])
              /\ \A c \in Consumer : ~Has(m, processing[c])

\* What is not there is there at most once.
LEMMA HasOnce == \A m, s : ~Has(m, s) => Once(m, s)
BY DEF Has, Once

\* A processing queue with one message, and without.
LEMMA WorkHas ==
  /\ \A m, e : Has(m, <<e>>) <=> m = e.id
  /\ \A m : ~Has(m, <<>>)
<1>1. \A e : Len(<<e>>) = 1 /\ <<e>>[1] = e OBVIOUS
<1>2. Len(<<>>) = 0 OBVIOUS
<1> QED BY <1>1, <1>2 DEF Has

\* A step that adds no copy of m.
LEMMA SingleLess ==
  ASSUME NEW m, Single(m), m \notin published => Nowhere(m), published \subseteq published',
         \A l \in ListName : /\ Has(m, list'[l]) => Has(m, list[l])
                             /\ Once(m, list[l]) => Once(m, list'[l]),
         \A c \in Consumer : Has(m, processing'[c]) => Has(m, processing[c])
  PROVE  Single(m)' /\ (m \notin published' => Nowhere(m)')
<1>1. Single(m)'
  <2>1. \A l \in ListName : Once(m, list'[l]) BY DEF Single
  <2>2. \A k, l \in ListName : Has(m, list'[k]) /\ Has(m, list'[l]) => k = l BY DEF Single
  <2>3. \A l \in ListName, c \in Consumer : ~(Has(m, list'[l]) /\ Has(m, processing'[c]))
    BY DEF Single
  <2>4. \A c, d \in Consumer : Has(m, processing'[c]) /\ Has(m, processing'[d]) => c = d
    BY DEF Single
  <2> QED BY <2>1, <2>2, <2>3, <2>4 DEF Single
<1>2. m \notin published' => Nowhere(m)' BY DEF Nowhere
<1> QED BY <1>1, <1>2

\* A step after which m is in the list l only.
LEMMA SingleInList ==
  ASSUME NEW m, NEW l \in ListName, Once(m, list'[l]), m \in published',
         \A k \in ListName : k # l => ~Has(m, list'[k]),
         \A c \in Consumer : ~Has(m, processing'[c])
  PROVE  Single(m)' /\ (m \notin published' => Nowhere(m)')
<1>1. \A k \in ListName : Once(m, list'[k]) BY HasOnce
<1> QED BY <1>1 DEF Single

\* Every step keeps the messages that were not copied in one place.
LEMMA ExactNext ==
  ASSUME AdminTypeOK, Requests, OneAtATime, Reading, Exact, AdminTypeOK',
         [AdminNext]_adminVars
  PROVE  Exact'
<1> SUFFICES ASSUME NEW m \in MessageId, m \notin copied'
             PROVE  Single(m)' /\ (m \notin published' => Nowhere(m)')
  BY DEF Exact, Nowhere
<1> DEFINE Goal == Single(m)' /\ (m \notin published' => Nowhere(m)')
<1>0. m \notin copied => Single(m) /\ (m \notin published => Nowhere(m)) BY DEF Exact, Nowhere
<1>1. ASSUME UNCHANGED <<list, withPriority, processing, copied, removed, published>>
      PROVE  Goal
  BY <1>0, <1>1, SingleLess
<1>2. ASSUME NEW e \in Text, ProduceStep(e) PROVE Goal
  <2>1. PICK s \in Seq(Text) : s = list["pending"] BY DEF AdminTypeOK, ListName
  <2>2. "pending" \in ListName BY DEF ListName
  <2>3. PICK t \in Seq(Text) : t = Append(s, e) /\ Inserted(s, t, e) BY PushInserted
  <2>4. Inserted(s, t, e) BY <2>3
  <2>5. /\ list' = [list EXCEPT !["pending"] = t] /\ e.id \notin published
        /\ published' = published \union {e.id} /\ UNCHANGED <<processing, copied>>
    BY <1>2, <2>1, <2>3 DEF ProduceStep
  <2>6. \A k \in ListName : list'[k] = IF k = "pending" THEN t ELSE list[k]
    BY <2>5 DEF AdminTypeOK
  <2>7. /\ \A n : n # e.id => (Has(n, t) <=> Has(n, s)) /\ (Once(n, t) <=> Once(n, s))
        /\ Once(e.id, t) <=> ~Has(e.id, s)
    BY <2>4, InsertedFacts
  <2>8. m \notin copied BY <2>5
  <2>9. CASE m = e.id
    <3>1. Nowhere(m) BY <1>0, <2>5, <2>8, <2>9
    <3>2. Once(m, list'["pending"]) BY <2>1, <2>2, <2>6, <2>7, <2>9, <3>1 DEF Nowhere
    <3>3. \A k \in ListName : k # "pending" => ~Has(m, list'[k]) BY <2>6, <3>1 DEF Nowhere
    <3>4. \A c \in Consumer : ~Has(m, processing'[c]) BY <2>5, <3>1 DEF Nowhere
    <3>5. m \in published' BY <2>5, <2>9
    <3> QED BY <2>2, <3>2, <3>3, <3>4, <3>5, SingleInList
  <2>10. CASE m # e.id
    <3>1. \A k \in ListName : /\ Has(m, list'[k]) => Has(m, list[k])
                              /\ Once(m, list[k]) => Once(m, list'[k])
      BY <2>1, <2>6, <2>7, <2>10
    <3>2. published \subseteq published' /\ processing' = processing BY <2>5
    <3> QED BY <1>0, <2>8, <3>1, <3>2, SingleLess
  <2> QED BY <2>9, <2>10
<1>3. ASSUME NEW c \in Consumer, NEW e \in Text, FetchStep(c, e) PROVE Goal
  <2>1. "pending" \in ListName /\ list["pending"] \in Seq(Text) BY DEF AdminTypeOK, ListName
  <2>2. PICK s \in Seq(Text) : Inserted(s, list["pending"], e)
                               /\ list' = [list EXCEPT !["pending"] = s]
    BY <1>3 DEF FetchStep
  <2>3. /\ processing[c] = <<>> /\ processing' = [processing EXCEPT ![c] = <<e>>]
        /\ UNCHANGED <<copied, published>>
    BY <1>3 DEF FetchStep
  <2>4. /\ Has(e.id, list["pending"])
        /\ \A n : n # e.id => (Has(n, list["pending"]) <=> Has(n, s))
                              /\ (Once(n, list["pending"]) <=> Once(n, s))
        /\ Once(e.id, list["pending"]) <=> ~Has(e.id, s)
    BY <2>1, <2>2, InsertedFacts
  <2>5. \A k \in ListName : list'[k] = IF k = "pending" THEN s ELSE list[k]
    BY <2>2 DEF AdminTypeOK
  <2>6. \A d \in Consumer : processing'[d] = IF d = c THEN <<e>> ELSE processing[d]
    BY <2>3 DEF AdminTypeOK
  <2>7. m \notin copied BY <2>3
  <2>8. CASE m = e.id
    <3>1. Single(m) /\ m \in published BY <1>0, <2>1, <2>4, <2>7, <2>8 DEF Nowhere
    <3>2. \A k \in ListName : ~Has(m, list'[k])
      BY <2>1, <2>4, <2>5, <2>8, <3>1 DEF Single
    <3>3. \A d \in Consumer : Has(m, processing'[d]) => d = c
      BY <2>1, <2>4, <2>6, <2>8, <3>1 DEF Single
    <3>4. Single(m)' BY <3>2, <3>3, HasOnce DEF Single
    <3> QED BY <2>3, <3>1, <3>4
  <2>9. CASE m # e.id
    <3>1. \A k \in ListName : /\ Has(m, list'[k]) => Has(m, list[k])
                              /\ Once(m, list[k]) => Once(m, list'[k])
      BY <2>4, <2>5, <2>9
    <3>2. \A d \in Consumer : Has(m, processing'[d]) => Has(m, processing[d])
      BY <2>6, <2>9, WorkHas
    <3> QED BY <1>0, <2>3, <2>7, <3>1, <3>2, SingleLess
  <2> QED BY <2>8, <2>9
<1>4. ASSUME NEW c \in Consumer, NEW l \in ListName, NEW e \in Text, NEW f \in Text,
             SettleStep(c, l, e, f)
      PROVE  Goal
  <2>1. list[l] \in Seq(Text) BY DEF AdminTypeOK
  <2>2. PICK s \in Seq(Text) : Inserted(list[l], s, f) /\ list' = [list EXCEPT ![l] = s]
    BY <1>4 DEF SettleStep
  <2>3. /\ processing[c] = <<e>> /\ processing' = [processing EXCEPT ![c] = <<>>]
        /\ UNCHANGED <<copied, published>> /\ f.id = e.id
    BY <1>4 DEF SettleStep
  <2>4. /\ \A n : n # f.id => (Has(n, s) <=> Has(n, list[l]))
                              /\ (Once(n, s) <=> Once(n, list[l]))
        /\ Once(f.id, s) <=> ~Has(f.id, list[l])
    BY <2>1, <2>2, InsertedFacts
  <2>5. \A k \in ListName : list'[k] = IF k = l THEN s ELSE list[k] BY <2>2 DEF AdminTypeOK
  <2>6. \A d \in Consumer : processing'[d] = IF d = c THEN <<>> ELSE processing[d]
    BY <2>3 DEF AdminTypeOK
  <2>7. m \notin copied BY <2>3
  <2>8. CASE m = f.id
    <3>1. Has(m, processing[c]) BY <2>3, <2>8, WorkHas
    <3>2. Single(m) /\ m \in published BY <1>0, <2>7, <3>1 DEF Nowhere
    <3>3. \A k \in ListName : ~Has(m, list[k]) BY <3>1, <3>2 DEF Single
    <3>4. Once(m, list'[l]) BY <2>4, <2>5, <2>8, <3>3
    <3>5. \A k \in ListName : k # l => ~Has(m, list'[k]) BY <2>5, <3>3
    <3>6. \A d \in Consumer : ~Has(m, processing'[d])
      BY <2>6, <3>1, <3>2, WorkHas DEF Single
    <3> QED BY <2>3, <3>2, <3>4, <3>5, <3>6, SingleInList
  <2>9. CASE m # f.id
    <3>1. \A k \in ListName : /\ Has(m, list'[k]) => Has(m, list[k])
                              /\ Once(m, list[k]) => Once(m, list'[k])
      BY <2>4, <2>5, <2>9
    <3>2. \A d \in Consumer : Has(m, processing'[d]) => Has(m, processing[d])
      BY <2>6, WorkHas
    <3> QED BY <1>0, <2>3, <2>7, <3>1, <3>2, SingleLess
  <2> QED BY <2>8, <2>9
<1>5. ASSUME NEW r \in Caller, deleteListMessageAtSequenceId(r) \/ requeueListMessage(r)
      PROVE  Goal
  <2>1. pc[r] = "read" BY <1>5 DEF deleteListMessageAtSequenceId, requeueListMessage
  <2>2. PICK l \in ListName : \E s \in Seq(Text) :
          /\ request[r] \in Request /\ request[r].list = l
          /\ lremOne(l, found[r]) = [list EXCEPT ![l] = s]
          /\ \/ s = list[l] /\ ToSet(list[l]) \cap found[r] = {}
             \/ \E e \in ToSet(list[l]) \cap found[r] : Inserted(s, list[l], e)
    BY <2>1, TakeFacts
  <2>3. PICK s \in Seq(Text) :
          /\ lremOne(l, found[r]) = [list EXCEPT ![l] = s]
          /\ \/ s = list[l] /\ ToSet(list[l]) \cap found[r] = {}
             \/ \E e \in ToSet(list[l]) \cap found[r] : Inserted(s, list[l], e)
    BY <2>2
  <2>4. /\ Has(m, s) => Has(m, list[l])
        /\ Once(m, list[l]) => Once(m, s)
        /\ m = request[r].id /\ ToSet(list[l]) \cap found[r] # {} /\ Once(m, list[l])
             => ~Has(m, s) /\ Has(m, list[l])
    <3>1. CASE s = list[l] /\ ToSet(list[l]) \cap found[r] = {} BY <3>1
    <3>2. ASSUME NEW e \in ToSet(list[l]) \cap found[r], Inserted(s, list[l], e)
          PROVE  <2>4!1 /\ <2>4!2 /\ <2>4!3
      <4>1. list[l] \in Seq(Text) BY DEF AdminTypeOK
      <4>2. e \in Text BY <4>1, InToSet
      <4>3. e.id = request[r].id BY <2>1 DEF Reading
      <4>4. /\ Has(e.id, list[l])
            /\ \A n : n # e.id => (Has(n, list[l]) <=> Has(n, s))
                                  /\ (Once(n, list[l]) <=> Once(n, s))
            /\ Once(e.id, list[l]) <=> ~Has(e.id, s)
        BY <3>2, <4>1, <4>2, InsertedFacts
      <4> QED BY <4>3, <4>4, HasOnce
    <3> QED BY <2>3, <3>1, <3>2
  <2>5. CASE deleteListMessageAtSequenceId(r)
    <3>1. list' = [list EXCEPT ![l] = s] /\ UNCHANGED <<processing, published, copied>>
      BY <2>2, <2>3, <2>5 DEF deleteListMessageAtSequenceId
    <3>2. \A k \in ListName : /\ Has(m, list'[k]) => Has(m, list[k])
                              /\ Once(m, list[k]) => Once(m, list'[k])
      BY <2>4, <3>1 DEF AdminTypeOK
    <3> QED BY <1>0, <3>1, <3>2, SingleLess
  <2>6. CASE requeueListMessage(r)
    <3>1. PICK x \in Stamp :
          \/ list' = [list EXCEPT ![l] = s]
          \/ list' = [[list EXCEPT ![l] = s] EXCEPT !["pending"] =
                        Append(@, [id |-> request[r].id, stamp |-> x])]
      BY <2>2, <2>3, <2>6 DEF requeueListMessage
    <3>2. [id |-> request[r].id, stamp |-> x] \in Text BY <2>2 DEF Text, Request
    <3>3. PICK a \in Text : a = [id |-> request[r].id, stamp |-> x] /\ a.id = request[r].id
      BY <3>2
    <3>4. /\ UNCHANGED <<processing, published>>
          /\ copied' = copied \union ({request[r].id} \ Ids(found[r] \cap ToSet(list[l])))
      BY <2>2, <2>6 DEF requeueListMessage, RequeueHistory
    <3>5. Single(m) /\ (m \notin published => Nowhere(m)) BY <1>0, <3>4
    <3>6. CASE list' = [list EXCEPT ![l] = s]
      <4>1. \A k \in ListName : /\ Has(m, list'[k]) => Has(m, list[k])
                                /\ Once(m, list[k]) => Once(m, list'[k])
        BY <2>4, <3>6 DEF AdminTypeOK
      <4> QED BY <3>4, <3>5, <4>1, SingleLess
    <3>7. CASE list' # [list EXCEPT ![l] = s]
      <4>1. PICK f \in [ListName -> Seq(Text)] : f = [list EXCEPT ![l] = s] BY DEF AdminTypeOK
      <4>2. "pending" \in ListName BY DEF ListName
      <4>3. PICK t \in Seq(Text) : t = Append(f["pending"], a) /\ Inserted(f["pending"], t, a)
        BY <4>2, PushInserted
      <4>4. list' = [f EXCEPT !["pending"] = t] BY <3>1, <3>3, <3>7, <4>1, <4>3
      <4>5. \A k \in ListName : list'[k] = IF k = "pending" THEN t ELSE f[k] BY <4>4
      <4>6. \A k \in ListName : f[k] = IF k = l THEN s ELSE list[k] BY <4>1 DEF AdminTypeOK
      <4>7. /\ \A n : n # a.id => (Has(n, t) <=> Has(n, f["pending"]))
                                  /\ (Once(n, t) <=> Once(n, f["pending"]))
            /\ Once(a.id, t) <=> ~Has(a.id, f["pending"])
        <5>1. Inserted(f["pending"], t, a) /\ f["pending"] \in Seq(Text) BY <4>2, <4>3
        <5> QED BY <5>1, InsertedFacts
      <4>8. CASE m # request[r].id
        <5>1. \A k \in ListName : /\ Has(m, f[k]) => Has(m, list[k])
                                  /\ Once(m, list[k]) => Once(m, f[k])
          BY <2>4, <4>6
        <5>2. \A k \in ListName : /\ Has(m, list'[k]) => Has(m, list[k])
                                  /\ Once(m, list[k]) => Once(m, list'[k])
          BY <3>3, <4>5, <4>7, <4>8, <5>1
        <5> QED BY <3>4, <3>5, <5>2, SingleLess
      <4>9. CASE m = request[r].id
        <5>1. m \in Ids(found[r] \cap ToSet(list[l])) BY <3>4, <4>9
        <5>2. ToSet(list[l]) \cap found[r] # {} BY <5>1 DEF Ids
        <5>3. Once(m, list[l]) BY <3>5 DEF Single
        <5>4. ~Has(m, s) /\ Has(m, list[l]) BY <2>4, <4>9, <5>2, <5>3
        <5>5. \A k \in ListName : ~Has(m, f[k]) BY <3>5, <4>6, <5>4 DEF Single
        <5>6. Once(m, list'["pending"]) BY <3>3, <4>2, <4>5, <4>7, <4>9, <5>5
        <5>7. \A k \in ListName : k # "pending" => ~Has(m, list'[k]) BY <4>5, <5>5
        <5>8. \A d \in Consumer : ~Has(m, processing'[d]) BY <3>4, <3>5, <5>4 DEF Single
        <5>9. m \in published' BY <3>4, <3>5, <5>4 DEF Nowhere
        <5> QED BY <4>2, <5>6, <5>7, <5>8, <5>9, SingleInList
      <4> QED BY <4>8, <4>9
    <3> QED BY <3>6, <3>7
  <2> QED BY <1>5, <2>5, <2>6
<1>6. ASSUME NEW l \in ListName, purge(l) PROVE Goal
  <2>1. list' = [list EXCEPT ![l] = <<>>] /\ UNCHANGED <<processing, published, copied>>
    BY <1>6 DEF purge
  <2>2. ~Has(m, <<>>) /\ Once(m, <<>>) BY WorkHas, HasOnce
  <2>3. \A k \in ListName : /\ Has(m, list'[k]) => Has(m, list[k])
                            /\ Once(m, list[k]) => Once(m, list'[k])
    BY <2>1, <2>2 DEF AdminTypeOK
  <2> QED BY <1>0, <2>1, <2>3, SingleLess
<1> HIDE DEF Goal
<1>7. Goal BY <1>1, <1>2, <1>3, <1>4, <1>5, <1>6, ListCases
<1> QED BY <1>7 DEF Goal

-----------------------------------------------------------------------------
(***************************************************************************)
(* The theorems.                                                           *)
(***************************************************************************)

\* Initially there are no messages, no calls and no locks.
LEMMA AdminInitInv == AdminInit => AdminInv
<1> SUFFICES ASSUME AdminInit PROVE AdminInv OBVIOUS
<1> USE DEF AdminInit
<1>1. <<>> \in Seq(Text) /\ Len(<<>>) = 0 OBVIOUS
<1>2. AdminTypeOK
  <2>1. 0 \in 0..MaxRequests BY AdminAssumption
  <2>2. "idle" \in Pc /\ "ok" \in Answer BY DEF Pc, Answer
  <2> QED BY <1>1, <2>1, <2>2 DEF AdminTypeOK
<1>3. Requests BY DEF Requests
<1>4. LockInCall /\ Locking /\ Reading BY DEF LockInCall, Locking, Reading, Deleting
<1>5. Telling BY DEF Telling, Tells
<1>6. OneAtATime BY <1>1 DEF OneAtATime
<1>7. AdminNothingLost BY DEF AdminNothingLost
<1>8. \A m : ~Has(m, <<>>) /\ Once(m, <<>>) BY WorkHas, HasOnce
<1>9. Exact BY <1>8 DEF Exact, Single
<1> QED BY <1>2, <1>3, <1>4, <1>5, <1>6, <1>7, <1>9 DEF AdminInv

\* Every step keeps the invariant.
LEMMA AdminInvNext == AdminInv /\ [AdminNext]_adminVars => AdminInv'
<1> SUFFICES ASSUME AdminInv, [AdminNext]_adminVars PROVE AdminInv' OBVIOUS
<1>1. /\ AdminTypeOK /\ Requests /\ OneAtATime /\ LockInCall /\ Locking /\ Reading
      /\ Telling /\ AdminNothingLost /\ Exact
  BY DEF AdminInv
<1>2. AdminTypeOK' /\ Requests' /\ OneAtATime' BY <1>1, AdminNextType
<1>3. LockInCall' /\ Locking' BY <1>1, LockNext
<1>4. Reading' BY <1>1, ReadNext
<1>5. Telling' BY <1>1, <1>2, TellingNext
<1>6. AdminNothingLost' BY <1>1, <1>2, LossNext
<1>7. Exact' BY <1>1, <1>2, ExactNext
<1> QED BY <1>2, <1>3, <1>4, <1>5, <1>6, <1>7 DEF AdminInv

\* The invariant holds in every reachable state.
THEOREM AdminInvHolds == AdminSpec => []AdminInv
BY AdminInitInv, AdminInvNext, PTL DEF AdminSpec

\* The variables have their types: lists stay lists of texts, whatever is
\* removed from them and put back.
THEOREM AdminTypeCorrect == AdminSpec => []AdminTypeOK
<1>1. AdminInv => AdminTypeOK BY DEF AdminInv
<1> QED BY <1>1, AdminInvHolds, PTL

\* A deletion leaves no lock behind: LockManager.lockFN releases it on every
\* path, and who holds one is in the call it was taken for, or died there.
THEOREM LocksAreInCalls == AdminSpec => []LockInCall
<1>1. AdminInv => LockInCall BY DEF AdminInv
<1> QED BY <1>1, AdminInvHolds, PTL

\* A published message is stored until it is deleted or purged, whatever the
\* positions, the locks and the callers do.
THEOREM AdminLosesNothing == AdminSpec => []AdminNothingLost
<1>1. AdminInv => AdminNothingLost BY DEF AdminInv
<1> QED BY <1>1, AdminInvHolds, PTL

\* Two consumers never have the same message, unless a requeue enqueued it
\* without finding it in its list.
THEOREM AdminOneConsumer == AdminSpec => []AdminDeliveredToOne
<1>1. AdminInv => AdminDeliveredToOne
  <2> SUFFICES ASSUME AdminInv, NEW c \in Consumer, NEW d \in Consumer, c # d,
                      NEW m \in InWork(c) \cap InWork(d), m \notin copied
               PROVE  FALSE
    BY DEF AdminDeliveredToOne
  <2>1. processing[c] \in Seq(Text) /\ processing[d] \in Seq(Text)
    BY DEF AdminInv, AdminTypeOK
  <2>2. m \in MessageId BY <2>1, InToSet DEF InWork
  <2>3. Has(m, processing[c]) /\ Has(m, processing[d])
    <3>1. PICK x \in ToSet(processing[c]) : x.id = m BY DEF InWork, Ids
    <3>2. PICK y \in ToSet(processing[d]) : y.id = m BY DEF InWork, Ids
    <3>3. \E i \in 1..Len(processing[c]) : processing[c][i] = x BY <2>1, <3>1, InToSet
    <3>4. \E i \in 1..Len(processing[d]) : processing[d][i] = y BY <2>1, <3>2, InToSet
    <3> QED BY <3>1, <3>2, <3>3, <3>4 DEF Has
  <2>4. Single(m) BY <2>2 DEF AdminInv, Exact
  <2> QED BY <2>3, <2>4 DEF Single
<1> QED BY <1>1, AdminInvHolds, PTL

\* Of several deletions of an acknowledged or dead-lettered message only the
\* one that removed it is told so, unless its lock expired or someone who takes
\* no lock was there first.
THEOREM TheDeleterIsTold == AdminSpec => []OnlyTheDeleterIsTold
<1>1. AdminInv => OnlyTheDeleterIsTold
  <2> SUFFICES ASSUME AdminInv, NEW r \in Caller,
                      pc[r] = "answered", answer[r] = "ok", request[r].op = "delete",
                      request[r].list \notin {"pending"} \union lapsed,
                      <<NoOne, request[r].id>> \notin removed, request[r].id \notin moved
               PROVE  <<r, request[r].id>> \in removed
    BY DEF OnlyTheDeleterIsTold
  <2>1. request[r] \in Request BY DEF AdminInv, AdminTypeOK
  <2>2. ~Excused(r) BY DEF Excused
  <2> QED BY <2>1, <2>2 DEF AdminInv, Telling, Tells
<1> QED BY <1>1, AdminInvHolds, PTL

\* The call that ends what a caller has read is its own.
LEMMA EndOfRead ==
  ASSUME AdminTypeOK, AdminNext, NEW r \in Caller, pc[r] = "read",
         pc'[r] \in {"releasing", "answered"}
  PROVE  deleteListMessageAtSequenceId(r) \/ requeueListMessage(r)
<1>1. pc'[r] # pc[r] OBVIOUS
<1>2. PICK q \in Caller : \/ CallStep(q) \/ Crash(q)
                          \/ \E op \in {"delete", "requeue"}, p \in BOOLEAN : Ask(q, op, p)
  <2>1. UNCHANGED <<lock, request, pc, found, answer, lapsed, moved, copied>> => pc' = pc OBVIOUS
  <2>2. \A l \in ListName : LockExpires(l) => pc' = pc BY DEF LockExpires
  <2> QED BY <1>1, <2>1, <2>2, CallCases
<1>3. \E v : pc' = [pc EXCEPT ![q] = v]
  <2>1. CASE lockFN(q) BY <2>1 DEF lockFN
  <2>2. CASE getListMessageAtSequenceId(q) BY <2>2 DEF getListMessageAtSequenceId
  <2>3. CASE deleteListMessageAtSequenceId(q) BY <2>3 DEF deleteListMessageAtSequenceId
  <2>4. CASE releaseLock(q) BY <2>4 DEF releaseLock
  <2>5. CASE requeueListMessage(q) BY <2>5 DEF requeueListMessage
  <2>6. CASE Crash(q) BY <2>6 DEF Crash
  <2>7. CASE \E op \in {"delete", "requeue"}, p \in BOOLEAN : Ask(q, op, p) BY <2>7 DEF Ask
  <2> QED BY <1>2, <2>1, <2>2, <2>3, <2>4, <2>5, <2>6, <2>7 DEF CallStep
<1>4. q = r BY <1>1, <1>3 DEF AdminTypeOK
<1>5. ~Crash(r) BY DEF Crash, AdminTypeOK
<1>6. ~lockFN(r) /\ ~getListMessageAtSequenceId(r) /\ ~releaseLock(r)
  BY DEF lockFN, getListMessageAtSequenceId, releaseLock
<1>7. \A op, p : ~Ask(r, op, p) BY DEF Ask
<1> QED BY <1>2, <1>4, <1>5, <1>6, <1>7 DEF CallStep

\* A call only ever takes the message it names out of a list, although it
\* removes in another command than the one it read the position in.
THEOREM OnlyTheNamedIsTaken == AdminSpec => OnlyTheNamedMessage
<1>1. ASSUME AdminInv, [AdminNext]_adminVars,
             NEW r \in Caller, NEW k \in ListName, pc[r] = "read",
             pc'[r] \in {"releasing", "answered"}
      PROVE  Ids(ToSet(list[k]) \ ToSet(list'[k])) \subseteq {request[r].id}
  <2>1. AdminTypeOK /\ Requests /\ Reading BY <1>1 DEF AdminInv
  <2>2. AdminNext BY <1>1 DEF adminVars, callVars
  <2>3. deleteListMessageAtSequenceId(r) \/ requeueListMessage(r)
    BY <1>1, <2>1, <2>2, EndOfRead
  <2>4. PICK l \in ListName : \E s \in Seq(Text) :
          /\ request[r] \in Request /\ request[r].list = l
          /\ lremOne(l, found[r]) = [list EXCEPT ![l] = s]
          /\ \/ s = list[l] /\ ToSet(list[l]) \cap found[r] = {}
             \/ \E e \in ToSet(list[l]) \cap found[r] : Inserted(s, list[l], e)
    BY <1>1, <2>1, TakeFacts
  <2>5. PICK s \in Seq(Text) :
          /\ lremOne(l, found[r]) = [list EXCEPT ![l] = s]
          /\ \/ s = list[l] /\ ToSet(list[l]) \cap found[r] = {}
             \/ \E e \in ToSet(list[l]) \cap found[r] : Inserted(s, list[l], e)
    BY <2>4
  <2>6. \A x \in ToSet(list[l]) : x \in ToSet(s) \/ x.id = request[r].id
    <3>1. CASE s = list[l] BY <3>1
    <3>2. ASSUME NEW e \in ToSet(list[l]) \cap found[r], Inserted(s, list[l], e)
          PROVE  \A x \in ToSet(list[l]) : x \in ToSet(s) \/ x.id = request[r].id
      <4>1. list[l] \in Seq(Text) BY <2>1 DEF AdminTypeOK
      <4>2. e \in Text BY <4>1, InToSet
      <4>3. e.id = request[r].id BY <1>1, <2>1 DEF Reading
      <4> QED BY <3>2, <4>1, <4>2, <4>3, InsertedKeeps
    <3> QED BY <2>5, <3>1, <3>2
  <2>7. PICK f \in [ListName -> Seq(Text)] : f = [list EXCEPT ![l] = s]
    BY <2>1 DEF AdminTypeOK
  <2>8. \A x \in ToSet(list[k]) : x \in ToSet(f[k]) \/ x.id = request[r].id
    BY <2>1, <2>6, <2>7 DEF AdminTypeOK
  <2>9. \A x \in ToSet(f[k]) : x \in ToSet(list'[k])
    <3>1. CASE list' = f BY <3>1
    <3>2. CASE list' # f
      <4>1. PICK x \in Stamp : list' = [f EXCEPT !["pending"] =
                                         Append(@, [id |-> request[r].id, stamp |-> x])]
        BY <2>3, <2>4, <2>5, <2>7, <3>2
        DEF deleteListMessageAtSequenceId, requeueListMessage
      <4>2. [id |-> request[r].id, stamp |-> x] \in Text BY <2>4 DEF Text, Request
      <4>3. PICK a \in Text : a = [id |-> request[r].id, stamp |-> x] BY <4>2
      <4>4. PICK t \in Seq(Text) : t = Append(f["pending"], a) /\ Inserted(f["pending"], t, a)
        BY PushInserted DEF ListName
      <4>5. list' = [f EXCEPT !["pending"] = t] BY <4>1, <4>3, <4>4
      <4>6. Inserted(f["pending"], t, a) /\ f["pending"] \in Seq(Text) BY <4>4 DEF ListName
      <4>7. ToSet(t) = ToSet(f["pending"]) \union {a} BY <4>6, InsertedKeeps
      <4> QED BY <4>5, <4>7
    <3> QED BY <3>1, <3>2
  <2> QED BY <2>8, <2>9 DEF Ids
<1>2. AdminInv /\ [AdminNext]_adminVars =>
        [\A r \in Caller : \A l \in ListName :
           pc[r] = "read" /\ pc'[r] \in {"releasing", "answered"}
             => Ids(ToSet(list[l]) \ ToSet(list'[l])) \subseteq {request[r].id}]_adminVars
  BY <1>1
<1> QED BY <1>2, AdminInvHolds, PTL DEF AdminSpec, OnlyTheNamedMessage
=============================================================================
