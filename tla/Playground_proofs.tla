-------------------------- MODULE Playground_proofs -------------------------
(***************************************************************************)
(* Theorems about Playground, for any number of requests, clicks and       *)
(* pending saves.  Conversations are copied: to localStorage, into pending *)
(* saves, into the closure of a dialog; the invariant therefore says of    *)
(* every copy what has to hold of the list on the screen, because any copy *)
(* may come back.                                                          *)
(***************************************************************************)
EXTENDS Playground, SequenceTheorems, FiniteSetTheorems, TLAPS

\* A conversation on its own: its requests have been sent, what is generating is
\* an answer and the last message, and foreign text is text of requests that
\* overlapped or whose answer is not there.
SoundList(list, used, over) ==
    /\ list \in Seq(Messages)
    /\ \A i \in 1 .. Len(list) :
          /\ list[i].own \in used \cup {0} /\ list[i].text \subseteq used \cup {0}
          /\ list[i].status \in Generating => list[i].own # 0
    /\ \A i \in 1 .. Len(list) - 1 : list[i].status \in Generating => list[i].own \in over
    /\ \A i \in 1 .. Len(list) : \A r \in list[i].text \ {0, list[i].own} :
          r \in over \/ \A j \in 1 .. Len(list) : list[j].own # r

\* The answers of the requests in open are last.
LastOnly(list, open) ==
    \A i \in 1 .. Len(list) : list[i].own \in open => i = Len(list)

\* Open requests that overlapped no other.
Free == {r \in Requests : IsOpen(r)} \ overlapped

\* The list whose saving is due last, or the one that is stored.
Target == IF saves = <<>> THEN saved ELSE <<saves[Len(saves)]>>

\* A streamed answer that is complete, and its place in a copy.
Streamed(m, sent) == m.status = "complete" /\ m.own # 0 /\ sent[m.own].kind = "sse"
                       /\ m.text \subseteq {0, m.own}
KeptIn(m, list) == \E j \in 1 .. Len(list) : list[j].key = m.key /\ list[j].status = "complete"

\* The types the proofs need.
Shapes ==
    /\ message \in Seq(Messages)
    /\ saves \in Seq(Seq(Messages))
    /\ saved \in Seq(Seq(Messages)) /\ Len(saved) <= 1
    /\ requests \in [Requests -> [kind : {"none", "sse", "fetch"}, open : BOOLEAN]]
    /\ sseSourceRef \in 0..MaxRequests /\ nextId \in Nat
    /\ overlapped \in SUBSET Requests
    /\ dialog.kind \in {"closed", "delete", "edit"}
    /\ dialog.kind = "edit" =>
          dialog.list \in Seq(Messages) /\ dialog.index \in 1 .. Len(dialog.list)

\* Requests are numbered in the order in which they are sent; before, they are closed.
Numbered ==
    /\ Used = 1 .. Cardinality(Used)
    /\ \A r \in Requests \ Used : ~IsOpen(r)

ListsInv ==
    /\ SoundList(message, Used, overlapped)
    /\ \A i \in 1 .. Len(saves) : SoundList(saves[i], Used, overlapped)
    /\ \A i \in 1 .. Len(saved) : SoundList(saved[i], Used, overlapped)
    /\ dialog.kind = "edit" => SoundList(dialog.list, Used, overlapped)

StreamsInv ==
    /\ \A q, r \in Requests : q # r /\ IsOpen(q) /\ IsOpen(r) => r \in overlapped
    /\ LastOnly(message, Free)
    /\ dialog.kind = "edit" => LastOnly(dialog.list, Free)

SavedInv ==
    (saves # <<>> \/ stored) /\ Target # <<>> =>
        \A i \in 1 .. Len(message) : Streamed(message[i], requests) => KeptIn(message[i], Target[1])

PInv == Shapes /\ Numbered /\ ListsInv /\ StreamsInv /\ SavedInv

-----------------------------------------------------------------------------
(* Lists.                                                                  *)

\* A list stays sound while requests are sent and overlap.
LEMMA ListGrows ==
  ASSUME NEW list, NEW used, NEW over, SoundList(list, used, over),
         NEW used2, NEW over2, used \subseteq used2, over \subseteq over2
  PROVE  SoundList(list, used2, over2)
  BY DEF SoundList

\* short is a part of list, in the same order.
Embeds(short, list) ==
    \E place \in [1 .. Len(short) -> 1 .. Len(list)] :
        /\ \A i \in 1 .. Len(short) : short[i] = list[place[i]]
        /\ \A i, j \in 1 .. Len(short) : i < j => place[i] < place[j]

\* A part of a sound list is sound.
LEMMA EmbeddedIsSound ==
  ASSUME NEW list, NEW used, NEW over, SoundList(list, used, over),
         NEW short \in Seq(Messages), Embeds(short, list)
  PROVE  SoundList(short, used, over)
<1>1. PICK place \in [1 .. Len(short) -> 1 .. Len(list)] :
        /\ \A i \in 1 .. Len(short) : short[i] = list[place[i]]
        /\ \A i, j \in 1 .. Len(short) : i < j => place[i] < place[j]
  BY DEF Embeds
<1>2. Len(short) \in Nat /\ Len(list) \in Nat
  BY DEF SoundList
<1>3. \A i \in 1 .. Len(short) :
        /\ short[i].own \in used \cup {0} /\ short[i].text \subseteq used \cup {0}
        /\ short[i].status \in Generating => short[i].own # 0
  BY <1>1 DEF SoundList
<1>4. ASSUME NEW i \in 1 .. Len(short) - 1, short[i].status \in Generating
      PROVE  short[i].own \in over
  <2>1. place[i] < place[i + 1] /\ place[i] \in 1 .. Len(list) /\ place[i + 1] \in 1 .. Len(list)
    BY <1>1, <1>2
  <2>2. place[i] \in 1 .. Len(list) - 1
    BY <1>2, <2>1
  <2> QED BY <1>1, <1>2, <1>4, <2>2 DEF SoundList
<1>5. ASSUME NEW i \in 1 .. Len(short), NEW r \in short[i].text \ {0, short[i].own}, r \notin over,
             NEW j \in 1 .. Len(short)
      PROVE  short[j].own # r
  BY <1>1, <1>5, SMTT(30) DEF SoundList
<1> QED
  BY <1>3, <1>4, <1>5 DEF SoundList

\* Its last answers are last.
LEMMA EmbeddedIsLast ==
  ASSUME NEW list \in Seq(Messages), NEW short \in Seq(Messages), Embeds(short, list),
         NEW open, LastOnly(list, open)
  PROVE  LastOnly(short, open)
<1>1. PICK place \in [1 .. Len(short) -> 1 .. Len(list)] :
        /\ \A i \in 1 .. Len(short) : short[i] = list[place[i]]
        /\ \A i, j \in 1 .. Len(short) : i < j => place[i] < place[j]
  BY DEF Embeds
<1>2. Len(short) \in Nat /\ Len(list) \in Nat
  OBVIOUS
<1>3. ASSUME NEW i \in 1 .. Len(short), short[i].own \in open, i # Len(short)
      PROVE  FALSE
  <2>1. place[i] = Len(list)
    BY <1>1, <1>3 DEF LastOnly
  <2>2. i + 1 \in 1 .. Len(short)
    BY <1>2, <1>3
  <2>3. place[i] < place[i + 1] /\ place[i + 1] \in 1 .. Len(list)
    BY <1>1, <1>2, <2>2, SMTT(30)
  <2> QED BY <1>2, <2>1, <2>3
<1> QED
  BY <1>3 DEF LastOnly

\* The first messages of a list.
LEMMA PrefixEmbeds ==
  ASSUME NEW list \in Seq(Messages), NEW n \in 0 .. Len(list)
  PROVE  SubSeq(list, 1, n) \in Seq(Messages) /\ Embeds(SubSeq(list, 1, n), list)
<1> DEFINE short == SubSeq(list, 1, n)
<1>1. /\ short \in Seq(Messages) /\ Len(short) = n
      /\ \A i \in 1..n : short[i] = list[i]
  BY SubSeqProperties
<1>2. Embeds(short, list)
  <2> DEFINE place == [i \in 1 .. Len(short) |-> i]
  <2>1. place \in [1 .. Len(short) -> 1 .. Len(list)]
    BY <1>1
  <2>2. \A i \in 1 .. Len(short) : short[i] = list[place[i]]
    BY <1>1
  <2>3. \A i, j \in 1 .. Len(short) : i < j => place[i] < place[j]
    OBVIOUS
  <2> HIDE DEF place, short
  <2> QED BY <2>1, <2>2, <2>3 DEF Embeds
<1> QED
  BY <1>1, <1>2

\* Places are ranked from 1 on, each rank is given once, and ranks follow places.
LEMMA Ranks ==
  ASSUME NEW n \in Nat, NEW kept \in SUBSET (1..n)
  PROVE  /\ Cardinality(kept) \in Nat
         /\ \A k \in kept : RankIn(k, kept) \in 1 .. Cardinality(kept)
         /\ \A j, k \in kept : j < k <=> RankIn(j, kept) < RankIn(k, kept)
         /\ \A i \in 1 .. Cardinality(kept) : \E k \in kept : RankIn(k, kept) = i
<1> DEFINE upto(k) == {j \in kept : j <= k}
<1>1. IsFiniteSet(kept) /\ Cardinality(kept) \in Nat
  <2>1. IsFiniteSet(1..n) BY FS_Interval
  <2> QED BY <2>1, FS_Subset, FS_CardinalityType
<1>2. \A k \in kept : IsFiniteSet(upto(k)) /\ Cardinality(upto(k)) \in Nat
                       /\ Cardinality(upto(k)) <= Cardinality(kept)
  <2> TAKE k \in kept
  <2>1. upto(k) \subseteq kept
    OBVIOUS
  <2> HIDE DEF upto
  <2> QED BY <1>1, <2>1, FS_Subset, FS_CardinalityType
<1>3. \A k \in kept : Cardinality(upto(k)) # 0
  <2> TAKE k \in kept
  <2>1. k \in upto(k)
    OBVIOUS
  <2> HIDE DEF upto
  <2> QED BY <1>2, <2>1, FS_EmptySet
<1>4. ASSUME NEW j \in kept, NEW k \in kept, j < k
      PROVE  Cardinality(upto(j)) < Cardinality(upto(k))
  <2>0. \A x \in kept : x \in Int
    OBVIOUS
  <2>1. upto(j) \subseteq upto(k) /\ k \in upto(k) /\ k \notin upto(j)
    <3>1. \A x \in kept : x <= j => x <= k BY <1>4, <2>0
    <3>2. k <= k /\ ~(k <= j) BY <1>4, <2>0
    <3> QED BY <3>1, <3>2, Zenon
  <2>2. IsFiniteSet(upto(k)) /\ Cardinality(upto(k)) \in Nat /\ Cardinality(upto(j)) \in Nat
    BY <1>2
  <2> HIDE DEF upto
  <2>3. upto(j) # upto(k)
    BY <2>1
  <2>4. /\ Cardinality(upto(j)) <= Cardinality(upto(k))
        /\ Cardinality(upto(j)) = Cardinality(upto(k)) => upto(j) = upto(k)
    BY <2>1, <2>2, FS_Subset
  <2> QED BY <2>2, <2>3, <2>4
<1>5. \A k \in kept : RankIn(k, kept) = Cardinality(upto(k))
  BY DEF RankIn
<1> HIDE DEF upto
<1>6. \A k \in kept : RankIn(k, kept) \in 1 .. Cardinality(kept)
  BY <1>1, <1>2, <1>3, <1>5
<1>7. ASSUME NEW j \in kept, NEW k \in kept
      PROVE  j < k <=> RankIn(j, kept) < RankIn(k, kept)
  <2>1. j < k => RankIn(j, kept) < RankIn(k, kept)
    BY <1>4, <1>5
  <2>2. k < j => RankIn(k, kept) < RankIn(j, kept)
    BY <1>4, <1>5
  <2>3. j = k => RankIn(j, kept) = RankIn(k, kept)
    OBVIOUS
  <2>4. j \in Int /\ k \in Int /\ RankIn(j, kept) \in Int /\ RankIn(k, kept) \in Int
    BY <1>6
  <2> QED BY <2>1, <2>2, <2>3, <2>4
<1>8. \A i \in 1 .. Cardinality(kept) : \E k \in kept : RankIn(k, kept) = i
  <2> DEFINE N == 1 .. Cardinality(kept)
             rank == [k \in kept |-> RankIn(k, kept)]
  <2>1. rank \in [kept -> N]
    BY <1>6
  <2>2. \A j, k \in kept : rank[j] = rank[k] => j = k
    <3> TAKE j, k \in kept
    <3>1. j \in Int /\ k \in Int
      OBVIOUS
    <3>2. rank[j] = RankIn(j, kept) /\ rank[k] = RankIn(k, kept)
      OBVIOUS
    <3>3. RankIn(j, kept) \in Int /\ RankIn(k, kept) \in Int
      BY <1>6
    <3> QED BY <1>7, <3>1, <3>2, <3>3
  <2>3. IsFiniteSet(N) /\ Cardinality(N) = Cardinality(kept)
    <3>1. Cardinality(N) = IF 1 > Cardinality(kept) THEN 0 ELSE Cardinality(kept) - 1 + 1
      BY <1>1, FS_Interval
    <3>2. IsFiniteSet(N)
      BY <1>1, FS_Interval
    <3> QED BY <1>1, <3>1, <3>2
  <2> HIDE DEF N, rank
  <2>4. rank \in Injection(kept, N)
    BY <2>1, <2>2 DEF Injection, IsInjective
  <2>5. rank \in Surjection(kept, N)
    BY <1>1, <2>3, <2>4, FS_Injection
  <2>6. \A i \in N : \E k \in kept : rank[k] = i
    BY <2>5 DEF Surjection
  <2> QED BY <2>6 DEF N, rank
<1> QED
  BY <1>1, <1>6, <1>7, <1>8

\* What is left of a list after a deletion, in the same order.
LEMMA WithoutEmbeds ==
  ASSUME NEW list \in Seq(Messages), NEW gone
  PROVE  Without(list, gone) \in Seq(Messages) /\ Embeds(Without(list, gone), list)
<1> DEFINE n == Len(list)
           kept == DOMAIN list \ gone
           size == Cardinality(kept)
           at(i) == CHOOSE k \in kept : RankIn(k, kept) = i
           short == Without(list, gone)
<1>1. n \in Nat /\ DOMAIN list = 1..n /\ \A k \in 1..n : list[k] \in Messages
  OBVIOUS
<1>2. kept \in SUBSET (1..n)
  BY <1>1
<1>3. short = [i \in 1..size |-> list[at(i)]]
  BY DEF Without
<1> HIDE DEF n, kept, short
<1>4. size \in Nat /\ \A i \in 1..size : at(i) \in kept /\ RankIn(at(i), kept) = i
  BY <1>1, <1>2, Ranks
<1>5. ASSUME NEW i \in 1..size, NEW j \in 1..size, i < j PROVE at(i) < at(j)
  <2> DEFINE a == at(i)
             b == at(j)
  <2>1. a \in kept /\ b \in kept /\ RankIn(a, kept) < RankIn(b, kept)
    BY <1>4, <1>5
  <2> HIDE DEF a, b
  <2>2. a < b
    BY <1>1, <1>2, <2>1, Ranks
  <2> QED BY <2>2 DEF a, b
<1>6. \A i \in 1..size : at(i) \in 1..n
  BY <1>2, <1>4
<1> DEFINE place == [i \in 1..size |-> at(i)]
<1>7. /\ place \in [1..size -> 1..n]
      /\ \A i \in 1..size : short[i] = list[place[i]]
      /\ \A i, j \in 1..size : i < j => place[i] < place[j]
  BY <1>3, <1>5, <1>6
<1>8. short \in Seq(Messages) /\ Len(short) = size
  <2>1. \A i \in 1..size : list[at(i)] \in Messages
    BY <1>1, <1>6
  <2> HIDE DEF at, size
  <2> QED BY <1>3, <1>4, <2>1
<1> HIDE DEF place, size, at
<1> QED
  BY <1>7, <1>8 DEF Embeds, n, short

\* m may take the place of message i: the same answer, no new generation, and new
\* text only of requests that overlapped or have no answer in the list.
Fits(list, i, m, used, over) ==
    /\ m \in Messages /\ m.own = list[i].own
    /\ m.status \in Generating => list[i].status \in Generating
    /\ \A r \in m.text :
          \/ r \in list[i].text \cup {0, m.own}
          \/ r \in used /\ (r \in over \/ \A j \in 1 .. Len(list) : list[j].own # r)

\* Changing messages in place keeps a list sound and its last answers last.
LEMMA RewrittenIsSound ==
  ASSUME NEW list, NEW used, NEW over, SoundList(list, used, over),
         NEW new \in Seq(Messages), Len(new) = Len(list),
         \A i \in 1 .. Len(list) : Fits(list, i, new[i], used, over)
  PROVE  /\ SoundList(new, used, over)
         /\ \A open : LastOnly(list, open) => LastOnly(new, open)
<1>1. Len(list) \in Nat
  BY DEF SoundList
<1>2. \A j \in 1 .. Len(list) : new[j].own = list[j].own
  BY DEF Fits
<1>3. ASSUME NEW j \in 1 .. Len(list)
      PROVE  /\ new[j].own \in used \cup {0} /\ new[j].text \subseteq used \cup {0}
             /\ new[j].status \in Generating => new[j].own # 0
  BY DEF SoundList, Fits
<1>4. ASSUME NEW j \in 1 .. Len(list) - 1, new[j].status \in Generating
      PROVE  new[j].own \in over
  <2>1. j \in 1 .. Len(list) BY <1>1
  <2>2. list[j].status \in Generating BY <1>4, <2>1 DEF Fits
  <2> QED BY <1>2, <2>1, <2>2 DEF SoundList
<1>5. ASSUME NEW j \in 1 .. Len(list), NEW r \in new[j].text \ {0, new[j].own}
      PROVE  r \in over \/ \A k \in 1 .. Len(list) : new[k].own # r
  BY <1>2, <1>5 DEF SoundList, Fits
<1>6. SoundList(new, used, over)
  BY <1>3, <1>4, <1>5 DEF SoundList
<1>7. ASSUME NEW open, LastOnly(list, open) PROVE LastOnly(new, open)
  BY <1>2, <1>7 DEF LastOnly
<1> QED
  BY <1>6, <1>7

\* A message fits in its own place.
LEMMA ItselfFits ==
  ASSUME NEW list, NEW used, NEW over, SoundList(list, used, over), NEW i \in 1 .. Len(list)
  PROVE  Fits(list, i, list[i], used, over)
<1>1. list[i] \in Messages
  BY DEF SoundList
<1> QED
  BY <1>1 DEF Fits

\* One message is changed.
LEMMA UpdatedIsSound ==
  ASSUME NEW list, NEW used, NEW over, SoundList(list, used, over),
         NEW i \in 1 .. Len(list), NEW m, Fits(list, i, m, used, over)
  PROVE  /\ SoundList([list EXCEPT ![i] = m], used, over)
         /\ Len([list EXCEPT ![i] = m]) = Len(list)
         /\ \A open : LastOnly(list, open) => LastOnly([list EXCEPT ![i] = m], open)
<1> DEFINE new == [list EXCEPT ![i] = m]
<1>1. list \in Seq(Messages) /\ Len(list) \in Nat /\ m \in Messages
  BY DEF SoundList, Fits
<1>2. /\ new \in Seq(Messages) /\ Len(new) = Len(list)
      /\ new[i] = m /\ \A j \in 1 .. Len(list) : j # i => new[j] = list[j]
  BY <1>1
<1> HIDE DEF new
<1>3. \A j \in 1 .. Len(list) : Fits(list, j, new[j], used, over)
  BY <1>2, ItselfFits
<1>4. /\ SoundList(new, used, over)
      /\ \A open : LastOnly(list, open) => LastOnly(new, open)
  BY <1>2, <1>3, RewrittenIsSound
<1> QED
  BY <1>2, <1>4 DEF new

\* A new message at the end: the one before it is not generating or overlaps, and
\* no text of its request is there.
LEMMA AppendedIsSound ==
  ASSUME NEW list, NEW used, NEW over, SoundList(list, used, over),
         NEW m \in Messages, m.own \in used \cup {0}, m.text \subseteq {0, m.own},
         m.status \in Generating => m.own # 0,
         list # <<>> /\ list[Len(list)].status \in Generating => list[Len(list)].own \in over,
         \A i \in 1 .. Len(list) : m.own # 0 => m.own \notin list[i].text
  PROVE  SoundList(Append(list, m), used, over)
<1> DEFINE new == Append(list, m)
<1>1. list \in Seq(Messages) /\ Len(list) \in Nat /\ (list = <<>> <=> Len(list) = 0)
  BY EmptySeq DEF SoundList
<1>2. /\ new \in Seq(Messages) /\ Len(new) = Len(list) + 1
      /\ \A i \in 1 .. Len(list) : new[i] = list[i]
      /\ new[Len(list) + 1] = m
  BY <1>1, AppendProperties
<1> HIDE DEF new
<1>3. \A i \in 1 .. Len(new) : i \in 1 .. Len(list) \/ i = Len(list) + 1
  BY <1>1, <1>2
<1>4. ASSUME NEW i \in 1 .. Len(new)
      PROVE  /\ new[i].own \in used \cup {0} /\ new[i].text \subseteq used \cup {0}
             /\ new[i].status \in Generating => new[i].own # 0
  BY <1>2, <1>3 DEF SoundList
<1>5. ASSUME NEW i \in 1 .. Len(new) - 1, new[i].status \in Generating
      PROVE  new[i].own \in over
  <2>1. i \in 1 .. Len(list) /\ new[i] = list[i]
    BY <1>1, <1>2
  <2>2. CASE i = Len(list)
    BY <1>1, <1>5, <2>1, <2>2
  <2>3. CASE i # Len(list)
    <3>1. i \in 1 .. Len(list) - 1 BY <1>1, <2>1, <2>3
    <3> QED BY <1>5, <2>1, <3>1 DEF SoundList
  <2> QED BY <2>2, <2>3
<1>6. ASSUME NEW i \in 1 .. Len(new), NEW r \in new[i].text \ {0, new[i].own}, r \notin over,
             NEW j \in 1 .. Len(new)
      PROVE  new[j].own # r
  <2>1. i \in 1 .. Len(list)
    BY <1>2, <1>3, <1>6
  <2>2. CASE j \in 1 .. Len(list)
    BY <1>2, <1>6, <2>1, <2>2 DEF SoundList
  <2>3. CASE j = Len(list) + 1
    BY <1>2, <1>6, <2>1, <2>3
  <2> QED BY <1>3, <2>2, <2>3
<1> QED
  BY <1>2, <1>4, <1>5, <1>6 DEF SoundList, new

\* The message before the appended ones is the only one that can be generating,
\* and only the appended one is an answer of its request.
LEMMA AppendedIsLast ==
  ASSUME NEW list \in Seq(Messages), NEW m \in Messages, NEW open,
         \A i \in 1 .. Len(list) : list[i].own \notin open
  PROVE  LastOnly(Append(list, m), open)
<1>1. /\ Len(Append(list, m)) = Len(list) + 1 /\ Len(list) \in Nat
      /\ \A i \in 1 .. Len(list) : Append(list, m)[i] = list[i]
  BY AppendProperties
<1> QED
  BY <1>1 DEF LastOnly

\* The messages of a request are of the type of messages.
LEMMA NewMessages ==
  ASSUME NEW r \in 0..MaxRequests, NEW id \in Nat
  PROVE  /\ UserMessage(r, id) \in Messages
         /\ LoadingMessage(r, id) \in Messages
  BY PlaygroundConstants DEF UserMessage, LoadingMessage, Messages, Generating, Finished

\* The default messages belong to no request.
LEMMA DefaultIsSound ==
  /\ \A used, over : SoundList(DefaultMessages, used, over)
  /\ \A open : 0 \notin open => LastOnly(DefaultMessages, open)
  /\ DefaultMessages \in Seq(Messages) /\ Len(DefaultMessages) = 2
  /\ \A i \in 1..2 : DefaultMessages[i].own = 0
<1> DEFINE a == UserMessage(0, 2)
           b == [LoadingMessage(0, 3) EXCEPT !.status = "none", !.text = {0}]
<1>1. a \in Messages /\ a.own = 0 /\ a.text = {0} /\ a.status = "none"
  <2>1. 0 \in 0..MaxRequests BY PlaygroundConstants
  <2> QED BY <2>1, NewMessages DEF UserMessage
<1>2. b \in Messages /\ b.own = 0 /\ b.text = {0} /\ b.status = "none"
  <2> DEFINE loading == LoadingMessage(0, 3)
  <2>1. loading \in Messages /\ loading.own = 0
    <3>1. 0 \in 0..MaxRequests BY PlaygroundConstants
    <3> QED BY <3>1, NewMessages DEF LoadingMessage
  <2>2. {0} \in SUBSET (0..MaxRequests)
    BY PlaygroundConstants
  <2> HIDE DEF loading
  <2>3. /\ [loading EXCEPT !.status = "none", !.text = {0}] \in Messages
        /\ [loading EXCEPT !.status = "none", !.text = {0}].own = 0
        /\ [loading EXCEPT !.status = "none", !.text = {0}].text = {0}
        /\ [loading EXCEPT !.status = "none", !.text = {0}].status = "none"
    BY <2>1, <2>2 DEF Messages
  <2> QED BY <2>3 DEF loading
<1>3. DefaultMessages = <<a, b>>
  BY DEF DefaultMessages
<1> HIDE DEF a, b
<1>4. /\ DefaultMessages \in Seq(Messages) /\ Len(DefaultMessages) = 2
      /\ DefaultMessages[1] = a /\ DefaultMessages[2] = b
  BY <1>1, <1>2, <1>3
<1>5. \A i \in 1..2 : /\ DefaultMessages[i].own = 0 /\ DefaultMessages[i].text = {0}
                      /\ DefaultMessages[i].status = "none"
  BY <1>1, <1>2, <1>4
<1> QED
  BY <1>4, <1>5 DEF SoundList, LastOnly, Generating

-----------------------------------------------------------------------------
(* Steps that send nothing.                                                *)

\* No request is sent; one or all may be closed.
Calm ==
    /\ requests' \in [Requests -> [kind : {"none", "sse", "fetch"}, open : BOOLEAN]]
    /\ \A r \in Requests : /\ requests'[r].kind = requests[r].kind
                           /\ requests'[r].open => requests[r].open
    /\ overlapped' = overlapped /\ sseSourceRef' \in 0..MaxRequests /\ nextId' \in Nat

\* A dialog that opens holds a conversation like the one on the screen.
DialogKept ==
    \/ dialog' = dialog
    \/ dialog'.kind \in {"closed", "delete"}
    \/ /\ dialog'.kind = "edit" /\ dialog'.index \in 1 .. Len(dialog'.list)
       /\ SoundList(dialog'.list, Used, overlapped) /\ LastOnly(dialog'.list, Free)

\* The new list is saved, or what is complete in it was complete before.
Pushed == saves' = Append(saves, message') /\ saved' = saved
NoNews ==
    /\ saves' = saves /\ (saved' = saved \/ saved' = <<>>) /\ stored' = stored
    /\ \A i \in 1 .. Len(message') :
          Streamed(message'[i], requests') => \E k \in 1 .. Len(message) : message[k] = message'[i]

\* Requests that are not sent stay unused, and no open request appears.
LEMMA CalmFacts ==
  ASSUME Shapes, Calm
  PROVE  Used' = Used /\ Free' \subseteq Free /\ (Numbered => Numbered')
<1>1. Used' = Used
  BY DEF Calm, Used
<1>2. \A r \in Requests : IsOpen(r)' => IsOpen(r)
  BY DEF Calm, IsOpen
<1>3. Free' \subseteq Free
  BY <1>2 DEF Free, Calm
<1>4. Numbered => Numbered'
  BY <1>1, <1>2 DEF Numbered
<1> QED
  BY <1>1, <1>3, <1>4

\* Appending to the pending saves.
LEMMA PushFacts ==
  ASSUME NEW list, list \in Seq(Messages), saves \in Seq(Seq(Messages)),
         saves' = Append(saves, list)
  PROVE  /\ saves' \in Seq(Seq(Messages)) /\ saves' # <<>>
         /\ Len(saves') = Len(saves) + 1 /\ saves'[Len(saves')] = list
         /\ \A i \in 1 .. Len(saves') : saves'[i] = list \/ \E k \in 1 .. Len(saves) : saves'[i] = saves[k]
         /\ Target' = <<list>>
<1>1. /\ saves' \in Seq(Seq(Messages)) /\ Len(saves') = Len(saves) + 1
      /\ \A i \in 1 .. Len(saves) : saves'[i] = saves[i]
      /\ saves'[Len(saves) + 1] = list /\ Len(saves) \in Nat
  BY AppendProperties
<1>2. saves' # <<>>
  BY <1>1
<1>3. \A i \in 1 .. Len(saves') : saves'[i] = list \/ \E k \in 1 .. Len(saves) : saves'[i] = saves[k]
  BY <1>1
<1> QED
  BY <1>1, <1>2, <1>3 DEF Target

\* A list keeps what is complete in itself.
LEMMA SavedAsItIs ==
  ASSUME Target' # <<>> => Target'[1] = message'
  PROVE  SavedInv'
  BY DEF SavedInv, KeptIn, Streamed

\* A calm step keeps the invariant.
LEMMA CalmStep ==
  ASSUME PInv, Calm, DialogKept, Pushed \/ NoNews,
         SoundList(message', Used, overlapped), LastOnly(message', Free)
  PROVE  PInv'
<1>1. Shapes /\ Numbered /\ ListsInv /\ StreamsInv /\ SavedInv
  BY DEF PInv
<1>2. Used' = Used /\ Free' \subseteq Free /\ Numbered' /\ overlapped' = overlapped
  BY <1>1, CalmFacts DEF Calm
<1>3. message' \in Seq(Messages)
  BY DEF SoundList
<1>4. /\ saves' \in Seq(Seq(Messages))
      /\ \A i \in 1 .. Len(saves') : SoundList(saves'[i], Used, overlapped)
  <2>1. CASE Pushed
    BY <1>1, <1>3, <2>1, PushFacts DEF Pushed, Shapes, ListsInv
  <2>2. CASE NoNews
    BY <1>1, <2>2 DEF NoNews, Shapes, ListsInv
  <2> QED BY <2>1, <2>2
<1>5. /\ saved' \in Seq(Seq(Messages)) /\ Len(saved') <= 1
      /\ \A i \in 1 .. Len(saved') : SoundList(saved'[i], Used, overlapped)
  <2>1. CASE saved' = saved
    BY <1>1, <2>1 DEF Shapes, ListsInv
  <2>2. CASE saved' = <<>>
    BY <2>2, EmptySeq
  <2> QED BY <2>1, <2>2 DEF Pushed, NoNews
<1>6. /\ dialog'.kind \in {"closed", "delete", "edit"}
      /\ dialog'.kind = "edit" =>
            /\ dialog'.index \in 1 .. Len(dialog'.list)
            /\ SoundList(dialog'.list, Used, overlapped) /\ LastOnly(dialog'.list, Free)
  BY <1>1 DEF DialogKept, Shapes, ListsInv, StreamsInv
<1>7. Shapes'
  BY <1>1, <1>3, <1>4, <1>5, <1>6 DEF Shapes, Calm, SoundList
<1>8. ListsInv'
  BY <1>2, <1>4, <1>5, <1>6 DEF ListsInv
<1>9. StreamsInv'
  <2>1. \A q, r \in Requests : q # r /\ IsOpen(q)' /\ IsOpen(r)' => r \in overlapped'
    BY <1>1, <1>2 DEF StreamsInv, Calm, IsOpen
  <2>2. LastOnly(message', Free') /\ (dialog'.kind = "edit" => LastOnly(dialog'.list, Free'))
    BY <1>2, <1>6 DEF LastOnly
  <2> QED BY <2>1, <2>2 DEF StreamsInv
<1>10. SavedInv'
  <2>1. CASE Pushed
    <3>1. Target' = <<message'>>
      BY <1>1, <1>3, <2>1, PushFacts DEF Pushed, Shapes
    <3> QED BY <3>1, SavedAsItIs
  <2>2. CASE NoNews
    <3> SUFFICES ASSUME saves' # <<>> \/ stored', Target' # <<>>,
                        NEW i \in 1 .. Len(message'), Streamed(message'[i], requests')
                 PROVE  KeptIn(message'[i], Target'[1])
      BY DEF SavedInv
    <3>1. Target' = Target
      BY <1>1, <2>2 DEF NoNews, Target
    <3>2. PICK k \in 1 .. Len(message) : message[k] = message'[i]
      BY <2>2 DEF NoNews
    <3>3. Streamed(message[k], requests)
      <4>1. message[k].own # 0 /\ message[k].own \in 0..MaxRequests
        <5>1. message[k] \in Messages BY <1>1 DEF Shapes
        <5> QED BY <3>2, <5>1 DEF Streamed, Messages
      <4>2. message[k].own \in Requests
        BY <4>1, PlaygroundConstants DEF Requests
      <4> QED BY <3>2, <4>2 DEF Streamed, Calm
    <3> QED BY <1>1, <2>2, <3>1, <3>2, <3>3 DEF SavedInv, NoNews
  <2> QED BY <2>1, <2>2
<1> QED
  BY <1>2, <1>7, <1>8, <1>9, <1>10 DEF PInv

-----------------------------------------------------------------------------
(* Answers.                                                                *)

Statuses == {"none"} \cup Generating \cup Finished

\* The list after a change of its last message.
Changed(list, status, text) ==
    [list EXCEPT ![Len(list)] = [list[Len(list)] EXCEPT !.status = status, !.text = text]]

\* Text of an open request in the last message: it is the request's own answer, or
\* the request overlapped, or its answer is gone.
LEMMA LastChanges ==
  ASSUME PInv, NEW list, SoundList(list, Used, overlapped), LastOnly(list, Free), list # <<>>,
         NEW r \in Requests, IsOpen(r), NEW status \in Statuses, NEW text,
         text \subseteq list[Len(list)].text \cup {0, r},
         status \in Generating => list[Len(list)].status \in Generating
  PROVE  /\ SoundList(Changed(list, status, text), Used, overlapped)
         /\ LastOnly(Changed(list, status, text), Free)
         /\ Len(Changed(list, status, text)) = Len(list)
         /\ \A i \in 1 .. Len(list) :
               /\ i # Len(list) => Changed(list, status, text)[i] = list[i]
               /\ i = Len(list) => /\ Changed(list, status, text)[i].status = status
                                   /\ Changed(list, status, text)[i].text = text
                                   /\ Changed(list, status, text)[i].own = list[i].own
<1> DEFINE n == Len(list)
           m == [list[n] EXCEPT !.status = status, !.text = text]
<1>1. list \in Seq(Messages) /\ n \in Nat /\ n \in 1..n
  BY EmptySeq DEF SoundList
<1>2. list[n] \in Messages
  BY <1>1
<1>3. r \in Used /\ r \in 0..MaxRequests /\ 0 \in 0..MaxRequests
  BY PlaygroundConstants DEF PInv, Numbered, Requests
<1>4. text \in SUBSET (0..MaxRequests)
  BY <1>2, <1>3 DEF Messages
<1>5. /\ m \in Messages /\ m.own = list[n].own /\ m.status = status /\ m.text = text
  BY <1>2, <1>4 DEF Messages, Statuses
<1> HIDE DEF m
<1>6. r \in overlapped \/ r = list[n].own \/ \A j \in 1..n : list[j].own # r
  BY <1>1 DEF LastOnly, Free
<1>7. Fits(list, n, m, Used, overlapped)
  BY <1>3, <1>5, <1>6 DEF Fits
<1>8. Changed(list, status, text) = [list EXCEPT ![n] = m]
  BY DEF Changed, m
<1>9. /\ SoundList([list EXCEPT ![n] = m], Used, overlapped)
      /\ Len([list EXCEPT ![n] = m]) = n
      /\ LastOnly([list EXCEPT ![n] = m], Free)
  BY <1>1, <1>7, UpdatedIsSound
<1>10. \A i \in 1..n : [list EXCEPT ![n] = m][i] = IF i = n THEN m ELSE list[i]
  BY <1>1
<1> HIDE DEF n
<1> QED
  BY <1>5, <1>8, <1>9, <1>10 DEF n

\* list is what an answer makes of the conversation: finished messages stay, and
\* nothing becomes complete.
Follows(list) ==
    /\ SoundList(list, Used, overlapped) /\ LastOnly(list, Free) /\ Len(list) = Len(message)
    /\ \A i \in 1 .. Len(list) :
          /\ message[i].status \in Finished => list[i] = message[i]
          /\ list[i].status = "complete" => list[i] = message[i]

\* The conversation follows itself.
LEMMA MessageFollows == PInv => Follows(message) /\ Len(message) \in Nat /\ message \in Seq(Messages)
  BY DEF PInv, Shapes, ListsInv, StreamsInv, Follows

\* streamMessageUpdate.
LEMMA ChunkFollows ==
  ASSUME PInv, NEW r \in Requests, IsOpen(r)
  PROVE  Follows(StreamMessageUpdate(r))
<1>1. Follows(message) /\ Len(message) \in Nat
  BY MessageFollows
<1>2. CASE message # <<>> /\ LastMessage.role = "assistant" /\ LastMessage.status \in Generating
  <2> DEFINE text == LastMessage.text \cup {r}
             list == Changed(message, "incomplete", text)
  <2>1. StreamMessageUpdate(r) = list
    BY <1>2 DEF StreamMessageUpdate, SetLast, LastMessage, Changed
  <2>2. /\ SoundList(list, Used, overlapped) /\ LastOnly(list, Free)
        /\ Len(list) = Len(message)
        /\ \A i \in 1 .. Len(message) :
               /\ i # Len(message) => list[i] = message[i]
               /\ i = Len(message) => list[i].status = "incomplete"
    <3>1. "incomplete" \in Statuses
      BY DEF Statuses, Generating
    <3> QED
      BY <1>1, <1>2, <3>1, LastChanges DEF Follows, LastMessage
  <2>3. \A i \in 1 .. Len(message) :
           /\ message[i].status \in Finished => list[i] = message[i]
           /\ list[i].status = "complete" => list[i] = message[i]
    BY <1>2, <2>2 DEF LastMessage, Generating, Finished
  <2> QED BY <2>1, <2>2, <2>3 DEF Follows
<1>3. CASE ~(message # <<>> /\ LastMessage.role = "assistant" /\ LastMessage.status \in Generating)
  BY <1>1, <1>3 DEF StreamMessageUpdate
<1> QED
  BY <1>2, <1>3

\* completeMessage on a list that follows the conversation.
LEMMA CompleteFacts ==
  ASSUME PInv, NEW list, Follows(list), NEW r \in Requests, IsOpen(r),
         NEW status \in Finished, CompleteMessage(list, status)
  PROVE  /\ SoundList(message', Used, overlapped) /\ LastOnly(message', Free)
         /\ Len(message') = Len(message)
         /\ \A i \in 1 .. Len(message) : message[i].status \in Finished => message'[i] = message[i]
         /\ \/ saves' = Append(saves, message')
            \/ /\ saves' = saves
               /\ \A i \in 1 .. Len(message') : message'[i].status = "complete" => message'[i] = message[i]
<1>1. Follows(message) /\ Len(message) \in Nat
  BY MessageFollows
<1>2. CASE list = <<>>
  BY <1>1, <1>2 DEF CompleteMessage, Follows
<1>3. CASE list # <<>> /\ list[Len(list)].status \in Finished
  BY <1>3 DEF CompleteMessage, Complete, Follows
<1>4. CASE list # <<>> /\ list[Len(list)].status \notin Finished
  <2> DEFINE text == list[Len(list)].text
  <2>1. list[Len(list)] \in Messages /\ Len(list) \in 1 .. Len(list)
    <3>1. list \in Seq(Messages) BY DEF Follows, SoundList
    <3> QED BY <1>4, <3>1, EmptySeq
  <2>2. [list EXCEPT ![Len(list)].status = status] = Changed(list, status, text)
    <3>1. [list[Len(list)] EXCEPT !.status = status]
             = [list[Len(list)] EXCEPT !.status = status, !.text = text]
      BY <2>1 DEF Messages
    <3> QED BY <3>1 DEF Changed
  <2>3. message' = Changed(list, status, text) /\ saves' = Append(saves, message')
    BY <1>4, <2>2 DEF CompleteMessage, Complete, Save
  <2>4. status \in Statuses /\ status \notin Generating
    BY DEF Statuses, Finished, Generating
  <2>5. /\ SoundList(message', Used, overlapped) /\ LastOnly(message', Free)
        /\ Len(message') = Len(list)
        /\ \A i \in 1 .. Len(list) : i # Len(list) => message'[i] = list[i]
    BY <1>4, <2>3, <2>4, LastChanges DEF Follows
  <2>6. \A i \in 1 .. Len(message) : message[i].status \in Finished => message'[i] = message[i]
    BY <1>4, <2>5 DEF Follows
  <2> QED BY <2>3, <2>5, <2>6 DEF Follows
<1> QED
  BY <1>2, <1>3, <1>4

Frozen == \A i \in 1 .. Len(message) : message[i].status \in Finished => message'[i] = message[i]

\* A request that ends.
LEMMA CloseFacts ==
  ASSUME PInv, NEW r \in Requests, Close(r), overlapped' = overlapped, nextId' = nextId,
         sseSourceRef' \in {0, sseSourceRef}
  PROVE  Calm /\ requests'[r].kind = requests[r].kind
<1>1. /\ requests \in [Requests -> [kind : {"none", "sse", "fetch"}, open : BOOLEAN]]
      /\ sseSourceRef \in 0..MaxRequests /\ nextId \in Nat
  BY DEF PInv, Shapes
<1>2. /\ requests' \in [Requests -> [kind : {"none", "sse", "fetch"}, open : BOOLEAN]]
      /\ \A q \in Requests : /\ requests'[q].kind = requests[q].kind
                             /\ requests'[q].open => requests[q].open
  BY <1>1 DEF Close
<1>3. sseSourceRef' \in 0..MaxRequests
  BY <1>1, PlaygroundConstants
<1> QED
  BY <1>1, <1>2, <1>3 DEF Calm

\* A step that closes nothing.
LEMMA OpenFacts ==
  ASSUME PInv, requests' = requests, overlapped' = overlapped, sseSourceRef' = sseSourceRef,
         nextId' = nextId
  PROVE  Calm
  BY DEF Calm, PInv, Shapes

\* A change of the list that completes nothing and is not saved.
LEMMA FollowedIsNoNews ==
  ASSUME NEW list, Follows(list), message' = list, saves' = saves, saved' = saved,
         stored' = stored
  PROVE  NoNews /\ Frozen
<1>1. ASSUME NEW i \in 1 .. Len(message'), Streamed(message'[i], requests')
      PROVE  \E k \in 1 .. Len(message) : message[k] = message'[i]
  BY <1>1 DEF Streamed, Follows
<1>2. NoNews
  BY <1>1 DEF NoNews
<1> QED
  BY <1>2 DEF Follows, Frozen

\* completeMessage saves what it completes.
LEMMA CompletedIsPushed ==
  ASSUME PInv, NEW list, Follows(list), NEW r \in Requests, IsOpen(r),
         NEW status \in Finished, CompleteMessage(list, status), saved' = saved,
         stored' = stored
  PROVE  /\ SoundList(message', Used, overlapped) /\ LastOnly(message', Free)
         /\ Pushed \/ NoNews
         /\ Frozen
<1>1. /\ SoundList(message', Used, overlapped) /\ LastOnly(message', Free)
      /\ Len(message') = Len(message) /\ Frozen
      /\ \/ saves' = Append(saves, message')
         \/ /\ saves' = saves
            /\ \A i \in 1 .. Len(message') : message'[i].status = "complete" => message'[i] = message[i]
  BY CompleteFacts DEF Frozen
<1>2. CASE saves' = Append(saves, message')
  BY <1>1, <1>2 DEF Pushed
<1>3. CASE /\ saves' = saves
           /\ \A i \in 1 .. Len(message') : message'[i].status = "complete" => message'[i] = message[i]
  <2>1. ASSUME NEW i \in 1 .. Len(message'), Streamed(message'[i], requests')
        PROVE  \E k \in 1 .. Len(message) : message[k] = message'[i]
    BY <1>1, <1>3, <2>1 DEF Streamed
  <2> QED BY <1>1, <1>3, <2>1 DEF NoNews
<1> QED
  BY <1>1, <1>2, <1>3

\* The step of an answer keeps the invariant and leaves finished messages alone.
LEMMA NetworkStep == PInv /\ Network => PInv' /\ Frozen
<1> SUFFICES ASSUME PInv, NEW r \in Requests,
                    \/ StreamChunk(r) \/ StreamDone(r) \/ StreamGarbage(r) \/ StreamError(r)
                    \/ StreamEnd(r) \/ FetchAnswer(r, "complete") \/ FetchAnswer(r, "error")
                    \/ FetchEmpty(r)
             PROVE  PInv' /\ Frozen
  BY DEF Network
<1>0. /\ IsOpen(r) /\ r # 0 /\ saved' = saved /\ overlapped' = overlapped /\ DialogKept
      /\ stored' = stored /\ nextId' = nextId
      /\ Follows(message) /\ Len(message) \in Nat /\ message \in Seq(Messages)
  <2>1. r # 0 BY DEF Requests
  <2> QED BY <2>1, MessageFollows
        DEF StreamChunk, StreamDone, StreamGarbage, StreamError, StreamEnd, FetchAnswer,
            FetchEmpty, IsStream, IsFetch, page, DialogKept
<1>1. CASE StreamChunk(r)
  <2> DEFINE list == StreamMessageUpdate(r)
  <2>1. Follows(list) /\ message' = list /\ saves' = saves
    BY <1>0, <1>1, ChunkFollows DEF StreamChunk
  <2>2. Calm
    BY <1>0, <1>1, OpenFacts DEF StreamChunk
  <2> HIDE DEF list
  <2>3. NoNews /\ Frozen
    BY <1>0, <2>1, FollowedIsNoNews
  <2> QED BY <1>0, <2>1, <2>2, <2>3, CalmStep DEF Follows
<1>2. CASE StreamDone(r)
  <2>1. Calm
    BY <1>0, <1>2, CloseFacts DEF StreamDone
  <2>2. "complete" \in Finished BY DEF Finished
  <2>3. /\ SoundList(message', Used, overlapped) /\ LastOnly(message', Free)
        /\ Pushed \/ NoNews
        /\ Frozen
    BY <1>0, <1>2, <2>2, CompletedIsPushed DEF StreamDone
  <2> QED BY <1>0, <2>1, <2>3, CalmStep
<1>3. CASE StreamGarbage(r)
  <2>1. Calm
    BY <1>0, <1>3, OpenFacts DEF StreamGarbage
  <2>2. "error" \in Finished BY DEF Finished
  <2>3. Follows(StreamMessageUpdate(r))
    BY <1>0, ChunkFollows
  <2>4. /\ SoundList(message', Used, overlapped) /\ LastOnly(message', Free)
        /\ Pushed \/ NoNews
        /\ Frozen
    BY <1>0, <1>3, <2>2, <2>3, CompletedIsPushed DEF StreamGarbage
  <2> QED BY <1>0, <2>1, <2>4, CalmStep
<1>4. CASE StreamError(r)
  <2>1. Calm
    BY <1>0, <1>4, CloseFacts DEF StreamError
  <2>2. saves' = saves /\ Follows(message')
    <3>1. CASE message # <<>> /\ LastMessage.status \notin Finished
      <4> DEFINE text == LastMessage.text \cup {r}
                 list == Changed(message, "error", text)
      <4>1. message' = list /\ saves' = saves
        BY <1>4, <3>1 DEF StreamError, SetLast, LastMessage, Changed
      <4>2. "error" \in Statuses /\ "error" \notin Generating
        BY DEF Statuses, Generating, Finished
      <4>3. /\ SoundList(list, Used, overlapped) /\ LastOnly(list, Free)
            /\ Len(list) = Len(message)
            /\ \A i \in 1 .. Len(message) :
                   /\ i # Len(message) => list[i] = message[i]
                   /\ i = Len(message) => list[i].status = "error"
        BY <1>0, <3>1, <4>2, LastChanges DEF Follows, LastMessage
      <4> HIDE DEF list
      <4> QED BY <3>1, <4>1, <4>3 DEF Follows, LastMessage
    <3>2. CASE ~(message # <<>> /\ LastMessage.status \notin Finished)
      <4>1. message' = message /\ saves' = saves BY <1>4, <3>2 DEF StreamError
      <4> QED BY <1>0, <4>1
    <3> QED BY <3>1, <3>2
  <2>3. NoNews /\ Frozen
    BY <1>0, <2>2, FollowedIsNoNews
  <2> QED BY <1>0, <2>1, <2>2, <2>3, CalmStep DEF Follows
<1>5. CASE StreamEnd(r) \/ FetchEmpty(r)
  <2>1. Calm
    BY <1>0, <1>5, CloseFacts DEF StreamEnd, FetchEmpty
  <2>2. NoNews /\ Frozen /\ message' = message
    BY <1>0, <1>5, FollowedIsNoNews DEF StreamEnd, FetchEmpty
  <2> QED BY <1>0, <2>1, <2>2, CalmStep DEF Follows
<1>6. ASSUME NEW status \in Finished, FetchAnswer(r, status)
      PROVE  PInv' /\ Frozen
  <2>1. Calm /\ requests'[r].kind = "fetch"
    BY <1>0, <1>6, CloseFacts DEF FetchAnswer, IsFetch
  <2>2. CASE message # <<>> /\ LastMessage.status = "loading"
    <3> DEFINE list == Changed(message, status, {r})
    <3>1. message' = list /\ saves' = saves
      BY <1>6, <2>2 DEF FetchAnswer, SetLast, LastMessage, Changed
    <3>2. status \in Statuses /\ status \notin Generating
      BY DEF Statuses, Generating, Finished
    <3>3. /\ SoundList(list, Used, overlapped) /\ LastOnly(list, Free)
          /\ Len(list) = Len(message)
          /\ \A i \in 1 .. Len(message) :
                 /\ i # Len(message) => list[i] = message[i]
                 /\ i = Len(message) => list[i].text = {r}
      BY <1>0, <2>2, <3>2, LastChanges DEF Follows, LastMessage
    <3> HIDE DEF list
    <3>4. Frozen
      BY <2>2, <3>1, <3>3 DEF Frozen, LastMessage, Finished
    <3>5. ASSUME NEW i \in 1 .. Len(message'), Streamed(message'[i], requests')
          PROVE  \E k \in 1 .. Len(message) : message[k] = message'[i]
      <4>1. CASE i = Len(message)
        <5>1. message'[i].text = {r} BY <3>1, <3>3, <3>5, <4>1
        <5>2. r = message'[i].own BY <1>0, <3>5, <5>1 DEF Streamed
        <5> QED BY <2>1, <3>5, <5>2 DEF Streamed
      <4> QED BY <3>1, <3>3, <4>1
    <3>6. NoNews
      BY <1>0, <3>1, <3>5 DEF NoNews
    <3> QED BY <1>0, <2>1, <3>1, <3>3, <3>4, <3>6, CalmStep
  <2>3. CASE ~(message # <<>> /\ LastMessage.status = "loading")
    <3>1. message' = message /\ saves' = saves
      BY <1>6, <2>3 DEF FetchAnswer
    <3>2. NoNews /\ Frozen
      BY <1>0, <3>1, FollowedIsNoNews
    <3> QED BY <1>0, <2>1, <3>1, <3>2, CalmStep DEF Follows
  <2> QED BY <2>2, <2>3
<1>7. "complete" \in Finished /\ "error" \in Finished
  BY DEF Finished
<1> QED
  BY <1>1, <1>2, <1>3, <1>4, <1>5, <1>6, <1>7

-----------------------------------------------------------------------------
(* The user's actions that send nothing.                                   *)

\* What the list on the screen may become while no request is sent or closed.
LEMMA StillStep ==
  ASSUME PInv, requests' = requests, sseSourceRef' = sseSourceRef, overlapped' = overlapped,
         nextId' = nextId, DialogKept, Pushed \/ NoNews,
         SoundList(message', Used, overlapped), LastOnly(message', Free)
  PROVE  PInv'
  BY OpenFacts, CalmStep

\* The list stays as it is.
LEMMA SameListStep ==
  ASSUME PInv, requests' = requests, sseSourceRef' = sseSourceRef, overlapped' = overlapped,
         nextId' = nextId, DialogKept, message' = message, saves' = saves, saved' = saved \/ saved' = <<>>,
         stored' = stored
  PROVE  PInv'
<1>1. NoNews
  BY DEF NoNews
<1>2. SoundList(message', Used, overlapped) /\ LastOnly(message', Free)
  BY MessageFollows DEF Follows
<1> QED
  BY <1>1, <1>2, StillStep

\* Lists without a message of a request: the empty one and the default messages.
LEMMA FreshLists ==
  ASSUME NEW list \in {<<>>, DefaultMessages}
  PROVE  /\ SoundList(list, Used, overlapped) /\ LastOnly(list, Free)
         /\ \A i \in 1 .. Len(list) : ~Streamed(list[i], requests')
<1>1. CASE list = <<>>
  <2>1. list \in Seq(Messages) /\ Len(list) = 0 BY <1>1
  <2> QED BY <2>1 DEF SoundList, LastOnly
<1>2. CASE list = DefaultMessages
  <2>1. 0 \notin Free BY DEF Free, Requests
  <2> QED BY <1>2, <2>1, DefaultIsSound DEF Streamed
<1> QED
  BY <1>1, <1>2

\* A fresh list comes on the screen, and storage is left alone or emptied.
LEMMA FreshStep ==
  ASSUME PInv, requests' = requests, sseSourceRef' = sseSourceRef, overlapped' = overlapped,
         nextId' = nextId, DialogKept, message' \in {<<>>, DefaultMessages}, saves' = saves,
         saved' = saved \/ saved' = <<>>, stored' = stored
  PROVE  PInv'
<1>1. /\ SoundList(message', Used, overlapped) /\ LastOnly(message', Free)
      /\ \A i \in 1 .. Len(message') : ~Streamed(message'[i], requests')
  BY FreshLists
<1>2. NoNews
  BY <1>1 DEF NoNews
<1> QED
  BY <1>1, <1>2, StillStep

\* A message changes without a new text: its role, its status, or the user's text.
LEMMA MessageChanged ==
  ASSUME PInv, NEW i \in 1 .. Len(message), NEW m \in Messages, m.own = message[i].own,
         m.status \in Generating => message[i].status \in Generating,
         m.text \subseteq message[i].text \cup {0}
  PROVE  /\ SoundList([message EXCEPT ![i] = m], Used, overlapped)
         /\ LastOnly([message EXCEPT ![i] = m], Free)
         /\ Len([message EXCEPT ![i] = m]) = Len(message)
<1>1. Fits(message, i, m, Used, overlapped)
  BY DEF Fits
<1>2. SoundList(message, Used, overlapped) /\ LastOnly(message, Free)
  BY MessageFollows DEF Follows
<1> QED
  BY <1>1, <1>2, UpdatedIsSound

\* onStopGenerator closes the stream that the ref names, and saves.
LEMMA StopStep == PInv /\ Stop => PInv'
<1> SUFFICES ASSUME PInv, Stop PROVE PInv'
  OBVIOUS
<1>1. Shapes
  BY DEF PInv
<1>2. Calm
  <2>1. /\ requests \in [Requests -> [kind : {"none", "sse", "fetch"}, open : BOOLEAN]]
        /\ sseSourceRef' \in 0..MaxRequests /\ nextId' \in Nat /\ overlapped' = overlapped
    BY <1>1, PlaygroundConstants DEF Shapes, Stop, page
  <2>2. sseSourceRef # 0 => sseSourceRef \in Requests
    BY <1>1, PlaygroundConstants DEF Shapes, Requests
  <2>3. CASE sseSourceRef = 0
    BY <2>1, <2>3 DEF Stop, Calm
  <2>4. CASE sseSourceRef # 0
    <3>1. requests' = [requests EXCEPT ![sseSourceRef].open = FALSE]
      BY <2>4 DEF Stop
    <3> QED BY <2>1, <2>2, <2>4, <3>1 DEF Calm
  <2> QED BY <2>3, <2>4
<1>4. DialogKept /\ saved' = saved
  BY DEF Stop, page, DialogKept
<1>5. SoundList(message', Used, overlapped) /\ LastOnly(message', Free) /\ Pushed
  <2> DEFINE n == Len(message)
             m == [message[n] EXCEPT !.status = "complete"]
  <2>1. n \in 1..n /\ message[n] \in Messages
    <3>1. message # <<>> /\ message \in Seq(Messages) BY <1>1 DEF Stop, Shapes
    <3> QED BY <3>1, EmptySeq
  <2>2. /\ m \in Messages /\ m.own = message[n].own /\ m.text = message[n].text
        /\ m.status \notin Generating
    BY <2>1 DEF Messages, Generating, Finished
  <2>3. message' = [message EXCEPT ![n] = m] /\ saves' = Append(saves, message')
    BY DEF Stop, SetLast, LastMessage, Save
  <2> HIDE DEF m, n
  <2>4. SoundList(message', Used, overlapped) /\ LastOnly(message', Free)
    BY <2>1, <2>2, <2>3, MessageChanged DEF n
  <2> QED BY <1>4, <2>3, <2>4 DEF Pushed
<1> QED
  BY <1>2, <1>4, <1>5, CalmStep

\* handleClearMessages leaves the requests running, with no answer on the screen.
LEMMA ClearStep == PInv /\ Clear => PInv'
<1> SUFFICES ASSUME PInv, Clear PROVE PInv'
  OBVIOUS
<1>1. SoundList(message', Used, overlapped) /\ LastOnly(message', Free)
  BY FreshLists DEF Clear
<1>2. Pushed /\ DialogKept
  BY DEF Clear, Save, Pushed, DialogKept, page
<1> QED
  BY <1>1, <1>2, StillStep DEF Clear, page

\* handleMessageReset cuts the list off.
LEMMA ResetStep ==
  ASSUME PInv, NEW i \in DOMAIN message, Reset(i)
  PROVE  PInv'
<1>1. message \in Seq(Messages) /\ i \in 1 .. Len(message) /\ Len(message) \in Nat
  BY MessageFollows
<1>2. PICK u \in 1..i : message' = SubSeq(message, 1, u - 1)
  BY DEF Reset
<1>3. u - 1 \in 0 .. Len(message)
  BY <1>1
<1>4. /\ message' \in Seq(Messages) /\ Embeds(message', message)
      /\ \A k \in 1 .. Len(message') : k \in 1 .. Len(message) /\ message'[k] = message[k]
  <2>1. Len(message') = u - 1 /\ \A k \in 1 .. u - 1 : message'[k] = message[k]
    BY <1>1, <1>2, <1>3, SubSeqProperties
  <2> QED BY <1>1, <1>2, <1>3, <2>1, PrefixEmbeds
<1>5. SoundList(message', Used, overlapped) /\ LastOnly(message', Free)
  BY <1>1, <1>4, EmbeddedIsSound, EmbeddedIsLast, MessageFollows DEF Follows
<1>6. NoNews /\ DialogKept
  BY <1>4 DEF Reset, NoNews, DialogKept
<1> QED
  BY <1>5, <1>6, StillStep DEF Reset

\* Steps that only open or close a dialog or the editor, or empty the storage.
LEMMA QuietSteps ==
  ASSUME PInv,
         \/ \E i \in DOMAIN message : AskDelete(i) \/ Edit(i)
         \/ DeleteCancel \/ EditCancel
  PROVE  PInv'
<1>1. DialogKept
  BY DEF AskDelete, Edit, DeleteCancel, EditCancel, DialogKept, Closed
<1> QED
  BY <1>1, SameListStep DEF AskDelete, Edit, DeleteCancel, EditCancel

\* handleMessageDelete leaves a part of the conversation.
LEMMA DeleteStep == PInv /\ DeleteOk => PInv'
<1> SUFFICES ASSUME PInv, DeleteOk PROVE PInv'
  OBVIOUS
<1>1. /\ DialogKept /\ requests' = requests /\ sseSourceRef' = sseSourceRef
      /\ overlapped' = overlapped /\ saved' = saved /\ stored' = stored /\ nextId' = nextId
  BY DEF DeleteOk, DialogKept, Closed
<1>2. CASE Place(dialog.target) = {}
  BY <1>1, <1>2, SameListStep DEF DeleteOk
<1>3. CASE Place(dialog.target) # {}
  <2>1. PICK gone : message' = Without(message, gone) /\ saves' = Append(saves, message')
    BY <1>3 DEF DeleteOk, Save
  <2>2. message \in Seq(Messages)
    BY MessageFollows
  <2>3. message' \in Seq(Messages) /\ Embeds(message', message)
    BY <2>1, <2>2, WithoutEmbeds
  <2>4. SoundList(message', Used, overlapped) /\ LastOnly(message', Free)
    BY <2>2, <2>3, EmbeddedIsSound, EmbeddedIsLast, MessageFollows DEF Follows
  <2> QED BY <1>1, <2>1, <2>4, StillStep DEF Pushed
<1> QED
  BY <1>2, <1>3

\* Messages change without a new text: their role, or the user's text.
LEMMA MessagesChanged ==
  ASSUME PInv, NEW list \in Seq(Messages), Len(list) = Len(message),
         \A i \in 1 .. Len(message) :
            /\ list[i].own = message[i].own /\ list[i].status = message[i].status
            /\ list[i].text \subseteq message[i].text \cup {0}
  PROVE  SoundList(list, Used, overlapped) /\ LastOnly(list, Free)
<1>1. SoundList(message, Used, overlapped) /\ LastOnly(message, Free)
  BY MessageFollows DEF Follows
<1>2. \A i \in 1 .. Len(message) : Fits(message, i, list[i], Used, overlapped)
  <2>1. \A i \in 1 .. Len(message) : list[i] \in Messages
    OBVIOUS
  <2> QED BY <2>1 DEF Fits
<1> QED
  BY <1>1, <1>2, RewrittenIsSound

\* A role is no part of the invariant.
LEMMA RoleToggleStep ==
  ASSUME PInv, NEW i \in DOMAIN message, RoleToggle(i)
  PROVE  PInv'
<1>1. message \in Seq(Messages) /\ Len(message) \in Nat /\ DOMAIN message = 1 .. Len(message)
  BY MessageFollows
<1> DEFINE role == IF message[i].role = "assistant" THEN "system" ELSE "assistant"
           m(j) == IF message[j].id = message[i].id /\ message[j].role # "user"
                   THEN [message[j] EXCEPT !.role = role] ELSE message[j]
           list == [j \in DOMAIN message |-> m(j)]
<1>2. message' = list /\ saves' = Append(saves, message')
  BY DEF RoleToggle, Save
<1>3. \A j \in 1 .. Len(message) :
         /\ m(j) \in Messages /\ m(j).own = message[j].own /\ m(j).status = message[j].status
         /\ m(j).text = message[j].text
  <2> TAKE j \in 1 .. Len(message)
  <2>1. message[j] \in Messages /\ role \in {"system", "assistant"}
    BY <1>1
  <2> HIDE DEF role
  <2> QED BY <2>1 DEF Messages
<1> HIDE DEF m
<1>4. list \in Seq(Messages) /\ Len(list) = Len(message) /\ \A j \in 1 .. Len(message) : list[j] = m(j)
  BY <1>1, <1>3
<1> HIDE DEF list
<1>5. SoundList(message', Used, overlapped) /\ LastOnly(message', Free)
  BY <1>2, <1>3, <1>4, MessagesChanged
<1>6. Pushed /\ DialogKept
  BY <1>2 DEF RoleToggle, Pushed, DialogKept, page
<1> QED
  BY <1>5, <1>6, StillStep DEF RoleToggle, page

\* handleEditSave replaces texts by the user's; the dialog captures such a list.
LEMMA EditSaveStep == PInv /\ EditSave => PInv'
<1> SUFFICES ASSUME PInv, EditSave PROVE PInv'
  OBVIOUS
<1>1. message \in Seq(Messages) /\ Len(message) \in Nat /\ DOMAIN message = 1 .. Len(message)
  BY MessageFollows
<1>2. /\ requests' = requests /\ sseSourceRef' = sseSourceRef /\ overlapped' = overlapped
      /\ saved' = saved /\ stored' = stored /\ nextId' = nextId
  BY DEF EditSave
<1> DEFINE m(j) == IF message[j].id = editing.id THEN [message[j] EXCEPT !.text = {0}]
                   ELSE message[j]
           list == [j \in DOMAIN message |-> m(j)]
<1>3. PICK i \in Place(editing) :
        IF message[i].role = "user" /\ i < Len(message) /\ message[i + 1].role = "assistant"
        THEN /\ dialog' = [kind |-> "edit", list |-> list, index |-> i]
             /\ UNCHANGED <<message, saves>>
        ELSE message' = list /\ Save(list) /\ UNCHANGED dialog
  BY DEF EditSave
<1>4. i \in 1 .. Len(message)
  BY <1>1 DEF Place, OfId
<1>5. \A j \in 1 .. Len(message) :
         /\ m(j) \in Messages /\ m(j).own = message[j].own /\ m(j).status = message[j].status
         /\ m(j).text \subseteq message[j].text \cup {0}
  <2> TAKE j \in 1 .. Len(message)
  <2>1. message[j] \in Messages
    BY <1>1
  <2>2. {0} \in SUBSET (0..MaxRequests) BY PlaygroundConstants
  <2> QED BY <2>1, <2>2 DEF Messages
<1> HIDE DEF m
<1>6. list \in Seq(Messages) /\ Len(list) = Len(message) /\ \A j \in 1 .. Len(message) : list[j] = m(j)
  BY <1>1, <1>5
<1> HIDE DEF list
<1>7. SoundList(list, Used, overlapped) /\ LastOnly(list, Free)
  BY <1>5, <1>6, MessagesChanged
<1>8. CASE message[i].role = "user" /\ i < Len(message) /\ message[i + 1].role = "assistant"
  <2>1. /\ dialog' = [kind |-> "edit", list |-> list, index |-> i]
        /\ message' = message /\ saves' = saves
    BY <1>3, <1>8
  <2>2. DialogKept
    BY <1>4, <1>6, <1>7, <2>1 DEF DialogKept
  <2> QED BY <1>2, <2>1, <2>2, SameListStep
<1>9. CASE ~(message[i].role = "user" /\ i < Len(message) /\ message[i + 1].role = "assistant")
  <2>1. message' = list /\ saves' = Append(saves, message') /\ dialog' = dialog
    BY <1>3, <1>9 DEF Save
  <2> QED BY <1>2, <1>7, <2>1, StillStep DEF Pushed, DialogKept
<1> QED
  BY <1>8, <1>9

\* The list that the dialog captured comes back, whole or cut off after the edit.
LEMMA EditDialogStep == PInv /\ (EditRegenerate \/ EditSaveOnly) => PInv'
<1> SUFFICES ASSUME PInv, EditRegenerate \/ EditSaveOnly PROVE PInv'
  OBVIOUS
<1>1. /\ dialog.list \in Seq(Messages) /\ dialog.index \in 1 .. Len(dialog.list)
      /\ SoundList(dialog.list, Used, overlapped) /\ LastOnly(dialog.list, Free)
  BY DEF EditRegenerate, EditSaveOnly, PInv, Shapes, ListsInv, StreamsInv
<1>2. /\ requests' = requests /\ sseSourceRef' = sseSourceRef /\ overlapped' = overlapped
      /\ nextId' = nextId /\ stored' = stored
      /\ saves' = Append(saves, message') /\ saved' = saved /\ dialog' = Closed
  BY DEF EditRegenerate, EditSaveOnly, Save
<1>3. SoundList(message', Used, overlapped) /\ LastOnly(message', Free)
  <2>1. CASE EditSaveOnly
    BY <1>1, <2>1 DEF EditSaveOnly
  <2>2. CASE EditRegenerate
    <3>1. message' = SubSeq(dialog.list, 1, dialog.index)
      BY <2>2 DEF EditRegenerate
    <3>2. dialog.index \in 0 .. Len(dialog.list)
      BY <1>1
    <3>3. message' \in Seq(Messages) /\ Embeds(message', dialog.list)
      BY <1>1, <3>1, <3>2, PrefixEmbeds
    <3> QED BY <1>1, <3>3, EmbeddedIsSound, EmbeddedIsLast
  <2> QED BY <2>1, <2>2
<1>4. Pushed /\ DialogKept
  BY <1>2 DEF Pushed, DialogKept, Closed
<1> QED
  BY <1>2, <1>3, <1>4, StillStep

\* A change of language keeps the list or brings the default messages.
LEMMA ChangeLanguageStep == PInv /\ ChangeLanguage => PInv'
<1> SUFFICES ASSUME PInv, ChangeLanguage PROVE PInv'
  OBVIOUS
<1>1. /\ requests' = requests /\ sseSourceRef' = sseSourceRef /\ overlapped' = overlapped
      /\ nextId' = nextId /\ stored' = stored
      /\ saves' = saves /\ saved' = saved /\ DialogKept
  BY DEF ChangeLanguage, page, DialogKept
<1>2. message' = message \/ message' = DefaultMessages
  BY DEF ChangeLanguage
<1> QED
  BY <1>1, <1>2, SameListStep, FreshStep

\* handleConfigReset and its timer.
LEMMA RestoreStep ==
  PInv /\ (RestoreTimer \/ \E resetMessages \in BOOLEAN : ResetConfig(resetMessages)) => PInv'
<1> SUFFICES ASSUME PInv, RestoreTimer \/ \E resetMessages \in BOOLEAN : ResetConfig(resetMessages)
             PROVE  PInv'
  OBVIOUS
<1>1. /\ requests' = requests /\ sseSourceRef' = sseSourceRef /\ overlapped' = overlapped
      /\ nextId' = nextId /\ stored' = stored
      /\ saves' = saves /\ (saved' = saved \/ saved' = <<>>) /\ DialogKept
  BY DEF RestoreTimer, ResetConfig, DialogKept
<1>2. message' = message \/ message' = <<>> \/ message' = DefaultMessages
  BY DEF RestoreTimer, ResetConfig
<1> QED
  BY <1>1, <1>2, SameListStep, FreshStep

-----------------------------------------------------------------------------
(* Storage and reload.                                                     *)

\* Saves are tried in their order, so the last one remains if it works.
LEMMA SaveTimerStep ==
  ASSUME PInv, NEW works \in BOOLEAN, SaveTimer(works)
  PROVE  PInv'
<1>1. Shapes /\ Numbered /\ ListsInv /\ StreamsInv /\ SavedInv
  BY DEF PInv
<1>2. saves \in Seq(Seq(Messages)) /\ saves # <<>> /\ Len(saves) \in Nat /\ Len(saves) # 0
  BY <1>1, EmptySeq DEF Shapes, SaveTimer
<1>3. /\ message' = message /\ requests' = requests /\ sseSourceRef' = sseSourceRef
      /\ dialog' = dialog /\ overlapped' = overlapped /\ nextId' = nextId
      /\ saved' = (IF works THEN <<Head(saves)>> ELSE saved) /\ saves' = Tail(saves)
      /\ stored' = works
  BY DEF SaveTimer
<1>4. Head(saves) = saves[1] /\ 1 \in 1 .. Len(saves) /\ saves[1] \in Seq(Messages)
  BY <1>2
<1>5. /\ saves' \in Seq(Seq(Messages)) /\ Len(saves') = Len(saves) - 1
      /\ \A i \in 1 .. Len(saves') : i + 1 \in 1 .. Len(saves) /\ saves'[i] = saves[i + 1]
  <2>1. saves' \in Seq(Seq(Messages)) /\ Len(saves') = Len(saves) - 1
    BY <1>2, <1>3
  <2>2. \A i \in 1 .. Len(saves) - 1 : Tail(saves)[i] = saves[i + 1]
    BY <1>2
  <2> QED BY <1>2, <1>3, <2>1, <2>2
<1>6. /\ saved' \in Seq(Seq(Messages)) /\ Len(saved') <= 1
      /\ \A i \in 1 .. Len(saved') : SoundList(saved'[i], Used, overlapped)
  <2>1. CASE works
    <3>1. saved' = <<saves[1]>> BY <1>3, <1>4, <2>1
    <3>2. saved' \in Seq(Seq(Messages)) /\ Len(saved') = 1 /\ saved'[1] = saves[1]
      BY <1>4, <3>1
    <3> QED BY <1>1, <1>4, <3>2 DEF ListsInv
  <2>2. CASE ~works
    BY <1>1, <1>3, <2>2 DEF Shapes, ListsInv
  <2> QED BY <2>1, <2>2
<1>7. Used' = Used /\ Free' = Free /\ \A r \in Requests : IsOpen(r)' <=> IsOpen(r)
  BY <1>3 DEF Used, Free, IsOpen
<1>8. saves' # <<>> \/ stored' => Target' = Target
  <2>1. CASE Len(saves) = 1
    <3>1. saves' = <<>> BY <1>5, <2>1, EmptySeq
    <3> QED BY <1>2, <1>3, <1>4, <2>1, <3>1 DEF Target
  <2>2. CASE Len(saves) # 1
    <3>1. Len(saves') \in 1 .. Len(saves') /\ saves' # <<>>
      BY <1>2, <1>5, <2>2
    <3>2. saves'[Len(saves')] = saves[Len(saves)]
      BY <1>2, <1>5, <3>1
    <3> QED BY <1>2, <3>1, <3>2 DEF Target
  <2> QED BY <2>1, <2>2
<1>9. Shapes'
  BY <1>1, <1>3, <1>5, <1>6 DEF Shapes
<1>10. Numbered'
  BY <1>1, <1>7 DEF Numbered
<1>11. ListsInv'
  BY <1>1, <1>3, <1>5, <1>6, <1>7 DEF ListsInv
<1>12. StreamsInv'
  BY <1>1, <1>3, <1>7 DEF StreamsInv
<1>13. SavedInv'
  BY <1>1, <1>2, <1>3, <1>8 DEF SavedInv
<1> QED
  BY <1>9, <1>10, <1>11, <1>12, <1>13 DEF PInv

\* The repaired list is sound, and its last message is not generating.
LEMMA RepairedIsSound ==
  ASSUME NEW list, NEW used, NEW over, SoundList(list, used, over)
  PROVE  /\ SoundList(Repaired(list), used, over)
         /\ Len(Repaired(list)) = Len(list)
         /\ list # <<>> => Repaired(list)[Len(list)].status \notin Generating
<1>1. CASE list # <<>> /\ list[Len(list)].status \in Generating
  <2> DEFINE n == Len(list)
             m == [list[n] EXCEPT !.status = "complete"]
  <2>1. list \in Seq(Messages) /\ n \in 1..n /\ list[n] \in Messages
    <3>1. list \in Seq(Messages) BY DEF SoundList
    <3> QED BY <1>1, <3>1, EmptySeq
  <2>2. /\ m \in Messages /\ m.own = list[n].own /\ m.text = list[n].text
        /\ m.status \notin Generating
    BY <2>1 DEF Messages, Generating, Finished
  <2>3. Repaired(list) = [list EXCEPT ![n] = m]
    BY <1>1 DEF Repaired
  <2> HIDE DEF m
  <2>4. Fits(list, n, m, used, over)
    BY <2>2 DEF Fits
  <2>5. [list EXCEPT ![n] = m][n] = m
    BY <2>1
  <2> HIDE DEF n
  <2>6. /\ SoundList([list EXCEPT ![n] = m], used, over)
        /\ Len([list EXCEPT ![n] = m]) = Len(list)
    BY <2>1, <2>4, UpdatedIsSound DEF n
  <2> QED BY <2>2, <2>3, <2>5, <2>6 DEF n
<1>2. CASE ~(list # <<>> /\ list[Len(list)].status \in Generating)
  BY <1>2 DEF Repaired
<1> QED
  BY <1>1, <1>2

\* A reloaded page shows the default messages or the repaired copy, and saves the
\* latter when it was repaired.
LEMMA ReloadFacts ==
  ASSUME PInv, Reload
  PROVE  \/ saved' = <<>> /\ message' = DefaultMessages /\ saves' = <<>>
         \/ /\ saved' = saved /\ saved # <<>> /\ message' = Repaired(saved[1])
            /\ SoundList(saved[1], Used, overlapped)
            /\ saves' = IF message' = saved[1] THEN <<>> ELSE <<message'>>
<1>1. CASE saved' = <<>>
  BY <1>1 DEF Reload
<1>2. CASE saved' # <<>>
  <2>1. saved' = saved /\ saved # <<>> BY <1>2 DEF Reload
  <2>2. SoundList(saved[1], Used, overlapped)
    <3>1. 1 \in 1 .. Len(saved) BY <2>1, EmptySeq DEF PInv, Shapes
    <3> QED BY <3>1 DEF PInv, ListsInv
  <2> QED BY <1>2, <2>1, <2>2 DEF Reload
<1> QED
  BY <1>1, <1>2

\* After a reload every request is closed, so nothing can be written any more.
LEMMA ReloadStep == PInv /\ Reload => PInv'
<1> SUFFICES ASSUME PInv, Reload PROVE PInv'
  OBVIOUS
<1>1. Shapes /\ Numbered /\ ListsInv
  BY DEF PInv
<1>2. Calm /\ \A r \in Requests : ~requests'[r].open
  <2>1. requests \in [Requests -> [kind : {"none", "sse", "fetch"}, open : BOOLEAN]]
    BY <1>1 DEF Shapes
  <2>2. /\ requests' = [r \in Requests |-> [requests[r] EXCEPT !.open = FALSE]]
        /\ overlapped' = overlapped /\ sseSourceRef' \in 0..MaxRequests /\ nextId' \in Nat
    BY PlaygroundConstants DEF Reload, FirstId
  <2> QED BY <2>1, <2>2 DEF Calm
<1>3. Used' = Used /\ Numbered' /\ Free' = {} /\ overlapped' = overlapped
  <2>1. Used' = Used /\ Numbered' /\ overlapped' = overlapped
    BY <1>1, <1>2, CalmFacts DEF Calm
  <2>2. Free' = {} BY <1>2 DEF Free, IsOpen
  <2> QED BY <2>1, <2>2
<1>4. SoundList(message', Used, overlapped) /\ message' \in Seq(Messages)
  <2>1. SoundList(message', Used, overlapped)
    BY ReloadFacts, RepairedIsSound, DefaultIsSound
  <2> QED BY <2>1 DEF SoundList
<1>5. /\ saves' \in {<<>>, <<message'>>}
      /\ saves' \in Seq(Seq(Messages))
      /\ \A i \in 1 .. Len(saves') : saves'[i] = message'
  <2>1. saves' \in {<<>>, <<message'>>} BY ReloadFacts
  <2>2. CASE saves' = <<>>
    BY <2>2, EmptySeq
  <2>3. CASE saves' = <<message'>>
    BY <1>4, <2>3
  <2> QED BY <2>1, <2>2, <2>3
<1>6. /\ saved' \in Seq(Seq(Messages)) /\ Len(saved') <= 1
      /\ \A i \in 1 .. Len(saved') : SoundList(saved'[i], Used, overlapped)
  <2>1. CASE saved' = saved
    BY <1>1, <2>1 DEF Shapes, ListsInv
  <2>2. CASE saved' = <<>>
    BY <2>2, EmptySeq
  <2> QED BY <2>1, <2>2, ReloadFacts
<1>7. dialog' = Closed /\ dialog'.kind = "closed" /\ sseSourceRef' = 0 /\ 0 \in 0..MaxRequests
  BY PlaygroundConstants DEF Reload, Closed
<1>8. Shapes'
  BY <1>1, <1>2, <1>4, <1>5, <1>6, <1>7 DEF Shapes, Calm
<1>9. ListsInv'
  BY <1>3, <1>4, <1>5, <1>6, <1>7 DEF ListsInv
<1>10. StreamsInv'
  BY <1>2, <1>3, <1>7 DEF StreamsInv, LastOnly, IsOpen
<1>11. SavedInv'
  <2>1. Target' # <<>> => Target'[1] = message'
    <3>1. CASE saves' = <<>>
      BY <3>1, ReloadFacts DEF Target
    <3>2. CASE saves' = <<message'>>
      BY <3>2 DEF Target
    <3> QED BY <1>5, <3>1, <3>2
  <2> QED BY <2>1, SavedAsItIs
<1> QED
  BY <1>3, <1>8, <1>9, <1>10, <1>11 DEF PInv

-----------------------------------------------------------------------------
(* Sending.                                                                *)

\* The next request has not been used; one that is open, or whose answer is being
\* generated, overlaps with it from now on.
LEMMA SendFacts ==
  ASSUME PInv, NEW n \in Requests, n = NextRequest, NEW kind \in Kinds, NEW opens \in BOOLEAN,
         SendRequest(n, kind, opens)
  PROVE  /\ n \notin Used /\ Used' = Used \cup {n} /\ Numbered'
         /\ requests' \in [Requests -> [kind : {"none", "sse", "fetch"}, open : BOOLEAN]]
         /\ \A r \in Requests : r # n => requests'[r] = requests[r]
         /\ overlapped \subseteq overlapped' /\ overlapped' \in SUBSET Requests
         /\ Free' \subseteq {n}
         /\ \A q, r \in Requests : q # r /\ IsOpen(q)' /\ IsOpen(r)' => r \in overlapped'
         /\ sseSourceRef' \in 0..MaxRequests
         /\ \A i \in 1 .. Len(message) :
               message[i].status \in Generating => message[i].own \in overlapped'
<1>1. Shapes /\ Numbered /\ ListsInv /\ StreamsInv
  BY DEF PInv
<1>2. /\ requests \in [Requests -> [kind : {"none", "sse", "fetch"}, open : BOOLEAN]]
      /\ requests' = [requests EXCEPT ![n] = [kind |-> kind, open |-> opens]]
  BY <1>1 DEF Shapes, SendRequest
<1>3. /\ requests' \in [Requests -> [kind : {"none", "sse", "fetch"}, open : BOOLEAN]]
      /\ \A r \in Requests : r # n => requests'[r] = requests[r]
      /\ requests'[n].kind = kind /\ requests'[n].open = opens
  BY <1>2 DEF Kinds
<1>4. Cardinality(Used) \in Nat /\ IsFiniteSet(Used)
  <2>1. IsFiniteSet(Requests)
    BY PlaygroundConstants, FS_Interval DEF Requests
  <2>2. Used \subseteq Requests
    BY DEF Used
  <2> QED BY <2>1, <2>2, FS_Subset, FS_CardinalityType
<1>5. n \notin Used
  <2>1. n = Cardinality(Used) + 1 /\ Used = 1 .. Cardinality(Used)
    BY <1>1 DEF NextRequest, Numbered
  <2> QED BY <1>4, <2>1
<1>6. Used' = Used \cup {n}
  BY <1>3 DEF Used, Kinds
<1>7. Numbered'
  <2>1. Cardinality(Used') = Cardinality(Used) + 1
    BY <1>4, <1>5, <1>6, FS_AddElement
  <2>2. Used' = 1 .. Cardinality(Used) + 1
    <3>1. n = Cardinality(Used) + 1 /\ Used = 1 .. Cardinality(Used)
      BY <1>1 DEF NextRequest, Numbered
    <3> QED BY <1>4, <1>6, <3>1
  <2>3. \A r \in Requests \ Used' : ~IsOpen(r)'
    BY <1>1, <1>3, <1>6 DEF Numbered, IsOpen
  <2> QED BY <2>1, <2>2, <2>3 DEF Numbered
<1> DEFINE unfinished == {q \in Requests : Unfinished(q)}
<1>8. overlapped' = IF unfinished # {} THEN overlapped \cup unfinished \cup {n} ELSE overlapped
  BY DEF SendRequest
<1>9. \A q \in Requests : q # n /\ IsOpen(q)' => q \in unfinished
  BY <1>3 DEF Unfinished, IsOpen
<1>10. ASSUME NEW i \in 1 .. Len(message), message[i].status \in Generating
       PROVE  message[i].own \in unfinished
  <2>1. message[i].own \in Used
    BY <1>1, <1>10 DEF ListsInv, SoundList
  <2>2. i \in DOMAIN message
    BY <1>1 DEF Shapes
  <2> QED BY <1>10, <2>1, <2>2 DEF Unfinished, Used
<1>11. overlapped \in SUBSET Requests /\ unfinished \in SUBSET Requests
  BY <1>1 DEF Shapes
<1> HIDE DEF unfinished
<1>12. /\ overlapped \subseteq overlapped' /\ unfinished \subseteq overlapped'
       /\ overlapped' \in SUBSET Requests /\ (unfinished # {} => n \in overlapped')
  BY <1>8, <1>11
<1>13. Free' \subseteq {n}
  BY <1>9, <1>12 DEF Free
<1>14. \A q, r \in Requests : q # r /\ IsOpen(q)' /\ IsOpen(r)' => r \in overlapped'
  BY <1>9, <1>12
<1>15. sseSourceRef' \in 0..MaxRequests
  BY <1>1, PlaygroundConstants DEF Shapes, SendRequest, Requests
<1>17. \A i \in 1 .. Len(message) : message[i].status \in Generating => message[i].own \in overlapped'
  BY <1>10, <1>12
<1> QED
  BY <1>3, <1>5, <1>6, <1>7, <1>12, <1>13, <1>14, <1>15, <1>17

\* Copies of the conversation keep their properties when a request is sent.
LEMMA SentStep ==
  ASSUME PInv, NEW n \in Requests, n = NextRequest, NEW kind \in Kinds, NEW opens \in BOOLEAN,
         SendRequest(n, kind, opens), saved' = saved, dialog' = dialog, nextId' \in Nat,
         SoundList(message', Used', overlapped'), LastOnly(message', Free'),
         saves' \in Seq(Seq(Messages)),
         \A i \in 1 .. Len(saves') : SoundList(saves'[i], Used', overlapped'),
         SavedInv'
  PROVE  PInv'
<1>1. Shapes /\ ListsInv /\ StreamsInv
  BY DEF PInv
<1>2. /\ n \notin Used /\ Used' = Used \cup {n} /\ Numbered'
      /\ requests' \in [Requests -> [kind : {"none", "sse", "fetch"}, open : BOOLEAN]]
      /\ overlapped \subseteq overlapped' /\ overlapped' \in SUBSET Requests
      /\ Free' \subseteq {n}
      /\ \A q, r \in Requests : q # r /\ IsOpen(q)' /\ IsOpen(r)' => r \in overlapped'
      /\ sseSourceRef' \in 0..MaxRequests
  BY SendFacts
<1>3. ASSUME NEW list, SoundList(list, Used, overlapped)
      PROVE  SoundList(list, Used', overlapped') /\ LastOnly(list, Free')
  <2>1. SoundList(list, Used', overlapped')
    BY <1>2, <1>3, ListGrows
  <2>2. \A i \in 1 .. Len(list) : list[i].own \notin Free'
    <3>1. n # 0 BY DEF Requests
    <3> QED BY <1>2, <1>3, <3>1 DEF SoundList
  <2> QED BY <2>1, <2>2 DEF LastOnly
<1>4. message' \in Seq(Messages)
  BY DEF SoundList
<1>5. Shapes'
  BY <1>1, <1>2, <1>4 DEF Shapes
<1>6. ListsInv'
  BY <1>1, <1>3 DEF ListsInv
<1>7. StreamsInv'
  BY <1>1, <1>2, <1>3 DEF StreamsInv, ListsInv
<1> QED
  BY <1>2, <1>5, <1>6, <1>7 DEF PInv

\* The answer of a new request behind a list that grew from the conversation.
LEMMA LoadingAppended ==
  ASSUME NEW list, NEW n \in Requests, NEW id \in Nat, NEW used, NEW over,
         SoundList(list, used, over), n \in used,
         list # <<>> /\ list[Len(list)].status \in Generating => list[Len(list)].own \in over,
         \A i \in 1 .. Len(list) : n \notin list[i].text /\ list[i].own # n,
         NEW open, open \subseteq {n}
  PROVE  /\ SoundList(Append(list, LoadingMessage(n, id)), used, over)
         /\ LastOnly(Append(list, LoadingMessage(n, id)), open)
<1>1. n \in 0..MaxRequests /\ n # 0
  BY PlaygroundConstants DEF Requests
<1>2. /\ LoadingMessage(n, id) \in Messages /\ LoadingMessage(n, id).own = n
      /\ LoadingMessage(n, id).text = {}
  BY <1>1, NewMessages DEF LoadingMessage
<1>3. SoundList(Append(list, LoadingMessage(n, id)), used, over)
  BY <1>1, <1>2, AppendedIsSound
<1>4. list \in Seq(Messages)
  BY DEF SoundList
<1>5. LastOnly(Append(list, LoadingMessage(n, id)), open)
  BY <1>2, <1>4, AppendedIsLast
<1> QED
  BY <1>3, <1>5

\* What the conversation does not know of a request that was never sent.
LEMMA NothingOfNew ==
  ASSUME PInv, NEW n \in Requests, n \notin Used, NEW i \in 1 .. Len(message)
  PROVE  n \notin message[i].text /\ message[i].own # n
<1>1. n # 0
  BY DEF Requests
<1> QED
  BY <1>1 DEF PInv, ListsInv, SoundList

\* The loading message of a regeneration is not saved, but it is not complete.
LEMMA RegenerateStep ==
  ASSUME PInv, NEW kind \in Kinds, RegenerateTimer(kind)
  PROVE  PInv'
<1> DEFINE n == NextRequest
           id == nextId
           list == Append(message, LoadingMessage(n, id))
<1>0. /\ n \in Requests /\ SendRequest(n, kind, TRUE) /\ TRUE \in BOOLEAN
      /\ message' = list /\ saves' = saves /\ saved' = saved /\ dialog' = dialog
      /\ stored' = stored /\ id \in Nat /\ nextId' \in Nat
  <2>1. nextId \in Nat BY DEF PInv, Shapes
  <2>2. nextId' \in Nat BY <2>1 DEF RegenerateTimer
  <2>3. /\ n \in Requests /\ SendRequest(n, kind, TRUE) /\ message' = list /\ saves' = saves
        /\ saved' = saved /\ dialog' = dialog /\ stored' = stored
    BY DEF RegenerateTimer
  <2> QED BY <2>1, <2>2, <2>3, Zenon
<1> HIDE DEF n, id
<1>1. /\ n \notin Used /\ Used' = Used \cup {n}
      /\ \A r \in Requests : r # n => requests'[r] = requests[r]
      /\ overlapped \subseteq overlapped' /\ Free' \subseteq {n}
      /\ \A i \in 1 .. Len(message) :
               message[i].status \in Generating => message[i].own \in overlapped'
  BY <1>0, SendFacts DEF n
<1>2. /\ Shapes /\ ListsInv /\ SavedInv /\ message \in Seq(Messages) /\ Len(message) \in Nat
      /\ (message # <<>> => Len(message) \in 1 .. Len(message))
  BY EmptySeq DEF PInv, Shapes
<1>3. \A s : SoundList(s, Used, overlapped) => SoundList(s, Used', overlapped')
  BY <1>1, ListGrows
<1>4. SoundList(message', Used', overlapped') /\ LastOnly(message', Free')
  <2>1. SoundList(message, Used', overlapped')
    BY <1>2, <1>3 DEF ListsInv
  <2>2. \A i \in 1 .. Len(message) : n \notin message[i].text /\ message[i].own # n
    BY <1>0, <1>1, NothingOfNew
  <2> QED BY <1>0, <1>1, <1>2, <2>1, <2>2, LoadingAppended
<1>5. \A i \in 1 .. Len(saves') : SoundList(saves'[i], Used', overlapped')
  BY <1>0, <1>2, <1>3 DEF ListsInv
<1>6. SavedInv'
  <2> SUFFICES ASSUME saves' # <<>> \/ stored', Target' # <<>>,
                      NEW i \in 1 .. Len(message'), Streamed(message'[i], requests')
               PROVE  KeptIn(message'[i], Target'[1])
    BY DEF SavedInv
  <2>1. Target' = Target
    BY <1>0 DEF Target
  <2>2. /\ LoadingMessage(n, id).status = "loading" /\ LoadingMessage(n, id) \in Messages
    <3>1. n \in 0..MaxRequests BY <1>0, PlaygroundConstants DEF Requests
    <3> QED BY <1>0, <3>1, NewMessages DEF LoadingMessage
  <2>3. /\ Len(message') = Len(message) + 1
        /\ \A k \in 1 .. Len(message) : message'[k] = message[k]
        /\ message'[Len(message) + 1] = LoadingMessage(n, id)
    BY <1>0, <1>2, <2>2, AppendProperties
  <2>4. i \in 1 .. Len(message) /\ message'[i] = message[i]
    <3>1. i # Len(message) + 1
      BY <2>2, <2>3 DEF Streamed
    <3> QED BY <1>2, <2>3, <3>1
  <2>5. message[i].own \in Used
    BY <1>2, <2>4 DEF Streamed, ListsInv, SoundList
  <2>6. Streamed(message[i], requests)
    BY <1>1, <2>4, <2>5 DEF Streamed, Used
  <2> QED BY <1>0, <1>2, <2>1, <2>4, <2>6 DEF SavedInv
<1> HIDE DEF list
<1>7. saves' \in Seq(Seq(Messages))
  BY <1>0, <1>2 DEF Shapes
<1> QED
  BY <1>0, <1>4, <1>5, <1>6, <1>7, SentStep DEF n

\* Two lists in a row are saved.
LEMMA PushedTwice ==
  ASSUME saves \in Seq(Seq(Messages)), NEW a \in Seq(Messages), NEW b \in Seq(Messages),
         saves' = saves \o <<a, b>>
  PROVE  /\ saves' \in Seq(Seq(Messages)) /\ Target' = <<b>> /\ Len(saves') = Len(saves) + 2
         /\ \A i \in 1 .. Len(saves') :
               saves'[i] = a \/ saves'[i] = b \/ \E k \in 1 .. Len(saves) : saves'[i] = saves[k]
<1>1. <<a, b>> \in Seq(Seq(Messages)) /\ Len(<<a, b>>) = 2 /\ <<a, b>>[1] = a /\ <<a, b>>[2] = b
  OBVIOUS
<1> DEFINE pair == <<a, b>>
<1> HIDE DEF pair
<1>2. /\ saves' \in Seq(Seq(Messages)) /\ Len(saves') = Len(saves) + 2 /\ Len(saves) \in Nat
      /\ \A i \in 1 .. Len(saves) + 2 :
            saves'[i] = IF i <= Len(saves) THEN saves[i] ELSE pair[i - Len(saves)]
  BY <1>1, ConcatProperties DEF pair
<1>3. \A i \in 1 .. Len(saves') :
         \/ i \in 1 .. Len(saves) /\ saves'[i] = saves[i]
         \/ i = Len(saves) + 1 /\ saves'[i] = pair[1]
         \/ i = Len(saves) + 2 /\ saves'[i] = pair[2]
  BY <1>2
<1>4. saves'[Len(saves')] = pair[2] /\ saves' # <<>>
  <2>1. Len(saves') \in 1 .. Len(saves') /\ Len(saves') # 0
    BY <1>2
  <2>2. saves'[Len(saves')] = pair[2]
    BY <1>2, <1>3, <2>1
  <2> QED BY <2>1, <2>2, EmptySeq
<1> QED
  BY <1>1, <1>2, <1>3, <1>4 DEF pair, Target

\* onMessageSend: the question and its answer behind the conversation; what comes
\* of a stream that does not start is an error in that answer.
LEMMA OnMessageSendStep ==
  ASSUME PInv, NEW kind \in Kinds, NEW starts \in BOOLEAN, OnMessageSend(kind, starts)
  PROVE  PInv'
<1> DEFINE n == NextRequest
           id == nextId + 1
           uid == nextId + 2
           asked == Append(message, UserMessage(n, uid))
           list == Append(asked, LoadingMessage(n, id))
<1>0. /\ n \in Requests /\ n \in 0..MaxRequests /\ n # 0
      /\ id \in Nat /\ uid \in Nat /\ nextId' \in Nat
  <2>1. nextId \in Nat BY DEF PInv, Shapes
  <2> QED BY <2>1, PlaygroundConstants DEF OnMessageSend, Requests
<1>1. /\ UserMessage(n, uid) \in Messages /\ LoadingMessage(n, id) \in Messages
      /\ UserMessage(n, uid).own = 0 /\ UserMessage(n, uid).text = {0} /\ UserMessage(n, uid).status = "none"
      /\ LoadingMessage(n, id).own = n /\ LoadingMessage(n, id).text = {}
  BY <1>0, NewMessages DEF UserMessage, LoadingMessage
<1>2. /\ Shapes /\ ListsInv /\ message \in Seq(Messages) /\ Len(message) \in Nat
      /\ (message # <<>> => Len(message) \in 1 .. Len(message))
      /\ saves \in Seq(Seq(Messages))
  BY EmptySeq DEF PInv, Shapes
<1> HIDE DEF n, id, uid
<1>3. /\ SendRequest(n, kind, starts) /\ saved' = saved /\ dialog' = dialog
      /\ \/ starts /\ message' = list /\ saves' = Append(saves, list)
         \/ /\ ~starts
            /\ message' = [list EXCEPT ![Len(list)].status = "error", ![Len(list)].text = {n}]
            /\ saves' = saves \o <<list, message'>>
  <2>1. message \o <<UserMessage(n, uid), LoadingMessage(n, id)>> = list
    <3> DEFINE u == UserMessage(n, uid)
               l == LoadingMessage(n, id)
    <3>1. u \in Messages /\ l \in Messages BY <1>1
    <3> HIDE DEF u, l
    <3>2. message \o <<u, l>> = Append(Append(message, u), l)
      BY <1>2, <3>1
    <3> QED BY <3>2 DEF u, l
  <2>2. OnMessageSend(kind, starts) BY DEF n
  <2> QED BY <2>1, <2>2 DEF OnMessageSend, Save, n, id, uid
<1>4. /\ n \notin Used /\ Used' = Used \cup {n}
      /\ overlapped \subseteq overlapped' /\ Free' \subseteq {n}
      /\ \A i \in 1 .. Len(message) :
               message[i].status \in Generating => message[i].own \in overlapped'
  BY <1>0, <1>3, SendFacts DEF n
<1>5. \A s : SoundList(s, Used, overlapped) => SoundList(s, Used', overlapped')
  BY <1>4, ListGrows
<1>6. SoundList(asked, Used', overlapped') /\ asked \in Seq(Messages)
  <2>1. SoundList(message, Used', overlapped')
    BY <1>2, <1>5 DEF ListsInv
  <2>2. UserMessage(n, uid).status \notin Generating BY <1>1 DEF Generating
  <2>3. SoundList(asked, Used', overlapped')
    BY <1>1, <1>2, <1>4, <2>1, <2>2, AppendedIsSound
  <2> QED BY <2>3 DEF SoundList
<1>7. /\ Len(asked) = Len(message) + 1
      /\ \A i \in 1 .. Len(message) : asked[i] = message[i]
      /\ asked[Len(asked)] = UserMessage(n, uid)
  BY <1>1, <1>2, AppendProperties
<1> HIDE DEF asked
<1>8. /\ SoundList(list, Used', overlapped') /\ LastOnly(list, Free')
      /\ list \in Seq(Messages)
  <2>1. \A i \in 1 .. Len(asked) : n \notin asked[i].text /\ asked[i].own # n
    <3>1. \A i \in 1 .. Len(message) : n \notin message[i].text /\ message[i].own # n
      BY <1>0, <1>4, NothingOfNew
    <3>2. \A i \in 1 .. Len(asked) : i \in 1 .. Len(message) \/ i = Len(asked)
      BY <1>2, <1>7
    <3> QED BY <1>0, <1>1, <1>7, <3>1, <3>2
  <2>2. asked[Len(asked)].status \notin Generating
    BY <1>1, <1>7 DEF Generating
  <2>3. SoundList(list, Used', overlapped') /\ LastOnly(list, Free')
    BY <1>0, <1>4, <1>6, <2>1, <2>2, LoadingAppended
  <2> QED BY <2>3 DEF SoundList
<1>9. Len(list) = Len(asked) + 1 /\ list[Len(list)] = LoadingMessage(n, id) /\ Len(list) \in 1 .. Len(list)
  BY <1>1, <1>6, AppendProperties
<1> HIDE DEF list
<1>10. CASE starts
  <2>1. message' = list /\ saves' = Append(saves, list)
    BY <1>3, <1>10
  <2>2. /\ saves' \in Seq(Seq(Messages)) /\ Target' = <<list>>
        /\ \A i \in 1 .. Len(saves') : saves'[i] = list \/ \E k \in 1 .. Len(saves) : saves'[i] = saves[k]
    BY <1>2, <1>8, <2>1, PushFacts
  <2>3. \A i \in 1 .. Len(saves') : SoundList(saves'[i], Used', overlapped')
    BY <1>2, <1>5, <1>8, <2>2 DEF ListsInv
  <2>4. SavedInv'
    BY <2>1, <2>2, SavedAsItIs
  <2> QED BY <1>0, <1>3, <1>8, <2>1, <2>2, <2>3, <2>4, SentStep DEF n
<1>11. CASE ~starts
  <2> DEFINE k == Len(list)
             m == [list[k] EXCEPT !.status = "error", !.text = {n}]
  <2>1. message' = [list EXCEPT ![k] = m] /\ saves' = saves \o <<list, message'>>
    BY <1>3, <1>8, <1>9, <1>11
  <2>2. /\ m \in Messages /\ m.own = list[k].own /\ m.own = n /\ m.text = {n}
        /\ m.status \notin Generating
    <3>1. list[k] \in Messages /\ list[k].own = n BY <1>1, <1>9
    <3>2. {n} \in SUBSET (0..MaxRequests) BY <1>0
    <3> QED BY <3>1, <3>2 DEF Messages, Generating, Finished
  <2>3. Fits(list, k, m, Used', overlapped')
    BY <2>2 DEF Fits
  <2> HIDE DEF m
  <2>4. SoundList(message', Used', overlapped') /\ LastOnly(message', Free') /\ message' \in Seq(Messages)
    <3>1. SoundList(message', Used', overlapped') /\ LastOnly(message', Free')
      BY <1>8, <1>9, <2>1, <2>3, UpdatedIsSound
    <3> QED BY <3>1 DEF SoundList
  <2>5. /\ saves' \in Seq(Seq(Messages)) /\ Target' = <<message'>>
        /\ \A i \in 1 .. Len(saves') : \/ saves'[i] = list \/ saves'[i] = message'
                                       \/ \E j \in 1 .. Len(saves) : saves'[i] = saves[j]
    BY <1>2, <1>8, <2>1, <2>4, PushedTwice
  <2>6. \A i \in 1 .. Len(saves') : SoundList(saves'[i], Used', overlapped')
    BY <1>2, <1>5, <1>8, <2>4, <2>5 DEF ListsInv
  <2>7. SavedInv'
    BY <2>5, SavedAsItIs
  <2> QED BY <1>0, <1>3, <2>4, <2>5, <2>6, <2>7, SentStep DEF n
<1> QED
  BY <1>10, <1>11

-----------------------------------------------------------------------------
(* Theorems.                                                               *)

\* The invariant holds on the first page.
LEMMA InitIsSound == Init => PInv
<1> SUFFICES ASSUME Init PROVE PInv
  OBVIOUS
<1>1. /\ message = DefaultMessages /\ saved = <<>> /\ saves = <<>> /\ sseSourceRef = 0
      /\ requests = [r \in Requests |-> [kind |-> "none", open |-> FALSE]]
      /\ dialog.kind = "closed" /\ overlapped = {} /\ nextId \in Nat
  BY DEF Init, Closed, FirstId
<1>2. Used = {} /\ Free = {} /\ \A r \in Requests : ~IsOpen(r)
  BY <1>1 DEF Used, Free, IsOpen
<1>3. Shapes
  BY <1>1, DefaultIsSound, EmptySeq, PlaygroundConstants DEF Shapes
<1>4. Numbered
  BY <1>2, FS_EmptySet DEF Numbered
<1>5. ListsInv
  BY <1>1, DefaultIsSound, EmptySeq DEF ListsInv
<1>6. StreamsInv
  BY <1>1, <1>2 DEF StreamsInv, LastOnly
<1>7. SavedInv
  BY <1>1 DEF SavedInv, Target
<1> QED
  BY <1>3, <1>4, <1>5, <1>6, <1>7 DEF PInv

\* Every step keeps the invariant.
LEMMA StepIsSound == PInv /\ [Next]_vars => PInv'
<1> SUFFICES ASSUME PInv, [Next]_vars PROVE PInv'
  OBVIOUS
<1>1. CASE Network
  BY <1>1, NetworkStep
<1>2. CASE Timer
  BY <1>2, OnMessageSendStep, RegenerateStep, SaveTimerStep, RestoreStep DEF Timer, ResendTimer
<1>3. CASE Click
  <2>1. CASE \E kind \in Kinds, starts \in BOOLEAN : Send(kind, starts)
    BY <2>1, OnMessageSendStep DEF Send
  <2>2. CASE Stop \/ Clear \/ ChangeLanguage \/ Reload
    BY <2>2, StopStep, ClearStep, ChangeLanguageStep, ReloadStep
  <2>3. CASE \E i \in DOMAIN message : Reset(i) \/ AskDelete(i) \/ RoleToggle(i) \/ Edit(i)
    BY <2>3, ResetStep, QuietSteps, RoleToggleStep
  <2>4. CASE DeleteOk \/ DeleteCancel \/ EditSave \/ EditCancel \/ EditRegenerate \/ EditSaveOnly
    BY <2>4, DeleteStep, QuietSteps, EditSaveStep, EditDialogStep
  <2>5. CASE \E resetMessages \in BOOLEAN : ResetConfig(resetMessages)
    BY <2>5, RestoreStep
  <2> QED BY <1>3, <2>1, <2>2, <2>3, <2>4, <2>5 DEF Click
<1>4. CASE UNCHANGED vars
  <2>1. /\ requests' = requests /\ sseSourceRef' = sseSourceRef /\ overlapped' = overlapped
      /\ nextId' = nextId /\ stored' = stored
        /\ message' = message /\ saves' = saves /\ saved' = saved /\ DialogKept
    BY <1>4 DEF vars, DialogKept
  <2> QED BY <2>1, SameListStep
<1> QED
  BY <1>1, <1>2, <1>3, <1>4 DEF Next

\* Every copy of the conversation, on the screen, in storage, in a pending save or
\* in a dialog, is sound; the answer of a request that is open alone is last; and
\* the copy that storage is about to hold has every streamed answer complete.
THEOREM ConversationInvariant == Spec => []PInv
<1>1. Init => PInv
  BY InitIsSound
<1>2. PInv /\ [Next]_vars => PInv'
  BY StepIsSound
<1> QED
  BY <1>1, <1>2, PTL DEF Spec

\* streamMessageUpdate and the other handlers put text into the last message only;
\* the text of a request that overlapped no other is found in its own answer, or
\* that answer is not in the conversation any more.
THEOREM TextIsOwn == Spec => []AnswersAreOwn
<1>1. PInv => AnswersAreOwn
  <2> SUFFICES ASSUME PInv PROVE AnswersAreOwn
    OBVIOUS
  <2>1. SoundList(message, Used, overlapped) /\ DOMAIN message = 1 .. Len(message)
    BY DEF PInv, ListsInv, Shapes
  <2> QED BY <2>1 DEF AnswersAreOwn, SoundList
<1> QED
  BY <1>1, ConversationInvariant, PTL

\* A message that is generating is the last one or one of overlapping requests, so
\* completeMessage, Stop and the repair at reload, which look at the last, reach it.
THEOREM LastIsGenerating == Spec => []GeneratingIsLast
<1>1. PInv => GeneratingIsLast
  BY DEF PInv, ListsInv, SoundList, GeneratingIsLast
<1> QED
  BY <1>1, ConversationInvariant, PTL

\* saveMessagesImmediately is scheduled whenever a streamed answer completes, and in
\* the order of the completions: unless the last setItem threw, an entry of
\* localStorage has every streamed answer of the screen complete.
THEOREM CompleteIsStored == Spec => []CompletedIsSaved
<1>1. PInv => CompletedIsSaved
  <2> SUFFICES ASSUME PInv, saves = <<>>, saved # <<>>, stored, NEW i \in DOMAIN message,
                      message[i].status = "complete", message[i].own # 0,
                      requests[message[i].own].kind = "sse",
                      message[i].text \subseteq {0, message[i].own}
               PROVE  \E j \in DOMAIN saved[1] :
                         saved[1][j].key = message[i].key /\ saved[1][j].status = "complete"
    BY DEF CompletedIsSaved
  <2>1. i \in 1 .. Len(message) /\ Streamed(message[i], requests)
    BY DEF PInv, Shapes, Streamed
  <2>2. Target = saved
    BY DEF Target
  <2>3. KeptIn(message[i], saved[1])
    BY <2>1, <2>2 DEF PInv, SavedInv
  <2>4. DOMAIN saved[1] = 1 .. Len(saved[1])
    <3>1. saved \in Seq(Seq(Messages)) /\ Len(saved) # 0 BY EmptySeq DEF PInv, Shapes
    <3>2. saved[1] \in Seq(Messages) BY <3>1
    <3> QED BY <3>2
  <2> QED BY <2>3, <2>4 DEF KeptIn
<1> QED
  BY <1>1, ConversationInvariant, PTL

\* A chunk, [DONE], an error or a fetched answer that comes after a message was
\* finished, by Stop for instance, leaves that message as it is.
THEOREM LateAnswersChangeNothing == Spec => FinishedIsFrozen
<1>1. PInv /\ [Next]_vars =>
        [Network => \A i \in DOMAIN message :
              message[i].status \in Finished => message'[i] = message[i]]_vars
  <2> SUFFICES ASSUME PInv, Network, NEW i \in DOMAIN message, message[i].status \in Finished
               PROVE  message'[i] = message[i]
    OBVIOUS
  <2>1. i \in 1 .. Len(message)
    BY MessageFollows
  <2> QED BY <2>1, NetworkStep DEF Frozen
<1> QED
  BY <1>1, ConversationInvariant, PTL DEF Spec, FinishedIsFrozen

\* The effect of the first render repairs the last message; whatever else still
\* waits for an answer belongs to a request that overlapped another.
THEOREM ReloadLeavesNothingOpen == Spec => ReloadRepairs
<1>1. PInv /\ [Next]_vars =>
        [Reload => \A i \in DOMAIN message' : message'[i].status \in Generating =>
                      i < Len(message') /\ message'[i].own \in overlapped]_vars
  <2> SUFFICES ASSUME PInv, Reload, NEW i \in DOMAIN message', message'[i].status \in Generating
               PROVE  i < Len(message') /\ message'[i].own \in overlapped
    OBVIOUS
  <2>1. CASE message' = DefaultMessages
    <3>1. i \in 1..2 BY <2>1, DefaultIsSound
    <3>2. SoundList(DefaultMessages, Used, {}) BY DefaultIsSound
    <3> QED BY <2>1, <3>1, <3>2, DefaultIsSound DEF SoundList
  <2>2. CASE message' = Repaired(saved[1]) /\ SoundList(saved[1], Used, overlapped)
    <3> DEFINE list == saved[1]
    <3>1. /\ SoundList(message', Used, overlapped) /\ Len(message') = Len(list)
          /\ list # <<>> => message'[Len(list)].status \notin Generating
      BY <2>2, RepairedIsSound
    <3>2. message' \in Seq(Messages) /\ i \in 1 .. Len(message') /\ Len(message') \in Nat
      BY <3>1 DEF SoundList
    <3>3. i # Len(message')
      <4>1. list # <<>> BY <3>1, <3>2, EmptySeq
      <4> QED BY <3>1, <4>1
    <3>4. i \in 1 .. Len(message') - 1 BY <3>2, <3>3
    <3> QED BY <3>1, <3>2, <3>4 DEF SoundList
  <2> QED BY <2>1, <2>2, ReloadFacts
<1> QED
  BY <1>1, ConversationInvariant, PTL DEF Spec, ReloadRepairs

-----------------------------------------------------------------------------
(* Types.                                                                  *)

\* The part of TypeOK that the invariant above does not say.
Counters ==
    /\ firstVisit \in BOOLEAN /\ restoring \in BOOLEAN /\ crashed \in BOOLEAN
    /\ resends \in 0..MaxRequests /\ regenerations \in 0..MaxRequests
    /\ editing \in Messages \cup {NoMessage} /\ clicks \in 0..MaxClicks
    /\ stored \in BOOLEAN

\* Pending saves grow by one or two within their bound, shrink, or are gone.
SavesBounded ==
    \/ saves' = saves \/ saves' = <<>> \/ \E list : saves' = <<list>>
    \/ saves # <<>> /\ saves' = Tail(saves)
    \/ Len(saves) < MaxSaves /\ \E list : saves' = Append(saves, list)
    \/ Len(saves) + 1 < MaxSaves /\ \E a, b : saves' = saves \o <<a, b>>

\* MaxSaves bounds the timers that wait.
LEMMA SavesStayBounded ==
  ASSUME PInv, Len(saves) <= MaxSaves, SavesBounded
  PROVE  Len(saves') <= MaxSaves
<1>1. saves \in Seq(Seq(Messages)) /\ Len(saves) \in Nat /\ MaxSaves \in Nat \ {0}
  BY PlaygroundConstants DEF PInv, Shapes
<1>2. CASE saves' = saves \/ saves' = <<>> \/ \E list : saves' = <<list>>
  <2>1. CASE saves' = <<>>
    <3>1. Len(saves') = 0 BY <2>1
    <3> QED BY <1>1, <3>1
  <2>2. ASSUME NEW list, saves' = <<list>> PROVE Len(saves') <= MaxSaves
    <3>1. Len(saves') = 1 BY <2>2
    <3> QED BY <1>1, <3>1
  <2> QED BY <1>2, <2>1, <2>2
<1>3. CASE saves # <<>> /\ saves' = Tail(saves)
  BY <1>1, <1>3
<1>4. CASE Len(saves) < MaxSaves /\ \E list : saves' = Append(saves, list)
  BY <1>1, <1>4
<1>5. ASSUME Len(saves) + 1 < MaxSaves, NEW a, NEW b, saves' = saves \o <<a, b>>
      PROVE  Len(saves') <= MaxSaves
  BY <1>1, <1>5
<1> QED
  BY <1>2, <1>3, <1>4, <1>5 DEF SavesBounded

\* Nothing is within every bound.
LEMMA ZeroIsTyped == 0 \in 0..MaxRequests /\ 0 \in 0..MaxClicks
  BY PlaygroundConstants

\* Every step keeps the types.
LEMMA TypesKept ==
  ASSUME PInv, Counters, Len(saves) <= MaxSaves, [Next]_vars
  PROVE  Counters' /\ Len(saves') <= MaxSaves
<1>0. MaxRequests \in Nat /\ MaxClicks \in Nat
  BY PlaygroundConstants
<1>1. clicks' \in 0..MaxClicks
  BY <1>0 DEF Next, vars, Counters
<1>2. ASSUME NEW i \in DOMAIN message PROVE message[i] \in Messages
  BY MessageFollows
<1>3. Cardinality(Used) \in Nat
  <2>1. IsFiniteSet(Requests) /\ Used \subseteq Requests
    BY PlaygroundConstants, FS_Interval DEF Requests, Used
  <2> QED BY <2>1, FS_Subset, FS_CardinalityType
<1>4. NextRequest + resends + regenerations \in Requests =>
        resends + 1 \in 0..MaxRequests /\ regenerations + 1 \in 0..MaxRequests
  BY <1>0, <1>3 DEF NextRequest, Counters, Requests
<1> DEFINE Others ==
    /\ firstVisit' \in BOOLEAN /\ restoring' \in BOOLEAN /\ crashed' \in BOOLEAN
    /\ resends' \in 0..MaxRequests /\ regenerations' \in 0..MaxRequests
    /\ editing' \in Messages \cup {NoMessage} /\ stored' \in BOOLEAN
    /\ SavesBounded
<1>5. ASSUME Network PROVE Others
  <2> PICK r \in Requests :
        \/ StreamChunk(r) \/ StreamDone(r) \/ StreamGarbage(r) \/ StreamError(r) \/ StreamEnd(r)
        \/ FetchAnswer(r, "complete") \/ FetchAnswer(r, "error") \/ FetchEmpty(r)
    BY <1>5 DEF Network
  <2>1. UNCHANGED page
    BY DEF StreamChunk, StreamDone, StreamGarbage, StreamError, StreamEnd, FetchAnswer, FetchEmpty
  <2>2. ASSUME NEW list, NEW status, CompleteMessage(list, status)
        PROVE  crashed' \in BOOLEAN /\ SavesBounded
    BY <2>2 DEF CompleteMessage, Complete, Save, Counters, SavesBounded
  <2>3. crashed' \in BOOLEAN /\ SavesBounded
    <3>1. CASE StreamDone(r)
      BY <2>2, <3>1 DEF StreamDone
    <3>2. CASE StreamGarbage(r)
      BY <2>2, <3>2 DEF StreamGarbage
    <3>3. CASE saves' = saves /\ crashed' = crashed
      BY <3>3 DEF SavesBounded, Counters
    <3> QED BY <3>1, <3>2, <3>3 DEF StreamChunk, StreamError, StreamEnd, FetchAnswer, FetchEmpty
  <2> QED BY <2>1, <2>3 DEF page, timers, Counters
<1>6. ASSUME NEW kind, NEW starts, OnMessageSend(kind, starts)
      PROVE  /\ firstVisit' \in BOOLEAN /\ crashed' \in BOOLEAN
             /\ editing' \in Messages \cup {NoMessage} /\ stored' \in BOOLEAN /\ SavesBounded
  BY <1>6 DEF OnMessageSend, Save, SavesBounded, Counters
<1>7. ASSUME Timer PROVE Others
  <2>1. CASE \E kind \in Kinds, starts \in BOOLEAN : ResendTimer(kind, starts)
    BY <1>0, <1>6, <2>1 DEF ResendTimer, Counters
  <2>2. CASE \E kind \in Kinds : RegenerateTimer(kind)
    BY <1>0, <2>2 DEF RegenerateTimer, Counters, SavesBounded
  <2>3. CASE RestoreTimer \/ \E works \in BOOLEAN : SaveTimer(works)
    BY <2>3 DEF SaveTimer, RestoreTimer, timers, Counters, SavesBounded
  <2> QED BY <1>7, <2>1, <2>2, <2>3 DEF Timer
<1>8. ASSUME Click PROVE Others
  <2>1. CASE \E kind \in Kinds, starts \in BOOLEAN : Send(kind, starts)
    BY <1>6, <2>1 DEF Send, timers, Counters
  <2>2. CASE Stop \/ Clear \/ ChangeLanguage
    BY <2>2 DEF Stop, Clear, ChangeLanguage, Save, page, timers, Counters, SavesBounded
  <2>3. CASE Reload
    <3>1. firstVisit' \in BOOLEAN
      <4>1. firstVisit' = (saved' = <<>>) BY <2>3 DEF Reload
      <4> QED BY <4>1, Zenon
    <3>2. /\ restoring' = FALSE /\ crashed' = FALSE /\ resends' = 0 /\ regenerations' = 0
          /\ editing' = NoMessage /\ stored' = TRUE
      BY <2>3 DEF Reload
    <3>3. SavesBounded
      BY <2>3, ReloadFacts DEF SavesBounded
    <3> QED BY <3>1, <3>2, <3>3, ZeroIsTyped
  <2>4. CASE \E i \in DOMAIN message : Reset(i) \/ AskDelete(i) \/ RoleToggle(i) \/ Edit(i)
    BY <1>2, <1>4, <2>4
       DEF Reset, AskDelete, RoleToggle, Edit, Save, page, timers, Counters, SavesBounded
  <2>5. CASE DeleteOk \/ DeleteCancel
    BY <2>5 DEF DeleteOk, DeleteCancel, Save, timers, Counters, SavesBounded
  <2>6. CASE EditSave \/ EditCancel \/ EditSaveOnly
    <3>1. SavesBounded
      BY <2>6 DEF EditSave, EditCancel, EditSaveOnly, Save, SavesBounded
    <3>2. /\ firstVisit' = firstVisit /\ UNCHANGED timers /\ crashed' = crashed
          /\ editing' \in {NoMessage, editing} /\ stored' = stored
      BY <2>6 DEF EditSave, EditCancel, EditSaveOnly
    <3> QED BY <1>0, <3>1, <3>2 DEF timers, Counters
  <2>7. CASE EditRegenerate
    BY <1>4, <2>7 DEF EditRegenerate, Save, Counters, SavesBounded
  <2>8. CASE \E resetMessages \in BOOLEAN : ResetConfig(resetMessages)
    BY <2>8 DEF ResetConfig, Counters, SavesBounded
  <2> QED BY <1>8, <2>1, <2>2, <2>3, <2>4, <2>5, <2>6, <2>7, <2>8 DEF Click
<1>9. ASSUME UNCHANGED vars PROVE Others
  BY <1>9 DEF vars, timers, Counters, SavesBounded
<1>10. Others
  BY <1>5, <1>7, <1>8, <1>9 DEF Next
<1> QED
  BY <1>1, <1>10, SavesStayBounded DEF Counters

\* Type correctness: every message on the screen, in storage and in a pending save
\* is a message of a request of this page, and timers never outnumber requests.
THEOREM TypeCorrect == Spec => []TypeOK
<1> DEFINE TInv == Counters /\ Len(saves) <= MaxSaves
<1>1. Init => TInv
  <2> SUFFICES ASSUME Init PROVE TInv
    OBVIOUS
  <2>1. saves = <<>> /\ Len(<<>>) = 0
    BY DEF Init
  <2>2. Len(saves) <= MaxSaves
    BY <2>1, PlaygroundConstants
  <2> QED BY <2>2, ZeroIsTyped DEF Init, Counters
<1>2. PInv /\ TInv /\ [Next]_vars => TInv'
  BY TypesKept
<1>3. PInv /\ TInv => TypeOK
  BY DEF PInv, Shapes, Counters, TypeOK, IsList
<1> QED
  BY <1>1, <1>2, <1>3, ConversationInvariant, PTL DEF Spec

=============================================================================
