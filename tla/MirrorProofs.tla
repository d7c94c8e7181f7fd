---------------------------- MODULE MirrorProofs ----------------------------
(***************************************************************************)
(* Every client's chat becomes the host's: Mirrored and OneReply of        *)
(* ChatSync, for every set of clients, every old transcript and every      *)
(* bound.                                                                  *)
(*                                                                         *)
(* A step is first told apart by what it does to messages (Kinds) and to   *)
(* rows (Reshapes).  A chat is then the set of its messages (Lines), and   *)
(* the invariant says that a client that follows lacks of the host's       *)
(* messages only what is on its way to it (Currents), because what is on   *)
(* its way is sound (Frames) and a turn on its way is its author's alone   *)
(* (Authored).                                                             *)
(***************************************************************************)
EXTENDS ChatSyncProofs, FiniteSetTheorems

USE ChatAssumption

-----------------------------------------------------------------------------
(* Words for queues and chats *)

\* What comes behind a frame in a queue.
After(q, j) == {q[k] : k \in {m \in DOMAIN q : m > j}}

\* The frames on their way from a client, and to it.
Up(c)   == Range(toHost[c])
Down(c) == Range(toClient[c])

\* There is a frame of this kind about this message.
About(F, op, id) == \E f \in F : f.op = op /\ f.row.id = id

\* The messages of a chat that carry an id.
Lines(s) == Range(s) \cap Said

Has(L, id) == \E row \in L : row.id = id

\* findIndex has nothing to choose from.
Single(s) == \A j, k \in DOMAIN s : s[j].id = s[k].id /\ s[j].id \in Ids => j = k

-----------------------------------------------------------------------------
(* Queues *)

\* A frame sent stands behind all others.
LEMMA AppendAfter ==
  ASSUME NEW S, NEW q \in Seq(S), NEW f
  PROVE  LET r == Append(q, f)
         IN  /\ Range(r) = Range(q) \cup {f}
             /\ \A k \in DOMAIN r :
                  \/ k \in DOMAIN q /\ r[k] = q[k] /\ After(r, k) = After(q, k) \cup {f}
                  \/ r[k] = f /\ After(r, k) = {}
<1> DEFINE n == Len(q)
<1> DEFINE r == Append(q, f)
<1>1. /\ n \in Nat /\ DOMAIN q = 1..n /\ DOMAIN r = 1..(n + 1)
      /\ r[n + 1] = f /\ \A k \in 1..n : r[k] = q[k]
  OBVIOUS
<1> HIDE DEF n, r
<1>2. Range(r) = Range(q) \cup {f}
  BY <1>1 DEF Range
<1>3. ASSUME NEW k \in 1..n
      PROVE  After(r, k) = After(q, k) \cup {f}
  <2>1. \A m \in 1..(n + 1) : m \in 1..n \/ m = n + 1
    BY <1>1
  <2>2. n + 1 \in {m \in DOMAIN r : m > k} /\ n \in Nat
    BY <1>1
  <2>3. \A x : x \in After(r, k) => x \in After(q, k) \cup {f}
    BY <1>1, <2>1 DEF After
  <2>4. \A x : x \in After(q, k) \cup {f} => x \in After(r, k)
    BY <1>1, <2>2 DEF After
  <2>5. QED
    BY <2>3, <2>4
<1>4. After(r, n + 1) = {}
  BY <1>1 DEF After
<1>5. \A k \in 1..(n + 1) : k \in 1..n \/ k = n + 1
  BY <1>1
<1>6. QED
  BY <1>1, <1>2, <1>3, <1>4, <1>5 DEF r

\* The head is taken off, and the rest keeps its order.
LEMMA TailAfter ==
  ASSUME NEW S, NEW q \in Seq(S), q # <<>>
  PROVE  LET r == Tail(q)
         IN  /\ 1 \in DOMAIN q /\ q[1] = Head(q) /\ After(q, 1) = Range(r)
             /\ Range(q) = Range(r) \cup {Head(q)}
             /\ \A k \in DOMAIN r : k + 1 \in DOMAIN q /\ r[k] = q[k + 1] /\ After(r, k) = After(q, k + 1)
<1> DEFINE n == Len(q) - 1
<1> DEFINE r == Tail(q)
<1>1. /\ n \in Nat /\ DOMAIN q = 1..(n + 1) /\ DOMAIN r = 1..n /\ q[1] = Head(q)
      /\ \A i \in 1..n : r[i] = q[i + 1]
  <2>1. Len(q) \in Nat /\ DOMAIN q = 1..Len(q) /\ Len(q) # 0
    OBVIOUS
  <2>2. r \in Seq(S) /\ Len(r) = n /\ \A i \in 1..Len(r) : r[i] = q[i + 1]
    BY HeadTailProperties
  <2>3. QED
    BY <2>1, <2>2
<1> HIDE DEF n, r
<1>2. \A m \in 2..(n + 1) : m - 1 \in 1..n /\ (m - 1) + 1 = m
  BY <1>1
<1>3. ASSUME NEW k \in 0..n
      PROVE  After(q, k + 1) = {r[m] : m \in {i \in 1..n : i > k}}
  <2> DEFINE R == {r[m] : m \in {i \in 1..n : i > k}}
  <2>1. ASSUME NEW x \in After(q, k + 1)
        PROVE  x \in R
    <3>1. PICK m \in DOMAIN q : m > k + 1 /\ x = q[m]
      BY <2>1 DEF After
    <3>2. m - 1 \in 1..n /\ (m - 1) + 1 = m /\ m - 1 > k
      BY <1>1, <3>1
    <3>3. x = r[m - 1]
      BY <1>1, <3>1, <3>2
    <3>4. QED
      BY <3>2, <3>3
  <2>2. ASSUME NEW x \in R
        PROVE  x \in After(q, k + 1)
    <3>1. PICK m \in 1..n : m > k /\ x = r[m]
      BY <2>2
    <3>2. m + 1 \in DOMAIN q /\ m + 1 > k + 1 /\ x = q[m + 1]
      BY <1>1, <3>1
    <3>3. QED
      BY <3>2 DEF After
  <2>3. QED
    BY <2>1, <2>2
<1>4. \A k \in 1..n : After(r, k) = {r[m] : m \in {i \in 1..n : i > k}}
  BY <1>1 DEF After
<1>5. Range(r) = {r[m] : m \in {i \in 1..n : i > 0}}
  BY <1>1 DEF Range
<1>6. After(q, 1) = Range(r)
  <2>1. 0 \in 0..n /\ 0 + 1 = 1
    BY <1>1
  <2>2. QED
    BY <1>3, <1>5, <2>1
<1>7. Range(q) = Range(r) \cup {Head(q)}
  <2>1. \A m \in 1..(n + 1) : m = 1 \/ m \in 2..(n + 1)
    BY <1>1
  <2>2. ASSUME NEW x \in Range(q)
        PROVE  x \in Range(r) \cup {Head(q)}
    <3>1. PICK m \in 1..(n + 1) : x = q[m]
      BY <1>1, <2>2 DEF Range
    <3>2. CASE m = 1
      BY <1>1, <3>1, <3>2
    <3>3. CASE m \in 2..(n + 1)
      <4>1. m - 1 \in 1..n /\ x = r[m - 1]
        BY <1>1, <1>2, <3>1, <3>3
      <4>2. QED
        BY <1>1, <4>1 DEF Range
    <3>4. QED
      BY <2>1, <3>1, <3>2, <3>3
  <2>3. \A x \in Range(r) \cup {Head(q)} : x \in Range(q)
    <3>1. 1 \in 1..(n + 1) /\ \A m \in 1..n : m + 1 \in 1..(n + 1)
      BY <1>1
    <3>2. QED
      BY <1>1, <3>1 DEF Range
  <2>4. QED
    BY <2>2, <2>3
<1>8. \A k \in 1..n : k + 1 \in 1..(n + 1) /\ k \in 0..n
  BY <1>1
<1>9. 1 \in DOMAIN q
  BY <1>1
<1>10. QED
  BY <1>1, <1>3, <1>4, <1>6, <1>7, <1>8, <1>9 DEF r

\* A queue that keeps its beginning.
LEMMA PrefixAfter ==
  ASSUME NEW S, NEW q \in Seq(S), NEW n \in 0..Len(q)
  PROVE  LET r == [k \in 1..n |-> q[k]]
         IN  /\ Range(r) \subseteq Range(q)
             /\ \A k \in DOMAIN r : k \in DOMAIN q /\ r[k] = q[k] /\ After(r, k) \subseteq After(q, k)
<1>1. DOMAIN q = 1..Len(q) /\ 1..n \subseteq 1..Len(q)
  OBVIOUS
<1>2. QED
  BY <1>1 DEF Range, After

-----------------------------------------------------------------------------
(* Chats *)

\* A row is a message with an id, or has no id of a message.
LEMMA RowSaid ==
  ASSUME NEW x \in Message \cup {Empty}
  PROVE  x.id \in Ids <=> x \in Said
<1>1. Stream \notin Ids /\ None \notin Ids /\ Empty.id = Stream
  BY DEF Ids, Empty
<1>2. QED
  BY <1>1, SaidTyped

\* A row at the end.
LEMMA LinesAppend ==
  ASSUME NEW s \in Seq(Message \cup {Empty}), NEW row
  PROVE  /\ Lines(Append(s, row)) = Lines(s) \cup ({row} \cap Said)
         /\ Single(s) /\ (row.id \in Ids => row \in Said /\ ~Has(Lines(s), row.id)) => Single(Append(s, row))
<1> DEFINE n == Len(s)
<1> DEFINE r == Append(s, row)
<1>1. /\ n \in Nat /\ DOMAIN s = 1..n /\ DOMAIN r = 1..(n + 1)
      /\ r[n + 1] = row /\ \A k \in 1..n : r[k] = s[k] /\ s[k] \in Message \cup {Empty}
  OBVIOUS
<1> HIDE DEF n, r
<1>2. \A k \in 1..(n + 1) : k \in 1..n \/ k = n + 1
  BY <1>1
<1>3. Range(r) = Range(s) \cup {row}
  BY <1>1 DEF Range
<1>4. ASSUME Single(s), row.id \in Ids => row \in Said /\ ~Has(Lines(s), row.id),
             NEW j \in DOMAIN r, NEW k \in DOMAIN r, r[j].id = r[k].id, r[j].id \in Ids
      PROVE  j = k
  <2>1. \A i \in 1..n : s[i].id \in Ids => s[i] \in Lines(s)
    BY <1>1, RowSaid DEF Lines, Range
  <2>2. \A i \in 1..n : s[i].id = row.id => row.id \notin Ids
    BY <1>4, <2>1 DEF Has
  <2>3. QED
    BY <1>1, <1>2, <1>4, <2>2 DEF Single
<1>5. QED
  BY <1>3, <1>4 DEF Lines, Single, r

\* A row is replaced by one with its id.
LEMMA LinesReword ==
  ASSUME NEW s \in Seq(Message \cup {Empty}), NEW k \in DOMAIN s, NEW row \in Said,
         s[k].id = row.id
  PROVE  LET r == [s EXCEPT ![k] = row]
         IN  /\ Lines(s) \subseteq Lines(r) \cup {x \in Said : x.id = row.id}
             /\ Lines(r) \subseteq Lines(s) \cup {row} /\ row \in Lines(r)
             /\ Has(Lines(s), row.id)
             /\ Single(s) => Single(r) /\ Lines(r) = {x \in Lines(s) : x.id # row.id} \cup {row}
<1> DEFINE r == [s EXCEPT ![k] = row]
<1>1. /\ DOMAIN r = DOMAIN s /\ r[k] = row
      /\ \A j \in DOMAIN s : j # k => r[j] = s[j]
      /\ \A j \in DOMAIN s : s[j] \in Message \cup {Empty}
  OBVIOUS
<1>2. s[k] \in Said
  <2>1. row.id \in Ids
    BY SaidTyped
  <2>2. QED
    BY <1>1, <2>1, RowSaid
<1> HIDE DEF r
<1>3. Lines(s) \subseteq Lines(r) \cup {x \in Said : x.id = row.id}
  BY <1>1 DEF Lines, Range
<1>4. Lines(r) \subseteq Lines(s) \cup {row} /\ row \in Lines(r)
  BY <1>1 DEF Lines, Range
<1>5. Has(Lines(s), row.id)
  BY <1>2 DEF Lines, Range, Has
<1>6. ASSUME Single(s)
      PROVE  Single(r) /\ Lines(r) = {x \in Lines(s) : x.id # row.id} \cup {row}
  <2>1. Single(r)
    BY <1>1, <1>6 DEF Single
  <2>2. \A x \in Lines(r) : x = row \/ x.id # row.id
    <3>1. SUFFICES ASSUME NEW j \in DOMAIN r, r[j] \in Said, r[j].id = row.id PROVE j = k
      BY <1>1 DEF Lines, Range
    <3>2. row.id \in Ids
      BY SaidTyped
    <3>3. QED
      BY <1>1, <2>1, <3>1, <3>2 DEF Single
  <2>3. QED
    BY <1>3, <1>4, <2>1, <2>2
<1>7. QED
  BY <1>3, <1>4, <1>5, <1>6 DEF r

\* A row is taken out.
LEMMA RemoveRows ==
  ASSUME NEW S, NEW s \in Seq(S), NEW k \in DOMAIN s
  PROVE  LET r == RemoveAtIndex(s, k)
         IN  /\ r \in Seq(S) /\ Len(r) = Len(s) - 1 /\ DOMAIN r = 1..(Len(s) - 1)
             /\ \A j \in DOMAIN r : LET i == IF j < k THEN j ELSE j + 1
                                    IN  i \in DOMAIN s /\ i # k /\ r[j] = s[i]
             /\ \A i \in DOMAIN s : i # k => LET j == IF i < k THEN i ELSE i - 1
                                             IN  j \in DOMAIN r /\ r[j] = s[i]
<1> DEFINE before == SubSeq(s, 1, k - 1)
<1> DEFINE after == SubSeq(s, k + 1, Len(s))
<1> DEFINE r == RemoveAtIndex(s, k)
<1>1. k \in 1..Len(s) /\ Len(s) \in Nat /\ k \in Nat /\ k - 1 \in Nat /\ DOMAIN s = 1..Len(s)
  OBVIOUS
<1>2. /\ before \in Seq(S) /\ Len(before) = k - 1
      /\ after \in Seq(S) /\ Len(after) = Len(s) - k
  BY <1>1
<1>3. \A j \in 1..(k - 1) : before[j] = s[j]
  BY <1>1
<1>4. ASSUME NEW j \in 1..(Len(s) - k)
      PROVE  after[j] = s[k + j]
  <2>1. /\ \A i \in (k + 1)..Len(s) : s[i] \in S
        /\ j \in 1..(Len(s) - (k + 1) + 1)
    BY <1>1
  <2>2. after[j] = s[k + 1 + j - 1]
    BY <1>1, <2>1, SubSeqProperties
  <2>3. k + 1 + j - 1 = k + j
    BY <1>1
  <2>4. QED
    BY <2>2, <2>3
<1>5. r = before \o after
  BY DEF RemoveAtIndex
<1> HIDE DEF before, after, r
<1>6. r \in Seq(S) /\ Len(r) = Len(s) - 1
  <2>1. r \in Seq(S) /\ Len(r) = Len(before) + Len(after)
    BY <1>2, <1>5, ConcatProperties
  <2>2. QED
    BY <1>1, <1>2, <2>1
<1>7. DOMAIN r = 1..(Len(s) - 1)
  BY <1>6
<1>8. ASSUME NEW j \in 1..(Len(s) - 1), j < k
      PROVE  r[j] = s[j]
  BY <1>1, <1>2, <1>3, <1>5, <1>8
<1>9. ASSUME NEW j \in 1..(Len(s) - 1), ~(j < k)
      PROVE  r[j] = s[j + 1]
  <2>1. /\ j \in 1..(Len(before) + Len(after)) /\ ~(j <= Len(before))
        /\ j - (k - 1) \in 1..(Len(s) - k) /\ k + (j - (k - 1)) = j + 1
        /\ j - Len(before) = j - (k - 1)
    BY <1>1, <1>2, <1>9
  <2>2. r[j] = after[j - Len(before)]
    BY <1>2, <1>5, <2>1, ConcatProperties
  <2>3. QED
    BY <1>4, <2>1, <2>2
<1>10. ASSUME NEW j \in DOMAIN r
       PROVE  LET i == IF j < k THEN j ELSE j + 1
              IN  i \in DOMAIN s /\ i # k /\ r[j] = s[i]
  BY <1>1, <1>7, <1>8, <1>9
<1>11. ASSUME NEW i \in DOMAIN s, i # k
       PROVE  LET j == IF i < k THEN i ELSE i - 1
              IN  j \in DOMAIN r /\ r[j] = s[i]
  <2>1. CASE i < k
    BY <1>1, <1>7, <1>8, <2>1
  <2>2. CASE ~(i < k)
    <3>1. i - 1 \in 1..(Len(s) - 1) /\ ~(i - 1 < k) /\ (i - 1) + 1 = i
      BY <1>1, <1>11, <2>2
    <3>2. QED
      BY <1>7, <1>9, <2>2, <3>1
  <2>3. QED
    BY <2>1, <2>2
<1>12. QED
  BY <1>6, <1>7, <1>10, <1>11 DEF r

\* What a chat holds without one of its rows.
LEMMA LinesRemove ==
  ASSUME NEW s \in Seq(Message \cup {Empty}), NEW k \in DOMAIN s
  PROVE  LET r == RemoveAtIndex(s, k)
         IN  /\ Lines(r) \subseteq Lines(s)
             /\ s[k] \notin Said => Lines(r) = Lines(s)
             /\ Single(s) => Single(r) /\ (s[k] \in Said => Lines(r) = {x \in Lines(s) : x.id # s[k].id})
<1> DEFINE r == RemoveAtIndex(s, k)
<1>1. /\ k \in Nat /\ DOMAIN s \subseteq Nat /\ DOMAIN r \subseteq Nat
      /\ \A j \in DOMAIN r : LET i == IF j < k THEN j ELSE j + 1
                             IN  i \in DOMAIN s /\ i # k /\ r[j] = s[i]
      /\ \A i \in DOMAIN s : i # k => \E j \in DOMAIN r : r[j] = s[i]
  <2>1. k \in Nat /\ DOMAIN s \subseteq Nat
    OBVIOUS
  <2>2. DOMAIN r \subseteq Nat
    <3>1. DOMAIN r = 1..(Len(s) - 1)
      BY RemoveRows
    <3>2. QED
      BY <3>1
  <2>3. \A j \in DOMAIN r : LET i == IF j < k THEN j ELSE j + 1
                             IN  i \in DOMAIN s /\ i # k /\ r[j] = s[i]
    BY RemoveRows
  <2>4. ASSUME NEW i \in DOMAIN s, i # k
        PROVE  \E j \in DOMAIN r : r[j] = s[i]
    <3> DEFINE j == IF i < k THEN i ELSE i - 1
    <3>1. j \in DOMAIN r /\ r[j] = s[i]
      BY <2>4, RemoveRows
    <3> HIDE DEF j, r
    <3>2. QED
      BY <3>1
  <2>5. QED
    BY <2>1, <2>2, <2>3, <2>4
<1> HIDE DEF r
<1>2. Lines(r) \subseteq Lines(s)
  BY <1>1 DEF Lines, Range
<1>3. Lines(s) \subseteq Lines(r) \cup {s[k]}
  BY <1>1 DEF Lines, Range
<1>4. s[k] \notin Said => Lines(r) = Lines(s)
  BY <1>2, <1>3 DEF Lines
<1>5. ASSUME Single(s), NEW i \in DOMAIN r, NEW j \in DOMAIN r, r[i].id = r[j].id, r[i].id \in Ids
      PROVE  i = j
  <2> DEFINE a == IF i < k THEN i ELSE i + 1
  <2> DEFINE b == IF j < k THEN j ELSE j + 1
  <2>1. a \in DOMAIN s /\ b \in DOMAIN s /\ r[i] = s[a] /\ r[j] = s[b]
    BY <1>1
  <2>2. a = b
    BY <1>5, <2>1 DEF Single
  <2>3. i \in Nat /\ j \in Nat /\ k \in Nat
    BY <1>1
  <2>4. QED
    BY <2>2, <2>3
<1>6. ASSUME Single(s), s[k] \in Said
      PROVE  Lines(r) = {x \in Lines(s) : x.id # s[k].id}
  <2>1. s[k].id \in Ids
    BY <1>6, SaidTyped
  <2>2. ASSUME NEW x \in Lines(r)
        PROVE  x.id # s[k].id
    <3>1. PICK j \in DOMAIN r : x = r[j]
      BY <2>2 DEF Lines, Range
    <3>2. PICK i \in DOMAIN s : i # k /\ x = s[i]
      BY <1>1, <3>1
    <3>3. QED
      BY <1>6, <2>1, <3>2 DEF Single
  <2>3. QED
    BY <1>2, <1>3, <2>2
<1>7. QED
  BY <1>2, <1>4, <1>5, <1>6 DEF Single, r

\* A set of messages with one of them reworded, and without one.
Rewrite(L, row) == IF Has(L, row.id) THEN {x \in L : x.id # row.id} \cup {row} ELSE L
Without(L, id) == {x \in L : x.id # id}

\* The chat of p has this row reworded, or this message taken out, where it has it.
Rewrites(p, row) ==
  /\ \A x \in Lines(rows'[p]) : Has(Lines(rows[p]), x.id)
  /\ Single(rows[p]) => Single(rows'[p]) /\ Lines(rows'[p]) = Rewrite(Lines(rows[p]), row)
Strikes(p, id) ==
  /\ \A x \in Lines(rows'[p]) : Has(Lines(rows[p]), x.id)
  /\ Single(rows[p]) => Single(rows'[p]) /\ Lines(rows'[p]) = Without(Lines(rows[p]), id)

\* findIndex finds the message that is there.
LEMMA FoundThere ==
  ASSUME TypeOK, NEW p \in Peer, NEW id \in Ids
  PROVE  /\ \A k \in Found(p, id) : k \in DOMAIN rows[p] /\ rows[p][k].id = id /\ rows[p][k] \in Said
         /\ Single(rows[p]) /\ Found(p, id) = {} => ~Has(Lines(rows[p]), id)
<1>1. rows[p] \in Seq(Message \cup {Empty}) /\ DOMAIN rows[p] = 1..Len(rows[p]) /\ Len(rows[p]) \in Nat
  BY DEF TypeOK
<1>2. \A k \in DOMAIN rows[p] : rows[p][k] \in Message \cup {Empty}
  BY <1>1
<1>3. ASSUME Single(rows[p]), Has(Lines(rows[p]), id)
      PROVE  Found(p, id) # {}
  <2>1. PICK k \in DOMAIN rows[p] : rows[p][k].id = id
    BY <1>3 DEF Has, Lines, Range
  <2>2. \A j \in 1..(k - 1) : j \in DOMAIN rows[p] /\ j # k
    BY <1>1
  <2>3. \A j \in 1..(k - 1) : rows[p][j].id # id
    BY <1>3, <2>1, <2>2 DEF Single
  <2>4. k \in Found(p, id)
    BY <2>1, <2>3 DEF Found
  <2>5. QED
    BY <2>4
<1>4. QED
  BY <1>2, <1>3, RowSaid DEF Found

\* A row that p rewords.
LEMMA RewordRewrites ==
  ASSUME TypeOK, NEW p \in Peer, NEW k \in DOMAIN rows[p], NEW row \in Said,
         rows[p][k].id = row.id, rows' = [rows EXCEPT ![p][k] = row]
  PROVE  Rewrites(p, row) /\ Has(Lines(rows[p]), row.id)
<1> DEFINE s == rows[p]
<1>1. s \in Seq(Message \cup {Empty}) /\ rows'[p] = [s EXCEPT ![k] = row] /\ k \in DOMAIN s
  BY DEF TypeOK
<1>2. /\ Has(Lines(rows[p]), row.id) /\ Lines(rows'[p]) \subseteq Lines(rows[p]) \cup {row}
      /\ Single(rows[p]) => /\ Single(rows'[p])
                            /\ Lines(rows'[p]) = {x \in Lines(rows[p]) : x.id # row.id} \cup {row}
  <2>0. s[k].id = row.id
    OBVIOUS
  <2> HIDE DEF s
  <2> DEFINE r == [s EXCEPT ![k] = row]
  <2>1. /\ Lines(r) \subseteq Lines(s) \cup {row} /\ Has(Lines(s), row.id)
        /\ Single(s) => Single(r) /\ Lines(r) = {x \in Lines(s) : x.id # row.id} \cup {row}
    BY <1>1, <2>0, LinesReword
  <2>2. rows'[p] = r
    BY <1>1
  <2> HIDE DEF r
  <2>3. QED
    BY <2>1, <2>2 DEF s
<1>3. \A x \in Lines(rows'[p]) : Has(Lines(rows[p]), x.id)
  BY <1>2 DEF Has
<1>4. QED
  BY <1>2, <1>3 DEF Rewrites, Rewrite

\* A message that p takes out.
LEMMA RemoveStrikes ==
  ASSUME TypeOK, NEW p \in Peer, NEW k \in DOMAIN rows[p], rows[p][k] \in Said,
         rows' = [rows EXCEPT ![p] = RemoveAtIndex(@, k)]
  PROVE  Strikes(p, rows[p][k].id)
<1>1. rows[p] \in Seq(Message \cup {Empty}) /\ rows'[p] = RemoveAtIndex(rows[p], k)
  BY DEF TypeOK
<1>2. /\ Lines(rows'[p]) \subseteq Lines(rows[p])
      /\ Single(rows[p]) => /\ Single(rows'[p])
                            /\ Lines(rows'[p]) = {x \in Lines(rows[p]) : x.id # rows[p][k].id}
  BY <1>1, LinesRemove
<1>3. \A x \in Lines(rows'[p]) : Has(Lines(rows[p]), x.id)
  BY <1>2 DEF Has
<1>4. QED
  BY <1>2, <1>3 DEF Strikes, Without

\* A chat nothing happens to, where the message is not found.
LEMMA NothingFound ==
  ASSUME TypeOK, NEW p \in Peer, NEW row \in Said, Found(p, row.id) = {}, rows' = rows
  PROVE  Rewrites(p, row) /\ Strikes(p, row.id)
<1>1. row.id \in Ids
  BY SaidTyped
<1>2. Single(rows[p]) => ~Has(Lines(rows[p]), row.id)
  BY <1>1, FoundThere
<1>3. \A x \in Lines(rows[p]) : Has(Lines(rows[p]), x.id)
  BY DEF Has
<1>4. Single(rows[p]) => Lines(rows[p]) = Without(Lines(rows[p]), row.id)
  BY <1>2 DEF Without, Has
<1>5. QED
  BY <1>2, <1>3, <1>4 DEF Rewrites, Strikes, Rewrite

\* applyRemoteEdit rewords the row in question.
LEMMA EditRewrites ==
  ASSUME TypeOK, NEW p \in Peer, NEW row \in Said, AppliesEdit(p, row)
  PROVE  Rewrites(p, row) /\ \A q \in Peer \ {p} : rows'[q] = rows[q]
<1>1. row.id \in Ids
  BY SaidTyped
<1>2. CASE Found(p, row.id) = {} /\ UNCHANGED <<rows, suppress>>
  BY <1>2, NothingFound
<1>3. CASE \E k \in Found(p, row.id) : rows' = [rows EXCEPT ![p][k] = row]
  <2>1. PICK k \in Found(p, row.id) : rows' = [rows EXCEPT ![p][k] = row]
    BY <1>3
  <2>2. k \in DOMAIN rows[p] /\ rows[p][k].id = row.id
    BY DEF Found
  <2>3. QED
    BY <2>1, <2>2, RewordRewrites DEF TypeOK
<1>4. QED
  BY <1>2, <1>3 DEF AppliesEdit

\* applyRemoteDelete takes the message out.
LEMMA DeleteStrikes ==
  ASSUME TypeOK, NEW p \in Peer, NEW f, f.row \in Said, AppliesDelete(p, f)
  PROVE  Strikes(p, f.row.id) /\ \A q \in Peer \ {p} : rows'[q] = rows[q]
<1>1. f.row.id \in Ids /\ f.row.id # None
  BY SaidTyped DEF Ids
<1>2. Target(p, f) = Found(p, f.row.id)
  BY <1>1 DEF Target
<1>3. CASE Found(p, f.row.id) = {} /\ UNCHANGED <<rows, suppress>>
  BY <1>3, NothingFound
<1>4. CASE \E k \in Found(p, f.row.id) : rows' = [rows EXCEPT ![p] = RemoveAtIndex(@, k)]
  <2>1. PICK k \in Found(p, f.row.id) : rows' = [rows EXCEPT ![p] = RemoveAtIndex(@, k)]
    BY <1>4
  <2>2. k \in DOMAIN rows[p] /\ rows[p][k].id = f.row.id /\ rows[p][k] \in Said
    BY <1>1, FoundThere
  <2>3. Strikes(p, rows[p][k].id)
    BY <2>1, <2>2, RemoveStrikes
  <2>4. \A q \in Peer \ {p} : rows'[q] = rows[q]
    BY <2>1 DEF TypeOK
  <2>5. QED
    BY <2>2, <2>3, <2>4
<1>5. QED
  BY <1>2, <1>3, <1>4 DEF AppliesDelete

\* A placeholder is no message.
LEMMA ClearedLines ==
  ASSUME NEW c \in Client, NEW s \in Seq(Message \cup {Empty})
  PROVE  Lines(Cleared(c, s)) = Lines(s) /\ (Single(s) => Single(Cleared(c, s)))
<1>1. \A row \in Said : row.id # Stream
  BY SaidTyped DEF Ids
<1>2. QED
  BY <1>1, LinesRemove DEF Cleared

-----------------------------------------------------------------------------
(* What a client knows of the host's whereabouts *)

Comes(F, op) == \E f \in F : f.op = op

\* Every "enter" is taken back by an "exit" behind it.
Recalled(q) == \A k \in DOMAIN q : q[k].op = "enter" => Comes(After(q, k), "exit")

\* A client that is not there is not in the session; and when the host is in another
\* chat, every client has been told, or will be by the last it is sent about it.
HostLeft ==
  /\ active \subseteq online
  /\ ~hostIn => \A c \in Client : Recalled(toClient[c]) /\ (c \in active => Comes(Down(c), "exit"))

\* An "exit" sent recalls every "enter" before it; what else is sent takes nothing
\* back.
LEMMA RecalledAppend ==
  ASSUME NEW q \in Seq(Frame), NEW f
  PROVE  LET r == Append(q, f)
         IN  /\ Recalled(q) /\ f.op # "enter" => Recalled(r)
             /\ f.op = "exit" => Recalled(r) /\ Comes(Range(r), "exit")
             /\ Comes(Range(q), "exit") => Comes(Range(r), "exit")
<1> DEFINE r == Append(q, f)
<1>1. /\ Range(r) = Range(q) \cup {f}
      /\ \A k \in DOMAIN r :
           \/ k \in DOMAIN q /\ r[k] = q[k] /\ After(r, k) = After(q, k) \cup {f}
           \/ r[k] = f /\ After(r, k) = {}
  BY AppendAfter
<1> HIDE DEF r
<1>2. QED
  BY <1>1 DEF Recalled, Comes, r

\* Reading a queue from the front leaves what recalls an "enter" behind it.
LEMMA RecalledTail ==
  ASSUME NEW q \in Seq(Frame), q # <<>>, Recalled(q)
  PROVE  LET r == Tail(q)
         IN  /\ Recalled(r)
             /\ Head(q).op = "enter" => Comes(Range(r), "exit")
             /\ Comes(Range(q), "exit") /\ Head(q).op # "exit" => Comes(Range(r), "exit")
<1> DEFINE r == Tail(q)
<1>1. /\ 1 \in DOMAIN q /\ q[1] = Head(q) /\ After(q, 1) = Range(r)
      /\ Range(q) = Range(r) \cup {Head(q)}
      /\ \A k \in DOMAIN r : k + 1 \in DOMAIN q /\ r[k] = q[k + 1] /\ After(r, k) = After(q, k + 1)
  BY TailAfter
<1> HIDE DEF r
<1>2. QED
  BY <1>1 DEF Recalled, Comes, r

\* At the start the host is in the chat and every active client is online.
LEMMA InitLeft == Init => HostLeft
BY DEF Init, HostLeft

\* Nothing is said about the host's whereabouts.
LEMMA LeftAlone ==
  ASSUME TypeOK, HostLeft, active' = active, online' = online, hostIn' = hostIn,
         \A c \in Client :
           \/ toClient'[c] = toClient[c]
           \/ \E f \in Frame : f.op # "enter" /\ toClient'[c] = Append(toClient[c], f)
           \/ /\ toClient[c] # <<>> /\ toClient'[c] = Tail(toClient[c])
              /\ Head(toClient[c]).op # "exit"
  PROVE  HostLeft'
<1> SUFFICES ASSUME ~hostIn, NEW c \in Client
             PROVE  Recalled(toClient'[c]) /\ (c \in active => Comes(Range(toClient'[c]), "exit"))
  BY DEF HostLeft, Down
<1>1. /\ toClient[c] \in Seq(Frame) /\ Recalled(toClient[c])
      /\ c \in active => Comes(Range(toClient[c]), "exit")
  BY DEF HostLeft, Down, TypeOK
<1>2. QED
  BY <1>1, RecalledAppend, RecalledTail

\* A broadcast of anything but an "enter" says nothing about the host's whereabouts.
LEMMA BroadcastLeft ==
  ASSUME TypeOK, HostLeft, active' = active, online' = online, hostIn' = hostIn,
         NEW f \in Frame, f.op # "enter", Broadcast(<<f>>)
  PROVE  HostLeft'
BY BroadcastAppends, LeftAlone

\* Reading anything but an "exit" leaves the news of the host's leaving on its way.
LEMMA GetsLeft ==
  ASSUME TypeOK, HostLeft, active' = active, online' = online, hostIn' = hostIn,
         NEW c \in Client, NEW op, op # "exit", Gets(c, op)
  PROVE  HostLeft'
<1>1. \A d \in Client : toClient'[d] = IF d = c THEN Tail(toClient[c]) ELSE toClient[d]
  BY DEF Gets, TypeOK
<1>2. QED
  BY <1>1, LeftAlone DEF Gets

\* The host leaves or comes back, and says so.
LEMMA MovesLeft ==
  ASSUME TypeOK, HostLeft, StreamOrder, HostMoves
  PROVE  HostLeft'
<1>1. /\ hostIn' = ~hostIn /\ active' = active /\ online' = online
      /\ Broadcast(<<Signal(IF hostIn THEN "exit" ELSE "enter")>>)
  BY DEF HostMoves, clientVars
<1>2. CASE hostIn
  <2>1. Signal("exit") \in Frame /\ Signal("exit").op = "exit"
    BY FramesTyped DEF Signals, Signal, Msg
  <2>2. \A c \in Client : c \in online =>
          Recalled(toClient'[c]) /\ Comes(Range(toClient'[c]), "exit")
    <3> SUFFICES ASSUME NEW c \in Client, c \in online
                 PROVE  Recalled(toClient'[c]) /\ Comes(Range(toClient'[c]), "exit")
      OBVIOUS
    <3>1. toClient'[c] = Append(toClient[c], Signal("exit")) /\ toClient[c] \in Seq(Frame)
      BY <1>1, <1>2, <2>1, BroadcastAppends DEF TypeOK
    <3>2. QED
      BY <2>1, <3>1, RecalledAppend
  <2>3. \A c \in Client : c \notin online => Recalled(toClient'[c])
    BY <1>1, <1>2, <2>1, BroadcastAppends DEF StreamOrder, Recalled
  <2>4. QED
    BY <1>1, <2>2, <2>3 DEF HostLeft, Down
<1>3. CASE ~hostIn
  BY <1>1, <1>3 DEF HostLeft
<1>4. QED
  BY <1>2, <1>3

\* A client whose connection is lost is out of the session, with its queue.
LEMMA DropsLeft ==
  ASSUME TypeOK, HostLeft, NEW c \in Client, Drops(c)
  PROVE  HostLeft'
<1>1. /\ active' = active \ {c} /\ online' = online \ {c} /\ hostIn' = hostIn
      /\ toClient'[c] = <<>> /\ \A d \in Client : d # c => toClient'[d] = toClient[d]
  BY DEF Drops, hostVars, TypeOK
<1>2. Recalled(<<>>)
  BY DEF Recalled
<1>3. QED
  BY <1>1, <1>2 DEF HostLeft, Down

\* A client hears that the host came, or left.
LEMMA SwitchLeft ==
  ASSUME TypeOK, HostLeft, StreamOrder, NEW c \in Client, ClientEnters(c) \/ ClientExits(c)
  PROVE  HostLeft'
<1>1. /\ toClient[c] # <<>> /\ toClient[c] \in Seq(Frame)
      /\ online' = online /\ hostIn' = hostIn /\ c \in online
      /\ \A d \in Client : toClient'[d] = IF d = c THEN Tail(toClient[c]) ELSE toClient[d]
  BY DEF ClientEnters, ClientExits, Gets, hostVars, TypeOK, StreamOrder
<1>2. \/ Head(toClient[c]).op = "enter" /\ active' = active \cup {c}
      \/ active' = active \ {c}
  BY DEF ClientEnters, ClientExits, Gets
<1>3. ASSUME ~hostIn, NEW d \in Client
      PROVE  Recalled(toClient'[d]) /\ (d \in active' => Comes(Range(toClient'[d]), "exit"))
  <2>1. CASE d # c
    BY <1>1, <1>2, <1>3, <2>1 DEF HostLeft, Down
  <2>2. CASE d = c
    <3>1. Recalled(toClient[c])
      BY <1>3 DEF HostLeft
    <3>2. QED
      BY <1>1, <1>2, <2>2, <3>1, RecalledTail
  <2>3. QED
    BY <2>1, <2>2
<1>4. active' \subseteq online'
  BY <1>1, <1>2 DEF HostLeft
<1>5. QED
  BY <1>1, <1>3, <1>4 DEF HostLeft, Down

\* A republication away from the session's chat says so.
LEMMA RepublishLeft ==
  ASSUME TypeOK, HostLeft, NEW c \in Client, HostTakesRepublish(c)
  PROVE  HostLeft'
<1>1. active' = active /\ online' = online /\ hostIn' = hostIn
  BY DEF HostTakesRepublish, hostVars, clientVars
<1> SUFFICES ASSUME ~hostIn, NEW d \in Client
             PROVE  Recalled(toClient'[d]) /\ (d \in active => Comes(Range(toClient'[d]), "exit"))
  BY <1>1 DEF HostLeft, Down
<1>2. /\ toClient[d] \in Seq(Frame) /\ Recalled(toClient[d])
      /\ d \in active => Comes(Range(toClient[d]), "exit")
  BY DEF HostLeft, Down, TypeOK
<1>3. CASE toClient'[d] = toClient[d]
  BY <1>2, <1>3
<1>4. CASE toClient'[d] # toClient[d]
  <2> DEFINE e == Signal("exit")
  <2> DEFINE t == Transcript(rows[Host])
  <2>1. toClient'[d] = toClient[d] \o <<e, t>>
    BY <1>4 DEF HostTakesRepublish, TypeOK
  <2>2. e \in Frame /\ t \in Frame /\ e.op = "exit" /\ t.op = "state"
    BY FramesTyped DEF Signals, Signal, Msg, Transcript, TypeOK
  <2> HIDE DEF e, t
  <2>3. toClient'[d] = Append(Append(toClient[d], e), t)
    BY <1>2, <2>1, <2>2
  <2>4. Append(toClient[d], e) \in Seq(Frame)
    BY <1>2, <2>2
  <2>5. Recalled(Append(toClient[d], e)) /\ Comes(Range(Append(toClient[d], e)), "exit")
    BY <1>2, <2>2, RecalledAppend
  <2>6. QED
    BY <2>2, <2>3, <2>4, <2>5, RecalledAppend
<1>5. QED
  BY <1>3, <1>4

\* Every step keeps what the clients know, or will hear, of the host's whereabouts.
LEMMA StepLeft ==
  ASSUME TypeOK, StreamOrder, HostLeft, [Next]_vars
  PROVE  HostLeft'
<1> USE DEF peerVars, netVars, clientVars, hostVars, runVars
<1>0. /\ \A op \in Signals : Signal(op) \in Frame /\ Signal(op).op = op
      /\ \A row : Msg("append", row).op = "append"
  BY FramesTyped DEF Signal, Msg
<1>1. CASE toClient' = toClient /\ active' = active /\ online' = online /\ hostIn' = hostIn
  BY <1>1, LeftAlone
<1>2. CASE hostIn' /\ active' = active /\ online' = online
  BY <1>2 DEF HostLeft
<1>3. CASE UNCHANGED vars
  BY <1>1, <1>3 DEF vars
<1>4. CASE Users
  <2>1. CASE \E t \in Texts : HostSays(t)
    BY <1>2, <2>1 DEF HostSays, HostPosts
  <2>2. CASE \E t \in Texts, c \in Client : ClientSays(c, t)
    BY <1>1, <2>2 DEF ClientSays
  <2>3. CASE \E p \in Peer : \E k \in DOMAIN rows[p] :
               DeletesRow(p, k) \/ \E t \in Texts : EditsRow(p, k, t)
    <3>1. PICK p \in Peer : \E k \in DOMAIN rows[p] :
               DeletesRow(p, k) \/ \E t \in Texts : EditsRow(p, k, t)
      BY <2>3
    <3>2. CASE p = Host
      <4>1. PICK k \in DOMAIN rows[p] : DeletesRow(p, k) \/ \E t \in Texts : EditsRow(p, k, t)
        BY <3>1
      <4>2. CASE DeletesRow(p, k)
        BY <1>2, <3>2, <4>2 DEF DeletesRow, CanChange
      <4>3. ASSUME NEW t \in Texts, EditsRow(p, k, t)
            PROVE  HostLeft'
        BY <1>2, <3>2, <4>3 DEF EditsRow, CanChange
      <4>4. QED
        BY <4>1, <4>2, <4>3
    <3>3. CASE p # Host
      BY <1>1, <3>1, <3>3 DEF DeletesRow, EditsRow, Publish
    <3>4. QED
      BY <3>2, <3>3
  <2>4. CASE \E c \in Client : ClientMoves(c) \/ ClientAsks(c)
    BY <1>1, <2>4 DEF ClientMoves, ClientAsks
  <2>5. CASE \E c \in Client : Drops(c)
    BY <2>5, DropsLeft
  <2>6. CASE HostMoves
    BY <2>6, MovesLeft
  <2>7. CASE GenStarts
    BY <1>2, <2>7 DEF GenStarts
  <2>8. QED
    BY <1>4, <2>1, <2>2, <2>3, <2>4, <2>5, <2>6, <2>7 DEF Users
<1>5. CASE Generation
  <2>1. CASE GenStreams
    BY <1>1, <2>1 DEF GenStreams
  <2>2. CASE TokenTimer
    BY <1>1, <1>2, <2>2 DEF TokenTimer
  <2>3. CASE GenEnds
    BY <1>0, <2>3, BroadcastLeft DEF GenEnds, Signals
  <2>4. CASE \E t \in Texts : GenLands(t)
    BY <1>2, <2>4 DEF GenLands, HostPosts
  <2>5. QED
    BY <1>5, <2>1, <2>2, <2>3, <2>4 DEF Generation
<1>6. CASE HostRoutes
  <2>1. CASE SaveDone
    <3>1. Msg("append", saved) \in Frame
      BY <2>1, FramesTyped DEF SaveDone, TypeOK
    <3>2. QED
      BY <1>0, <2>1, <3>1, BroadcastLeft DEF SaveDone
  <2>2. CASE ReplyDone
    BY <1>1, <2>2 DEF ReplyDone
  <2>3. ASSUME NEW c \in Client, HostAway(c) \/ HostTakesTurn(c) \/ HostTakesRequest(c)
        PROVE  HostLeft'
    BY <1>1, <2>3 DEF HostAway, HostTakesTurn, HostTakesRequest
  <2>4. ASSUME NEW c \in Client, HostTakesEdit(c) \/ HostTakesDelete(c) \/ HostTakesJoin(c)
        PROVE  HostLeft'
    BY <1>2, <2>4 DEF HostTakesEdit, HostTakesDelete, HostTakesJoin
  <2>5. ASSUME NEW c \in Client, HostTakesRepublish(c)
        PROVE  HostLeft'
    BY <2>5, RepublishLeft
  <2>6. QED
    BY <1>6, <2>1, <2>2, <2>3, <2>4, <2>5 DEF HostRoutes
<1>7. ASSUME NEW c \in Client, Returns(c)
      PROVE  HostLeft'
  BY <1>7 DEF Returns, HostLeft, Down
<1>8. ASSUME NEW c \in Client, ClientRoutes(c)
      PROVE  HostLeft'
  <2>1. CASE ClientEnters(c) \/ ClientExits(c)
    BY <2>1, SwitchLeft
  <2>2. CASE ClientIgnores(c)
    BY <2>2, GetsLeft DEF ClientIgnores
  <2>3. CASE ClientGetsAppend(c) \/ ClientGetsEdit(c) \/ ClientGetsDelete(c) \/ ClientGetsState(c)
    <3>1. /\ active' = active /\ online' = online /\ hostIn' = hostIn
          /\ \E op \in {"append", "edit", "delete", "state"} : Gets(c, op)
      BY <2>3 DEF ClientGetsAppend, ClientGetsEdit, ClientGetsDelete, ClientGetsState
    <3>2. QED
      BY <3>1, GetsLeft
  <2>4. CASE StreamBegins(c) \/ ClientGetsToken(c) \/ StreamEnds(c)
    <3>1. /\ active' = active /\ online' = online /\ hostIn' = hostIn
          /\ \E op \in {"start", "token", "end"} : Gets(c, op)
      BY <2>4 DEF StreamBegins, ClientGetsToken, StreamEnds
    <3>2. QED
      BY <3>1, GetsLeft
  <2>5. QED
    BY <1>8, <2>1, <2>2, <2>3, <2>4 DEF ClientRoutes
<1>9. CASE \E p \in Peer, id \in Ids : Forgets(p, id)
  BY <1>1, <1>9 DEF Forgets
<1>10. QED
  BY <1>3, <1>4, <1>5, <1>6, <1>7, <1>8, <1>9 DEF Next

-----------------------------------------------------------------------------
(* What a step does to the chats: the state the invariant is about *)

\* The users wait for the transcript, for their saves, and for what a remote change
\* has just touched; they leave what carries no id alone.
Careful == Events \cap {"early", "hasty", "careless", "old"} = {}

\* Where the host's replies are shown as they are written, nobody deletes: a delete
\* in front of a placeholder shifts it from under its index.
Apart == "reply" \notin Events \/ "delete" \notin Events

\* What is shared: the messages of the host's chat.
Shared == Lines(rows[Host])

\* What a frame says of messages.
Words(f) ==
  IF f.op = "state" THEN Lines(f.log) ELSE IF f.op \in {"append", "edit"} THEN {f.row} ELSE {}

\* The frames about one message each.
Spoken(F) == {f \in F : f.op \in {"turn", "append", "edit", "delete"}}

\* No chat and no frame is about a message that was not written, and what the host
\* sends as new, or as its transcript, has been in its chat.
KnownAt(c) ==
  /\ applied[c] \subseteq 1..last
  /\ \A row \in Lines(rows[c]) : row.id \in 1..last
  /\ \A f \in Up(c) : f.op \in {"turn", "edit", "delete"} => f.row.id \in 1..last
  /\ \A f \in Down(c) :
       /\ f.op \in {"edit", "delete"} => f.row.id \in 1..last
       /\ \A row \in Words(f) : f.op # "edit" => row.id \in posted

\* What is posted was written, what the host shows was posted, and what is being saved
\* is shown.
Known ==
  /\ posted \subseteq 1..last
  /\ \A row \in Shared : row.id \in posted
  /\ saved # Empty => saved \in Shared
  /\ \A c \in Client : KnownAt(c)

\* How a queue to the host changes without a new turn: what stands before a turn
\* stood there before.
Lags(q, r) ==
  \A k \in DOMAIN r :
    \/ r[k].op \notin {"edit", "delete", "join", "republish"} \/ After(r, k) = {}
    \/ \E j \in DOMAIN q : r[k] = q[j] /\ \A g \in After(r, k) : g.op = "turn" => g \in After(q, j)

\* How a queue to a client changes without news of a message.
Trims(q, r) ==
  \A k \in DOMAIN r :
    \/ r[k].op \in Signals
    \/ \E j \in DOMAIN q : r[k] = q[j] /\ Spoken(After(r, k)) = Spoken(After(q, j))

\* Nobody comes or goes; nothing becomes of the chat of c.
Stays    == UNCHANGED <<online, active, open>>
Rests(c) == rows'[c] = rows[c] /\ applied'[c] = applied[c]

\* The broadcast of a frame.
Heard(f) ==
  \A c \in Client : toClient'[c] = IF c \in online THEN Append(toClient[c], f) ELSE toClient[c]

\* Nothing becomes of the messages of c.
Idles(c) ==
  /\ Lines(rows'[c]) = Lines(rows[c]) /\ (Single(rows[c]) => Single(rows'[c]))
  /\ applied'[c] \subseteq applied[c]
  /\ Lags(toHost[c], toHost'[c]) /\ Spoken(Up(c)') \subseteq Up(c)
  /\ Trims(toClient[c], toClient'[c])
  /\ Following(c)' =>
       /\ Following(c) /\ applied'[c] = applied[c]
       /\ Spoken(Up(c)') = Spoken(Up(c)) /\ Spoken(Down(c)') = Spoken(Down(c))

\* Nothing is said about a message.
NoNews ==
  /\ UNCHANGED <<posted, last, saved>> /\ Shared' = Shared
  /\ \A c \in Client : Idles(c)

\* The host says something.
Adds(row) ==
  /\ row \in Said /\ row.id = last + 1 /\ last' = last + 1 /\ posted' = posted \cup {row.id}
  /\ saved' = saved /\ Shared' = Shared \cup {row}
  /\ Heard(Msg("append", row)) /\ toHost' = toHost
  /\ Stays /\ \A c \in Client : Rests(c)

\* The host takes a turn into its chat and begins to save it.
Accepts(d, row) ==
  /\ Takes(d, "turn") /\ row = Head(toHost[d]).row
  /\ saved = Empty /\ saved' = row /\ posted' = posted \cup {row.id} /\ last' = last
  /\ Shared' = Shared \cup {row} /\ toClient' = toClient
  /\ Stays /\ \A c \in Client : Rests(c)

\* The turn is saved and sent to everyone.
Announces ==
  /\ saved # Empty /\ saved' = Empty /\ UNCHANGED <<rows, applied, posted, last>>
  /\ Heard(Msg("append", saved)) /\ toHost' = toHost /\ Stays

\* The host changes a row itself, or as a client asked.
Meant(op, row) ==
  \/ op \in Events /\ toHost' = toHost /\ Has(Shared, row.id)
  \/ \E d \in Client : Takes(d, op) /\ Head(toHost[d]).row = row

\* A row of the host's chat is reworded, and everyone is told.
Corrects(row) ==
  /\ row \in Said /\ Meant("edit", row)
  /\ Shared' = Rewrite(Shared, row) /\ saved' = Reworded(row) /\ UNCHANGED <<posted, last>>
  /\ Heard(Msg("edit", row)) /\ Stays /\ \A c \in Client : Rests(c)

\* A row of the host's chat is deleted, and everyone is told.
Removes(f) ==
  /\ f.op = "delete" /\ f.row \in Said /\ f.row.id # saved.id /\ Meant("delete", f.row)
  /\ Shared' = Without(Shared, f.row.id) /\ UNCHANGED <<posted, last, saved>>
  /\ Heard(f) /\ Stays /\ \A c \in Client : Rests(c)

\* The host answers c with its transcript, or has nobody to answer.
Answers(c) ==
  /\ \E op \in {"join", "republish"} : Takes(c, op)
  /\ saved = Empty /\ UNCHANGED <<rows, applied, posted, last, saved>> /\ Stays
  /\ \A d \in Client \ {c} : toClient'[d] = toClient[d]
  /\ IF c \notin online
     THEN toClient'[c] = toClient[c]
     ELSE \E q \in Seq(Frame) :
            /\ q = toClient[c] \/ \E f \in Frame : f.op \in Signals /\ q = Append(toClient[c], f)
            /\ toClient'[c] = Append(q, Transcript(rows[Host]))

\* Only c does something.
Alone(c) ==
  /\ rows'[Host] = rows[Host] /\ UNCHANGED <<posted, saved>> /\ Stays
  /\ \A d \in Client \ {c} : Rests(d) /\ toHost'[d] = toHost[d] /\ toClient'[d] = toClient[d]

\* A client writes a turn; it edits or deletes a row of its own chat.
Says(c, row) ==
  /\ Alone(c) /\ Viewing(c) /\ ~Awaiting(c)
  /\ row \in Said /\ row.id = last + 1 /\ last' = last + 1
  /\ rows'[c] = Append(rows[c], row) /\ applied'[c] = applied[c] \cup {row.id}
  /\ toHost'[c] = Append(toHost[c], Msg("turn", row)) /\ toClient'[c] = toClient[c]

CorrectsOwn(c, row) ==
  /\ Alone(c) /\ row \in Said /\ Has(Lines(rows[c]), row.id) /\ Rewrites(c, row)
  /\ applied'[c] = applied[c] /\ last' = last
  /\ toHost'[c] = Append(toHost[c], Msg("edit", row)) /\ toClient'[c] = toClient[c]

RemovesOwn(c, f) ==
  /\ Alone(c) /\ f.op = "delete" /\ f.op \in Events
  /\ f.row \in Said /\ Has(Lines(rows[c]), f.row.id)
  /\ Strikes(c, f.row.id)
  /\ applied'[c] = applied[c] /\ last' = last
  /\ toHost'[c] = Append(toHost[c], f) /\ toClient'[c] = toClient[c]

\* c is told of a message, of its new wording, that it is gone, or everything.
Hears(c, op) == Alone(c) /\ last' = last /\ toHost' = toHost /\ Gets(c, op)

HearsAppend(c) ==
  /\ Hears(c, "append")
  /\ IF Got(c).id \in applied[c]
     THEN Rests(c)
     ELSE /\ applied'[c] = applied[c] \cup {Got(c).id}
          /\ Lines(rows'[c]) = Lines(rows[c]) \cup {Got(c)}
          /\ Single(rows[c]) /\ ~Has(Lines(rows[c]), Got(c).id) => Single(rows'[c])

HearsEdit(c)   == Hears(c, "edit") /\ Rewrites(c, Got(c)) /\ applied'[c] = applied[c]

HearsDelete(c) ==
  Hears(c, "delete") /\ Got(c) \in Said /\ Strikes(c, Got(c).id) /\ applied'[c] = applied[c]

HearsState(c) ==
  /\ Hears(c, "state")
  /\ LET log == Head(toClient[c]).log
     IN  /\ rows'[c] = log
         /\ applied'[c] = applied[c] \cup ({log[k].id : k \in DOMAIN log} \ {None})

\* The kinds of steps there are, as far as messages are concerned.
Kinds ==
  \/ NoNews
  \/ \E row \in Said : Adds(row) \/ Corrects(row)
  \/ \E f \in Frame : Removes(f)
  \/ Announces
  \/ \E c \in Client :
       \/ Answers(c)
       \/ HearsAppend(c) \/ HearsEdit(c) \/ HearsDelete(c) \/ HearsState(c)
       \/ \E row \in Said : Accepts(c, row) \/ Says(c, row) \/ CorrectsOwn(c, row)
       \/ \E f \in Frame : RemovesOwn(c, f)

-----------------------------------------------------------------------------
(* Queues and kinds of steps *)

\* How a queue changes by signals alone, which do not say who is where.
Minor == {"request", "orphan", "start", "token", "end"}

Signalled(q, r) ==
  \/ r = q
  \/ \E f \in Frame : f.op \in Signals /\ r = Append(q, f)
  \/ q # <<>> /\ r = Tail(q) /\ Head(q).op \in Minor

\* Reading a queue from the front takes nothing from behind a frame that stays.
LEMMA TailsLag ==
  ASSUME NEW q \in Seq(Frame), q # <<>>
  PROVE  LET r == Tail(q)
         IN  Lags(q, r) /\ Trims(q, r) /\ Range(q) = Range(r) \cup {Head(q)}
<1> DEFINE r == Tail(q)
<1>1. /\ Range(q) = Range(r) \cup {Head(q)}
      /\ \A k \in DOMAIN r : k + 1 \in DOMAIN q /\ r[k] = q[k + 1] /\ After(r, k) = After(q, k + 1)
  BY TailAfter
<1> HIDE DEF r
<1>2. \A k \in DOMAIN r : \E j \in DOMAIN q : r[k] = q[j] /\ After(r, k) = After(q, j)
  BY <1>1
<1>3. Lags(q, r) /\ Trims(q, r)
  BY <1>2 DEF Lags, Trims
<1>4. QED
  BY <1>1, <1>3 DEF r

\* Sending what is not a turn puts no turn behind a frame.
LEMMA AppendsLag ==
  ASSUME NEW q \in Seq(Frame), NEW f, f.op # "turn"
  PROVE  LET r == Append(q, f)
         IN  /\ Lags(q, r) /\ Range(r) = Range(q) \cup {f}
             /\ f.op \in Signals => Trims(q, r)
<1> DEFINE r == Append(q, f)
<1>1. /\ Range(r) = Range(q) \cup {f}
      /\ \A k \in DOMAIN r :
           \/ k \in DOMAIN q /\ r[k] = q[k] /\ After(r, k) = After(q, k) \cup {f}
           \/ r[k] = f /\ After(r, k) = {}
  BY AppendAfter
<1> HIDE DEF r
<1>2. Lags(q, r)
  BY <1>1 DEF Lags
<1>3. ASSUME f.op \in Signals PROVE Trims(q, r)
  BY <1>1, <1>3 DEF Trims, Spoken, Signals
<1>4. QED
  BY <1>1, <1>2, <1>3 DEF r

\* Signals change nothing that is said of messages, nor who awaits what.
LEMMA SignalsLag ==
  ASSUME NEW q \in Seq(Frame), NEW r, Signalled(q, r)
  PROVE  /\ Lags(q, r) /\ Trims(q, r) /\ Spoken(Range(r)) = Spoken(Range(q))
         /\ \A op \in {"join", "republish", "enter", "state", "exit"} :
              Comes(Range(q), op) => Comes(Range(r), op)
<1> USE DEF Comes
<1>0. /\ \A op \in Signals \cup Minor : op \notin {"turn", "append", "edit", "delete"}
      /\ \A op \in Minor : op \notin {"join", "republish", "enter", "state", "exit"}
  BY DEF Signals, Minor
<1>1. CASE r = q
  BY <1>1 DEF Lags, Trims
<1>2. ASSUME NEW f \in Frame, f.op \in Signals, r = Append(q, f)
      PROVE  Lags(q, r) /\ Trims(q, r) /\ Range(r) = Range(q) \cup {f}
  BY <1>0, <1>2, AppendsLag
<1>3. CASE \E f \in Frame : f.op \in Signals /\ r = Append(q, f)
  BY <1>0, <1>2, <1>3 DEF Spoken
<1>4. CASE q # <<>> /\ r = Tail(q) /\ Head(q).op \in Minor
  <2>1. Lags(q, r) /\ Trims(q, r) /\ Range(q) = Range(r) \cup {Head(q)}
    BY <1>4, TailsLag
  <2>2. QED
    BY <1>0, <1>4, <2>1 DEF Spoken
<1>5. QED
  BY <1>1, <1>3, <1>4 DEF Signalled

\* A lost connection.
LEMMA OrphansLag ==
  ASSUME NEW q \in Seq(Frame), NEW n \in 0..Len(q)
  PROVE  LET r == [k \in 1..n |-> Orphan(q[k])]
         IN  Lags(q, r) /\ Spoken(Range(r)) \subseteq Range(q)
<1> DEFINE r == [k \in 1..n |-> Orphan(q[k])]
<1>1. 1..n \subseteq DOMAIN q /\ DOMAIN r = 1..n
  OBVIOUS
<1>2. \A k \in 1..n : r[k] = q[k] \/ r[k].op = "orphan"
  BY DEF Orphan, Signal, Msg
<1> HIDE DEF r
<1>3. \A k \in 1..n : \A g \in After(r, k) : g \in After(q, k) \/ g.op = "orphan"
  BY <1>1, <1>2 DEF After
<1>4. Lags(q, r)
  BY <1>1, <1>2, <1>3 DEF Lags
<1>5. Spoken(Range(r)) \subseteq Range(q)
  BY <1>1, <1>2 DEF Spoken, Range
<1>6. QED
  BY <1>4, <1>5 DEF r

\* Who follows is in the chat, and neither its transcript nor an "exit" is to come.
LEMMA FollowingComes ==
  ASSUME NEW c \in Client
  PROVE  Following(c) <=> /\ Viewing(c)
                          /\ \A op \in {"join", "republish"} : ~Comes(Up(c), op)
                          /\ \A op \in {"enter", "state", "exit"} : ~Comes(Down(c), op)
BY DEF Following, Awaiting, Comes, Up, Down, Range

\* No step but a transcript's arrival makes a client follow: what keeps it from that
\* stays in the queues.
LEMMA FollowedBefore ==
  ASSUME NEW c \in Client, Following(c)', Viewing(c)' => Viewing(c),
         \A op \in {"join", "republish"} : Comes(Up(c), op) => Comes(Up(c)', op),
         \A op \in {"enter", "state", "exit"} : Comes(Down(c), op) => Comes(Down(c)', op)
  PROVE  Following(c)
<1>1. /\ Viewing(c)'
      /\ \A op \in {"join", "republish"} : ~Comes(Up(c)', op)
      /\ \A op \in {"enter", "state", "exit"} : ~Comes(Down(c)', op)
  BY DEF Following, Awaiting, Comes, Up, Down, Range
<1>2. QED
  BY <1>1, FollowingComes

\* A client whose queues change by signals alone and whose messages stay idles.
LEMMA SignalsIdle ==
  ASSUME TypeOK, NEW c \in Client, Viewing(c)' => Viewing(c),
         Lines(rows'[c]) = Lines(rows[c]), Single(rows[c]) => Single(rows'[c]),
         applied'[c] = applied[c],
         Signalled(toHost[c], toHost'[c]), Signalled(toClient[c], toClient'[c])
  PROVE  Idles(c)
<1>1. toHost[c] \in Seq(Frame) /\ toClient[c] \in Seq(Frame)
  BY DEF TypeOK
<1>2. Up(c)' = Range(toHost'[c]) /\ Down(c)' = Range(toClient'[c])
  BY DEF Up, Down
<1>3. /\ Lags(toHost[c], toHost'[c]) /\ Spoken(Up(c)') = Spoken(Up(c))
      /\ \A op \in {"join", "republish"} : Comes(Up(c), op) => Comes(Up(c)', op)
  BY <1>1, <1>2, SignalsLag DEF Up
<1>4. /\ Trims(toClient[c], toClient'[c]) /\ Spoken(Down(c)') = Spoken(Down(c))
      /\ \A op \in {"enter", "state", "exit"} : Comes(Down(c), op) => Comes(Down(c)', op)
  BY <1>1, <1>2, SignalsLag DEF Down
<1>5. Following(c)' => Following(c)
  BY <1>3, <1>4, FollowedBefore
<1>6. Spoken(Up(c)') \subseteq Up(c)
  BY <1>3 DEF Spoken
<1>7. QED
  BY <1>3, <1>4, <1>5, <1>6 DEF Idles

\* A client that does not follow afterwards may lose what was on its way.
LEMMA LosesIdle ==
  ASSUME TypeOK, NEW c \in Client, ~Following(c)',
         rows'[c] = rows[c], applied'[c] \subseteq applied[c],
         \/ Signalled(toHost[c], toHost'[c])
         \/ toHost[c] # <<>> /\ toHost'[c] = Tail(toHost[c])
         \/ \E n \in 0..Len(toHost[c]) : toHost'[c] = [k \in 1..n |-> Orphan(toHost[c][k])],
         \/ Signalled(toClient[c], toClient'[c])
         \/ toClient[c] # <<>> /\ toClient'[c] = Tail(toClient[c])
         \/ toClient'[c] = <<>>
  PROVE  Idles(c)
<1>1. toHost[c] \in Seq(Frame) /\ toClient[c] \in Seq(Frame)
  BY DEF TypeOK
<1>2. Up(c)' = Range(toHost'[c])
  BY DEF Up
<1>3. Lags(toHost[c], toHost'[c]) /\ Spoken(Up(c)') \subseteq Up(c)
  <2>1. CASE Signalled(toHost[c], toHost'[c])
    BY <1>1, <1>2, <2>1, SignalsLag DEF Up, Spoken
  <2>2. CASE toHost[c] # <<>> /\ toHost'[c] = Tail(toHost[c])
    BY <1>1, <1>2, <2>2, TailsLag DEF Up, Spoken
  <2>3. CASE \E n \in 0..Len(toHost[c]) : toHost'[c] = [k \in 1..n |-> Orphan(toHost[c][k])]
    BY <1>1, <1>2, <2>3, OrphansLag DEF Up
  <2>4. QED
    BY <2>1, <2>2, <2>3
<1>4. Trims(toClient[c], toClient'[c])
  <2>1. CASE Signalled(toClient[c], toClient'[c])
    BY <1>1, <2>1, SignalsLag
  <2>2. CASE toClient[c] # <<>> /\ toClient'[c] = Tail(toClient[c])
    BY <1>1, <2>2, TailsLag
  <2>3. CASE toClient'[c] = <<>>
    BY <2>3 DEF Trims
  <2>4. QED
    BY <2>1, <2>2, <2>3
<1>5. QED
  BY <1>3, <1>4 DEF Idles

\* Nothing of c changes at all.
Untouched(c) ==
  /\ Rests(c) /\ toHost'[c] = toHost[c] /\ toClient'[c] = toClient[c]
  /\ Viewing(c)' => Viewing(c)

\* A step of one client that leaves its messages alone is no news.
LEMMA OneIdles ==
  ASSUME TypeOK, UNCHANGED <<posted, last, saved>>, rows'[Host] = rows[Host],
         NEW c \in Client, Idles(c), \A d \in Client \ {c} : Untouched(d)
  PROVE  NoNews
<1>1. ASSUME NEW d \in Client \ {c}
      PROVE  Idles(d)
  BY SignalsIdle DEF Untouched, Rests, Signalled
<1>2. QED
  BY <1>1 DEF NoNews, Shared

\* A step in which every client idles and the host's chat stays is no news.
LEMMA AllIdle ==
  ASSUME TypeOK, UNCHANGED <<posted, last, saved>>, rows'[Host] = rows[Host],
         \A c \in Client : Untouched(c)
  PROVE  NoNews
<1>1. ASSUME NEW d \in Client
      PROVE  Idles(d)
  BY SignalsIdle DEF Untouched, Rests, Signalled
<1>2. QED
  BY <1>1 DEF NoNews, Shared

\* A signal to all, or to one client, is no news.
LEMMA SignalIdles ==
  ASSUME TypeOK, UNCHANGED <<posted, last, saved, toHost>>, rows'[Host] = rows[Host], Stays,
         \A c \in Client : Rests(c), NEW op \in Signals, Broadcast(<<Signal(op)>>)
  PROVE  NoNews
<1>1. Signal(op) \in Frame /\ Signal(op).op = op
  BY FramesTyped DEF Signal, Msg
<1>2. ASSUME NEW c \in Client
      PROVE  Idles(c)
  <2>1. Signalled(toClient[c], toClient'[c])
    BY <1>1, BroadcastAppends DEF Signalled
  <2>2. Viewing(c)' => Viewing(c)
    BY DEF Stays, Viewing
  <2>3. QED
    BY <2>1, <2>2, SignalsIdle DEF Rests, Signalled
<1>3. QED
  BY <1>2 DEF NoNews, Shared

-----------------------------------------------------------------------------
(* Every step is of one of the kinds *)

\* The host's moves and the streaming of its reply are no news.
LEMMA GenerationQuiet ==
  ASSUME TypeOK, GenStarts \/ GenStreams \/ TokenTimer \/ GenEnds \/ HostMoves \/ ReplyDone \/ UNCHANGED vars
  PROVE  NoNews
<1> USE DEF peerVars, netVars, clientVars, hostVars, runVars
<1>1. CASE GenStarts \/ GenEnds \/ (TokenTimer /\ hostIn)
  <2>1. /\ UNCHANGED <<posted, last, saved, toHost, rows, applied, online, active, open>>
        /\ \E op \in {"start", "end", "token"} : Broadcast(<<Signal(op)>>)
    BY <1>1 DEF GenStarts, GenEnds, TokenTimer
  <2>2. QED
    BY <2>1, SignalIdles DEF Stays, Rests, Signals
<1>2. CASE GenStreams \/ (TokenTimer /\ ~hostIn) \/ ReplyDone \/ UNCHANGED vars
  <2>1. UNCHANGED <<posted, last, saved, toHost, toClient, rows, applied, online, active, open>>
    BY <1>2 DEF GenStreams, TokenTimer, ReplyDone, vars
  <2>2. QED
    BY <2>1, AllIdle DEF Untouched, Rests, Viewing
<1>3. CASE HostMoves
  <2>1. /\ UNCHANGED <<posted, last, saved, toHost, rows, online, active, open>>
        /\ \A c \in Client : applied'[c] = applied[c]
        /\ \E op \in {"enter", "exit"} : Broadcast(<<Signal(op)>>)
    BY <1>3 DEF HostMoves, TypeOK, Peer
  <2>2. QED
    BY <2>1, SignalIdles DEF Stays, Rests, Signals
<1>4. QED
  BY <1>1, <1>2, <1>3

\* A client that walks away, comes back, loses or regains its connection brings no
\* news.
LEMMA ComingsQuiet ==
  ASSUME TypeOK, HostLeft, NEW c \in Client, ClientMoves(c) \/ Drops(c) \/ ClientAsks(c) \/ Returns(c)
  PROVE  NoNews
<1> USE DEF peerVars, netVars, clientVars, hostVars, runVars
<1>1. UNCHANGED <<posted, last, saved, rows, applied>>
  BY DEF ClientMoves, Drops, ClientAsks, Returns
<1>2. /\ \A d \in Client \ {c} : toHost'[d] = toHost[d] /\ toClient'[d] = toClient[d]
      /\ \A d \in Client \ {c} : Viewing(d)' => Viewing(d)
  BY DEF ClientMoves, Drops, ClientAsks, Returns, Send, Viewing, TypeOK
<1>3. \A op \in Signals : Signal(op) \in Frame /\ Signal(op).op = op
  BY FramesTyped DEF Signal, Msg
<1>4. CASE ClientMoves(c)
  <2>1. Signalled(toHost[c], toHost'[c]) /\ toClient' = toClient
    <3>1. CASE toHost' = toHost
      BY <1>4, <3>1 DEF Signalled, ClientMoves
    <3>2. CASE Send(c, Signal("join"))
      BY <1>3, <1>4, <3>2 DEF Signalled, ClientMoves, Send, TypeOK, Signals
    <3>3. QED
      BY <1>4, <3>1, <3>2 DEF ClientMoves
  <2>2. ~Following(c)'
    <3>1. CASE c \in open
      BY <1>4, <3>1 DEF ClientMoves, Following, Viewing
    <3>2. CASE c \notin open /\ c \in online \cap active
      <4>1. toHost[c] \in Seq(Frame) /\ toHost'[c] = Append(toHost[c], Signal("join"))
        BY <1>4, <3>2 DEF ClientMoves, Send, TypeOK
      <4>2. Signal("join") \in Range(toHost'[c])
        BY <4>1, AppendAfter
      <4>3. Comes(Up(c)', "join")
        BY <1>3, <4>2 DEF Comes, Up, Signals
      <4>4. QED
        BY <4>3 DEF Following, Awaiting, Comes, Up, Range
    <3>3. CASE c \notin online \cap active
      BY <1>4, <3>3 DEF ClientMoves, Following, Viewing
    <3>4. QED
      BY <3>1, <3>2, <3>3
  <2>3. Idles(c)
    BY <1>1, <2>1, <2>2, LosesIdle DEF Signalled
  <2>4. QED
    BY <1>1, <1>2, <2>3, OneIdles DEF Untouched, Rests
<1>5. CASE Drops(c)
  <2>1. /\ \E n \in 0..Len(toHost[c]) : toHost'[c] = [k \in 1..n |-> Orphan(toHost[c][k])]
        /\ toClient'[c] = <<>> /\ c \notin online'
    BY <1>5 DEF Drops, TypeOK
  <2>2. ~Following(c)'
    BY <2>1 DEF Following, Viewing
  <2>3. Idles(c)
    BY <1>1, <2>1, <2>2, LosesIdle
  <2>4. QED
    BY <1>1, <1>2, <2>3, OneIdles DEF Untouched, Rests
<1>6. CASE ClientAsks(c)
  <2>1. Signalled(toHost[c], toHost'[c]) /\ toClient' = toClient /\ (Viewing(c)' => Viewing(c))
    BY <1>3, <1>6 DEF Signalled, ClientAsks, Send, TypeOK, Signals, Viewing
  <2>2. Idles(c)
    BY <1>1, <2>1, SignalsIdle DEF Signalled
  <2>3. QED
    BY <1>1, <1>2, <2>2, OneIdles DEF Untouched, Rests
<1>7. CASE Returns(c)
  <2>1. Signalled(toHost[c], toHost'[c]) /\ toClient' = toClient
    BY <1>3, <1>7 DEF Signalled, Returns, Send, TypeOK, Signals
  <2>2. ~Following(c)'
    BY <1>7 DEF Returns, HostLeft, Following, Viewing
  <2>3. Idles(c)
    BY <1>1, <2>1, <2>2, LosesIdle DEF Signalled
  <2>4. QED
    BY <1>1, <1>2, <2>3, OneIdles DEF Untouched, Rests
<1>8. QED
  BY <1>4, <1>5, <1>6, <1>7

\* What the host reads and does not act on is no news.
LEMMA TakesQuiet ==
  ASSUME TypeOK, HostLeft, NEW c \in Client, HostAway(c) \/ HostTakesRequest(c)
  PROVE  NoNews
<1> USE DEF peerVars, netVars, clientVars, hostVars, runVars
<1>1. /\ UNCHANGED <<posted, last, saved, rows, applied, toClient, online, active, open>>
      /\ toHost[c] # <<>> /\ toHost'[c] = Tail(toHost[c])
      /\ \A d \in Client \ {c} : toHost'[d] = toHost[d]
  BY DEF HostAway, HostTakesRequest, Takes, TypeOK
<1>2. CASE Head(toHost[c]).op \in {"orphan", "request"}
  <2>1. Idles(c)
    BY <1>1, <1>2, SignalsIdle DEF Signalled, Minor, Viewing
  <2>2. QED
    BY <1>1, <2>1, OneIdles DEF Untouched, Rests, Viewing
<1>3. CASE ~hostIn
  <2>1. c \in active => Comes(Down(c)', "exit")
    BY <1>1, <1>3 DEF HostLeft, Down
  <2>2. ~Following(c)'
    BY <1>1, <2>1 DEF Following, Viewing, Comes, Down, Range
  <2>3. Idles(c)
    BY <1>1, <2>2, LosesIdle DEF Signalled
  <2>4. QED
    BY <1>1, <2>3, OneIdles DEF Untouched, Rests, Viewing
<1>4. QED
  BY <1>2, <1>3 DEF HostAway, HostTakesRequest, Takes

\* A client that hears of the host's whereabouts, or ignores a frame, brings no news.
LEMMA SwitchQuiet ==
  ASSUME TypeOK, NEW c \in Client, ClientIgnores(c) \/ ClientEnters(c) \/ ClientExits(c)
  PROVE  NoNews
<1> USE DEF peerVars, netVars, clientVars, hostVars, runVars
<1>1. /\ UNCHANGED <<posted, last, saved, rows, online, open>>
      /\ toClient[c] # <<>> /\ toClient'[c] = Tail(toClient[c])
      /\ \A d \in Client \ {c} : toClient'[d] = toClient[d] /\ toHost'[d] = toHost[d]
      /\ \A d \in Client \ {c} : applied'[d] = applied[d]
      /\ \A d \in Client \ {c} : d \in active' => d \in active
      /\ applied'[c] \subseteq applied[c]
  BY DEF ClientIgnores, ClientEnters, ClientExits, Gets, Send, TypeOK, Peer
<1>2. \A op \in Signals : Signal(op) \in Frame /\ Signal(op).op = op
  BY FramesTyped DEF Signal, Msg
<1>3. CASE ClientIgnores(c) \/ ClientExits(c)
  <2>1. toHost' = toHost /\ ~Viewing(c)'
    BY <1>3 DEF ClientIgnores, ClientExits, Viewing
  <2>2. Idles(c)
    BY <1>1, <2>1, LosesIdle DEF Signalled, Following
  <2>3. QED
    BY <1>1, <2>2, OneIdles DEF Untouched, Rests, Viewing
<1>4. CASE ClientEnters(c)
  <2>1. Signalled(toHost[c], toHost'[c]) /\ ~Following(c)'
    <3>1. CASE c \notin open
      <4>1. toHost' = toHost /\ c \notin open'
        BY <1>4, <3>1 DEF ClientEnters
      <4>2. QED
        BY <4>1 DEF Signalled, Following, Viewing
    <3>2. CASE c \in open
      <4>1. toHost[c] \in Seq(Frame) /\ toHost'[c] = Append(toHost[c], Signal("join"))
        BY <1>4, <3>2 DEF ClientEnters, Send, TypeOK
      <4>2. Signal("join") \in Range(toHost'[c])
        BY <4>1, AppendAfter
      <4>3. Comes(Up(c)', "join")
        BY <1>2, <4>2 DEF Comes, Up, Signals
      <4>4. ~Following(c)'
        BY <4>3 DEF Following, Awaiting, Comes, Up, Range
      <4>5. QED
        BY <1>2, <4>1, <4>4 DEF Signalled, Signals
    <3>3. QED
      BY <3>1, <3>2
  <2>2. Idles(c)
    BY <1>1, <2>1, LosesIdle
  <2>3. QED
    BY <1>1, <2>2, OneIdles DEF Untouched, Rests, Viewing
<1>5. QED
  BY <1>3, <1>4

\* A reply's start, tokens and end at a client are no news.
LEMMA StreamQuiet ==
  ASSUME TypeOK, NEW c \in Client, StreamBegins(c) \/ ClientGetsToken(c) \/ StreamEnds(c)
  PROVE  NoNews
<1> USE DEF peerVars, netVars, clientVars, hostVars, runVars
<1>1. /\ UNCHANGED <<posted, last, saved, applied, toHost, online, active, open>>
      /\ rows'[Host] = rows[Host]
      /\ toClient[c] # <<>> /\ toClient'[c] = Tail(toClient[c]) /\ Head(toClient[c]).op \in Minor
      /\ \A d \in Client \ {c} : toClient'[d] = toClient[d] /\ rows'[d] = rows[d]
  BY DEF StreamBegins, ClientGetsToken, StreamEnds, Gets, TypeOK, Peer, Minor
<1>2. rows[c] \in Seq(Message \cup {Empty})
  BY DEF TypeOK, Peer
<1>3. Lines(rows'[c]) = Lines(rows[c]) /\ (Single(rows[c]) => Single(rows'[c]))
  <2>1. CASE rows'[c] = rows[c]
    BY <2>1
  <2>2. CASE rows'[c] = Append(rows[c], Empty)
    <3>1. Empty \notin Said /\ Empty.id \notin Ids
      BY SaidTyped DEF Empty, Ids
    <3>2. /\ Lines(rows'[c]) = Lines(rows[c]) \cup ({Empty} \cap Said)
          /\ Single(rows[c]) => Single(rows'[c])
      BY <1>2, <2>2, <3>1, LinesAppend
    <3>3. QED
      BY <3>1, <3>2
  <2>3. CASE rows'[c] = Cleared(c, rows[c])
    BY <1>2, <2>3, ClearedLines
  <2>4. QED
    BY <2>1, <2>2, <2>3 DEF StreamBegins, ClientGetsToken, StreamEnds, TypeOK, Peer
<1>4. Idles(c)
  BY <1>1, <1>3, SignalsIdle DEF Signalled, Viewing
<1>5. QED
  BY <1>1, <1>4, OneIdles DEF Untouched, Rests, Viewing

\* The two seconds of suppress running out is no news.
LEMMA ForgetsQuiet ==
  ASSUME TypeOK, NEW p \in Peer, NEW id \in Ids, Forgets(p, id)
  PROVE  NoNews
BY AllIdle DEF Forgets, Untouched, Rests, Viewing, netVars, clientVars, hostVars, runVars

\* What Careful excludes, by name.
LEMMA CarefulEvents ==
  ASSUME Careful
  PROVE  /\ "early" \notin Events /\ "hasty" \notin Events
         /\ "careless" \notin Events /\ "old" \notin Events
BY DEF Careful

\* The suppression keeps what has arrived from being sent back.
LEMMA NoEchoes ==
  ASSUME TypeOK, NEW p \in Peer, NEW row, AppliesEdit(p, row)
  PROVE  Echo(p, row) = <<>>
BY DEF AppliesEdit, Echo, LocalEdit, TypeOK

\* A message the host writes, or its reply as it lands, is added and sent.
LEMMA PostAdds ==
  ASSUME TypeOK, NEW t \in Texts, HostPosts(t), UNCHANGED <<saved, toHost, online, active, open>>
  PROVE  \E row \in Said : Adds(row)
<1> DEFINE row == [id |-> last + 1, text |-> t]
<1>1. row \in Said /\ row.id = last + 1
  BY DEF HostPosts, TypeOK, Said, Ids
<1>2. /\ rows' = [rows EXCEPT ![Host] = Append(@, row)]
      /\ applied' = [applied EXCEPT ![Host] = @ \cup {row.id}]
      /\ Broadcast(<<Msg("append", row)>>)
      /\ posted' = posted \cup {row.id} /\ last' = last + 1
  BY DEF HostPosts
<1> HIDE DEF row
<1>3. Heard(Msg("append", row))
  BY <1>1, <1>2, FramesTyped, BroadcastAppends DEF Heard
<1>4. Shared' = Shared \cup {row}
  <2>1. rows[Host] \in Seq(Message \cup {Empty}) /\ rows'[Host] = Append(rows[Host], row)
    BY <1>2 DEF TypeOK, Peer
  <2>2. Lines(rows'[Host]) = Lines(rows[Host]) \cup ({row} \cap Said)
    BY <2>1, LinesAppend
  <2>3. {row} \cap Said = {row}
    BY <1>1
  <2>4. QED
    BY <2>2, <2>3 DEF Shared
<1>5. \A c \in Client : Rests(c)
  BY <1>2 DEF Rests, TypeOK, Peer
<1>6. Adds(row)
  BY <1>1, <1>2, <1>3, <1>4, <1>5 DEF Adds, Stays
<1>7. QED
  BY <1>1, <1>6

\* A client's message is added to its chat and sent as a turn.
LEMMA SayKind ==
  ASSUME Careful, TypeOK, NEW c \in Client, NEW t \in Texts, ClientSays(c, t)
  PROVE  \E row \in Said : Says(c, row)
<1> USE DEF clientVars, hostVars
<1> DEFINE row == [id |-> last + 1, text |-> t]
<1>1. row \in Said /\ row.id = last + 1
  BY DEF ClientSays, TypeOK, Said, Ids
<1>2. Viewing(c) /\ ~Awaiting(c)
  BY CarefulEvents DEF ClientSays
<1>3. /\ rows' = [rows EXCEPT ![c] = Append(@, row)]
      /\ applied' = [applied EXCEPT ![c] = @ \cup {row.id}]
      /\ toHost' = [toHost EXCEPT ![c] = Append(@, Msg("turn", row))]
      /\ last' = last + 1 /\ UNCHANGED <<toClient, online, active, open, saved, posted>>
  BY DEF ClientSays, Send
<1> HIDE DEF row
<1>4. Alone(c)
  BY <1>3 DEF Alone, Stays, Rests, TypeOK, Peer
<1>5. /\ rows'[c] = Append(rows[c], row) /\ applied'[c] = applied[c] \cup {row.id}
      /\ toHost'[c] = Append(toHost[c], Msg("turn", row)) /\ toClient'[c] = toClient[c]
  BY <1>3 DEF TypeOK, Peer
<1>6. QED
  BY <1>1, <1>2, <1>3, <1>4, <1>5 DEF Says

\* A user's edit is the host's correction or a client's own.
LEMMA EditKind ==
  ASSUME Careful, TypeOK, Single(rows[Host]),
         NEW p \in Peer, NEW k \in DOMAIN rows[p], NEW t \in Texts, EditsRow(p, k, t)
  PROVE  \E row \in Said : Corrects(row) \/ \E c \in Client : CorrectsOwn(c, row)
<1> USE DEF clientVars
<1> DEFINE row == [rows[p][k] EXCEPT !.text = t]
<1>1. /\ rows[p][k].id # Stream /\ rows[p][k].id # None /\ rows[p][k].id \notin suppress[p]
      /\ "edit" \in Events
  BY CarefulEvents DEF EditsRow, CanChange, Acts
<1>2. rows[p][k] \in Said /\ row \in Said /\ row.id = rows[p][k].id
  <2>1. rows[p][k] \in Message \cup {Empty}
    BY DEF TypeOK
  <2>2. rows[p][k] \in Said
    BY <1>1, <2>1, SaidTyped DEF Empty
  <2>3. QED
    BY <2>2 DEF Said
<1>3. /\ rows' = [rows EXCEPT ![p][k] = row]
      /\ saved' = IF p = Host THEN Reworded(row) ELSE saved
      /\ Publish(p, LocalEdit(row, suppress[p]))
      /\ UNCHANGED <<applied, online, active, open, last, posted>>
  BY DEF EditsRow
<1> HIDE DEF row
<1>4. LocalEdit(row, suppress[p]) = <<Msg("edit", row)>> /\ Msg("edit", row) \in Frame
  BY <1>1, <1>2, FramesTyped DEF LocalEdit
<1>5. Rewrites(p, row) /\ Has(Lines(rows[p]), row.id)
  BY <1>2, <1>3, RewordRewrites
<1>6. CASE p = Host
  <2>1. Shared' = Rewrite(Shared, row) /\ Has(Shared, row.id)
    BY <1>5, <1>6 DEF Rewrites, Shared
  <2>2. toHost' = toHost /\ Heard(Msg("edit", row))
    BY <1>3, <1>4, <1>6, BroadcastAppends DEF Publish, Heard
  <2>3. \A c \in Client : Rests(c)
    BY <1>3, <1>6 DEF Rests, TypeOK, Peer
  <2>4. Corrects(row)
    BY <1>1, <1>2, <1>3, <1>6, <2>1, <2>2, <2>3 DEF Corrects, Meant, Stays
  <2>5. QED
    BY <1>2, <2>4
<1>7. CASE p # Host
  <2>1. p \in Client
    BY <1>7 DEF Peer
  <2>2. toHost' = [toHost EXCEPT ![p] = @ \o <<Msg("edit", row)>>] /\ toClient' = toClient
    BY <1>3, <1>4, <1>7 DEF Publish
  <2>3. toHost'[p] = Append(toHost[p], Msg("edit", row))
    <3>1. toHost[p] \in Seq(Frame) /\ toHost \in [Client -> Seq(Frame)]
      BY <2>1 DEF TypeOK
    <3>2. toHost[p] \o <<Msg("edit", row)>> = Append(toHost[p], Msg("edit", row))
      BY <3>1
    <3>3. QED
      BY <2>1, <2>2, <3>1, <3>2
  <2>4. Alone(p) /\ applied'[p] = applied[p]
    BY <1>3, <1>7, <2>1, <2>2 DEF Alone, Stays, Rests, TypeOK, Peer
  <2>5. CorrectsOwn(p, row)
    BY <1>2, <1>3, <1>5, <2>2, <2>3, <2>4 DEF CorrectsOwn
  <2>6. QED
    BY <1>2, <2>1, <2>5
<1>8. QED
  BY <1>6, <1>7

\* A user's delete is the host's removal or a client's own.
LEMMA DeleteKind ==
  ASSUME Careful, TypeOK, Single(rows[Host]),
         NEW p \in Peer, NEW k \in DOMAIN rows[p], DeletesRow(p, k)
  PROVE  \E f \in Frame : Removes(f) \/ \E c \in Client : RemovesOwn(c, f)
<1> USE DEF clientVars, hostVars
<1> DEFINE row == rows[p][k]
<1> DEFINE f == [Msg("delete", row) EXCEPT !.at = k]
<1>1. /\ rows[p][k].id # Stream /\ rows[p][k].id # None /\ rows[p][k].id \notin suppress[p]
      /\ p = Host => saved.id # row.id
      /\ "delete" \in Events
  BY CarefulEvents DEF DeletesRow, CanChange, Acts
<1>2. row \in Said /\ k \in Nat
  <2>1. rows[p][k] \in Message \cup {Empty} /\ k \in Nat
    BY DEF TypeOK
  <2>2. QED
    BY <1>1, <2>1, SaidTyped DEF Empty
<1>3. f \in Frame /\ f.op = "delete" /\ f.row = row
  BY <1>2, FramesTyped, SaidTyped DEF Msg
<1>4. /\ rows' = [rows EXCEPT ![p] = RemoveAtIndex(@, k)]
      /\ Publish(p, LocalDelete(row, k, suppress[p]))
      /\ UNCHANGED <<applied, online, active, open, saved, last, posted>>
  BY DEF DeletesRow
<1>5. LocalDelete(row, k, suppress[p]) = <<f>>
  BY <1>1 DEF LocalDelete
<1>6. Strikes(p, row.id) /\ Has(Lines(rows[p]), row.id)
  <2>1. Strikes(p, row.id)
    BY <1>2, <1>4, RemoveStrikes
  <2>2. row \in Lines(rows[p])
    BY <1>2 DEF Lines, Range
  <2>3. QED
    BY <2>1, <2>2 DEF Has
<1>7. CASE p = Host
  <2> HIDE DEF f, row
  <2>1. Shared' = Without(Shared, row.id) /\ Has(Shared, row.id)
    BY <1>6, <1>7 DEF Strikes, Shared
  <2>2. toHost' = toHost /\ Heard(f)
    BY <1>3, <1>4, <1>5, <1>7, BroadcastAppends DEF Publish, Heard
  <2>3. \A c \in Client : Rests(c)
    BY <1>4, <1>7 DEF Rests, TypeOK, Peer
  <2>4. Removes(f)
    BY <1>1, <1>2, <1>3, <1>4, <1>7, <2>1, <2>2, <2>3 DEF Removes, Meant, Stays
  <2>5. QED
    BY <1>3, <2>4
<1>8. CASE p # Host
  <2> HIDE DEF f, row
  <2>1. p \in Client
    BY <1>8 DEF Peer
  <2>2. toHost' = [toHost EXCEPT ![p] = @ \o <<f>>] /\ toClient' = toClient
    BY <1>4, <1>5, <1>8 DEF Publish
  <2>3. toHost'[p] = Append(toHost[p], f)
    <3>1. toHost[p] \in Seq(Frame) /\ toHost \in [Client -> Seq(Frame)]
      BY <2>1 DEF TypeOK
    <3>2. toHost[p] \o <<f>> = Append(toHost[p], f)
      BY <1>3, <3>1
    <3>3. QED
      BY <2>1, <2>2, <3>1, <3>2
  <2>4. Alone(p) /\ applied'[p] = applied[p]
    BY <1>4, <1>8, <2>1, <2>2 DEF Alone, Stays, Rests, TypeOK, Peer
  <2>5. RemovesOwn(p, f)
    BY <1>1, <1>2, <1>3, <1>4, <1>6, <2>2, <2>3, <2>4 DEF RemovesOwn
  <2>6. QED
    BY <1>3, <2>1, <2>5
<1>9. QED
  BY <1>7, <1>8

\* HostTakesTurn accepts the turn.
LEMMA TurnKind ==
  ASSUME TypeOK, NEW c \in Client, HostTakesTurn(c)
  PROVE  \E row \in Said : Accepts(c, row)
<1> USE DEF clientVars
<1> DEFINE row == Head(toHost[c]).row
<1>1. /\ Takes(c, "turn") /\ rows' = [rows EXCEPT ![Host] = Append(@, row)]
      /\ applied' = [applied EXCEPT ![Host] = @ \cup {row.id}]
      /\ posted' = posted \cup {row.id} /\ saved' = row
      /\ UNCHANGED <<toClient, online, active, open, last>>
  BY DEF HostTakesTurn
<1>2. saved = Empty
  BY <1>1 DEF Takes, TypeOK
<1>3. row \in Said
  <2>1. toHost[c] \in Seq(Frame) /\ toHost[c] # <<>> /\ Head(toHost[c]).op = "turn"
    BY <1>1 DEF Takes, TypeOK
  <2>2. Head(toHost[c]) \in Frame
    BY <2>1
  <2>3. QED
    BY <2>1, <2>2, FramesCarry
<1> HIDE DEF row
<1>4. Shared' = Shared \cup {row}
  <2>1. rows[Host] \in Seq(Message \cup {Empty}) /\ rows'[Host] = Append(rows[Host], row)
    BY <1>1 DEF TypeOK, Peer
  <2>2. Lines(rows'[Host]) = Lines(rows[Host]) \cup ({row} \cap Said)
    BY <2>1, LinesAppend
  <2>3. {row} \cap Said = {row}
    BY <1>3
  <2>4. QED
    BY <2>2, <2>3 DEF Shared
<1>5. \A d \in Client : Rests(d)
  BY <1>1 DEF Rests, TypeOK, Peer
<1>6. Accepts(c, row)
  BY <1>1, <1>2, <1>4, <1>5 DEF Accepts, Stays, row
<1>7. QED
  BY <1>3, <1>6

\* SaveDone announces it.
LEMMA SaveKind ==
  ASSUME TypeOK, SaveDone
  PROVE  Announces
<1> USE DEF peerVars, clientVars, runVars
<1>1. saved # Empty /\ saved \in Said
  BY DEF SaveDone, TypeOK
<1>2. Msg("append", saved) \in Frame
  BY <1>1, FramesTyped
<1>3. Heard(Msg("append", saved))
  BY <1>2, BroadcastAppends DEF SaveDone, Heard
<1>4. QED
  BY <1>1, <1>3 DEF SaveDone, Announces, Stays

\* HostTakesEdit corrects the row, where the host has it, and passes the edit on.
LEMMA TakesEditKind ==
  ASSUME TypeOK, Single(rows[Host]), NEW c \in Client, HostTakesEdit(c)
  PROVE  \E row \in Said : Corrects(row)
<1> USE DEF clientVars, runVars
<1> DEFINE row == Head(toHost[c]).row
<1>1. /\ Takes(c, "edit") /\ AppliesEdit(Host, row) /\ saved' = Reworded(row)
      /\ Broadcast(Echo(Host, row) \o <<Msg("edit", row)>>)
      /\ UNCHANGED <<applied, online, active, open, last, posted>>
  BY DEF HostTakesEdit
<1>2. row \in Said
  <2>1. toHost[c] \in Seq(Frame) /\ toHost[c] # <<>> /\ Head(toHost[c]).op = "edit"
    BY <1>1 DEF Takes, TypeOK
  <2>2. Head(toHost[c]) \in Frame
    BY <2>1
  <2>3. QED
    BY <2>1, <2>2, FramesCarry
<1>3. Meant("edit", row)
  BY <1>1 DEF Meant
<1> HIDE DEF row
<1>4. Rewrites(Host, row) /\ \A q \in Peer \ {Host} : rows'[q] = rows[q]
  BY <1>1, <1>2, EditRewrites DEF Peer
<1>5. Heard(Msg("edit", row))
  <2>1. Echo(Host, row) = <<>> /\ Msg("edit", row) \in Frame
    BY <1>1, <1>2, NoEchoes, FramesTyped DEF Peer
  <2>2. Broadcast(<<Msg("edit", row)>>)
    BY <1>1, <2>1
  <2>3. QED
    BY <2>1, <2>2, BroadcastAppends DEF Heard
<1>6. Shared' = Rewrite(Shared, row)
  BY <1>4 DEF Rewrites, Shared
<1>7. \A d \in Client : Rests(d)
  BY <1>1, <1>4 DEF Rests, Peer
<1>8. Corrects(row)
  BY <1>1, <1>2, <1>3, <1>5, <1>6, <1>7 DEF Corrects, Stays
<1>9. QED
  BY <1>2, <1>8

\* HostTakesDelete removes the row, where the host has it, and passes the delete on.
LEMMA TakesDeleteKind ==
  ASSUME TypeOK, Known, Single(rows[Host]), NEW c \in Client, HostTakesDelete(c)
  PROVE  \E f \in Frame : Removes(f)
<1> USE DEF clientVars, hostVars, runVars
<1> DEFINE f == Head(toHost[c])
<1>1. /\ Takes(c, "delete") /\ AppliesDelete(Host, f) /\ Broadcast(<<f>>)
      /\ UNCHANGED <<applied, online, active, open, saved, last, posted>>
  BY DEF HostTakesDelete
<1>2. saved = Empty
  BY <1>1 DEF Takes, TypeOK
<1>3. f \in Frame /\ f.op = "delete" /\ f.row \in Said
  <2>1. toHost[c] \in Seq(Frame) /\ toHost[c] # <<>> /\ f.op = "delete"
    BY <1>1 DEF Takes, TypeOK
  <2>2. f \in Frame /\ f \in Up(c)
    BY <2>1, TailAfter DEF Up
  <2>3. f.row \in Message /\ f.row.id \in Nat
    BY <2>1, <2>2, FramesCarry DEF Known, KnownAt
  <2>4. QED
    BY <2>1, <2>2, <2>3, SaidTyped
<1>4. Meant("delete", f.row)
  BY <1>1 DEF Meant
<1>5. saved.id # f.row.id
  BY <1>2, <1>3, SaidTyped DEF Empty, Ids
<1> HIDE DEF f
<1>6. Strikes(Host, f.row.id) /\ \A q \in Peer \ {Host} : rows'[q] = rows[q]
  BY <1>1, <1>3, DeleteStrikes DEF Peer
<1>7. Heard(f)
  BY <1>1, <1>3, BroadcastAppends DEF Heard
<1>8. Shared' = Without(Shared, f.row.id)
  BY <1>6 DEF Strikes, Shared
<1>9. \A d \in Client : Rests(d)
  BY <1>1, <1>6 DEF Rests, Peer
<1>10. Removes(f)
  BY <1>1, <1>3, <1>4, <1>5, <1>7, <1>8, <1>9 DEF Removes, Stays
<1>11. QED
  BY <1>3, <1>10

\* A client that joins or asks again is answered with the transcript.
LEMMA AnswerKind ==
  ASSUME TypeOK, NEW c \in Client, HostTakesJoin(c) \/ HostTakesRepublish(c)
  PROVE  Answers(c)
<1> USE DEF peerVars, clientVars, hostVars, runVars
<1>1. /\ \E op \in {"join", "republish"} : Takes(c, op)
      /\ UNCHANGED <<rows, applied, posted, last, saved, online, active, open>>
      /\ \A d \in Client \ {c} : toClient'[d] = toClient[d]
  BY DEF HostTakesJoin, HostTakesRepublish, TypeOK
<1>2. saved = Empty
  BY <1>1 DEF Takes, TypeOK
<1> DEFINE t == Transcript(rows[Host])
<1>3. toClient[c] \in Seq(Frame) /\ t \in Frame
  BY FramesTyped DEF TypeOK
<1>4. c \notin online => toClient'[c] = toClient[c]
  BY DEF HostTakesJoin, HostTakesRepublish, TypeOK
<1>5. ASSUME c \in online
      PROVE  \E q \in Seq(Frame) :
               /\ q = toClient[c] \/ \E f \in Frame : f.op \in Signals /\ q = Append(toClient[c], f)
               /\ toClient'[c] = Append(q, t)
  <2>1. CASE HostTakesJoin(c)
    BY <1>3, <1>5, <2>1 DEF HostTakesJoin, TypeOK
  <2>2. CASE HostTakesRepublish(c)
    <3> DEFINE e == Signal(IF hostIn THEN "enter" ELSE "exit")
    <3>1. e \in Frame /\ e.op \in Signals
      BY FramesTyped DEF Signals, Signal, Msg
    <3>2. toClient'[c] = toClient[c] \o <<e, t>>
      BY <1>5, <2>2 DEF HostTakesRepublish, TypeOK
    <3> HIDE DEF e, t
    <3>3. toClient'[c] = Append(Append(toClient[c], e), t) /\ Append(toClient[c], e) \in Seq(Frame)
      BY <1>3, <3>1, <3>2
    <3>4. QED
      BY <3>1, <3>3
  <2>3. QED
    BY <2>1, <2>2
<1>6. QED
  BY <1>1, <1>2, <1>4, <1>5 DEF Answers, Stays

\* What a client reads concerns its own chat alone.
LEMMA GetsAlone ==
  ASSUME TypeOK, NEW c \in Client, NEW op, Gets(c, op), toHost' = toHost,
         UNCHANGED <<posted, saved, last, online, active, open>>,
         \A q \in Peer \ {c} : rows'[q] = rows[q] /\ applied'[q] = applied[q]
  PROVE  Hears(c, op) /\ Head(toClient[c]) \in Down(c) /\ Head(toClient[c]) \in Frame
<1>1. \A d \in Client \ {c} : toClient'[d] = toClient[d]
  BY DEF Gets, TypeOK
<1>2. Host # c /\ Client \subseteq Peer /\ Host \in Peer
  BY DEF Peer
<1>3. Alone(c)
  BY <1>1, <1>2 DEF Alone, Stays, Rests
<1>4. Head(toClient[c]) \in Down(c) /\ Head(toClient[c]) \in Frame
  <2>1. toClient[c] \in Seq(Frame) /\ toClient[c] # <<>>
    BY DEF Gets, TypeOK
  <2>2. QED
    BY <2>1, TailAfter DEF Down
<1>5. QED
  BY <1>3, <1>4 DEF Hears

\* ClientGetsAppend adds a message that was not applied yet.
LEMMA AppendKind ==
  ASSUME TypeOK, NEW c \in Client, ClientGetsAppend(c)
  PROVE  HearsAppend(c)
<1> USE DEF hostVars, runVars
<1> DEFINE row == Got(c)
<1>1. /\ Gets(c, "append") /\ toHost' = toHost
      /\ UNCHANGED <<posted, saved, last, online, active, open>>
      /\ \A q \in Peer \ {c} : rows'[q] = rows[q] /\ applied'[q] = applied[q]
  BY DEF ClientGetsAppend, TypeOK
<1>2. Hears(c, "append") /\ row \in Said
  <2>1. Hears(c, "append") /\ Head(toClient[c]) \in Frame
    BY <1>1, GetsAlone
  <2>2. QED
    BY <1>1, <2>1, FramesCarry DEF Gets, Got
<1>3. CASE row.id \in applied[c]
  BY <1>2, <1>3 DEF ClientGetsAppend, HearsAppend, Rests
<1>4. CASE row.id \notin applied[c]
  <2> HIDE DEF row
  <2>1. applied'[c] = applied[c] \cup {row.id} /\ rows'[c] = Cleared(c, Append(rows[c], row))
    BY <1>4 DEF ClientGetsAppend, TypeOK, Peer, row
  <2>2. rows[c] \in Seq(Message \cup {Empty}) /\ Append(rows[c], row) \in Seq(Message \cup {Empty})
    BY <1>2, SaidTyped DEF TypeOK, Peer
  <2>3. /\ Lines(rows'[c]) = Lines(Append(rows[c], row))
        /\ Single(Append(rows[c], row)) => Single(rows'[c])
    BY <2>1, <2>2, ClearedLines
  <2>4. /\ Lines(Append(rows[c], row)) = Lines(rows[c]) \cup ({row} \cap Said)
        /\ Single(rows[c]) /\ ~Has(Lines(rows[c]), row.id) => Single(Append(rows[c], row))
    BY <1>2, <2>2, LinesAppend
  <2>5. {row} \cap Said = {row}
    BY <1>2
  <2>6. QED
    BY <1>2, <1>4, <2>1, <2>3, <2>4, <2>5 DEF HearsAppend, row
<1>5. QED
  BY <1>3, <1>4

\* ClientGetsEdit rewords the row where the client has it.
LEMMA GetsEditKind ==
  ASSUME TypeOK, NEW c \in Client, ClientGetsEdit(c)
  PROVE  HearsEdit(c)
<1> USE DEF clientVars, hostVars, runVars
<1>1. /\ Gets(c, "edit") /\ AppliesEdit(c, Got(c))
      /\ toHost' = [toHost EXCEPT ![c] = @ \o Echo(c, Got(c))]
      /\ UNCHANGED <<applied, posted, saved, last, online, active, open>>
  BY DEF ClientGetsEdit
<1>2. Got(c) \in Said
  <2>1. toClient[c] \in Seq(Frame) /\ toClient[c] # <<>> /\ Head(toClient[c]).op = "edit"
    BY <1>1 DEF Gets, TypeOK
  <2>2. Head(toClient[c]) \in Frame
    BY <2>1
  <2>3. QED
    BY <2>1, <2>2, FramesCarry DEF Got
<1>3. Rewrites(c, Got(c)) /\ \A q \in Peer \ {c} : rows'[q] = rows[q]
  BY <1>1, <1>2, EditRewrites DEF Peer
<1>4. toHost' = toHost
  <2>1. Echo(c, Got(c)) = <<>>
    BY <1>1, NoEchoes DEF Peer
  <2>2. toHost[c] \in Seq(Frame) /\ toHost \in [Client -> Seq(Frame)]
    BY DEF TypeOK
  <2>3. toHost[c] \o <<>> = toHost[c]
    BY <2>2
  <2>4. QED
    BY <1>1, <2>1, <2>2, <2>3
<1>5. Hears(c, "edit")
  BY <1>1, <1>3, <1>4, GetsAlone
<1>6. QED
  BY <1>1, <1>3, <1>5 DEF HearsEdit

\* ClientGetsDelete takes the row out where the client has it.
LEMMA GetsDeleteKind ==
  ASSUME TypeOK, Known, NEW c \in Client, ClientGetsDelete(c)
  PROVE  HearsDelete(c)
<1> USE DEF clientVars, hostVars, runVars
<1> DEFINE f == Head(toClient[c])
<1>1. /\ Gets(c, "delete") /\ AppliesDelete(c, f)
      /\ UNCHANGED <<applied, toHost, posted, saved, last, online, active, open>>
  BY DEF ClientGetsDelete
<1>2. f.row \in Said
  <2>1. toClient[c] \in Seq(Frame) /\ toClient[c] # <<>> /\ f.op = "delete"
    BY <1>1 DEF Gets, TypeOK
  <2>2. f \in Frame /\ f \in Down(c)
    BY <2>1, TailAfter DEF Down
  <2>3. f.row \in Message /\ f.row.id \in Nat
    BY <2>1, <2>2, FramesCarry DEF Known, KnownAt
  <2>4. QED
    BY <2>3, SaidTyped
<1>3. Strikes(c, f.row.id) /\ \A q \in Peer \ {c} : rows'[q] = rows[q]
  <2> HIDE DEF f
  <2>1. QED
    BY <1>1, <1>2, DeleteStrikes DEF Peer
<1>4. Hears(c, "delete")
  BY <1>1, <1>3, GetsAlone
<1>5. QED
  BY <1>1, <1>2, <1>3, <1>4 DEF HearsDelete, Got

\* ClientGetsState replaces the chat.
LEMMA StateKind ==
  ASSUME TypeOK, NEW c \in Client, ClientGetsState(c)
  PROVE  HearsState(c)
<1> USE DEF clientVars, hostVars, runVars
<1> DEFINE log == Head(toClient[c]).log
<1>1. /\ Gets(c, "state") /\ rows' = [rows EXCEPT ![c] = log]
      /\ applied' = [applied EXCEPT ![c] = @ \cup ({log[k].id : k \in DOMAIN log} \ {None})]
      /\ UNCHANGED <<toHost, posted, saved, last, online, active, open>>
  BY DEF ClientGetsState
<1> HIDE DEF log
<1>2. \A q \in Peer \ {c} : rows'[q] = rows[q] /\ applied'[q] = applied[q]
  BY <1>1 DEF TypeOK
<1>3. Hears(c, "state")
  BY <1>1, <1>2, GetsAlone
<1>4. /\ rows'[c] = log
      /\ applied'[c] = applied[c] \cup ({log[k].id : k \in DOMAIN log} \ {None})
  BY <1>1 DEF TypeOK, Peer
<1>5. QED
  BY <1>3, <1>4 DEF HearsState, log

\* Every step of careful users is of one of the kinds.
LEMMA StepKinds ==
  ASSUME Careful, TypeOK, HostLeft, Known, Single(rows[Host]), [Next]_vars
  PROVE  Kinds
<1>1. CASE UNCHANGED vars \/ HostMoves \/ GenStarts \/ GenStreams \/ TokenTimer \/ GenEnds \/ ReplyDone
  BY <1>1, GenerationQuiet DEF Kinds
<1>2. ASSUME NEW t \in Texts, HostSays(t) \/ GenLands(t)
      PROVE  Kinds
  BY <1>2, PostAdds DEF Kinds, HostSays, GenLands, clientVars, hostVars
<1>3. ASSUME NEW c \in Client, NEW t \in Texts, ClientSays(c, t)
      PROVE  Kinds
  BY <1>3, SayKind DEF Kinds
<1>4. ASSUME NEW p \in Peer, NEW k \in DOMAIN rows[p], NEW t \in Texts, EditsRow(p, k, t)
      PROVE  Kinds
  BY <1>4, EditKind DEF Kinds
<1>5. ASSUME NEW p \in Peer, NEW k \in DOMAIN rows[p], DeletesRow(p, k)
      PROVE  Kinds
  BY <1>5, DeleteKind DEF Kinds
<1>6. ASSUME NEW c \in Client, ClientMoves(c) \/ Drops(c) \/ ClientAsks(c) \/ Returns(c)
      PROVE  Kinds
  BY <1>6, ComingsQuiet DEF Kinds
<1>7. CASE Users
  BY <1>1, <1>2, <1>3, <1>4, <1>5, <1>6, <1>7 DEF Users
<1>8. CASE Generation
  BY <1>1, <1>2, <1>8 DEF Generation
<1>9. CASE HostRoutes
  <2>1. CASE SaveDone
    BY <2>1, SaveKind DEF Kinds
  <2>2. ASSUME NEW c \in Client, HostAway(c) \/ HostTakesRequest(c)
        PROVE  Kinds
    BY <2>2, TakesQuiet DEF Kinds
  <2>3. ASSUME NEW c \in Client, HostTakesTurn(c)
        PROVE  Kinds
    BY <2>3, TurnKind DEF Kinds
  <2>4. ASSUME NEW c \in Client, HostTakesEdit(c)
        PROVE  Kinds
    BY <2>4, TakesEditKind DEF Kinds
  <2>5. ASSUME NEW c \in Client, HostTakesDelete(c)
        PROVE  Kinds
    BY <2>5, TakesDeleteKind DEF Kinds
  <2>6. ASSUME NEW c \in Client, HostTakesJoin(c) \/ HostTakesRepublish(c)
        PROVE  Kinds
    BY <2>6, AnswerKind DEF Kinds
  <2>7. QED
    BY <1>1, <1>9, <2>1, <2>2, <2>3, <2>4, <2>5, <2>6 DEF HostRoutes
<1>10. ASSUME NEW c \in Client, ClientRoutes(c)
       PROVE  Kinds
  <2>1. CASE ClientIgnores(c) \/ ClientEnters(c) \/ ClientExits(c)
    BY <2>1, SwitchQuiet DEF Kinds
  <2>2. CASE StreamBegins(c) \/ ClientGetsToken(c) \/ StreamEnds(c)
    BY <2>2, StreamQuiet DEF Kinds
  <2>3. CASE ClientGetsAppend(c)
    BY <2>3, AppendKind DEF Kinds
  <2>4. CASE ClientGetsEdit(c)
    BY <2>4, GetsEditKind DEF Kinds
  <2>5. CASE ClientGetsDelete(c)
    BY <2>5, GetsDeleteKind DEF Kinds
  <2>6. CASE ClientGetsState(c)
    BY <2>6, StateKind DEF Kinds
  <2>7. QED
    BY <1>10, <2>1, <2>2, <2>3, <2>4, <2>5, <2>6 DEF ClientRoutes
<1>11. ASSUME NEW p \in Peer, NEW id \in Ids, Forgets(p, id)
       PROVE  Kinds
  BY <1>11, ForgetsQuiet DEF Kinds
<1>12. QED
  BY <1>1, <1>6, <1>7, <1>8, <1>9, <1>10, <1>11 DEF Next

-----------------------------------------------------------------------------
(* The queues of a step *)

\* What a broadcast does to the queue of a client.
LEMMA HeardDown ==
  ASSUME TypeOK, NEW f, Heard(f), NEW c \in Client
  PROVE  /\ Down(c)' = IF c \in online THEN Down(c) \cup {f} ELSE Down(c)
         /\ Down(c)' \subseteq Down(c) \cup {f}
<1>1. toClient[c] \in Seq(Frame)
  BY DEF TypeOK
<1>2. c \in online => toClient'[c] = Append(toClient[c], f)
  BY DEF Heard
<1>3. c \notin online => toClient'[c] = toClient[c]
  BY DEF Heard
<1>4. c \in online => Range(toClient'[c]) = Range(toClient[c]) \cup {f}
  BY <1>1, <1>2, AppendAfter
<1>5. QED
  BY <1>3, <1>4 DEF Down

\* What the host's reading does to the queues from the clients.
LEMMA TakenUp ==
  ASSUME TypeOK, NEW d \in Client, NEW op, Takes(d, op)
  PROVE  /\ Head(toHost[d]).op = op /\ Head(toHost[d]) \in Frame
         /\ Up(d) = Up(d)' \cup {Head(toHost[d])}
         /\ \A c \in Client \ {d} : toHost'[c] = toHost[c] /\ Up(c)' = Up(c)
         /\ \A c \in Client : Up(c)' \subseteq Up(c)
<1>1. /\ toHost[d] \in Seq(Frame) /\ toHost[d] # <<>> /\ Head(toHost[d]).op = op
      /\ toHost'[d] = Tail(toHost[d]) /\ \A c \in Client \ {d} : toHost'[c] = toHost[c]
  BY DEF Takes, TypeOK
<1>2. Range(toHost[d]) = Range(toHost'[d]) \cup {Head(toHost[d])}
  BY <1>1, TailAfter
<1>3. Head(toHost[d]) \in Frame
  BY <1>1
<1>4. QED
  BY <1>1, <1>2, <1>3 DEF Up

\* What a client's reading does to its queue.
LEMMA GotDown ==
  ASSUME TypeOK, NEW c \in Client, NEW op, Gets(c, op)
  PROVE  /\ Head(toClient[c]).op = op /\ Head(toClient[c]) \in Frame
         /\ Down(c) = Down(c)' \cup {Head(toClient[c])}
         /\ \A d \in Client \ {c} : toClient'[d] = toClient[d] /\ Down(d)' = Down(d)
<1>1. /\ toClient[c] \in Seq(Frame) /\ toClient[c] # <<>> /\ Head(toClient[c]).op = op
      /\ toClient'[c] = Tail(toClient[c]) /\ \A d \in Client \ {c} : toClient'[d] = toClient[d]
  BY DEF Gets, TypeOK
<1>2. Range(toClient[c]) = Range(toClient'[c]) \cup {Head(toClient[c])}
  BY <1>1, TailAfter
<1>3. Head(toClient[c]) \in Frame
  BY <1>1
<1>4. QED
  BY <1>1, <1>2, <1>3 DEF Down

\* What a client's sending does to its queue.
LEMMA SentUp ==
  ASSUME TypeOK, NEW c \in Client, NEW f, toHost'[c] = Append(toHost[c], f)
  PROVE  Up(c)' = Up(c) \cup {f}
<1>1. toHost[c] \in Seq(Frame)
  BY DEF TypeOK
<1>2. Range(toHost'[c]) = Range(toHost[c]) \cup {f}
  BY <1>1, AppendAfter
<1>3. QED
  BY <1>2 DEF Up

\* What the host's answer to d does to the queues to the clients.
LEMMA AnsweredDown ==
  ASSUME TypeOK, NEW c \in Client, Answers(c)
  PROVE  /\ \A d \in Client \ {c} : Down(d)' = Down(d)
         /\ \A g \in Down(c)' : g \in Down(c) \/ g.op \in Signals \/ g = Transcript(rows[Host])
         /\ c \in online => Transcript(rows[Host]) \in Down(c)'
<1> DEFINE t == Transcript(rows[Host])
<1>1. toClient[c] \in Seq(Frame) /\ \A d \in Client \ {c} : toClient'[d] = toClient[d]
  BY DEF Answers, TypeOK
<1>2. CASE c \notin online
  BY <1>1, <1>2 DEF Answers, Down
<1>3. CASE c \in online
  <2>1. PICK q \in Seq(Frame) :
          /\ q = toClient[c] \/ \E f \in Frame : f.op \in Signals /\ q = Append(toClient[c], f)
          /\ toClient'[c] = Append(q, t)
    BY <1>3 DEF Answers
  <2> HIDE DEF t
  <2>2. Range(toClient'[c]) = Range(q) \cup {t}
    BY <2>1, AppendAfter
  <2>3. \A g \in Range(q) : g \in Range(toClient[c]) \/ g.op \in Signals
    <3>1. CASE q = toClient[c]
      BY <3>1
    <3>2. ASSUME NEW f \in Frame, f.op \in Signals, q = Append(toClient[c], f)
          PROVE  \A g \in Range(q) : g \in Range(toClient[c]) \/ g.op \in Signals
      <4>1. Range(q) = Range(toClient[c]) \cup {f}
        BY <1>1, <3>2, AppendAfter
      <4>2. QED
        BY <3>2, <4>1
    <3>3. QED
      BY <2>1, <3>1, <3>2
  <2>4. QED
    BY <1>1, <2>2, <2>3 DEF Down, t
<1>4. QED
  BY <1>2, <1>3

\* A queue that is only trimmed brings nothing new about a message.
LEMMA TrimmedDown ==
  ASSUME NEW c \in Client, Trims(toClient[c], toClient'[c])
  PROVE  \A f \in Down(c)' : f.op \in Signals \/ f \in Down(c)
BY DEF Trims, Down, Range

\* What a frame is about, by its operation.
LEMMA OpsDiffer ==
  /\ \A op \in Signals : op \notin {"turn", "append", "edit", "delete", "state"}
  /\ \A op, row : Msg(op, row).op = op /\ Msg(op, row).row = row
  /\ \A s : Transcript(s).op = "state" /\ Transcript(s).log = s
BY DEF Signals, Msg, Transcript

\* Where c does nothing and nothing is said to it.
LEMMA KnownRests ==
  ASSUME TypeOK, TypeOK', last \in Nat, last' \in {last, last + 1}, posted \subseteq posted',
         NEW c \in Client, KnownAt(c), Lines(rows'[c]) = Lines(rows[c]), applied'[c] \subseteq applied[c],
         \A f \in Up(c)' : f.op \in {"turn", "edit", "delete"} => f \in Up(c),
         \A f \in Down(c)' :
           \/ f \in Down(c) \/ f.op \in Signals
           \/ f.op = "append" /\ f.row.id \in posted'
           \/ f.op \in {"edit", "delete"} /\ f.row.id \in 1..last
           \/ f.op = "state" /\ \A row \in Lines(f.log) : row.id \in posted'
  PROVE  KnownAt(c)'
<1>1. 1..last \subseteq 1..last'
  OBVIOUS
<1>2. applied'[c] \subseteq 1..last' /\ \A row \in Lines(rows'[c]) : row.id \in 1..last'
  BY <1>1 DEF KnownAt
<1>3. \A f \in Up(c)' : f.op \in {"turn", "edit", "delete"} => f.row.id \in 1..last'
  BY <1>1 DEF KnownAt
<1>4. \A f \in Down(c)' : /\ f.op \in {"edit", "delete"} => f.row.id \in 1..last'
                          /\ \A row \in Words(f) : f.op # "edit" => row.id \in posted'
  <2> SUFFICES ASSUME NEW f \in Down(c)'
               PROVE  /\ f.op \in {"edit", "delete"} => f.row.id \in 1..last'
                      /\ \A row \in Words(f) : f.op # "edit" => row.id \in posted'
    OBVIOUS
  <2>1. CASE f \in Down(c)
    BY <1>1, <2>1 DEF KnownAt
  <2>2. CASE f.op \in Signals
    BY <2>2, OpsDiffer DEF Words
  <2>3. CASE f.op = "append" /\ f.row.id \in posted'
    BY <2>3 DEF Words
  <2>4. CASE f.op \in {"edit", "delete"} /\ f.row.id \in 1..last
    BY <1>1, <2>4 DEF Words
  <2>5. CASE f.op = "state" /\ \A row \in Lines(f.log) : row.id \in posted'
    BY <2>5 DEF Words
  <2>6. QED
    BY <2>1, <2>2, <2>3, <2>4, <2>5
<1>5. QED
  BY <1>2, <1>3, <1>4 DEF KnownAt

\* Nothing was said yet.
LEMMA InitKnown == Init => Known
<1> SUFFICES ASSUME Init PROVE Known
  OBVIOUS
<1>1. \A p \in Peer : Lines(rows[p]) = {}
  <2>1. \A p \in Peer : \A k \in DOMAIN rows[p] : rows[p][k].id = None
    BY DEF Init
  <2>2. \A row \in Said : row.id # None
    BY SaidTyped DEF Ids
  <2>3. QED
    BY <2>1, <2>2 DEF Lines, Range
<1>2. \A c \in Client : Up(c) = {} /\ Down(c) = {} /\ applied[c] = {}
  <2>1. \A c \in Client : toHost[c] = <<>> /\ toClient[c] = <<>> /\ applied[c] = {}
    BY DEF Init, Peer
  <2>2. Range(<<>>) = {}
    BY DEF Range
  <2>3. QED
    BY <2>1, <2>2 DEF Up, Down
<1>3. QED
  BY <1>1, <1>2 DEF Init, Known, KnownAt, Shared, Peer

\* Where there is no news, nothing unknown appears.
LEMMA NoNewsKnown ==
  ASSUME TypeOK, TypeOK', Known, NoNews
  PROVE  Known'
<1>1. UNCHANGED <<posted, last, saved>> /\ Shared' = Shared /\ last \in Nat
  BY DEF NoNews, TypeOK
<1>2. ASSUME NEW c \in Client
      PROVE  KnownAt(c)'
  <2>1. Idles(c) /\ KnownAt(c)
    BY DEF NoNews, Known
  <2>2. \A f \in Up(c)' : f.op \in {"turn", "edit", "delete"} => f \in Up(c)
    BY <2>1 DEF Idles, Spoken
  <2>3. \A f \in Down(c)' : f \in Down(c) \/ f.op \in Signals
    BY <2>1, TrimmedDown DEF Idles
  <2>4. Lines(rows'[c]) = Lines(rows[c]) /\ applied'[c] \subseteq applied[c]
    BY <2>1 DEF Idles
  <2>5. QED
    BY <1>1, <2>1, <2>2, <2>3, <2>4, KnownRests
<1>3. QED
  BY <1>1, <1>2 DEF Known

\* A message the host adds is posted as it is sent.
LEMMA AddsKnown ==
  ASSUME TypeOK, TypeOK', Known, NEW row \in Said, Adds(row)
  PROVE  Known'
<1>1. /\ last \in Nat /\ last' = last + 1 /\ posted' = posted \cup {row.id} /\ row.id = last + 1
      /\ saved' = saved /\ Shared' = Shared \cup {row} /\ toHost' = toHost
  BY DEF Adds, TypeOK
<1>2. posted' \subseteq 1..last'
  BY <1>1 DEF Known
<1>3. ASSUME NEW c \in Client
      PROVE  KnownAt(c)'
  <2>1. KnownAt(c) /\ Rests(c) /\ Heard(Msg("append", row))
    BY DEF Adds, Known
  <2>2. Down(c)' \subseteq Down(c) \cup {Msg("append", row)}
    BY <2>1, HeardDown
  <2>3. \A f \in Down(c)' : f \in Down(c) \/ (f.op = "append" /\ f.row.id \in posted')
    BY <1>1, <2>2, OpsDiffer
  <2>4. Up(c)' = Up(c)
    BY <1>1 DEF Up
  <2>5. QED
    BY <1>1, <2>1, <2>3, <2>4, KnownRests DEF Rests
<1>4. QED
  BY <1>1, <1>2, <1>3 DEF Known

\* A turn the host takes is posted as it is added.
LEMMA AcceptsKnown ==
  ASSUME TypeOK, TypeOK', Known, NEW d \in Client, NEW row \in Said, Accepts(d, row)
  PROVE  Known'
<1>1. /\ last \in Nat /\ last' = last /\ posted' = posted \cup {row.id}
      /\ saved' = row /\ Shared' = Shared \cup {row} /\ toClient' = toClient
      /\ Takes(d, "turn") /\ row = Head(toHost[d]).row
  BY DEF Accepts, TypeOK
<1>2. row.id \in 1..last
  BY <1>1, TakenUp DEF Known, KnownAt
<1>3. ASSUME NEW c \in Client
      PROVE  KnownAt(c)'
  <2>1. KnownAt(c) /\ Rests(c)
    BY DEF Accepts, Known
  <2>2. Down(c)' = Down(c) /\ Up(c)' \subseteq Up(c)
    BY <1>1, TakenUp DEF Down
  <2>3. QED
    BY <1>1, <2>1, <2>2, KnownRests DEF Rests
<1>4. QED
  BY <1>1, <1>2, <1>3 DEF Known

\* The turn announced is in the host's chat.
LEMMA AnnouncesKnown ==
  ASSUME TypeOK, TypeOK', Known, Announces
  PROVE  Known'
<1>1. /\ last \in Nat /\ UNCHANGED <<last, posted, rows, applied, toHost>>
      /\ saved' = Empty /\ saved \in Shared /\ saved.id \in posted
  BY DEF Announces, TypeOK, Known
<1>2. ASSUME NEW c \in Client
      PROVE  KnownAt(c)'
  <2>1. KnownAt(c) /\ Heard(Msg("append", saved))
    BY DEF Announces, Known
  <2>2. Down(c)' \subseteq Down(c) \cup {Msg("append", saved)}
    BY <2>1, HeardDown
  <2>3. \A f \in Down(c)' : f \in Down(c) \/ (f.op = "append" /\ f.row.id \in posted')
    BY <1>1, <2>2, OpsDiffer
  <2>4. Up(c)' = Up(c)
    BY <1>1 DEF Up
  <2>5. QED
    BY <1>1, <2>1, <2>3, <2>4, KnownRests
<1>3. QED
  BY <1>1, <1>2 DEF Known, Shared

\* The message a change is about was written.
LEMMA MeantKnown ==
  ASSUME TypeOK, Known, NEW op \in {"edit", "delete"}, NEW row, Meant(op, row)
  PROVE  row.id \in 1..last /\ \A c \in Client : Up(c)' \subseteq Up(c)
<1>1. CASE toHost' = toHost /\ Has(Shared, row.id)
  BY <1>1 DEF Known, Up, Has
<1>2. ASSUME NEW d \in Client, Takes(d, op), Head(toHost[d]).row = row
      PROVE  row.id \in 1..last /\ \A c \in Client : Up(c)' \subseteq Up(c)
  BY <1>2, TakenUp DEF Known, KnownAt
<1>3. QED
  BY <1>1, <1>2 DEF Meant

\* A correction is of a message that was written.
LEMMA CorrectsKnown ==
  ASSUME TypeOK, TypeOK', Known, NEW row \in Said, Corrects(row)
  PROVE  Known'
<1>1. /\ last \in Nat /\ UNCHANGED <<last, posted>>
      /\ saved' = Reworded(row) /\ Shared' = Rewrite(Shared, row)
      /\ Meant("edit", row) /\ Heard(Msg("edit", row))
  BY DEF Corrects, TypeOK
<1>2. row.id \in 1..last /\ \A c \in Client : Up(c)' \subseteq Up(c)
  BY <1>1, MeantKnown
<1>3. /\ \A x \in Rewrite(Shared, row) : x.id \in posted
      /\ saved' # Empty => saved' \in Rewrite(Shared, row)
  <2>1. \A x \in Rewrite(Shared, row) : x.id \in posted
    BY DEF Known, Rewrite, Has
  <2>2. row \in Said /\ Empty.id \notin Ids /\ row.id \in Ids
    BY SaidTyped DEF Empty, Ids
  <2>3. CASE saved.id = row.id
    <3>1. saved \in Shared
      BY <2>2, <2>3 DEF Known
    <3>2. QED
      BY <1>1, <2>1, <2>3, <3>1 DEF Reworded, Rewrite, Has
  <2>4. CASE saved.id # row.id
    BY <1>1, <2>1, <2>4 DEF Reworded, Rewrite, Known
  <2>5. QED
    BY <2>1, <2>3, <2>4
<1>4. ASSUME NEW c \in Client
      PROVE  KnownAt(c)'
  <2>1. KnownAt(c) /\ Rests(c)
    BY DEF Corrects, Known
  <2>2. Down(c)' \subseteq Down(c) \cup {Msg("edit", row)}
    BY <1>1, HeardDown
  <2>3. \A f \in Down(c)' : f \in Down(c) \/ (f.op \in {"edit", "delete"} /\ f.row.id \in 1..last)
    BY <1>2, <2>2, OpsDiffer
  <2>4. QED
    BY <1>1, <1>2, <2>1, <2>3, KnownRests DEF Rests
<1>5. QED
  BY <1>1, <1>3, <1>4 DEF Known

\* A removal is of a message that was written.
LEMMA RemovesKnown ==
  ASSUME TypeOK, TypeOK', Known, NEW f \in Frame, Removes(f)
  PROVE  Known'
<1>1. /\ last \in Nat /\ UNCHANGED <<last, posted, saved>>
      /\ saved.id # f.row.id /\ Shared' = Without(Shared, f.row.id)
      /\ Meant("delete", f.row) /\ Heard(f) /\ f.op = "delete"
  BY DEF Removes, TypeOK
<1>2. f.row.id \in 1..last /\ \A c \in Client : Up(c)' \subseteq Up(c)
  BY <1>1, MeantKnown
<1>3. ASSUME NEW c \in Client
      PROVE  KnownAt(c)'
  <2>1. KnownAt(c) /\ Rests(c)
    BY DEF Removes, Known
  <2>2. Down(c)' \subseteq Down(c) \cup {f}
    BY <1>1, HeardDown
  <2>3. \A g \in Down(c)' : g \in Down(c) \/ (g.op \in {"edit", "delete"} /\ g.row.id \in 1..last)
    BY <1>1, <1>2, <2>2
  <2>4. QED
    BY <1>1, <1>2, <2>1, <2>3, KnownRests DEF Rests
<1>4. QED
  BY <1>1, <1>3 DEF Known, Without

\* The transcript sent holds posted messages only.
LEMMA AnswersKnown ==
  ASSUME TypeOK, TypeOK', Known, NEW c \in Client, Answers(c)
  PROVE  Known'
<1>1. last \in Nat /\ UNCHANGED <<last, posted, saved, rows, applied>>
  BY DEF Answers, TypeOK
<1>2. ASSUME NEW d \in Client
      PROVE  KnownAt(d)'
  <2>1. \A g \in Down(d)' : g \in Down(d) \/ g.op \in Signals \/ g = Transcript(rows[Host])
    BY AnsweredDown
  <2>2. \A row \in Lines(rows[Host]) : row.id \in posted'
    BY <1>1 DEF Known, Shared
  <2>3. \A g \in Down(d)' : \/ g \in Down(d) \/ g.op \in Signals
                            \/ g.op = "state" /\ \A row \in Lines(g.log) : row.id \in posted'
    BY <2>1, <2>2, OpsDiffer
  <2>4. Up(d)' \subseteq Up(d)
    BY TakenUp DEF Answers
  <2>5. KnownAt(d)
    BY DEF Known
  <2>6. QED
    BY <1>1, <2>3, <2>4, <2>5, KnownRests
<1>3. QED
  BY <1>1, <1>2 DEF Known, Shared

\* What concerns only c leaves the others, and what is shared, alone.
LEMMA AloneKnown ==
  ASSUME TypeOK, TypeOK', Known, NEW c \in Client, Alone(c), last' \in {last, last + 1},
         KnownAt(c)'
  PROVE  Known'
<1>1. last \in Nat /\ UNCHANGED <<posted, saved>> /\ Shared' = Shared
  BY DEF Alone, TypeOK, Shared
<1>2. ASSUME NEW d \in Client \ {c}
      PROVE  KnownAt(d)'
  <2>1. /\ Rests(d) /\ toHost'[d] = toHost[d] /\ toClient'[d] = toClient[d] /\ KnownAt(d)
    BY DEF Alone, Known
  <2>2. Up(d)' = Up(d) /\ Down(d)' = Down(d)
    BY <2>1 DEF Up, Down
  <2>3. QED
    BY <1>1, <2>1, <2>2, KnownRests DEF Rests
<1>3. posted \subseteq 1..last'
  BY <1>1 DEF Known
<1>4. QED
  BY <1>1, <1>2, <1>3 DEF Known

\* A client's turn has the id just handed out.
LEMMA SaysKnown ==
  ASSUME TypeOK, TypeOK', Known, NEW c \in Client, NEW row \in Said, Says(c, row)
  PROVE  Known'
<1>1. /\ last \in Nat /\ last' = last + 1 /\ row.id = last + 1 /\ posted' = posted /\ Alone(c)
      /\ rows'[c] = Append(rows[c], row) /\ applied'[c] = applied[c] \cup {row.id}
      /\ toHost'[c] = Append(toHost[c], Msg("turn", row)) /\ toClient'[c] = toClient[c]
  BY DEF Says, Alone, TypeOK
<1>2. KnownAt(c) /\ 1..last \subseteq 1..last' /\ row.id \in 1..last'
  BY <1>1 DEF Known
<1>3. Lines(rows'[c]) \subseteq Lines(rows[c]) \cup {row}
  <2>1. rows[c] \in Seq(Message \cup {Empty})
    BY DEF TypeOK, Peer
  <2>2. Lines(rows'[c]) = Lines(rows[c]) \cup ({row} \cap Said)
    BY <1>1, <2>1, LinesAppend
  <2>3. QED
    BY <2>2
<1>4. Up(c)' = Up(c) \cup {Msg("turn", row)} /\ Down(c)' = Down(c)
  BY <1>1, SentUp DEF Down
<1>5. KnownAt(c)'
  <2>1. applied'[c] \subseteq 1..last' /\ \A x \in Lines(rows'[c]) : x.id \in 1..last'
    BY <1>1, <1>2, <1>3 DEF KnownAt
  <2>2. \A f \in Up(c)' : f.op \in {"turn", "edit", "delete"} => f.row.id \in 1..last'
    BY <1>2, <1>4, OpsDiffer DEF KnownAt
  <2>3. \A f \in Down(c)' : /\ f.op \in {"edit", "delete"} => f.row.id \in 1..last'
                            /\ \A x \in Words(f) : f.op # "edit" => x.id \in posted'
    BY <1>1, <1>2, <1>4 DEF KnownAt
  <2>4. QED
    BY <2>1, <2>2, <2>3 DEF KnownAt
<1>6. QED
  BY <1>1, <1>5, AloneKnown

\* A client edits and deletes what it shows.
LEMMA OwnKnown ==
  ASSUME TypeOK, TypeOK', Known, NEW c \in Client, NEW row \in Said, NEW f \in Frame,
         \/ CorrectsOwn(c, row) /\ f = Msg("edit", row)
         \/ RemovesOwn(c, f) /\ f.row = row
  PROVE  Known'
<1>1. /\ last' = last /\ posted' = posted /\ Alone(c) /\ applied'[c] = applied[c]
      /\ toHost'[c] = Append(toHost[c], f) /\ toClient'[c] = toClient[c]
      /\ Has(Lines(rows[c]), row.id) /\ f.row = row
      /\ \A x \in Lines(rows'[c]) : Has(Lines(rows[c]), x.id)
  BY OpsDiffer DEF CorrectsOwn, RemovesOwn, Alone, Rewrites, Strikes
<1>2. KnownAt(c)
  BY DEF Known
<1>3. Up(c)' = Up(c) \cup {f} /\ Down(c)' = Down(c)
  BY <1>1, SentUp DEF Down
<1>4. KnownAt(c)'
  <2>1. f.row.id \in 1..last /\ \A x \in Lines(rows'[c]) : x.id \in 1..last
    BY <1>1, <1>2 DEF KnownAt, Has
  <2>2. QED
    BY <1>1, <1>2, <1>3, <2>1 DEF KnownAt
<1>5. QED
  BY <1>1, <1>4, AloneKnown

\* What a client hears was written, and what it is told is new was posted.
LEMMA HearsKnown ==
  ASSUME TypeOK, TypeOK', Known, NEW c \in Client,
         HearsAppend(c) \/ HearsEdit(c) \/ HearsDelete(c) \/ HearsState(c)
  PROVE  Known'
<1> DEFINE f == Head(toClient[c])
<1>1. /\ last' = last /\ posted' = posted /\ Alone(c) /\ toHost' = toHost /\ posted \subseteq 1..last
      /\ \E op \in {"append", "edit", "delete", "state"} : Gets(c, op)
  BY DEF HearsAppend, HearsEdit, HearsDelete, HearsState, Hears, Alone, Known
<1>2. KnownAt(c)
  BY DEF Known
<1>3. Down(c) = Down(c)' \cup {f} /\ f \in Frame /\ Up(c)' = Up(c)
  BY <1>1, GotDown DEF Up
<1>4. f.op = "append" => f.row.id \in 1..last
  BY <1>1, <1>2, <1>3 DEF KnownAt, Words
<1>5. f.op = "state" => \A row \in Lines(f.log) : row.id \in 1..last
  BY <1>1, <1>2, <1>3 DEF KnownAt, Words
<1>6. applied'[c] \subseteq 1..last /\ \A x \in Lines(rows'[c]) : x.id \in 1..last
  <2>1. CASE HearsAppend(c)
    BY <1>2, <1>4, <2>1 DEF HearsAppend, Hears, Gets, Got, KnownAt, Rests
  <2>2. CASE HearsEdit(c) \/ HearsDelete(c)
    BY <1>2, <2>2 DEF HearsEdit, HearsDelete, Rewrites, Strikes, KnownAt, Has
  <2>3. CASE HearsState(c)
    <3>1. /\ f.op = "state" /\ rows'[c] = f.log
          /\ applied'[c] = applied[c] \cup ({f.log[k].id : k \in DOMAIN f.log} \ {None})
      BY <2>3 DEF HearsState, Hears, Gets
    <3>2. f.log \in Seq(Message)
      BY <1>3, <3>1, FramesCarry
    <3>3. \A k \in DOMAIN f.log : f.log[k].id = None \/ f.log[k] \in Lines(f.log)
      <4>1. \A k \in DOMAIN f.log : f.log[k] \in Message
        BY <3>2
      <4>2. QED
        BY <4>1, SaidTyped DEF Lines, Range
    <3>4. \A k \in DOMAIN f.log : f.log[k].id # None => f.log[k].id \in 1..last
      BY <1>5, <3>1, <3>3
    <3>5. QED
      BY <1>2, <1>5, <3>1, <3>4 DEF KnownAt
  <2>4. QED
    BY <2>1, <2>2, <2>3
<1>7. KnownAt(c)'
  BY <1>1, <1>2, <1>3, <1>6 DEF KnownAt
<1>8. QED
  BY <1>1, <1>7, AloneKnown

\* Every step keeps what chats and frames are about within what was written.
LEMMA StepKnown ==
  ASSUME TypeOK, TypeOK', Known, Kinds
  PROVE  Known'
<1>1. ASSUME NEW c \in Client, NEW f \in Frame, RemovesOwn(c, f)
      PROVE  Known'
  BY <1>1, OwnKnown DEF RemovesOwn
<1>2. ASSUME NEW c \in Client, NEW row \in Said, CorrectsOwn(c, row)
      PROVE  Known'
  <2>1. Msg("edit", row) \in Frame
    BY FramesTyped
  <2>2. QED
    BY <1>2, <2>1, OwnKnown
<1>3. QED
  BY <1>1, <1>2, NoNewsKnown, AddsKnown, AcceptsKnown, AnnouncesKnown, CorrectsKnown, RemovesKnown,
     AnswersKnown, SaysKnown, HearsKnown DEF Kinds

-----------------------------------------------------------------------------
(* A turn on its way is its author's alone *)

\* Nothing of message i is with d; nothing is said of it to d.
Foreign(d, i) ==
  /\ ~Has(Lines(rows[d]), i) /\ i \notin applied[d]
  /\ ~About(Up(d), "edit", i) /\ ~About(Up(d), "delete", i)

Unmentioned(d, i) == ~About(Down(d), "edit", i) /\ ~About(Down(d), "delete", i)

\* Of a turn on its way only its author knows, and no transcript that lacks it is on
\* its way to its author.
Author(a, f) ==
  /\ \A d \in Client \ {a} : Foreign(d, f.row.id)
  /\ \A d \in Client : Unmentioned(d, f.row.id)
  /\ \A g \in Down(a) : g.op # "state"

\* This holds of every turn on its way.
Authored == \A a \in Client : \A f \in Up(a) : f.op = "turn" => Author(a, f)

\* A message is not edited or deleted before its turn, and a turn does not stand
\* behind the request for a transcript.
Orderly(q) ==
  \A k \in DOMAIN q : \A g \in After(q, k) : g.op = "turn" =>
    /\ q[k].op \in {"edit", "delete"} => q[k].row.id # g.row.id
    /\ q[k].op \notin {"join", "republish"}

InOrder == \A c \in Client : Orderly(toHost[c])

\* No turn is on its way at the start.
LEMMA InitAuthored == Init => Authored /\ InOrder
<1>1. Init => \A c \in Client : toHost[c] = <<>>
  BY DEF Init
<1>2. DOMAIN <<>> = {}
  OBVIOUS
<1>3. QED
  BY <1>1, <1>2 DEF Authored, InOrder, Orderly, Up, Range

\* A turn on its way has an id that was handed out and never posted.
LEMMA TurnFresh ==
  ASSUME TypeOK, TurnsAreNew, NEW c \in Client, NEW f \in Up(c), f.op = "turn"
  PROVE  f.row.id \in (1..last) \ posted
<1>1. PICK k \in DOMAIN toHost[c] : f = toHost[c][k]
  BY DEF Up, Range
<1>2. k \in Turns(c)
  BY <1>1 DEF Turns
<1>3. QED
  BY <1>1, <1>2 DEF TurnsAreNew

\* A queue to which no turn was added stays in order.
LEMMA LagsOrder ==
  ASSUME NEW q, NEW r, Orderly(q), Lags(q, r)
  PROVE  Orderly(r)
BY DEF Orderly, Lags

\* What the head of a queue says of the turns behind it.
LEMMA HeadOrder ==
  ASSUME TypeOK, InOrder, NEW c \in Client, NEW op, Takes(c, op), NEW g \in Up(c)', g.op = "turn"
  PROVE  /\ op \in {"edit", "delete"} => Head(toHost[c]).row.id # g.row.id
         /\ op \notin {"join", "republish"}
<1>1. /\ toHost[c] \in Seq(Frame) /\ toHost[c] # <<>> /\ Head(toHost[c]).op = op
      /\ toHost'[c] = Tail(toHost[c])
  BY DEF Takes, TypeOK
<1>2. 1 \in DOMAIN toHost[c] /\ toHost[c][1] = Head(toHost[c]) /\ After(toHost[c], 1) = Range(toHost'[c])
  BY <1>1, TailAfter
<1>3. g \in After(toHost[c], 1)
  BY <1>2 DEF Up
<1>4. QED
  BY <1>1, <1>2, <1>3 DEF InOrder, Orderly

\* The host's reading adds no turn to a queue.
LEMMA TakesLags ==
  ASSUME TypeOK, NEW d \in Client, NEW op, Takes(d, op), NEW c \in Client
  PROVE  Lags(toHost[c], toHost'[c])
<1>1. toHost[d] \in Seq(Frame) /\ toHost[d] # <<>>
  BY DEF Takes, TypeOK
<1>2. Lags(toHost[d], Tail(toHost[d])) /\ Signalled(toHost[c], toHost[c]) /\ toHost[c] \in Seq(Frame)
  BY <1>1, TailsLag DEF Signalled, TypeOK
<1>3. Lags(toHost[c], toHost[c])
  BY <1>2, SignalsLag
<1>4. QED
  BY <1>2, <1>3 DEF Takes, TypeOK

\* Neither does leaving it alone.
LEMMA SameLags ==
  ASSUME TypeOK, NEW c \in Client
  PROVE  Lags(toHost[c], toHost[c])
BY SignalsLag DEF Signalled, TypeOK

\* Only what a client says itself adds a turn.
LEMMA KindsLag ==
  ASSUME TypeOK, Kinds, NEW c \in Client
  PROVE  \/ \E row \in Said : Says(c, row)
         \/ Lags(toHost[c], toHost'[c]) /\ \A f \in Up(c)' : f.op = "turn" => f \in Up(c)
<1> DEFINE Goal == Lags(toHost[c], toHost'[c]) /\ \A f \in Up(c)' : f.op = "turn" => f \in Up(c)
<1> SUFFICES ASSUME ~ \E row \in Said : Says(c, row) PROVE Goal
  OBVIOUS
<1>1. CASE NoNews
  BY <1>1 DEF NoNews, Idles, Spoken
<1>2. CASE toHost'[c] = toHost[c]
  BY <1>2, SameLags DEF Up
<1>3. ASSUME NEW d \in Client, NEW op, Takes(d, op)
      PROVE  Goal
  BY <1>3, TakesLags, TakenUp
<1>4. ASSUME NEW f, f.op # "turn", toHost'[c] = Append(toHost[c], f)
      PROVE  Goal
  <2>1. toHost[c] \in Seq(Frame)
    BY DEF TypeOK
  <2>2. Lags(toHost[c], toHost'[c])
    BY <1>4, <2>1, AppendsLag
  <2>3. QED
    BY <1>4, <2>2, SentUp
<1> HIDE DEF Goal
<1>5. CASE \E row \in Said : Adds(row) \/ Corrects(row)
  BY <1>2, <1>3, <1>5 DEF Adds, Corrects, Meant
<1>6. CASE Announces \/ \E f \in Frame : Removes(f)
  BY <1>2, <1>3, <1>6 DEF Announces, Removes, Meant
<1>7. ASSUME NEW d \in Client,
             Answers(d) \/ HearsAppend(d) \/ HearsEdit(d) \/ HearsDelete(d) \/ HearsState(d)
      PROVE  Goal
  BY <1>2, <1>3, <1>7 DEF Answers, HearsAppend, HearsEdit, HearsDelete, HearsState, Hears
<1>8. ASSUME NEW d \in Client, NEW row \in Said, Accepts(d, row)
      PROVE  Goal
  BY <1>3, <1>8 DEF Accepts
<1>9. ASSUME NEW d \in Client, NEW row \in Said, CorrectsOwn(d, row)
      PROVE  Goal
  <2>1. Msg("edit", row).op # "turn"
    BY OpsDiffer
  <2>2. CASE d = c
    BY <1>4, <1>9, <2>1, <2>2 DEF CorrectsOwn
  <2>3. CASE d # c
    BY <1>2, <1>9, <2>3 DEF CorrectsOwn, Alone
  <2>4. QED
    BY <2>2, <2>3
<1>10. ASSUME NEW d \in Client, NEW f \in Frame, RemovesOwn(d, f)
       PROVE  Goal
  <2>1. CASE d = c
    BY <1>4, <1>10, <2>1 DEF RemovesOwn
  <2>2. CASE d # c
    BY <1>2, <1>10, <2>2 DEF RemovesOwn, Alone
  <2>3. QED
    BY <2>1, <2>2
<1>11. ASSUME NEW d \in Client, NEW row \in Said, Says(d, row), d # c
       PROVE  Goal
  BY <1>2, <1>11 DEF Says, Alone
<1>12. QED
  BY <1>1, <1>5, <1>6, <1>7, <1>8, <1>9, <1>10, <1>11 DEF Kinds, Goal

\* Every step keeps the queues to the host in order.
LEMMA StepInOrder ==
  ASSUME TypeOK, Known, InOrder, Kinds
  PROVE  InOrder'
<1> SUFFICES ASSUME NEW c \in Client PROVE Orderly(toHost'[c])
  BY DEF InOrder
<1>1. toHost[c] \in Seq(Frame) /\ Orderly(toHost[c])
  BY DEF TypeOK, InOrder
<1>2. CASE Lags(toHost[c], toHost'[c])
  BY <1>1, <1>2, LagsOrder
<1>3. ASSUME NEW row \in Said, Says(c, row)
      PROVE  Orderly(toHost'[c])
  <2> DEFINE f == Msg("turn", row)
  <2> DEFINE q == toHost[c]
  <2> DEFINE r == Append(q, f)
  <2>1. /\ toHost'[c] = r /\ row.id = last + 1 /\ last \in Nat
        /\ \A g \in Range(q) : /\ g.op \in {"edit", "delete"} => g.row.id \in 1..last
                               /\ g.op \notin {"join", "republish"}
    BY <1>3 DEF Says, Known, KnownAt, Up, Awaiting, TypeOK, Range
  <2>2. f.op = "turn" /\ f.row = row
    BY OpsDiffer
  <2> HIDE DEF f
  <2>3. \A k \in DOMAIN r :
          \/ k \in DOMAIN q /\ r[k] = q[k] /\ After(r, k) = After(q, k) \cup {f}
          \/ r[k] = f /\ After(r, k) = {}
    BY <1>1, AppendAfter
  <2> HIDE DEF q, r
  <2>4. ASSUME NEW k \in DOMAIN r, NEW g \in After(r, k), g.op = "turn"
        PROVE  /\ r[k].op \in {"edit", "delete"} => r[k].row.id # g.row.id
               /\ r[k].op \notin {"join", "republish"}
    <3>1. k \in DOMAIN q /\ r[k] = q[k] /\ g \in After(q, k) \cup {f} /\ q[k] \in Range(q)
      BY <2>3, <2>4 DEF Range
    <3>2. CASE g \in After(q, k)
      BY <1>1, <2>4, <3>1, <3>2 DEF Orderly, q
    <3>3. CASE g = f
      BY <2>1, <2>2, <3>1, <3>3
    <3>4. QED
      BY <3>1, <3>2, <3>3
  <2>5. QED
    BY <2>1, <2>4 DEF Orderly
<1>4. QED
  BY <1>2, <1>3, KindsLag

\* A turn that was on its way stays its author's.
LEMMA AuthorKept ==
  ASSUME NEW a \in Client, NEW f, Author(a, f),
         \A d \in Client \ {a} :
           /\ Has(Lines(rows'[d]), f.row.id) => Has(Lines(rows[d]), f.row.id)
           /\ f.row.id \in applied'[d] => f.row.id \in applied[d]
           /\ \A g \in Up(d)' : g.op \in {"edit", "delete"} /\ g.row.id = f.row.id => g \in Up(d),
         \A d \in Client : \A g \in Down(d)' :
           g.op \in {"edit", "delete"} /\ g.row.id = f.row.id => g \in Down(d),
         \A g \in Down(a)' : g.op = "state" => g \in Down(a)
  PROVE  Author(a, f)'
<1>1. \A d \in Client \ {a} : Foreign(d, f.row.id)'
  BY DEF Author, Foreign, About
<1>2. \A d \in Client : Unmentioned(d, f.row.id)'
  BY DEF Author, Unmentioned, About
<1>3. QED
  BY <1>1, <1>2 DEF Author

\* Every step keeps a turn on its way its author's alone.
LEMMA StepAuthored ==
  ASSUME TypeOK, TypeOK', TurnsAreNew, Known, InOrder, Authored, Kinds
  PROVE  Authored'
<1> SUFFICES ASSUME NEW a \in Client, NEW f \in Up(a)', f.op = "turn"
             PROVE  Author(a, f)'
  BY DEF Authored
<1> DEFINE i == f.row.id
<1>1. CASE f \notin Up(a)
  <2>1. PICK row \in Said : Says(a, row)
    BY <1>1, KindsLag
  <2>2. /\ row.id = last + 1 /\ last \in Nat /\ Alone(a) /\ ~Awaiting(a)
        /\ toHost'[a] = Append(toHost[a], Msg("turn", row)) /\ toClient'[a] = toClient[a]
    BY <2>1 DEF Says, TypeOK
  <2>3. f.row = row
    BY <1>1, <2>2, SentUp, OpsDiffer
  <2>4. ASSUME NEW d \in Client \ {a}
        PROVE  Foreign(d, i)'
    <3>1. rows'[d] = rows[d] /\ applied'[d] = applied[d] /\ Up(d)' = Up(d)
      BY <2>2 DEF Alone, Rests, Up
    <3>2. KnownAt(d) /\ i = last + 1
      BY <2>2, <2>3 DEF Known
    <3>3. QED
      BY <2>2, <3>1, <3>2 DEF Foreign, KnownAt, Has, About
  <2>5. ASSUME NEW d \in Client
        PROVE  Unmentioned(d, i)'
    <3>1. Down(d)' = Down(d)
      BY <2>2 DEF Alone, Down
    <3>2. KnownAt(d) /\ i = last + 1
      BY <2>2, <2>3 DEF Known
    <3>3. QED
      BY <2>2, <3>1, <3>2 DEF Unmentioned, KnownAt, About
  <2>6. \A g \in Down(a)' : g.op # "state"
    BY <2>2 DEF Awaiting, Down, Range
  <2>7. QED
    BY <2>4, <2>5, <2>6 DEF Author
<1>2. CASE f \in Up(a)
  <2>1. Author(a, f) /\ i \in (1..last) \ posted /\ last \in Nat
    BY <1>2, TurnFresh DEF Authored, TypeOK
  <2> HIDE DEF i
  <2>2. ASSUME \A d \in Client : Rests(d), \A d \in Client : Up(d)' \subseteq Up(d),
               NEW g, Heard(g), g.op # "state", g.op \in {"edit", "delete"} => g.row.id # i
        PROVE  Author(a, f)'
    <3>1. \A d \in Client : Down(d)' \subseteq Down(d) \cup {g}
      BY <2>2, HeardDown
    <3>2. QED
      BY <2>1, <2>2, <3>1, AuthorKept DEF Rests, i
  <2>3. CASE NoNews
    <3>1. \A d \in Client : Idles(d)
      BY <2>3 DEF NoNews
    <3>2. \A d \in Client : \A g \in Up(d)' : g.op \in {"edit", "delete"} => g \in Up(d)
      BY <3>1 DEF Idles, Spoken
    <3>3. \A d \in Client : \A g \in Down(d)' : g.op \in {"edit", "delete", "state"} => g \in Down(d)
      BY <3>1, TrimmedDown, OpsDiffer DEF Idles
    <3>4. \A d \in Client : Lines(rows'[d]) = Lines(rows[d]) /\ applied'[d] \subseteq applied[d]
      BY <3>1 DEF Idles
    <3>5. QED
      BY <2>1, <3>2, <3>3, <3>4, AuthorKept
  <2>4. ASSUME NEW row \in Said, Adds(row)
        PROVE  Author(a, f)'
    <3>1. Heard(Msg("append", row)) /\ toHost' = toHost /\ \A d \in Client : Rests(d)
      BY <2>4 DEF Adds
    <3>2. \A d \in Client : Up(d)' \subseteq Up(d)
      BY <3>1 DEF Up
    <3>3. QED
      BY <2>2, <3>1, <3>2, OpsDiffer
  <2>5. CASE Announces
    <3>1. Heard(Msg("append", saved)) /\ toHost' = toHost /\ \A d \in Client : Rests(d)
      BY <2>5 DEF Announces, Rests
    <3>2. \A d \in Client : Up(d)' \subseteq Up(d)
      BY <3>1 DEF Up
    <3>3. QED
      BY <2>2, <3>1, <3>2, OpsDiffer
  <2>6. ASSUME NEW op \in {"edit", "delete"}, NEW row, Meant(op, row)
        PROVE  row.id # i /\ \A d \in Client : Up(d)' \subseteq Up(d)
    <3>1. CASE toHost' = toHost /\ Has(Shared, row.id)
      BY <2>1, <3>1 DEF Known, Has, Up
    <3>2. ASSUME NEW d \in Client, Takes(d, op), Head(toHost[d]).row = row
          PROVE  row.id # i /\ \A e \in Client : Up(e)' \subseteq Up(e)
      <4>1. /\ Head(toHost[d]) \in Up(d) /\ Head(toHost[d]).op = op
            /\ \A e \in Client : Up(e)' \subseteq Up(e)
        BY <3>2, TakenUp
      <4>2. CASE d = a
        BY <2>6, <3>2, <4>1, <4>2, HeadOrder DEF i
      <4>3. CASE d # a
        <5>1. Foreign(d, i)
          BY <2>1, <4>3 DEF Author, i
        <5>2. QED
          BY <2>6, <3>2, <4>1, <5>1 DEF Foreign, About
      <4>4. QED
        BY <4>1, <4>2, <4>3
    <3>3. QED
      BY <2>6, <3>1, <3>2 DEF Meant
  <2>7. ASSUME NEW row \in Said, Corrects(row)
        PROVE  Author(a, f)'
    <3>1. Heard(Msg("edit", row)) /\ Meant("edit", row) /\ \A d \in Client : Rests(d)
      BY <2>7 DEF Corrects
    <3>2. QED
      BY <2>2, <2>6, <3>1, OpsDiffer
  <2>8. ASSUME NEW g \in Frame, Removes(g)
        PROVE  Author(a, f)'
    <3>1. Heard(g) /\ g.op = "delete" /\ Meant("delete", g.row) /\ \A d \in Client : Rests(d)
      BY <2>8 DEF Removes
    <3>2. QED
      BY <2>2, <2>6, <3>1
  <2>9. ASSUME NEW d \in Client, Answers(d)
        PROVE  Author(a, f)'
    <3>1. PICK op \in {"join", "republish"} : Takes(d, op)
      BY <2>9 DEF Answers
    <3>2. d # a
      BY <3>1, HeadOrder
    <3>3. \A e \in Client : Up(e)' \subseteq Up(e) /\ rows' = rows /\ applied' = applied
      BY <2>9, <3>1, TakenUp DEF Answers
    <3>4. /\ \A e \in Client \ {d} : Down(e)' = Down(e)
          /\ \A g \in Down(d)' : g.op \in {"edit", "delete"} => g \in Down(d)
      BY <2>9, AnsweredDown, OpsDiffer
    <3>5. QED
      BY <2>1, <3>2, <3>3, <3>4, AuthorKept
  <2>10. ASSUME NEW d \in Client, NEW row \in Said, Accepts(d, row)
         PROVE  Author(a, f)'
    <3>1. Takes(d, "turn") /\ toClient' = toClient /\ \A e \in Client : Rests(e)
      BY <2>10 DEF Accepts
    <3>2. \A e \in Client : Up(e)' \subseteq Up(e) /\ Down(e)' = Down(e)
      BY <3>1, TakenUp DEF Down
    <3>3. QED
      BY <2>1, <3>1, <3>2, AuthorKept DEF Rests
  <2>11. ASSUME NEW c \in Client, Alone(c),
                \A g \in Down(c)' : g \in Down(c),
                \/ c = a
                \/ /\ \A x \in Lines(rows'[c]) : Has(Lines(rows[c]), x.id) \/ x.id # i
                   /\ \A x \in applied'[c] : x \in applied[c] \/ x # i
                   /\ \A g \in Up(c)' : g.op \in {"edit", "delete"} =>
                        g \in Up(c) \/ g.row.id # i
         PROVE  Author(a, f)'
    <3>1. \A d \in Client \ {c} :
            rows'[d] = rows[d] /\ applied'[d] = applied[d] /\ Up(d)' = Up(d) /\ Down(d)' = Down(d)
      BY <2>11 DEF Alone, Rests, Up, Down
    <3>2. \A d \in Client \ {a} :
           /\ Has(Lines(rows'[d]), i) => Has(Lines(rows[d]), i)
           /\ i \in applied'[d] => i \in applied[d]
           /\ \A g \in Up(d)' : g.op \in {"edit", "delete"} /\ g.row.id = i => g \in Up(d)
      BY <2>11, <3>1 DEF Has
    <3>3. \A d \in Client : \A g \in Down(d)' : g \in Down(d)
      BY <2>11, <3>1
    <3>4. QED
      BY <2>1, <3>2, <3>3, AuthorKept DEF i
  <2>12. ASSUME NEW c \in Client, NEW row \in Said, Says(c, row)
         PROVE  Author(a, f)'
    <3>1. /\ Alone(c) /\ row.id = last + 1
          /\ rows'[c] = Append(rows[c], row) /\ applied'[c] = applied[c] \cup {row.id}
          /\ toHost'[c] = Append(toHost[c], Msg("turn", row)) /\ toClient'[c] = toClient[c]
      BY <2>12 DEF Says
    <3>2. row.id # i
      BY <2>1, <3>1
    <3>3. Lines(rows'[c]) \subseteq Lines(rows[c]) \cup {row}
      <4>1. rows[c] \in Seq(Message \cup {Empty})
        BY DEF TypeOK, Peer
      <4>2. Lines(rows'[c]) = Lines(rows[c]) \cup ({row} \cap Said)
        BY <3>1, <4>1, LinesAppend
      <4>3. QED
        BY <4>2
    <3>4. Up(c)' = Up(c) \cup {Msg("turn", row)} /\ Down(c)' = Down(c)
      BY <3>1, SentUp DEF Down
    <3>5. /\ \A x \in Lines(rows'[c]) : Has(Lines(rows[c]), x.id) \/ x.id # i
          /\ \A x \in applied'[c] : x \in applied[c] \/ x # i
          /\ \A g \in Up(c)' : g.op \in {"edit", "delete"} => g \in Up(c) \/ g.row.id # i
      BY <3>1, <3>2, <3>3, <3>4, OpsDiffer DEF Has
    <3>6. QED
      BY <2>11, <3>1, <3>4, <3>5
  <2>13. ASSUME NEW c \in Client, NEW row \in Said, NEW g,
                \/ CorrectsOwn(c, row) /\ g = Msg("edit", row)
                \/ RemovesOwn(c, g) /\ g.row = row
         PROVE  Author(a, f)'
    <3>1. /\ Alone(c) /\ applied'[c] = applied[c] /\ g.row = row
          /\ toHost'[c] = Append(toHost[c], g) /\ toClient'[c] = toClient[c]
          /\ Has(Lines(rows[c]), row.id)
          /\ \A x \in Lines(rows'[c]) : Has(Lines(rows[c]), x.id)
      BY <2>13, OpsDiffer DEF CorrectsOwn, RemovesOwn, Rewrites, Strikes
    <3>2. c # a => row.id # i
      BY <2>1, <3>1 DEF Author, Foreign, i
    <3>3. Up(c)' = Up(c) \cup {g} /\ Down(c)' = Down(c)
      BY <3>1, SentUp DEF Down
    <3>4. QED
      BY <2>11, <3>1, <3>2, <3>3
  <2>14. ASSUME NEW c \in Client,
                HearsAppend(c) \/ HearsEdit(c) \/ HearsDelete(c) \/ HearsState(c)
         PROVE  Author(a, f)'
    <3> DEFINE h == Head(toClient[c])
    <3>1. /\ Alone(c) /\ toHost' = toHost
          /\ \E op \in {"append", "edit", "delete", "state"} : Gets(c, op)
      BY <2>14 DEF HearsAppend, HearsEdit, HearsDelete, HearsState, Hears
    <3>2. Down(c) = Down(c)' \cup {h} /\ h \in Frame /\ Up(c)' = Up(c)
      BY <3>1, GotDown DEF Up
    <3>3. h.op \in {"append", "state"} => \A x \in Words(h) : x.id # i
      BY <2>1, <3>2 DEF Known, KnownAt
    <3>4. /\ \A x \in Lines(rows'[c]) : Has(Lines(rows[c]), x.id) \/ x.id # i
          /\ \A x \in applied'[c] : x \in applied[c] \/ x # i
      <4>1. CASE HearsAppend(c)
        <5>1. h.op = "append" /\ Got(c) = h.row /\ h.row.id # i
          BY <3>3, <4>1 DEF HearsAppend, Hears, Gets, Got, Words
        <5>2. QED
          BY <4>1, <5>1 DEF HearsAppend, Rests, Has
      <4>2. CASE HearsEdit(c) \/ HearsDelete(c)
        BY <4>2 DEF HearsEdit, HearsDelete, Rewrites, Strikes
      <4>3. CASE HearsState(c)
        <5>1. /\ h.op = "state" /\ rows'[c] = h.log
              /\ applied'[c] = applied[c] \cup ({h.log[k].id : k \in DOMAIN h.log} \ {None})
          BY <4>3 DEF HearsState, Hears, Gets
        <5>2. h.log \in Seq(Message)
          BY <3>2, <5>1, FramesCarry
        <5>3. \A k \in DOMAIN h.log : h.log[k].id = None \/ h.log[k] \in Lines(h.log)
          <6>1. \A k \in DOMAIN h.log : h.log[k] \in Message
            BY <5>2
          <6>2. QED
            BY <6>1, SaidTyped DEF Lines, Range
        <5>4. \A x \in Lines(h.log) : x.id # i
          BY <3>3, <5>1 DEF Words
        <5>5. QED
          BY <5>1, <5>3, <5>4
      <4>4. QED
        BY <2>14, <4>1, <4>2, <4>3
    <3>5. QED
      BY <2>11, <3>1, <3>2, <3>4
  <2>15. ASSUME NEW c \in Client, NEW g \in Frame, RemovesOwn(c, g)
         PROVE  Author(a, f)'
    BY <2>13, <2>15 DEF RemovesOwn
  <2>16. QED
    BY <2>3, <2>4, <2>5, <2>7, <2>8, <2>9, <2>10, <2>12, <2>13, <2>14, <2>15 DEF Kinds
<1>3. QED
  BY <1>1, <1>2

-----------------------------------------------------------------------------
(* What is on its way to a client makes up for what it lacks *)

\* The frame f with the frames A behind it, on their way to a client with the ids X
\* applied, while S is shared and a message m is being saved: the wording it brings
\* is the host's, or an edit follows; what follows as new is new; and a transcript,
\* with what follows, makes S.
Exact(f, A, S) ==
  \A row \in Words(f) : Has(S, row.id) /\ ~About(A, "edit", row.id) => row \in S

\* What is sent as new behind a frame is not in it, nor taken for old by the client.
Fresh(f, A, X) ==
  \A g \in A : g.op = "append" =>
    /\ f.op \in {"append", "delete"} => f.row.id # g.row.id
    /\ f.op = "state" => ~Has(Lines(f.log), g.row.id) /\ g.row.id \notin X

\* What is said was so: what is deleted is gone, what is being saved is not announced.
Timely(f, S, m, X) ==
  /\ f.op = "delete" => ~Has(S, f.row.id)
  /\ f.op = "append" => f.row.id # m
  /\ f.op = "state" => Single(f.log) /\ ~Has(Lines(f.log), m) /\ m \notin X

\* A transcript and what is behind it name every message the host has, and no other.
Complete(f, A, S, m) ==
  f.op = "state" => \A i \in Ids :
    Has(S, i) <=> /\ ~About(A, "delete", i)
                  /\ Has(Lines(f.log), i) \/ About(A, "append", i) \/ m = i

\* A frame f, before the frames A, to a client that applied X, where the host has S
\* and saves m.
Sound(f, A, S, m, X) ==
  Exact(f, A, S) /\ Fresh(f, A, X) /\ Timely(f, S, m, X) /\ Complete(f, A, S, m)

\* Every frame on its way to a client is sound.
Frames ==
  \A c \in Client : \A k \in DOMAIN toClient[c] :
    Sound(toClient[c][k], After(toClient[c], k), Shared, saved.id, applied[c])

\* Nothing is on its way at the start.
LEMMA InitFrames == Init => Frames
<1>1. Init => \A c \in Client : toClient[c] = <<>>
  BY DEF Init
<1>2. DOMAIN <<>> = {}
  OBVIOUS
<1>3. QED
  BY <1>1, <1>2 DEF Frames

\* A signal says nothing that could be wrong.
LEMMA SignalsSound ==
  ASSUME NEW f, f.op \in Signals, NEW A, NEW S, NEW m, NEW X
  PROVE  Sound(f, A, S, m, X)
BY OpsDiffer DEF Sound, Exact, Fresh, Timely, Complete, Words

\* Nothing is said, and what becomes applied is not what is to come.
LEMMA SoundRests ==
  ASSUME NEW f, NEW A, NEW B, NEW S, NEW m, NEW X, NEW Y,
         Sound(f, A, S, m, X), Spoken(B) = Spoken(A),
         f.op = "state" => m \notin Y /\ \A g \in A : g.op = "append" => g.row.id \notin Y
  PROVE  Sound(f, B, S, m, Y)
<1>1. \A op \in {"append", "edit", "delete"} : \A i : About(A, op, i) <=> About(B, op, i)
  BY DEF About, Spoken
<1>2. \A g \in B : g.op = "append" => g \in A
  BY DEF Spoken
<1>3. QED
  BY <1>1, <1>2 DEF Sound, Exact, Fresh, Timely, Complete

\* A new message, sent as it is added.
LEMMA SoundAdd ==
  ASSUME NEW f, NEW A, NEW S, NEW m, NEW X, NEW row \in Said,
         Sound(f, A, S, m, X), row.id \notin X, ~About(A, "delete", row.id),
         \A x \in Words(f) : x.id # row.id, f.op = "delete" => f.row.id # row.id
  PROVE  Sound(f, A \cup {Msg("append", row)}, S \cup {row}, m, X)
<1> DEFINE B == A \cup {Msg("append", row)}
<1> DEFINE T == S \cup {row}
<1>1. /\ \A i : About(B, "delete", i) <=> About(A, "delete", i)
      /\ \A i : About(B, "edit", i) <=> About(A, "edit", i)
      /\ \A i : About(B, "append", i) <=> About(A, "append", i) \/ i = row.id
  BY OpsDiffer DEF About
<1>2. /\ \A i : Has(T, i) <=> Has(S, i) \/ i = row.id
      /\ \A g \in B : g \in A \/ g.row = row
  BY OpsDiffer DEF Has
<1>3. /\ f.op = "append" => f.row.id # row.id
      /\ f.op = "state" => ~Has(Lines(f.log), row.id)
  BY DEF Words, Has
<1> HIDE DEF B
<1>4. Exact(f, B, T)
  BY <1>1, <1>2 DEF Sound, Exact
<1> HIDE DEF T
<1>5. Fresh(f, B, X)
  BY <1>2, <1>3 DEF Sound, Fresh
<1>6. Timely(f, T, m, X)
  BY <1>2 DEF Sound, Timely
<1>7. Complete(f, B, T, m)
  BY <1>1, <1>2, <1>3 DEF Sound, Complete
<1>8. QED
  BY <1>4, <1>5, <1>6, <1>7 DEF Sound, B, T

\* A new message, sent when it is saved.
LEMMA SoundTake ==
  ASSUME NEW f, NEW A, NEW S, NEW m, NEW X, NEW row \in Said,
         Sound(f, A, S, m, X), m \notin Ids, f.op = "state" => row.id \notin X,
         ~About(A, "delete", row.id),
         \A x \in Words(f) : x.id # row.id, f.op = "delete" => f.row.id # row.id
  PROVE  Sound(f, A, S \cup {row}, row.id, X)
<1> DEFINE T == S \cup {row}
<1>1. \A i : Has(T, i) <=> Has(S, i) \/ i = row.id
  BY DEF Has
<1>2. /\ f.op = "append" => f.row.id # row.id
      /\ f.op = "state" => ~Has(Lines(f.log), row.id)
  BY DEF Words, Has
<1>3. Exact(f, A, T)
  BY <1>1 DEF Sound, Exact
<1> HIDE DEF T
<1>4. Fresh(f, A, X)
  BY DEF Sound
<1>5. Timely(f, T, row.id, X)
  BY <1>1, <1>2 DEF Sound, Timely
<1>6. Complete(f, A, T, row.id)
  BY <1>1, <1>2 DEF Sound, Complete
<1>7. QED
  BY <1>3, <1>4, <1>5, <1>6 DEF Sound, T

\* The saved message is sent.
LEMMA SoundSave ==
  ASSUME NEW f \in Frame, NEW A, NEW S, NEW m, NEW X, NEW row \in S,
         Sound(f, A, S, row.id, X), m \notin Ids, X \subseteq Ids
  PROVE  Sound(f, A \cup {Msg("append", row)}, S, m, X)
<1> DEFINE B == A \cup {Msg("append", row)}
<1>1. /\ \A i : About(B, "delete", i) <=> About(A, "delete", i)
      /\ \A i : About(B, "edit", i) <=> About(A, "edit", i)
      /\ \A i : About(B, "append", i) <=> About(A, "append", i) \/ i = row.id
      /\ \A g \in B : g \in A \/ g.row = row
  BY OpsDiffer DEF About
<1>2. Has(S, row.id)
  BY DEF Has
<1>3. /\ f.op = "append" => f.row.id \in Ids
      /\ ~Has(Lines(f.log), m)
  BY SaidTyped, FramesCarry DEF Has, Lines
<1> HIDE DEF B
<1>4. Exact(f, B, S)
  BY <1>1 DEF Sound, Exact
<1>5. Fresh(f, B, X)
  BY <1>1, <1>2 DEF Sound, Fresh, Timely
<1>6. Timely(f, S, m, X)
  BY <1>3 DEF Sound, Timely
<1>7. Complete(f, B, S, m)
  BY <1>1 DEF Sound, Complete
<1>8. QED
  BY <1>4, <1>5, <1>6, <1>7 DEF Sound, B

\* A correction sent as it is made.
LEMMA SoundEdit ==
  ASSUME NEW f, NEW A, NEW S, NEW m, NEW X, NEW row, Sound(f, A, S, m, X)
  PROVE  Sound(f, A \cup {Msg("edit", row)}, Rewrite(S, row), m, X)
<1> DEFINE B == A \cup {Msg("edit", row)}
<1> DEFINE T == Rewrite(S, row)
<1>1. /\ \A i : About(B, "delete", i) <=> About(A, "delete", i)
      /\ \A i : About(B, "edit", i) <=> About(A, "edit", i) \/ i = row.id
      /\ \A i : About(B, "append", i) <=> About(A, "append", i)
      /\ \A g \in B : g.op = "append" => g \in A
  BY OpsDiffer DEF About
<1>2. /\ \A i : Has(T, i) <=> Has(S, i)
      /\ \A x \in S : x.id # row.id => x \in T
  BY DEF Has, Rewrite
<1> HIDE DEF B, T
<1>3. Exact(f, B, T)
  BY <1>1, <1>2 DEF Sound, Exact
<1>4. Fresh(f, B, X)
  BY <1>1 DEF Sound, Fresh
<1>5. Timely(f, T, m, X)
  BY <1>2 DEF Sound, Timely
<1>6. Complete(f, B, T, m)
  BY <1>1, <1>2 DEF Sound, Complete
<1>7. QED
  BY <1>3, <1>4, <1>5, <1>6 DEF Sound, B, T

\* A removal sent as it is made.
LEMMA SoundDelete ==
  ASSUME NEW f, NEW A, NEW S, NEW m, NEW X, NEW g, g.op = "delete", Sound(f, A, S, m, X)
  PROVE  Sound(f, A \cup {g}, Without(S, g.row.id), m, X)
<1> DEFINE B == A \cup {g}
<1> DEFINE T == Without(S, g.row.id)
<1>1. /\ \A i : About(B, "delete", i) <=> About(A, "delete", i) \/ i = g.row.id
      /\ \A i : About(B, "edit", i) <=> About(A, "edit", i)
      /\ \A i : About(B, "append", i) <=> About(A, "append", i)
      /\ \A h \in B : h.op = "append" => h \in A
  BY DEF About
<1>2. /\ \A i : Has(T, i) <=> Has(S, i) /\ i # g.row.id
      /\ \A x \in S : x.id # g.row.id => x \in T
  BY DEF Has, Without
<1> HIDE DEF B, T
<1>3. Exact(f, B, T)
  BY <1>1, <1>2 DEF Sound, Exact
<1>4. Fresh(f, B, X)
  BY <1>1 DEF Sound, Fresh
<1>5. Timely(f, T, m, X)
  BY <1>2 DEF Sound, Timely
<1>6. Complete(f, B, T, m)
  BY <1>1, <1>2 DEF Sound, Complete
<1>7. QED
  BY <1>3, <1>4, <1>5, <1>6 DEF Sound, B, T

\* Nothing comes behind the frame that was just sent.
LEMMA SoundLast ==
  ASSUME NEW f, NEW S, NEW m, NEW X,
         \A row \in Words(f) : Has(S, row.id) => row \in S,
         f.op = "delete" => ~Has(S, f.row.id), f.op = "append" => f.row.id # m,
         f.op = "state" => /\ Single(f.log) /\ Lines(f.log) = S
                           /\ ~Has(S, m) /\ m \notin Ids /\ m \notin X
  PROVE  Sound(f, {}, S, m, X)
<1>1. \A op, i : ~About({}, op, i)
  BY DEF About
<1>2. QED
  BY <1>1 DEF Sound, Exact, Fresh, Timely, Complete

-----------------------------------------------------------------------------

\* A broadcast to a client: nothing is on its way to one that is not there.
LEMMA HeardFrames ==
  ASSUME TypeOK, StreamOrder, NEW g, Heard(g), NEW c \in Client, NEW S, NEW m, NEW X,
         \A k \in DOMAIN toClient[c] :
           Sound(toClient[c][k], After(toClient[c], k) \cup {g}, S, m, X),
         Sound(g, {}, S, m, X)
  PROVE  \A k \in DOMAIN toClient'[c] : Sound(toClient'[c][k], After(toClient'[c], k), S, m, X)
<1>1. CASE c \in online
  <2> DEFINE q == toClient[c]
  <2> DEFINE r == Append(q, g)
  <2>1. toClient'[c] = r /\ q \in Seq(Frame)
    BY <1>1 DEF Heard, TypeOK
  <2>2. \A k \in DOMAIN r :
          \/ k \in DOMAIN q /\ r[k] = q[k] /\ After(r, k) = After(q, k) \cup {g}
          \/ r[k] = g /\ After(r, k) = {}
    BY <2>1, AppendAfter
  <2>3. \A k \in DOMAIN q : Sound(q[k], After(q, k) \cup {g}, S, m, X)
    OBVIOUS
  <2> HIDE DEF q, r
  <2>4. \A k \in DOMAIN r : Sound(r[k], After(r, k), S, m, X)
    BY <2>2, <2>3
  <2>5. QED
    BY <2>1, <2>4
<1>2. CASE c \notin online
  <2>1. toClient'[c] = <<>>
    BY <1>2 DEF Heard, StreamOrder
  <2>2. DOMAIN <<>> = {}
    OBVIOUS
  <2>3. QED
    BY <2>1, <2>2
<1>3. QED
  BY <1>1, <1>2

\* The next frame of a client is taken.
LEMMA GotFrames ==
  ASSUME TypeOK, Frames, NEW c \in Client, NEW op, Gets(c, op), NEW Y,
         \A g \in Down(c)' : g.op = "append" => g.row.id \notin Y \ applied[c],
         saved.id \notin Y \ applied[c]
  PROVE  /\ Sound(Head(toClient[c]), Down(c)', Shared, saved.id, applied[c])
         /\ \A k \in DOMAIN toClient'[c] :
              Sound(toClient'[c][k], After(toClient'[c], k), Shared, saved.id, Y)
<1> DEFINE q == toClient[c]
<1> DEFINE r == Tail(q)
<1>1. toClient'[c] = r /\ q \in Seq(Frame) /\ q # <<>>
  BY DEF Gets, TypeOK
<1>2. /\ 1 \in DOMAIN q /\ q[1] = Head(q) /\ After(q, 1) = Range(r)
      /\ \A k \in DOMAIN r : k + 1 \in DOMAIN q /\ r[k] = q[k + 1] /\ After(r, k) = After(q, k + 1)
  BY <1>1, TailAfter
<1>3. \A k \in DOMAIN q : Sound(q[k], After(q, k), Shared, saved.id, applied[c])
  BY DEF Frames
<1>4. Down(c)' = Range(r)
  BY <1>1 DEF Down
<1> HIDE DEF q, r
<1>5. Sound(Head(q), Down(c)', Shared, saved.id, applied[c])
  BY <1>2, <1>3, <1>4
<1>6. ASSUME NEW k \in DOMAIN r
      PROVE  Sound(r[k], After(r, k), Shared, saved.id, Y)
  <2>1. Sound(r[k], After(r, k), Shared, saved.id, applied[c])
    BY <1>2, <1>3
  <2>2. After(r, k) \subseteq Down(c)'
    BY <1>4 DEF After, Range
  <2>3. r[k].op = "state" => /\ saved.id \notin Y
                             /\ \A g \in After(r, k) : g.op = "append" => g.row.id \notin Y
    BY <2>1, <2>2 DEF Sound, Fresh, Timely
  <2>4. QED
    BY <2>1, <2>3, SoundRests
<1>7. QED
  BY <1>1, <1>5, <1>6 DEF q

\* A frame on its way, and what stands behind it.
LEMMA FrameAt ==
  ASSUME TypeOK, NEW c \in Client, NEW k \in DOMAIN toClient[c]
  PROVE  /\ toClient[c][k] \in Frame /\ toClient[c][k] \in Down(c)
         /\ After(toClient[c], k) \subseteq Down(c)
<1>1. toClient[c] \in Seq(Frame)
  BY DEF TypeOK
<1>2. QED
  BY <1>1 DEF Down, Range, After

\* Frames stay sound where there is no news.
LEMMA NoNewsFrames ==
  ASSUME Frames, NoNews
  PROVE  Frames'
<1> SUFFICES ASSUME NEW c \in Client, NEW k \in DOMAIN toClient'[c]
             PROVE  Sound(toClient'[c][k], After(toClient'[c], k), Shared, saved.id, applied'[c])
  BY DEF Frames, NoNews
<1>1. Trims(toClient[c], toClient'[c]) /\ applied'[c] \subseteq applied[c]
  BY DEF NoNews, Idles
<1>2. CASE toClient'[c][k].op \in Signals
  BY <1>2, SignalsSound
<1>3. ASSUME NEW j \in DOMAIN toClient[c], toClient'[c][k] = toClient[c][j],
             Spoken(After(toClient'[c], k)) = Spoken(After(toClient[c], j))
      PROVE  Sound(toClient'[c][k], After(toClient'[c], k), Shared, saved.id, applied'[c])
  <2>1. Sound(toClient[c][j], After(toClient[c], j), Shared, saved.id, applied[c])
    BY DEF Frames
  <2> DEFINE f == toClient[c][j]
  <2> DEFINE A == After(toClient[c], j)
  <2>2. f.op = "state" => /\ saved.id \notin applied'[c]
                          /\ \A g \in A : g.op = "append" => g.row.id \notin applied'[c]
    BY <1>1, <2>1 DEF Sound, Fresh, Timely
  <2> HIDE DEF f, A
  <2>3. Sound(f, After(toClient'[c], k), Shared, saved.id, applied'[c])
    BY <1>3, <2>1, <2>2, SoundRests DEF f, A
  <2>4. QED
    BY <1>3, <2>3 DEF f
<1>4. QED
  BY <1>1, <1>2, <1>3 DEF Trims

\* Frames stay sound as the host adds a message.
LEMMA AddsFrames ==
  ASSUME TypeOK, StreamOrder, Known, Frames, NEW row \in Said, Adds(row)
  PROVE  Frames'
<1>1. /\ row.id = last + 1 /\ last \in Nat /\ saved' = saved /\ Shared' = Shared \cup {row}
      /\ Heard(Msg("append", row))
  BY DEF Adds, TypeOK
<1>2. saved.id # row.id
  BY <1>1 DEF Known, Empty
<1> SUFFICES ASSUME NEW c \in Client
             PROVE  \A k \in DOMAIN toClient'[c] :
               Sound(toClient'[c][k], After(toClient'[c], k), Shared \cup {row}, saved.id, applied[c])
  BY <1>1 DEF Frames, Adds, Rests
<1>3. KnownAt(c) /\ posted \subseteq 1..last
  BY DEF Known
<1>4. ASSUME NEW k \in DOMAIN toClient[c]
      PROVE  Sound(toClient[c][k], After(toClient[c], k) \cup {Msg("append", row)},
                   Shared \cup {row}, saved.id, applied[c])
  <2> DEFINE f == toClient[c][k]
  <2> DEFINE A == After(toClient[c], k)
  <2>1. Sound(f, A, Shared, saved.id, applied[c]) /\ f \in Down(c) /\ A \subseteq Down(c)
    BY FrameAt DEF Frames
  <2> HIDE DEF f, A
  <2>2. row.id \notin applied[c] /\ ~About(A, "delete", row.id)
    BY <1>1, <1>3, <2>1 DEF KnownAt, About
  <2>3. /\ \A x \in Words(f) : x.id # row.id
        /\ f.op = "delete" => f.row.id # row.id
    BY <1>1, <1>3, <2>1 DEF KnownAt, Words
  <2>4. QED
    BY <2>1, <2>2, <2>3, SoundAdd DEF f, A
<1>5. Sound(Msg("append", row), {}, Shared \cup {row}, saved.id, applied[c])
  <2> DEFINE g == Msg("append", row)
  <2>1. g.op = "append" /\ g.row = row /\ Words(g) = {row}
    BY OpsDiffer DEF Words
  <2> HIDE DEF g
  <2>2. QED
    BY <1>2, <2>1, SoundLast DEF g
<1>6. QED
  BY <1>1, <1>4, <1>5, HeardFrames

\* Frames stay sound as a saved turn is announced.
LEMMA AnnouncesFrames ==
  ASSUME TypeOK, StreamOrder, Known, Frames, Announces
  PROVE  Frames'
<1>1. /\ saved \in Shared /\ saved \in Said /\ saved' = Empty /\ Shared' = Shared /\ applied' = applied
      /\ Heard(Msg("append", saved)) /\ Empty.id \notin Ids
  BY DEF Announces, Known, Shared, Lines, Empty, Ids
<1>2. saved.id \in Ids
  BY <1>1, SaidTyped
<1> SUFFICES ASSUME NEW c \in Client
             PROVE  \A k \in DOMAIN toClient'[c] :
               Sound(toClient'[c][k], After(toClient'[c], k), Shared, Empty.id, applied[c])
  BY <1>1 DEF Frames
<1>3. applied[c] \subseteq Ids
  BY DEF TypeOK, Peer
<1>4. ASSUME NEW k \in DOMAIN toClient[c]
      PROVE  Sound(toClient[c][k], After(toClient[c], k) \cup {Msg("append", saved)},
                   Shared, Empty.id, applied[c])
  BY <1>1, <1>3, FrameAt, SoundSave DEF Frames
<1>5. Sound(Msg("append", saved), {}, Shared, Empty.id, applied[c])
  <2> DEFINE g == Msg("append", saved)
  <2>1. g.op = "append" /\ g.row = saved /\ Words(g) = {saved}
    BY OpsDiffer DEF Words
  <2> HIDE DEF g
  <2>2. QED
    BY <1>1, <1>2, <2>1, SoundLast DEF g
<1>6. QED
  BY <1>1, <1>4, <1>5, HeardFrames

\* Frames stay sound as the host corrects a message.
LEMMA CorrectsFrames ==
  ASSUME TypeOK, StreamOrder, Frames, NEW row \in Said, Corrects(row)
  PROVE  Frames'
<1>1. /\ saved' = Reworded(row) /\ Shared' = Rewrite(Shared, row) /\ Heard(Msg("edit", row))
      /\ \A c \in Client : applied'[c] = applied[c]
  BY DEF Corrects, Rests
<1>2. saved'.id = saved.id
  BY <1>1 DEF Reworded
<1> SUFFICES ASSUME NEW c \in Client
             PROVE  \A k \in DOMAIN toClient'[c] :
               Sound(toClient'[c][k], After(toClient'[c], k), Rewrite(Shared, row), saved.id, applied[c])
  BY <1>1, <1>2 DEF Frames
<1>3. ASSUME NEW k \in DOMAIN toClient[c]
      PROVE  Sound(toClient[c][k], After(toClient[c], k) \cup {Msg("edit", row)},
                   Rewrite(Shared, row), saved.id, applied[c])
  BY SoundEdit DEF Frames
<1>4. Sound(Msg("edit", row), {}, Rewrite(Shared, row), saved.id, applied[c])
  <2> DEFINE g == Msg("edit", row)
  <2>1. g.op = "edit" /\ g.row = row /\ Words(g) = {row}
    BY OpsDiffer DEF Words
  <2>2. Has(Rewrite(Shared, row), row.id) => row \in Rewrite(Shared, row)
    BY DEF Has, Rewrite
  <2> HIDE DEF g
  <2>3. QED
    BY <2>1, <2>2, SoundLast DEF g
<1>5. QED
  BY <1>1, <1>3, <1>4, HeardFrames

\* Frames stay sound as the host removes a message.
LEMMA RemovesFrames ==
  ASSUME TypeOK, StreamOrder, Frames, NEW g \in Frame, Removes(g)
  PROVE  Frames'
<1>1. /\ saved' = saved /\ Shared' = Without(Shared, g.row.id) /\ Heard(g) /\ g.op = "delete"
      /\ \A c \in Client : applied'[c] = applied[c]
  BY DEF Removes, Rests
<1> SUFFICES ASSUME NEW c \in Client
             PROVE  \A k \in DOMAIN toClient'[c] :
               Sound(toClient'[c][k], After(toClient'[c], k), Without(Shared, g.row.id), saved.id, applied[c])
  BY <1>1 DEF Frames
<1>2. ASSUME NEW k \in DOMAIN toClient[c]
      PROVE  Sound(toClient[c][k], After(toClient[c], k) \cup {g},
                   Without(Shared, g.row.id), saved.id, applied[c])
  BY <1>1, SoundDelete DEF Frames
<1>3. Sound(g, {}, Without(Shared, g.row.id), saved.id, applied[c])
  <2>1. Words(g) = {} /\ ~Has(Without(Shared, g.row.id), g.row.id)
    BY <1>1 DEF Words, Without, Has
  <2>2. QED
    BY <1>1, <2>1, SoundLast
<1>4. QED
  BY <1>1, <1>2, <1>3, HeardFrames

\* Frames stay sound as the host takes a turn.
LEMMA AcceptsFrames ==
  ASSUME TypeOK, TurnsAreNew, Known, Authored, Frames,
         NEW d \in Client, NEW row \in Said, Accepts(d, row)
  PROVE  Frames'
<1>1. /\ saved = Empty /\ saved' = row /\ Shared' = Shared \cup {row} /\ toClient' = toClient
      /\ \A c \in Client : applied'[c] = applied[c]
      /\ Takes(d, "turn") /\ row = Head(toHost[d]).row /\ Empty.id \notin Ids
  BY DEF Accepts, Rests, Empty, Ids
<1>2. Head(toHost[d]) \in Up(d) /\ Head(toHost[d]).op = "turn"
  BY <1>1, TakenUp
<1>3. row.id \notin posted /\ Author(d, Head(toHost[d]))
  BY <1>1, <1>2, TurnFresh DEF Authored
<1> SUFFICES ASSUME NEW c \in Client, NEW k \in DOMAIN toClient[c]
             PROVE  Sound(toClient[c][k], After(toClient[c], k), Shared \cup {row}, row.id, applied[c])
  BY <1>1 DEF Frames
<1> DEFINE f == toClient[c][k]
<1> DEFINE A == After(toClient[c], k)
<1>4. Sound(f, A, Shared, Empty.id, applied[c]) /\ f \in Down(c) /\ A \subseteq Down(c)
  BY <1>1, FrameAt DEF Frames
<1> HIDE DEF f, A
<1>5. ~About(Down(c), "edit", row.id) /\ ~About(Down(c), "delete", row.id)
  BY <1>1, <1>3 DEF Author, Unmentioned
<1>6. f.op = "state" => row.id \notin applied[c]
  BY <1>1, <1>3, <1>4 DEF Author, Foreign
<1>7. \A x \in Words(f) : x.id # row.id
  <2>1. KnownAt(c)
    BY DEF Known
  <2>2. CASE f.op = "edit"
    BY <1>4, <1>5, <2>2 DEF Words, About
  <2>3. CASE f.op # "edit"
    BY <1>3, <1>4, <2>1, <2>3 DEF KnownAt
  <2>4. QED
    BY <2>2, <2>3
<1>8. ~About(A, "delete", row.id) /\ (f.op = "delete" => f.row.id # row.id)
  BY <1>4, <1>5 DEF About
<1>9. QED
  BY <1>1, <1>4, <1>6, <1>7, <1>8, SoundTake DEF f, A

\* The transcript sent is sound, and so is what stands before it.
LEMMA AnswersFrames ==
  ASSUME TypeOK, Single(rows[Host]), Frames, NEW c \in Client, Answers(c)
  PROVE  Frames'
<1>1. /\ saved = Empty /\ saved' = Empty /\ Shared' = Shared /\ applied' = applied
      /\ \A d \in Client \ {c} : toClient'[d] = toClient[d]
      /\ toClient[c] \in Seq(Frame) /\ Empty.id \notin Ids /\ applied[c] \subseteq Ids
  BY DEF Answers, Shared, TypeOK, Peer, Empty, Ids
<1> DEFINE Good(q) == \A k \in DOMAIN q : Sound(q[k], After(q, k), Shared, Empty.id, applied[c])
<1>2. Good(toClient[c])
  BY <1>1 DEF Frames
<1>3. ASSUME NEW q \in Seq(Frame), Good(q), NEW f, f.op \in Signals \cup {"state"},
             Sound(f, {}, Shared, Empty.id, applied[c])
      PROVE  Good(Append(q, f))
  <2> DEFINE r == Append(q, f)
  <2>1. \A k \in DOMAIN r :
          \/ k \in DOMAIN q /\ r[k] = q[k] /\ After(r, k) = After(q, k) \cup {f}
          \/ r[k] = f /\ After(r, k) = {}
    BY AppendAfter
  <2> HIDE DEF r
  <2>2. ASSUME NEW k \in DOMAIN r
        PROVE  Sound(r[k], After(r, k), Shared, Empty.id, applied[c])
    <3>1. CASE k \in DOMAIN q /\ r[k] = q[k] /\ After(r, k) = After(q, k) \cup {f}
      <4>1. Sound(q[k], After(q, k), Shared, Empty.id, applied[c])
        BY <1>3, <3>1
      <4>2. Spoken(After(r, k)) = Spoken(After(q, k))
        BY <1>3, <3>1, OpsDiffer DEF Spoken
      <4>3. q[k].op = "state" =>
              /\ Empty.id \notin applied[c]
              /\ \A g \in After(q, k) : g.op = "append" => g.row.id \notin applied[c]
        BY <4>1 DEF Sound, Fresh, Timely
      <4>4. Sound(q[k], After(r, k), Shared, Empty.id, applied[c])
        BY <4>1, <4>2, <4>3, SoundRests
      <4>5. QED
        BY <3>1, <4>4
    <3>2. CASE r[k] = f /\ After(r, k) = {}
      BY <1>3, <3>2
    <3>3. QED
      BY <2>1, <3>1, <3>2
  <2>3. QED
    BY <2>2 DEF r
<1> DEFINE t == Transcript(rows[Host])
<1>4. Sound(t, {}, Shared, Empty.id, applied[c]) /\ t.op = "state"
  <2>1. t.op = "state" /\ t.log = rows[Host] /\ Words(t) = Shared /\ Lines(t.log) = Shared
    BY OpsDiffer DEF Words, Shared
  <2>2. \A row \in Shared : row.id \in Ids
    BY SaidTyped DEF Shared, Lines
  <2>3. ~Has(Shared, Empty.id) /\ Empty.id \notin applied[c]
    BY <1>1, <2>2 DEF Has
  <2> HIDE DEF t
  <2>4. QED
    BY <1>1, <2>1, <2>3, SoundLast
<1> HIDE DEF Good, t
<1>5. Good(toClient'[c])
  <2>1. CASE c \notin online
    BY <1>2, <2>1 DEF Answers
  <2>2. CASE c \in online
    <3>1. PICK q \in Seq(Frame) :
            /\ q = toClient[c] \/ \E f \in Frame : f.op \in Signals /\ q = Append(toClient[c], f)
            /\ toClient'[c] = Append(q, t)
      BY <2>2 DEF Answers, t
    <3>2. Good(q)
      <4>1. ASSUME NEW f \in Frame, f.op \in Signals
            PROVE  Good(Append(toClient[c], f))
        BY <1>1, <1>2, <1>3, <4>1, SignalsSound
      <4>2. QED
        BY <1>2, <3>1, <4>1
    <3>3. QED
      BY <1>3, <1>4, <3>1, <3>2
  <2>3. QED
    BY <2>1, <2>2
<1>6. QED
  BY <1>1, <1>5 DEF Frames, Good

\* What concerns only c leaves the frames to the others alone.
LEMMA AloneFrames ==
  ASSUME Frames, NEW c \in Client, Alone(c),
         \A k \in DOMAIN toClient'[c] :
           Sound(toClient'[c][k], After(toClient'[c], k), Shared, saved.id, applied'[c])
  PROVE  Frames'
<1>1. Shared' = Shared /\ saved' = saved
  BY DEF Alone, Shared
<1>2. \A d \in Client \ {c} : toClient'[d] = toClient[d] /\ applied'[d] = applied[d]
  BY DEF Alone, Rests
<1>3. QED
  BY <1>1, <1>2 DEF Frames

\* What a client edits or deletes itself leaves what is on its way to it.
LEMMA OwnFrames ==
  ASSUME Frames, NEW c \in Client, Alone(c), applied'[c] = applied[c], toClient'[c] = toClient[c]
  PROVE  Frames'
BY AloneFrames DEF Frames

\* A client's turn has an id nothing on its way is about.
LEMMA SaysFrames ==
  ASSUME TypeOK, Known, Frames, NEW c \in Client, NEW row \in Said, Says(c, row)
  PROVE  Frames'
<1>1. /\ Alone(c) /\ row.id = last + 1 /\ last \in Nat /\ toClient'[c] = toClient[c]
      /\ applied'[c] = applied[c] \cup {row.id} /\ KnownAt(c) /\ posted \subseteq 1..last
  BY DEF Says, TypeOK, Known
<1>2. saved.id # row.id
  BY <1>1 DEF Known, Empty
<1>3. \A g \in Down(c) : g.op = "append" => g.row.id # row.id
  BY <1>1 DEF KnownAt, Words
<1>4. ASSUME NEW k \in DOMAIN toClient[c]
      PROVE  Sound(toClient[c][k], After(toClient[c], k), Shared, saved.id, applied'[c])
  <2> DEFINE f == toClient[c][k]
  <2> DEFINE A == After(toClient[c], k)
  <2>1. Sound(f, A, Shared, saved.id, applied[c]) /\ A \subseteq Down(c)
    BY FrameAt DEF Frames
  <2> HIDE DEF f, A
  <2>2. f.op = "state" => /\ saved.id \notin applied'[c]
                          /\ \A g \in A : g.op = "append" => g.row.id \notin applied'[c]
    BY <1>1, <1>2, <1>3, <2>1 DEF Sound, Fresh, Timely
  <2>3. Sound(f, A, Shared, saved.id, applied'[c])
    BY <2>1, <2>2, SoundRests
  <2>4. QED
    BY <2>3 DEF f, A
<1>5. QED
  BY <1>1, <1>4, AloneFrames

\* Frames stay sound as those before them are read.
LEMMA HearsFrames ==
  ASSUME TypeOK, Frames, NEW c \in Client,
         HearsAppend(c) \/ HearsEdit(c) \/ HearsDelete(c) \/ HearsState(c)
  PROVE  Frames'
<1> DEFINE h == Head(toClient[c])
<1>1. PICK op \in {"append", "edit", "delete", "state"} : Gets(c, op) /\ Hears(c, op)
  BY DEF HearsAppend, HearsEdit, HearsDelete, HearsState, Hears
<1>2. h.op = op /\ h \in Frame /\ Alone(c)
  BY <1>1, GotDown DEF Hears
<1>3. Sound(h, Down(c)', Shared, saved.id, applied[c])
  BY <1>1, GotFrames
<1> HIDE DEF h
<1>4. /\ \A g \in Down(c)' : g.op = "append" => g.row.id \notin applied'[c] \ applied[c]
      /\ saved.id \notin applied'[c] \ applied[c]
  <2>1. CASE HearsEdit(c) \/ HearsDelete(c)
    BY <2>1 DEF HearsEdit, HearsDelete
  <2>2. CASE HearsAppend(c)
    <3>1. h.op = "append" /\ applied'[c] \subseteq applied[c] \cup {h.row.id}
      BY <2>2 DEF HearsAppend, Hears, Gets, Got, Rests, h
    <3>2. QED
      BY <1>3, <3>1 DEF Sound, Fresh, Timely
  <2>3. CASE HearsState(c)
    <3>1. h.op = "state" /\ applied'[c] = applied[c] \cup ({h.log[k].id : k \in DOMAIN h.log} \ {None})
      BY <2>3 DEF HearsState, Hears, Gets, h
    <3>2. h.log \in Seq(Message)
      BY <1>2, <3>1, FramesCarry
    <3>3. \A k \in DOMAIN h.log : h.log[k].id = None \/ h.log[k] \in Lines(h.log)
      <4>1. \A k \in DOMAIN h.log : h.log[k] \in Message
        BY <3>2
      <4>2. QED
        BY <4>1, SaidTyped DEF Lines, Range
    <3>4. \A i \in applied'[c] \ applied[c] : Has(Lines(h.log), i)
      BY <3>1, <3>3 DEF Has
    <3>5. QED
      BY <1>3, <3>1, <3>4 DEF Sound, Fresh, Timely
  <2>4. QED
    BY <2>1, <2>2, <2>3
<1>5. \A k \in DOMAIN toClient'[c] :
        Sound(toClient'[c][k], After(toClient'[c], k), Shared, saved.id, applied'[c])
  BY <1>1, <1>4, GotFrames
<1>6. QED
  BY <1>2, <1>5, AloneFrames

\* Every step keeps what is on its way to the clients sound.
LEMMA StepFrames ==
  ASSUME TypeOK, StreamOrder, Single(rows[Host]), TurnsAreNew, Known, Authored, Frames, Kinds
  PROVE  Frames'
<1>1. ASSUME NEW c \in Client, NEW f \in Frame, RemovesOwn(c, f)
      PROVE  Frames'
  BY <1>1, OwnFrames DEF RemovesOwn
<1>2. ASSUME NEW c \in Client, NEW row \in Said, CorrectsOwn(c, row)
      PROVE  Frames'
  BY <1>2, OwnFrames DEF CorrectsOwn
<1>3. QED
  BY <1>1, <1>2, NoNewsFrames, AddsFrames, AcceptsFrames, AnnouncesFrames, CorrectsFrames,
     RemovesFrames, AnswersFrames, SaysFrames, HearsFrames DEF Kinds

-----------------------------------------------------------------------------
(* A client that follows lacks only what is on its way *)

\* A client shows the messages L and has applied the ids X; the frames U are on their
\* way from it, D to it; S is shared, and a message m is being saved.  Its own turns
\* it shows until it takes them back, as they were sent until it edits them.
OwnTurns(L, U) ==
  \A f \in U : f.op = "turn" =>
    /\ Has(L, f.row.id) <=> ~About(U, "delete", f.row.id)
    /\ \A row \in L : row.id = f.row.id /\ ~About(U, "edit", f.row.id) => row = f.row

\* What the host has been told of, it shows as long as the client does, or is to be
\* told; and the other way round.
SameMessages(L, X, U, D, S, m) ==
  \A i \in Ids : ~About(U, "turn", i) /\ ~About(U, "delete", i) =>
    (Has(S, i) <=> /\ ~About(D, "delete", i)
                   /\ \/ Has(L, i)
                      \/ i \notin X /\ (m = i \/ About(D, "append", i)))

\* The wording differs only while an edit is on its way.
SameWording(L, U, D, S) ==
  \A row \in L : Has(S, row.id) /\ ~About(D, "edit", row.id) /\ ~About(U, "edit", row.id) => row \in S

\* The messages L of a client that applied X, with U and D on their way to and from
\* the host.
Mirrors(L, X, U, D, S, m) ==
  /\ \A row \in L : row.id \in X
  /\ OwnTurns(L, U) /\ SameMessages(L, X, U, D, S, m) /\ SameWording(L, U, D, S)

Current(c) ==
  /\ Single(rows[c])
  /\ Mirrors(Lines(rows[c]), applied[c], Up(c), Down(c), Shared, saved.id)

\* Every client that follows is current: the heart of the invariant.
Currents == \A c \in Client : Following(c) => Current(c)

\* Only the frames about one message matter.
LEMMA MirrorRests ==
  ASSUME NEW L, NEW X, NEW U, NEW D, NEW V, NEW E, NEW S, NEW m, Mirrors(L, X, U, D, S, m),
         Spoken(V) = Spoken(U), Spoken(E) = Spoken(D)
  PROVE  Mirrors(L, X, V, E, S, m)
<1>1. \A op \in {"turn", "append", "edit", "delete"} : \A i :
        (About(V, op, i) <=> About(U, op, i)) /\ (About(E, op, i) <=> About(D, op, i))
  BY DEF About, Spoken
<1>2. \A f \in V : f.op = "turn" => f \in U
  BY DEF Spoken
<1>3. QED
  BY <1>1, <1>2 DEF Mirrors, OwnTurns, SameMessages, SameWording

\* The host adds a message and sends it.
LEMMA MirrorAdd ==
  ASSUME NEW L, NEW X, NEW U, NEW D, NEW S, NEW m, Mirrors(L, X, U, D, S, m),
         NEW row \in Said, row.id \notin X, ~About(D, "delete", row.id)
  PROVE  Mirrors(L, X, U, D \cup {Msg("append", row)}, S \cup {row}, m)
<1> DEFINE E == D \cup {Msg("append", row)}
<1> DEFINE T == S \cup {row}
<1>1. /\ \A i : About(E, "delete", i) <=> About(D, "delete", i)
      /\ \A i : About(E, "edit", i) <=> About(D, "edit", i)
      /\ \A i : About(E, "append", i) <=> About(D, "append", i) \/ i = row.id
  BY OpsDiffer DEF About
<1>2. /\ \A i : Has(T, i) <=> Has(S, i) \/ i = row.id
      /\ S \subseteq T
  BY DEF Has
<1>3. \A x \in L : x.id # row.id
  BY DEF Mirrors
<1> HIDE DEF E, T
<1>4. SameMessages(L, X, U, E, T, m)
  BY <1>1, <1>2 DEF Mirrors, SameMessages
<1>5. SameWording(L, U, E, T)
  BY <1>1, <1>2, <1>3 DEF Mirrors, SameWording
<1>6. QED
  BY <1>4, <1>5 DEF Mirrors, E, T

\* The host takes a turn of another client, and of this one.
LEMMA MirrorTake ==
  ASSUME NEW L, NEW X, NEW U, NEW D, NEW S, NEW m, Mirrors(L, X, U, D, S, m), m \notin Ids,
         NEW row \in Said, row.id \notin X, ~About(D, "delete", row.id)
  PROVE  Mirrors(L, X, U, D, S \cup {row}, row.id)
<1> DEFINE T == S \cup {row}
<1>1. /\ \A i : Has(T, i) <=> Has(S, i) \/ i = row.id
      /\ S \subseteq T
  BY DEF Has
<1>2. \A x \in L : x.id # row.id
  BY DEF Mirrors
<1> HIDE DEF T
<1>3. SameMessages(L, X, U, D, T, row.id)
  BY <1>1 DEF Mirrors, SameMessages
<1>4. SameWording(L, U, D, T)
  BY <1>1, <1>2 DEF Mirrors, SameWording
<1>5. QED
  BY <1>3, <1>4 DEF Mirrors, T

\* The host takes a turn of the client's own.
LEMMA MirrorTakeOwn ==
  ASSUME NEW L, NEW X, NEW U, NEW D, NEW S, NEW m, Mirrors(L, X, U, D, S, m), m \notin Ids,
         NEW V, NEW h, U = V \cup {h}, h.op = "turn", h.row \in Said, ~About(D, "delete", h.row.id)
  PROVE  Mirrors(L, X, V, D, S \cup {h.row}, h.row.id)
<1> DEFINE T == S \cup {h.row}
<1>1. /\ \A i : Has(T, i) <=> Has(S, i) \/ i = h.row.id
      /\ S \subseteq T /\ h.row \in T
  BY DEF Has
<1>2. /\ \A i : About(V, "delete", i) <=> About(U, "delete", i)
      /\ \A i : About(V, "edit", i) <=> About(U, "edit", i)
      /\ \A i : i # h.row.id => (About(V, "turn", i) <=> About(U, "turn", i))
  BY DEF About
<1>3. /\ Has(L, h.row.id) <=> ~About(U, "delete", h.row.id)
      /\ \A row \in L : row.id = h.row.id /\ ~About(U, "edit", h.row.id) => row = h.row
  BY DEF Mirrors, OwnTurns
<1> HIDE DEF T
<1>4. OwnTurns(L, V)
  BY <1>2 DEF Mirrors, OwnTurns
<1>5. SameMessages(L, X, V, D, T, h.row.id)
  <2>1. ASSUME NEW i \in Ids, ~About(V, "turn", i), ~About(V, "delete", i), i # h.row.id
        PROVE  Has(T, i) <=> /\ ~About(D, "delete", i)
                             /\ \/ Has(L, i)
                                \/ i \notin X /\ (h.row.id = i \/ About(D, "append", i))
    BY <1>1, <1>2, <2>1 DEF Mirrors, SameMessages
  <2>2. ASSUME ~About(V, "delete", h.row.id)
        PROVE  Has(T, h.row.id) /\ ~About(D, "delete", h.row.id) /\ Has(L, h.row.id)
    BY <1>1, <1>2, <1>3, <2>2
  <2>3. QED
    BY <2>1, <2>2 DEF SameMessages
<1>6. SameWording(L, V, D, T)
  <2>1. ASSUME NEW row \in L, Has(T, row.id), ~About(D, "edit", row.id), ~About(V, "edit", row.id)
        PROVE  row \in T
    BY <1>1, <1>2, <1>3, <2>1 DEF Mirrors, SameWording
  <2>2. QED
    BY <2>1 DEF SameWording
<1>7. QED
  BY <1>4, <1>5, <1>6 DEF Mirrors, T

\* A turn is saved and sent.
LEMMA MirrorSave ==
  ASSUME NEW L, NEW X, NEW U, NEW D, NEW S, NEW m, NEW row, Mirrors(L, X, U, D, S, row.id),
         m \notin Ids
  PROVE  Mirrors(L, X, U, D \cup {Msg("append", row)}, S, m)
<1> DEFINE E == D \cup {Msg("append", row)}
<1>1. /\ \A i : About(E, "delete", i) <=> About(D, "delete", i)
      /\ \A i : About(E, "edit", i) <=> About(D, "edit", i)
      /\ \A i : About(E, "append", i) <=> About(D, "append", i) \/ i = row.id
  BY OpsDiffer DEF About
<1> HIDE DEF E
<1>2. SameMessages(L, X, U, E, S, m)
  BY <1>1 DEF Mirrors, SameMessages
<1>3. SameWording(L, U, E, S)
  BY <1>1 DEF Mirrors, SameWording
<1>4. QED
  BY <1>2, <1>3 DEF Mirrors, E

\* The host rewords a message, or removes it, of its own accord or as this client asked.
LEMMA MirrorEdit ==
  ASSUME NEW L, NEW X, NEW U, NEW D, NEW S, NEW m, Mirrors(L, X, U, D, S, m), NEW row, NEW V,
         \/ V = U
         \/ \E h : /\ U = V \cup {h} /\ h.op = "edit" /\ h.row = row
                   /\ \A g \in V : g.op = "turn" => g.row.id # row.id
  PROVE  Mirrors(L, X, V, D \cup {Msg("edit", row)}, Rewrite(S, row), m)
<1> DEFINE E == D \cup {Msg("edit", row)}
<1> DEFINE T == Rewrite(S, row)
<1>1. /\ \A i : About(E, "delete", i) <=> About(D, "delete", i)
      /\ \A i : About(E, "edit", i) <=> About(D, "edit", i) \/ i = row.id
      /\ \A i : About(E, "append", i) <=> About(D, "append", i)
  BY OpsDiffer DEF About
<1>2. /\ \A i : Has(T, i) <=> Has(S, i)
      /\ \A x \in S : x.id # row.id => x \in T
  BY DEF Has, Rewrite
<1>3. /\ \A i : About(V, "delete", i) <=> About(U, "delete", i)
      /\ \A i : About(V, "turn", i) <=> About(U, "turn", i)
      /\ \A i : i # row.id => (About(V, "edit", i) <=> About(U, "edit", i))
      /\ \A g \in V : g \in U /\ (g.op = "turn" /\ g.row.id = row.id => V = U)
  BY DEF About
<1> HIDE DEF E, T
<1>4. OwnTurns(L, V)
  <2>1. ASSUME NEW f \in V, f.op = "turn"
        PROVE  /\ Has(L, f.row.id) <=> ~About(V, "delete", f.row.id)
               /\ \A x \in L : x.id = f.row.id /\ ~About(V, "edit", f.row.id) => x = f.row
    BY <1>3, <2>1 DEF Mirrors, OwnTurns
  <2>2. QED
    BY <2>1 DEF OwnTurns
<1>5. SameMessages(L, X, V, E, T, m)
  BY <1>1, <1>2, <1>3 DEF Mirrors, SameMessages
<1>6. SameWording(L, V, E, T)
  <2>1. ASSUME NEW x \in L, Has(T, x.id), ~About(E, "edit", x.id), ~About(V, "edit", x.id)
        PROVE  x \in T
    BY <1>1, <1>2, <1>3, <2>1 DEF Mirrors, SameWording
  <2>2. QED
    BY <2>1 DEF SameWording
<1>7. QED
  BY <1>4, <1>5, <1>6 DEF Mirrors, E, T

\* The host deletes a message, or a client's delete reaches it.
LEMMA MirrorDelete ==
  ASSUME NEW L, NEW X, NEW U, NEW D, NEW S, NEW m, Mirrors(L, X, U, D, S, m),
         NEW g, g.op = "delete", NEW V,
         \/ V = U
         \/ \E h : /\ U = V \cup {h} /\ h.op = "delete" /\ h.row = g.row
                   /\ \A f \in V : f.op = "turn" => f.row.id # g.row.id
  PROVE  Mirrors(L, X, V, D \cup {g}, Without(S, g.row.id), m)
<1> DEFINE E == D \cup {g}
<1> DEFINE T == Without(S, g.row.id)
<1>1. /\ \A i : About(E, "delete", i) <=> About(D, "delete", i) \/ i = g.row.id
      /\ \A i : About(E, "edit", i) <=> About(D, "edit", i)
      /\ \A i : About(E, "append", i) <=> About(D, "append", i)
  BY DEF About
<1>2. /\ \A i : Has(T, i) <=> Has(S, i) /\ i # g.row.id
      /\ \A x \in S : x.id # g.row.id => x \in T
  BY DEF Has, Without
<1>3. /\ \A i : i # g.row.id => (About(V, "delete", i) <=> About(U, "delete", i))
      /\ \A i : About(V, "turn", i) <=> About(U, "turn", i)
      /\ \A i : About(V, "edit", i) <=> About(U, "edit", i)
      /\ \A f \in V : f \in U /\ (f.op = "turn" /\ f.row.id = g.row.id => V = U)
  BY DEF About
<1> HIDE DEF E, T
<1>4. OwnTurns(L, V)
  <2>1. ASSUME NEW f \in V, f.op = "turn"
        PROVE  /\ Has(L, f.row.id) <=> ~About(V, "delete", f.row.id)
               /\ \A x \in L : x.id = f.row.id /\ ~About(V, "edit", f.row.id) => x = f.row
    BY <1>3, <2>1 DEF Mirrors, OwnTurns
  <2>2. QED
    BY <2>1 DEF OwnTurns
<1>5. SameMessages(L, X, V, E, T, m)
  BY <1>1, <1>2, <1>3 DEF Mirrors, SameMessages
<1>6. SameWording(L, V, E, T)
  <2>1. ASSUME NEW x \in L, Has(T, x.id), ~About(E, "edit", x.id), ~About(V, "edit", x.id)
        PROVE  x \in T
    BY <1>1, <1>2, <1>3, <2>1 DEF Mirrors, SameWording
  <2>2. QED
    BY <2>1 DEF SameWording
<1>7. QED
  BY <1>4, <1>5, <1>6 DEF Mirrors, E, T

\* The client says something, edits and deletes.
LEMMA MirrorSay ==
  ASSUME NEW L, NEW X, NEW U, NEW D, NEW S, NEW m, Mirrors(L, X, U, D, S, m),
         NEW row, ~Has(S, row.id), ~Has(L, row.id),
         \A f \in U : f.op \in {"turn", "edit", "delete"} => f.row.id # row.id
  PROVE  Mirrors(L \cup {row}, X \cup {row.id}, U \cup {Msg("turn", row)}, D, S, m)
<1> DEFINE M == L \cup {row}
<1> DEFINE Y == X \cup {row.id}
<1> DEFINE V == U \cup {Msg("turn", row)}
<1>1. /\ \A i : About(V, "delete", i) <=> About(U, "delete", i)
      /\ \A i : About(V, "edit", i) <=> About(U, "edit", i)
      /\ \A i : About(V, "turn", i) <=> About(U, "turn", i) \/ i = row.id
      /\ ~About(U, "delete", row.id)
      /\ \A f \in V : f.op = "turn" => \/ f \in U /\ f.row.id # row.id
                                       \/ f.row = row
  BY OpsDiffer DEF About
<1>2. /\ \A i : Has(M, i) <=> Has(L, i) \/ i = row.id
      /\ \A x \in M : x = row \/ (x \in L /\ x.id # row.id)
      /\ \A i : i # row.id => (i \in Y <=> i \in X)
  BY DEF Has
<1>3. \A x \in M : x.id \in Y
  BY DEF Mirrors
<1> HIDE DEF M, V, Y
<1>4. OwnTurns(M, V)
  <2>1. ASSUME NEW f \in V, f.op = "turn"
        PROVE  /\ Has(M, f.row.id) <=> ~About(V, "delete", f.row.id)
               /\ \A x \in M : x.id = f.row.id /\ ~About(V, "edit", f.row.id) => x = f.row
    BY <1>1, <1>2, <2>1 DEF Mirrors, OwnTurns
  <2>2. QED
    BY <2>1 DEF OwnTurns
<1>5. SameMessages(M, Y, V, D, S, m)
  BY <1>1, <1>2 DEF Mirrors, SameMessages
<1>6. SameWording(M, V, D, S)
  BY <1>1, <1>2 DEF Mirrors, SameWording
<1>7. QED
  BY <1>3, <1>4, <1>5, <1>6 DEF Mirrors, M, V, Y

\* The client edits a message and sends the edit.
LEMMA MirrorOwnEdit ==
  ASSUME NEW L, NEW X, NEW U, NEW D, NEW S, NEW m, Mirrors(L, X, U, D, S, m), NEW row
  PROVE  Mirrors(Rewrite(L, row), X, U \cup {Msg("edit", row)}, D, S, m)
<1> DEFINE M == Rewrite(L, row)
<1> DEFINE V == U \cup {Msg("edit", row)}
<1>1. /\ \A i : About(V, "delete", i) <=> About(U, "delete", i)
      /\ \A i : About(V, "edit", i) <=> About(U, "edit", i) \/ i = row.id
      /\ \A i : About(V, "turn", i) <=> About(U, "turn", i)
      /\ \A f \in V : f.op = "turn" => f \in U
  BY OpsDiffer DEF About
<1>2. /\ \A i : Has(M, i) <=> Has(L, i)
      /\ \A x \in M : x \in L \/ x.id = row.id
      /\ \A x \in M : x.id \in X
  BY DEF Has, Rewrite, Mirrors
<1> HIDE DEF M, V
<1>3. OwnTurns(M, V)
  BY <1>1, <1>2 DEF Mirrors, OwnTurns
<1>4. SameMessages(M, X, V, D, S, m)
  BY <1>1, <1>2 DEF Mirrors, SameMessages
<1>5. SameWording(M, V, D, S)
  BY <1>1, <1>2 DEF Mirrors, SameWording
<1>6. QED
  BY <1>2, <1>3, <1>4, <1>5 DEF Mirrors, M, V

\* The client deletes a message and sends the delete.
LEMMA MirrorOwnDelete ==
  ASSUME NEW L, NEW X, NEW U, NEW D, NEW S, NEW m, Mirrors(L, X, U, D, S, m),
         NEW g, g.op = "delete"
  PROVE  Mirrors(Without(L, g.row.id), X, U \cup {g}, D, S, m)
<1> DEFINE M == Without(L, g.row.id)
<1> DEFINE V == U \cup {g}
<1>1. /\ \A i : About(V, "delete", i) <=> About(U, "delete", i) \/ i = g.row.id
      /\ \A i : About(V, "edit", i) <=> About(U, "edit", i)
      /\ \A i : About(V, "turn", i) <=> About(U, "turn", i)
      /\ \A f \in V : f.op = "turn" => f \in U
  BY DEF About
<1>2. /\ \A i : Has(M, i) <=> Has(L, i) /\ i # g.row.id
      /\ M \subseteq L
  BY DEF Has, Without
<1> HIDE DEF M, V
<1>3. OwnTurns(M, V)
  BY <1>1, <1>2 DEF Mirrors, OwnTurns
<1>4. SameMessages(M, X, V, D, S, m)
  BY <1>1, <1>2 DEF Mirrors, SameMessages
<1>5. SameWording(M, V, D, S)
  BY <1>1, <1>2 DEF Mirrors, SameWording
<1>6. QED
  BY <1>2, <1>3, <1>4, <1>5 DEF Mirrors, M, V

\* The client is told of a message, of its new wording, that it is gone, or everything.
LEMMA MirrorHearAppend ==
  ASSUME NEW L, NEW X, NEW U, NEW D, NEW S, NEW m, Mirrors(L, X, U, D, S, m),
         NEW E, NEW h, D = E \cup {h}, h.op = "append", Sound(h, E, S, m, X), h.row \in Said
  PROVE  /\ h.row.id \in X => Mirrors(L, X, U, E, S, m)
         /\ h.row.id \notin X /\ ~About(U, "turn", h.row.id) =>
              Mirrors(L \cup {h.row}, X \cup {h.row.id}, U, E, S, m)
<1>1. /\ \A i : About(E, "delete", i) <=> About(D, "delete", i)
      /\ \A i : About(E, "edit", i) <=> About(D, "edit", i)
      /\ \A i : i # h.row.id => (About(E, "append", i) <=> About(D, "append", i))
      /\ About(D, "append", h.row.id) /\ ~About(E, "append", h.row.id)
  BY DEF About, Sound, Fresh
<1>2. ASSUME h.row.id \in X
      PROVE  Mirrors(L, X, U, E, S, m)
  <2>1. SameMessages(L, X, U, E, S, m)
    BY <1>1, <1>2 DEF Mirrors, SameMessages
  <2>2. SameWording(L, U, E, S)
    BY <1>1 DEF Mirrors, SameWording
  <2>3. QED
    BY <2>1, <2>2 DEF Mirrors
<1>3. ASSUME h.row.id \notin X, ~About(U, "turn", h.row.id)
      PROVE  Mirrors(L \cup {h.row}, X \cup {h.row.id}, U, E, S, m)
  <2> DEFINE M == L \cup {h.row}
  <2> DEFINE Y == X \cup {h.row.id}
  <2>1. /\ \A i : Has(M, i) <=> Has(L, i) \/ i = h.row.id
        /\ \A x \in M : x = h.row \/ x \in L
        /\ \A i : i # h.row.id => (i \in Y <=> i \in X)
    BY DEF Has
  <2>2. \A x \in M : x.id \in Y
    BY DEF Mirrors
  <2> HIDE DEF M, Y
  <2>3. OwnTurns(M, U)
    <3>1. ASSUME NEW f \in U, f.op = "turn"
          PROVE  f.row.id # h.row.id
      BY <1>3, <3>1 DEF About
    <3>2. QED
      BY <2>1, <3>1 DEF Mirrors, OwnTurns
  <2>4. SameMessages(M, Y, U, E, S, m)
    <3>1. ASSUME NEW i \in Ids, ~About(U, "turn", i), ~About(U, "delete", i), i # h.row.id
          PROVE  Has(S, i) <=> /\ ~About(E, "delete", i)
                               /\ \/ Has(M, i)
                                  \/ i \notin Y /\ (m = i \/ About(E, "append", i))
      BY <1>1, <2>1, <3>1 DEF Mirrors, SameMessages
    <3>2. ASSUME ~About(U, "delete", h.row.id)
          PROVE  Has(S, h.row.id) <=> ~About(E, "delete", h.row.id) /\ Has(M, h.row.id)
      <4>1. h.row.id \in Ids
        BY SaidTyped
      <4>2. QED
        BY <1>1, <1>3, <2>1, <3>2, <4>1 DEF Mirrors, SameMessages
    <3>3. Has(M, h.row.id)
      BY <2>1
    <3>4. QED
      BY <3>1, <3>2, <3>3 DEF SameMessages
  <2>5. SameWording(M, U, E, S)
    <3>1. Has(S, h.row.id) /\ ~About(E, "edit", h.row.id) => h.row \in S
      BY DEF Sound, Exact, Words
    <3>2. QED
      BY <1>1, <2>1, <3>1 DEF Mirrors, SameWording
  <2>6. QED
    BY <2>2, <2>3, <2>4, <2>5 DEF Mirrors, M, Y
<1>4. QED
  BY <1>2, <1>3

\* The client is told of a new wording.
LEMMA MirrorHearEdit ==
  ASSUME NEW L, NEW X, NEW U, NEW D, NEW S, NEW m, Mirrors(L, X, U, D, S, m),
         NEW E, NEW h, D = E \cup {h}, h.op = "edit", Sound(h, E, S, m, X),
         ~About(U, "turn", h.row.id)
  PROVE  Mirrors(Rewrite(L, h.row), X, U, E, S, m)
<1> DEFINE M == Rewrite(L, h.row)
<1>1. /\ \A i : About(E, "delete", i) <=> About(D, "delete", i)
      /\ \A i : i # h.row.id => (About(E, "edit", i) <=> About(D, "edit", i))
      /\ \A i : About(E, "append", i) <=> About(D, "append", i)
  BY DEF About
<1>2. /\ \A i : Has(M, i) <=> Has(L, i)
      /\ \A x \in M : x = h.row \/ (x \in L /\ x.id # h.row.id) \/ (x \in L /\ M = L)
      /\ \A x \in M : x.id \in X
  BY DEF Has, Rewrite, Mirrors
<1>3. \A f \in U : f.op = "turn" => f.row.id # h.row.id
  BY DEF About
<1>4. \A x \in L : x.id = h.row.id => Has(L, h.row.id)
  BY DEF Has
<1>5. \A x \in M : x.id = h.row.id => x = h.row
  BY <1>4 DEF Rewrite
<1> HIDE DEF M
<1>6. OwnTurns(M, U)
  BY <1>2, <1>3 DEF Mirrors, OwnTurns
<1>7. SameMessages(M, X, U, E, S, m)
  BY <1>1, <1>2 DEF Mirrors, SameMessages
<1>8. SameWording(M, U, E, S)
  <2>1. Has(S, h.row.id) /\ ~About(E, "edit", h.row.id) => h.row \in S
    BY DEF Sound, Exact, Words
  <2>2. ASSUME NEW x \in M, Has(S, x.id), ~About(E, "edit", x.id), ~About(U, "edit", x.id)
        PROVE  x \in S
    <3>1. CASE x.id = h.row.id
      BY <1>5, <2>1, <2>2, <3>1
    <3>2. CASE x.id # h.row.id
      BY <1>1, <1>2, <2>2, <3>2 DEF Mirrors, SameWording
    <3>3. QED
      BY <3>1, <3>2
  <2>3. QED
    BY <2>2 DEF SameWording
<1>9. QED
  BY <1>2, <1>6, <1>7, <1>8 DEF Mirrors, M

\* The client is told that a message is gone.
LEMMA MirrorHearDelete ==
  ASSUME NEW L, NEW X, NEW U, NEW D, NEW S, NEW m, Mirrors(L, X, U, D, S, m),
         NEW E, NEW h, D = E \cup {h}, h.op = "delete", Sound(h, E, S, m, X),
         ~About(U, "turn", h.row.id), m \in Ids => Has(S, m)
  PROVE  Mirrors(Without(L, h.row.id), X, U, E, S, m)
<1> DEFINE M == Without(L, h.row.id)
<1>1. /\ \A i : i # h.row.id => (About(E, "delete", i) <=> About(D, "delete", i))
      /\ \A i : About(E, "edit", i) <=> About(D, "edit", i)
      /\ \A i : About(E, "append", i) <=> About(D, "append", i)
  BY DEF About
<1>2. /\ \A i : Has(M, i) <=> Has(L, i) /\ i # h.row.id
      /\ M \subseteq L
  BY DEF Has, Without
<1>3. /\ \A f \in U : f.op = "turn" => f.row.id # h.row.id
      /\ ~Has(S, h.row.id) /\ ~About(E, "append", h.row.id)
  BY DEF About, Sound, Timely, Fresh
<1> HIDE DEF M
<1>4. OwnTurns(M, U)
  BY <1>2, <1>3 DEF Mirrors, OwnTurns
<1>5. SameMessages(M, X, U, E, S, m)
  BY <1>1, <1>2, <1>3 DEF Mirrors, SameMessages
<1>6. SameWording(M, U, E, S)
  BY <1>1, <1>2 DEF Mirrors, SameWording
<1>7. QED
  BY <1>2, <1>4, <1>5, <1>6 DEF Mirrors, M

\* The client is given the transcript, while no turn of its own is on its way.
LEMMA MirrorHearState ==
  ASSUME NEW h, NEW E, NEW S, NEW m, NEW X, NEW Y, NEW U, h.op = "state", Sound(h, E, S, m, X),
         \A f \in U : f.op # "turn",
         \A i \in Y \ X : Has(Lines(h.log), i),
         \A row \in Lines(h.log) : row.id \in Y
  PROVE  Mirrors(Lines(h.log), Y, U, E, S, m)
<1> DEFINE M == Lines(h.log)
<1>1. OwnTurns(M, U)
  BY DEF OwnTurns
<1>2. SameMessages(M, Y, U, E, S, m)
  <2>1. ASSUME NEW i \in Ids
        PROVE  Has(S, i) <=> /\ ~About(E, "delete", i)
                             /\ Has(M, i) \/ About(E, "append", i) \/ m = i
    BY DEF Sound, Complete
  <2>2. /\ \A i : About(E, "append", i) => i \notin Y
        /\ m \notin Y
    BY DEF Sound, Fresh, Timely, About
  <2> HIDE DEF M
  <2>3. QED
    BY <2>1, <2>2 DEF SameMessages
<1>3. SameWording(M, U, E, S)
  BY DEF SameWording, Sound, Exact, Words
<1>4. QED
  BY <1>1, <1>2, <1>3 DEF Mirrors

-----------------------------------------------------------------------------
(* Every step keeps the clients that follow current *)

\* At the start every chat is the host's.
LEMMA InitCurrents == Init => Currents
<1> SUFFICES ASSUME Init, NEW c \in Client
             PROVE  Current(c)
  BY DEF Currents
<1>1. \A p \in Peer : \A k \in DOMAIN rows[p] : rows[p][k].id = None
  BY DEF Init
<1>2. None \notin Ids /\ \A row \in Said : row.id # None
  BY SaidTyped DEF Ids
<1>3. Lines(rows[c]) = {} /\ Shared = {} /\ Single(rows[c])
  BY <1>1, <1>2 DEF Shared, Lines, Range, Single, Peer
<1>4. Up(c) = {} /\ Down(c) = {} /\ saved.id \notin Ids
  <2>1. toHost[c] = <<>> /\ toClient[c] = <<>> /\ saved = Empty
    BY DEF Init
  <2>2. Range(<<>>) = {}
    BY DEF Range
  <2>3. QED
    BY <2>1, <2>2 DEF Up, Down, Empty, Ids
<1>5. Mirrors({}, applied[c], {}, {}, {}, saved.id)
  <2>1. \A op, i : ~About({}, op, i)
    BY DEF About
  <2>2. \A i : ~Has({}, i)
    BY DEF Has
  <2>3. SameMessages({}, applied[c], {}, {}, {}, saved.id)
    BY <1>4, <2>1, <2>2 DEF SameMessages
  <2>4. QED
    BY <2>3 DEF Mirrors, OwnTurns, SameWording
<1>6. QED
  BY <1>3, <1>4, <1>5 DEF Current

\* Who follows after a broadcast followed before it, and is to hear it.
LEMMA HeardFollowed ==
  ASSUME TypeOK, Stays, NEW g, Heard(g), NEW c \in Client, Following(c)',
         NEW h, h.op \notin {"join", "republish"}, Up(c) \subseteq Up(c)' \cup {h}
  PROVE  Following(c) /\ Down(c)' = Down(c) \cup {g}
<1>1. Viewing(c)' /\ Viewing(c) /\ c \in online
  BY DEF Following, Viewing, Stays
<1>2. Down(c)' = Down(c) \cup {g}
  BY <1>1, HeardDown
<1>3. \A op \in {"join", "republish"} : Comes(Up(c), op) => Comes(Up(c)', op)
  BY DEF Comes
<1>4. \A op \in {"enter", "state", "exit"} : Comes(Down(c), op) => Comes(Down(c)', op)
  BY <1>2 DEF Comes
<1>5. QED
  BY <1>1, <1>2, <1>3, <1>4, FollowedBefore

\* A client that follows stays current where there is no news,
LEMMA NoNewsCurrent ==
  ASSUME Currents, NoNews, NEW c \in Client, Following(c)'
  PROVE  Following(c) /\ Current(c)'
<1>1. Idles(c) /\ saved' = saved /\ Shared' = Shared
  BY DEF NoNews
<1>2. /\ Following(c) /\ applied'[c] = applied[c] /\ Lines(rows'[c]) = Lines(rows[c])
      /\ Spoken(Up(c)') = Spoken(Up(c)) /\ Spoken(Down(c)') = Spoken(Down(c))
      /\ Single(rows[c]) => Single(rows'[c])
  BY <1>1 DEF Idles
<1>3. Single(rows[c]) /\ Mirrors(Lines(rows[c]), applied[c], Up(c), Down(c), Shared, saved.id)
  BY <1>2 DEF Currents, Current
<1>4. Mirrors(Lines(rows[c]), applied[c], Up(c)', Down(c)', Shared, saved.id)
  BY <1>2, <1>3, MirrorRests
<1>5. QED
  BY <1>1, <1>2, <1>3, <1>4 DEF Current

\* as the host adds a message,
LEMMA AddsCurrent ==
  ASSUME TypeOK, Known, Currents, NEW row \in Said, Adds(row), NEW c \in Client, Following(c)'
  PROVE  Following(c) /\ Current(c)'
<1> DEFINE g == Msg("append", row)
<1>1. /\ row.id = last + 1 /\ last \in Nat /\ saved' = saved /\ Shared' = Shared \cup {row}
      /\ Heard(g) /\ Up(c)' = Up(c) /\ Stays /\ Rests(c)
  BY DEF Adds, TypeOK, Up
<1>2. g.op \notin {"join", "republish"}
  BY OpsDiffer
<1> HIDE DEF g
<1>3. Following(c) /\ Down(c)' = Down(c) \cup {g}
  BY <1>1, <1>2, HeardFollowed
<1>4. Single(rows[c]) /\ Mirrors(Lines(rows[c]), applied[c], Up(c), Down(c), Shared, saved.id)
  BY <1>3 DEF Currents, Current
<1>5. row.id \notin applied[c] /\ ~About(Down(c), "delete", row.id)
  BY <1>1 DEF Known, KnownAt, About
<1>6. Mirrors(Lines(rows[c]), applied[c], Up(c), Down(c) \cup {g}, Shared \cup {row}, saved.id)
  BY <1>4, <1>5, MirrorAdd DEF g
<1>7. QED
  BY <1>1, <1>3, <1>4, <1>6 DEF Current, Rests

\* as the host takes a turn, its own or another's,
LEMMA AcceptsCurrent ==
  ASSUME TypeOK, Known, Authored, Currents,
         NEW d \in Client, NEW row \in Said, Accepts(d, row), NEW c \in Client, Following(c)'
  PROVE  Following(c) /\ Current(c)'
<1> DEFINE h == Head(toHost[d])
<1>1. /\ Takes(d, "turn") /\ row = h.row /\ saved = Empty /\ saved' = row
      /\ Shared' = Shared \cup {row} /\ toClient' = toClient /\ Stays /\ Rests(c)
      /\ Empty.id \notin Ids
  BY DEF Accepts, Empty, Ids
<1>2. /\ h.op = "turn" /\ Up(d) = Up(d)' \cup {h} /\ Up(c)' \subseteq Up(c)
      /\ c # d => Up(c)' = Up(c)
  BY <1>1, TakenUp
<1>3. Author(d, h)
  BY <1>2 DEF Authored
<1> HIDE DEF h
<1>4. Down(c)' = Down(c)
  BY <1>1 DEF Down
<1>5. Following(c)
  <2>1. Viewing(c)' => Viewing(c)
    BY <1>1 DEF Viewing, Stays
  <2>2. \A op \in {"join", "republish"} : Comes(Up(c), op) => Comes(Up(c)', op)
    BY <1>2 DEF Comes
  <2>3. \A op \in {"enter", "state", "exit"} : Comes(Down(c), op) => Comes(Down(c)', op)
    BY <1>4
  <2>4. QED
    BY <2>1, <2>2, <2>3, FollowedBefore
<1>6. Single(rows[c]) /\ Mirrors(Lines(rows[c]), applied[c], Up(c), Down(c), Shared, Empty.id)
  BY <1>1, <1>5 DEF Currents, Current
<1>7. ~About(Down(c), "delete", row.id) /\ (c # d => row.id \notin applied[c])
  BY <1>1, <1>3 DEF Author, Foreign, Unmentioned
<1>8. Mirrors(Lines(rows[c]), applied[c], Up(c)', Down(c), Shared \cup {row}, row.id)
  <2>1. CASE c = d
    BY <1>1, <1>2, <1>6, <1>7, <2>1, MirrorTakeOwn
  <2>2. CASE c # d
    BY <1>1, <1>2, <1>6, <1>7, <2>2, MirrorTake
  <2>3. QED
    BY <2>1, <2>2
<1>9. QED
  BY <1>1, <1>4, <1>5, <1>6, <1>8 DEF Current, Rests

\* as a saved turn is announced,
LEMMA AnnouncesCurrent ==
  ASSUME TypeOK, Currents, Announces, NEW c \in Client, Following(c)'
  PROVE  Following(c) /\ Current(c)'
<1> DEFINE g == Msg("append", saved)
<1>1. /\ saved' = Empty /\ Shared' = Shared /\ Empty.id \notin Ids
      /\ Heard(g) /\ Up(c)' = Up(c) /\ Stays /\ rows' = rows /\ applied' = applied
  BY DEF Announces, Shared, Up, Empty, Ids
<1>2. g.op \notin {"join", "republish"}
  BY OpsDiffer
<1> HIDE DEF g
<1>3. Following(c) /\ Down(c)' = Down(c) \cup {g}
  BY <1>1, <1>2, HeardFollowed
<1>4. Single(rows[c]) /\ Mirrors(Lines(rows[c]), applied[c], Up(c), Down(c), Shared, saved.id)
  BY <1>3 DEF Currents, Current
<1>5. Mirrors(Lines(rows[c]), applied[c], Up(c), Down(c) \cup {g}, Shared, Empty.id)
  BY <1>1, <1>4, MirrorSave DEF g
<1>6. QED
  BY <1>1, <1>3, <1>4, <1>5 DEF Current

\* Where the host changes a row, the queue from a client lacks at most what it asked.
LEMMA MeantUp ==
  ASSUME TypeOK, InOrder, NEW op \in {"edit", "delete"}, NEW row, Meant(op, row), NEW c \in Client
  PROVE  \/ Up(c)' = Up(c)
         \/ \E h : /\ Up(c) = Up(c)' \cup {h} /\ h.op = op /\ h.row = row
                   /\ \A f \in Up(c)' : f.op = "turn" => f.row.id # row.id
<1>1. CASE toHost' = toHost
  BY <1>1 DEF Up
<1>2. ASSUME NEW d \in Client, Takes(d, op), Head(toHost[d]).row = row
      PROVE  \/ Up(c)' = Up(c)
             \/ \E h : /\ Up(c) = Up(c)' \cup {h} /\ h.op = op /\ h.row = row
                       /\ \A f \in Up(c)' : f.op = "turn" => f.row.id # row.id
  <2>1. CASE c # d
    BY <1>2, <2>1, TakenUp
  <2>2. CASE c = d
    <3>1. Up(c) = Up(c)' \cup {Head(toHost[c])} /\ Head(toHost[c]).op = op
      BY <1>2, <2>2, TakenUp
    <3>2. \A f \in Up(c)' : f.op = "turn" => f.row.id # row.id
      BY <1>2, <2>2, HeadOrder
    <3>3. QED
      BY <1>2, <2>2, <3>1, <3>2
  <2>3. QED
    BY <2>1, <2>2
<1>3. QED
  BY <1>1, <1>2 DEF Meant

\* as the host corrects a message, of its own accord or as it was asked,
LEMMA CorrectsCurrent ==
  ASSUME TypeOK, InOrder, Currents, NEW row \in Said, Corrects(row), NEW c \in Client, Following(c)'
  PROVE  Following(c) /\ Current(c)'
<1> DEFINE g == Msg("edit", row)
<1> DEFINE Asked(h) == /\ Up(c) = Up(c)' \cup {h} /\ h.op = "edit" /\ h.row = row
                       /\ \A f \in Up(c)' : f.op = "turn" => f.row.id # row.id
<1>1. /\ saved' = Reworded(row) /\ Shared' = Rewrite(Shared, row)
      /\ Heard(g) /\ Stays /\ Rests(c) /\ Meant("edit", row)
  BY DEF Corrects
<1>2. g.op \notin {"join", "republish"} /\ saved'.id = saved.id
  BY <1>1, OpsDiffer DEF Reworded
<1>3. Up(c)' = Up(c) \/ \E h : Asked(h)
  BY <1>1, MeantUp
<1> HIDE DEF g
<1>4. Following(c) /\ Down(c)' = Down(c) \cup {g}
  <2>1. CASE Up(c)' = Up(c)
    BY <1>1, <1>2, <2>1, HeardFollowed
  <2>2. ASSUME NEW h, Asked(h)
        PROVE  Following(c) /\ Down(c)' = Down(c) \cup {g}
    <3>1. Up(c) \subseteq Up(c)' \cup {h} /\ h.op \notin {"join", "republish"}
      BY <2>2
    <3>2. QED
      BY <1>1, <3>1, HeardFollowed
  <2>3. QED
    BY <1>3, <2>1, <2>2
<1>5. Single(rows[c]) /\ Mirrors(Lines(rows[c]), applied[c], Up(c), Down(c), Shared, saved.id)
  BY <1>4 DEF Currents, Current
<1>6. Mirrors(Lines(rows[c]), applied[c], Up(c)', Down(c) \cup {g}, Rewrite(Shared, row), saved.id)
  BY <1>3, <1>5, MirrorEdit DEF g
<1>7. QED
  BY <1>1, <1>2, <1>4, <1>5, <1>6 DEF Current, Rests

\* as the host removes a message, of its own accord or as it was asked,
LEMMA RemovesCurrent ==
  ASSUME TypeOK, InOrder, Currents, NEW g \in Frame, Removes(g), NEW c \in Client, Following(c)'
  PROVE  Following(c) /\ Current(c)'
<1> DEFINE Asked(h) == /\ Up(c) = Up(c)' \cup {h} /\ h.op = "delete" /\ h.row = g.row
                       /\ \A f \in Up(c)' : f.op = "turn" => f.row.id # g.row.id
<1>1. /\ saved' = saved /\ Shared' = Without(Shared, g.row.id) /\ g.op = "delete"
      /\ Heard(g) /\ Stays /\ Rests(c) /\ Meant("delete", g.row)
  BY DEF Removes
<1>2. Up(c)' = Up(c) \/ \E h : Asked(h)
  BY <1>1, MeantUp
<1>3. Following(c) /\ Down(c)' = Down(c) \cup {g}
  <2>1. CASE Up(c)' = Up(c)
    <3>1. Up(c) \subseteq Up(c)' \cup {g} /\ g.op \notin {"join", "republish"}
      BY <1>1, <2>1
    <3>2. QED
      BY <1>1, <3>1, HeardFollowed
  <2>2. ASSUME NEW h, Asked(h)
        PROVE  Following(c) /\ Down(c)' = Down(c) \cup {g}
    <3>1. Up(c) \subseteq Up(c)' \cup {h} /\ h.op \notin {"join", "republish"}
      BY <2>2
    <3>2. QED
      BY <1>1, <3>1, HeardFollowed
  <2>3. QED
    BY <1>2, <2>1, <2>2
<1>4. Single(rows[c]) /\ Mirrors(Lines(rows[c]), applied[c], Up(c), Down(c), Shared, saved.id)
  BY <1>3 DEF Currents, Current
<1>5. Mirrors(Lines(rows[c]), applied[c], Up(c)', Down(c) \cup {g}, Without(Shared, g.row.id), saved.id)
  BY <1>1, <1>2, <1>4, MirrorDelete
<1>6. QED
  BY <1>1, <1>3, <1>4, <1>5 DEF Current, Rests

\* The host's answer makes nobody follow before it arrives.
LEMMA AnswersCurrent ==
  ASSUME TypeOK, Currents, NEW d \in Client, Answers(d), NEW c \in Client, Following(c)'
  PROVE  Following(c) /\ Current(c)'
<1>1. /\ Shared' = Shared /\ saved' = saved /\ Rests(c) /\ Stays
      /\ \E op \in {"join", "republish"} : Takes(d, op)
  BY DEF Answers, Shared, Rests
<1>2. Viewing(c)' /\ Viewing(c) /\ c \in online
  BY <1>1 DEF Following, Viewing, Stays
<1>3. c # d
  <2>1. ~Comes(Down(c)', "state")
    BY DEF Following, Awaiting, Comes, Down, Range
  <2>2. Transcript(rows[Host]).op = "state"
    BY OpsDiffer
  <2>3. QED
    BY <1>2, <2>1, <2>2, AnsweredDown DEF Comes
<1>4. Up(c)' = Up(c) /\ Down(c)' = Down(c)
  BY <1>1, <1>3, TakenUp, AnsweredDown
<1>5. Following(c)
  BY <1>2, <1>4, FollowedBefore
<1>6. QED
  BY <1>1, <1>4, <1>5 DEF Currents, Current, Rests

\* What a client does itself the others do not notice.
LEMMA AloneCurrent ==
  ASSUME Currents, NEW d \in Client, Alone(d), NEW c \in Client \ {d}, Following(c)'
  PROVE  Following(c) /\ Current(c)'
<1>1. /\ Shared' = Shared /\ saved' = saved /\ Rests(c) /\ Stays
      /\ Up(c)' = Up(c) /\ Down(c)' = Down(c)
  BY DEF Alone, Shared, Up, Down
<1>2. Viewing(c)' => Viewing(c)
  BY <1>1 DEF Viewing, Stays
<1>3. Following(c)
  BY <1>1, <1>2, FollowedBefore
<1>4. QED
  BY <1>1, <1>3 DEF Currents, Current, Rests

\* Who follows after it sent something about a message followed before.
LEMMA SentFollowed ==
  ASSUME TypeOK, NEW c \in Client, Alone(c), NEW f, toHost'[c] = Append(toHost[c], f),
         toClient'[c] = toClient[c], Following(c)'
  PROVE  Following(c) /\ Up(c)' = Up(c) \cup {f} /\ Down(c)' = Down(c)
<1>1. Up(c)' = Up(c) \cup {f} /\ Down(c)' = Down(c)
  BY SentUp DEF Down
<1>2. Viewing(c)' => Viewing(c)
  BY DEF Alone, Stays, Viewing
<1>3. \A op \in {"join", "republish"} : Comes(Up(c), op) => Comes(Up(c)', op)
  BY <1>1 DEF Comes
<1>4. QED
  BY <1>1, <1>2, <1>3, FollowedBefore

\* as it writes a turn,
LEMMA SaysCurrent ==
  ASSUME TypeOK, Known, Currents, NEW c \in Client, NEW row \in Said, Says(c, row), Following(c)'
  PROVE  Following(c) /\ Current(c)'
<1> DEFINE f == Msg("turn", row)
<1>1. /\ Alone(c) /\ row.id = last + 1 /\ last \in Nat /\ saved' = saved /\ Shared' = Shared
      /\ rows'[c] = Append(rows[c], row) /\ applied'[c] = applied[c] \cup {row.id}
      /\ toHost'[c] = Append(toHost[c], f) /\ toClient'[c] = toClient[c]
  BY DEF Says, Alone, TypeOK, Shared
<1> HIDE DEF f
<1>2. Following(c) /\ Up(c)' = Up(c) \cup {f} /\ Down(c)' = Down(c)
  BY <1>1, SentFollowed
<1>3. Single(rows[c]) /\ Mirrors(Lines(rows[c]), applied[c], Up(c), Down(c), Shared, saved.id)
  BY <1>2 DEF Currents, Current
<1>4. KnownAt(c) /\ posted \subseteq 1..last /\ \A x \in Shared : x.id \in posted
  BY DEF Known
<1>5. /\ ~Has(Lines(rows[c]), row.id) /\ ~Has(Shared, row.id)
      /\ \A g \in Up(c) : g.op \in {"turn", "edit", "delete"} => g.row.id # row.id
  BY <1>1, <1>4 DEF KnownAt, Has
<1>6. Lines(rows'[c]) = Lines(rows[c]) \cup {row} /\ Single(rows'[c])
  <2>1. rows[c] \in Seq(Message \cup {Empty}) /\ {row} \cap Said = {row}
    BY DEF TypeOK, Peer
  <2>2. QED
    BY <1>1, <1>3, <1>5, <2>1, LinesAppend
<1>7. Mirrors(Lines(rows[c]) \cup {row}, applied[c] \cup {row.id}, Up(c) \cup {f}, Down(c), Shared, saved.id)
  BY <1>3, <1>5, MirrorSay DEF f
<1>8. QED
  BY <1>1, <1>2, <1>6, <1>7 DEF Current

\* as it edits a message,
LEMMA CorrectsOwnCurrent ==
  ASSUME TypeOK, Currents, NEW c \in Client, NEW row \in Said, CorrectsOwn(c, row), Following(c)'
  PROVE  Following(c) /\ Current(c)'
<1> DEFINE f == Msg("edit", row)
<1>1. /\ Alone(c) /\ saved' = saved /\ Shared' = Shared
      /\ Rewrites(c, row) /\ applied'[c] = applied[c]
      /\ toHost'[c] = Append(toHost[c], f) /\ toClient'[c] = toClient[c]
  BY DEF CorrectsOwn, Alone, Shared
<1> HIDE DEF f
<1>2. Following(c) /\ Up(c)' = Up(c) \cup {f} /\ Down(c)' = Down(c)
  BY <1>1, SentFollowed
<1>3. Single(rows[c]) /\ Mirrors(Lines(rows[c]), applied[c], Up(c), Down(c), Shared, saved.id)
  BY <1>2 DEF Currents, Current
<1>4. Single(rows'[c]) /\ Lines(rows'[c]) = Rewrite(Lines(rows[c]), row)
  BY <1>1, <1>3 DEF Rewrites
<1>5. Mirrors(Rewrite(Lines(rows[c]), row), applied[c], Up(c) \cup {f}, Down(c), Shared, saved.id)
  BY <1>3, MirrorOwnEdit DEF f
<1>6. QED
  BY <1>1, <1>2, <1>4, <1>5 DEF Current

\* as it deletes a message,
LEMMA RemovesOwnCurrent ==
  ASSUME TypeOK, Currents, NEW c \in Client, NEW f \in Frame, RemovesOwn(c, f), Following(c)'
  PROVE  Following(c) /\ Current(c)'
<1>1. /\ Alone(c) /\ saved' = saved /\ Shared' = Shared /\ f.op = "delete"
      /\ Strikes(c, f.row.id) /\ applied'[c] = applied[c]
      /\ toHost'[c] = Append(toHost[c], f) /\ toClient'[c] = toClient[c]
  BY DEF RemovesOwn, Alone, Shared
<1>2. Following(c) /\ Up(c)' = Up(c) \cup {f} /\ Down(c)' = Down(c)
  BY <1>1, SentFollowed
<1>3. Single(rows[c]) /\ Mirrors(Lines(rows[c]), applied[c], Up(c), Down(c), Shared, saved.id)
  BY <1>2 DEF Currents, Current
<1>4. Single(rows'[c]) /\ Lines(rows'[c]) = Without(Lines(rows[c]), f.row.id)
  BY <1>1, <1>3 DEF Strikes
<1>5. Mirrors(Without(Lines(rows[c]), f.row.id), applied[c], Up(c) \cup {f}, Down(c), Shared, saved.id)
  BY <1>1, <1>3, MirrorOwnDelete
<1>6. QED
  BY <1>1, <1>2, <1>4, <1>5 DEF Current

\* Who follows after it was told of a message followed before.
LEMMA HearsFollowed ==
  ASSUME TypeOK, Frames, NEW c \in Client, NEW op \in {"append", "edit", "delete"}, Hears(c, op),
         Following(c)'
  PROVE  /\ Following(c) /\ Up(c)' = Up(c) /\ Shared' = Shared /\ saved' = saved
         /\ Down(c) = Down(c)' \cup {Head(toClient[c])} /\ Head(toClient[c]).op = op
         /\ Head(toClient[c]) \in Frame
         /\ Sound(Head(toClient[c]), Down(c)', Shared, saved.id, applied[c])
<1>1. Gets(c, op) /\ Up(c)' = Up(c) /\ Shared' = Shared /\ saved' = saved /\ Stays
  BY DEF Hears, Alone, Up, Shared
<1>2. /\ Down(c) = Down(c)' \cup {Head(toClient[c])} /\ Head(toClient[c]).op = op
      /\ Head(toClient[c]) \in Frame
  BY <1>1, GotDown
<1>3. Sound(Head(toClient[c]), Down(c)', Shared, saved.id, applied[c])
  BY <1>1, GotFrames
<1>4. Following(c)
  <2>1. Viewing(c)' => Viewing(c)
    BY <1>1 DEF Stays, Viewing
  <2>2. \A o \in {"enter", "state", "exit"} : Comes(Down(c), o) => Comes(Down(c)', o)
    BY <1>2 DEF Comes
  <2>3. QED
    BY <1>1, <2>1, <2>2, FollowedBefore
<1>5. QED
  BY <1>1, <1>2, <1>3, <1>4

\* as it is told of a message,
LEMMA HearsAppendCurrent ==
  ASSUME TypeOK, TurnsAreNew, Known, Frames, Currents, NEW c \in Client, HearsAppend(c), Following(c)'
  PROVE  Following(c) /\ Current(c)'
<1> DEFINE h == Head(toClient[c])
<1>1. Hears(c, "append") /\ Got(c) = h.row
  BY DEF HearsAppend, Got
<1>2. /\ Following(c) /\ Up(c)' = Up(c) /\ Shared' = Shared /\ saved' = saved
      /\ Down(c) = Down(c)' \cup {h} /\ h.op = "append" /\ h \in Frame
      /\ Sound(h, Down(c)', Shared, saved.id, applied[c])
  BY <1>1, HearsFollowed
<1>3. Single(rows[c]) /\ Mirrors(Lines(rows[c]), applied[c], Up(c), Down(c), Shared, saved.id)
  BY <1>2 DEF Currents, Current
<1>4. /\ h.row.id \in applied[c] => Rests(c)
      /\ h.row.id \notin applied[c] =>
           /\ applied'[c] = applied[c] \cup {h.row.id}
           /\ Lines(rows'[c]) = Lines(rows[c]) \cup {h.row}
           /\ Single(rows[c]) /\ ~Has(Lines(rows[c]), h.row.id) => Single(rows'[c])
  BY <1>1 DEF HearsAppend
<1> HIDE DEF h
<1>5. h.row \in Said /\ h.row.id \in posted
  BY <1>2, FramesCarry DEF Known, KnownAt, Words
<1>6. ~About(Up(c), "turn", h.row.id)
  BY <1>5, TurnFresh DEF About
<1>7. /\ h.row.id \in applied[c] =>
           Mirrors(Lines(rows[c]), applied[c], Up(c), Down(c)', Shared, saved.id)
      /\ h.row.id \notin applied[c] =>
           Mirrors(Lines(rows[c]) \cup {h.row}, applied[c] \cup {h.row.id}, Up(c), Down(c)', Shared, saved.id)
  BY <1>2, <1>3, <1>5, <1>6, MirrorHearAppend
<1>8. h.row.id \notin applied[c] => ~Has(Lines(rows[c]), h.row.id)
  BY <1>3 DEF Mirrors, Has
<1>9. CASE h.row.id \in applied[c]
  BY <1>2, <1>3, <1>4, <1>7, <1>9 DEF Current, Rests
<1>10. CASE h.row.id \notin applied[c]
  BY <1>2, <1>3, <1>4, <1>7, <1>8, <1>10 DEF Current
<1>11. QED
  BY <1>9, <1>10

\* as it is told of a new wording,
LEMMA HearsEditCurrent ==
  ASSUME TypeOK, Authored, Frames, Currents, NEW c \in Client, HearsEdit(c), Following(c)'
  PROVE  Following(c) /\ Current(c)'
<1> DEFINE h == Head(toClient[c])
<1>1. Hears(c, "edit") /\ Rewrites(c, h.row) /\ applied'[c] = applied[c]
  BY DEF HearsEdit, Got
<1>2. /\ Following(c) /\ Up(c)' = Up(c) /\ Shared' = Shared /\ saved' = saved
      /\ Down(c) = Down(c)' \cup {h} /\ h.op = "edit"
      /\ Sound(h, Down(c)', Shared, saved.id, applied[c])
  BY <1>1, HearsFollowed
<1>3. Single(rows[c]) /\ Mirrors(Lines(rows[c]), applied[c], Up(c), Down(c), Shared, saved.id)
  BY <1>2 DEF Currents, Current
<1> HIDE DEF h
<1>4. ~About(Up(c), "turn", h.row.id)
  BY <1>2 DEF Authored, Author, Unmentioned, About
<1>5. Mirrors(Rewrite(Lines(rows[c]), h.row), applied[c], Up(c), Down(c)', Shared, saved.id)
  BY <1>2, <1>3, <1>4, MirrorHearEdit
<1>6. Single(rows'[c]) /\ Lines(rows'[c]) = Rewrite(Lines(rows[c]), h.row)
  BY <1>1, <1>3 DEF Rewrites
<1>7. QED
  BY <1>1, <1>2, <1>5, <1>6 DEF Current

\* as it is told that a message is gone;
LEMMA HearsDeleteCurrent ==
  ASSUME TypeOK, Known, Authored, Frames, Currents, NEW c \in Client, HearsDelete(c), Following(c)'
  PROVE  Following(c) /\ Current(c)'
<1> DEFINE h == Head(toClient[c])
<1>1. Hears(c, "delete") /\ Strikes(c, h.row.id) /\ applied'[c] = applied[c]
  BY DEF HearsDelete, Got
<1>2. /\ Following(c) /\ Up(c)' = Up(c) /\ Shared' = Shared /\ saved' = saved
      /\ Down(c) = Down(c)' \cup {h} /\ h.op = "delete"
      /\ Sound(h, Down(c)', Shared, saved.id, applied[c])
  BY <1>1, HearsFollowed
<1>3. Single(rows[c]) /\ Mirrors(Lines(rows[c]), applied[c], Up(c), Down(c), Shared, saved.id)
  BY <1>2 DEF Currents, Current
<1> HIDE DEF h
<1>4. ~About(Up(c), "turn", h.row.id)
  BY <1>2 DEF Authored, Author, Unmentioned, About
<1>5. saved.id \in Ids => Has(Shared, saved.id)
  BY DEF Known, Has, Empty, Ids
<1>6. Mirrors(Without(Lines(rows[c]), h.row.id), applied[c], Up(c), Down(c)', Shared, saved.id)
  BY <1>2, <1>3, <1>4, <1>5, MirrorHearDelete
<1>7. Single(rows'[c]) /\ Lines(rows'[c]) = Without(Lines(rows[c]), h.row.id)
  BY <1>1, <1>3 DEF Strikes
<1>8. QED
  BY <1>1, <1>2, <1>6, <1>7 DEF Current

\* The transcript arrives: who was not following may follow from here.
LEMMA HearsStateCurrent ==
  ASSUME TypeOK, Authored, Frames, NEW c \in Client, HearsState(c)
  PROVE  Current(c)'
<1> DEFINE h == Head(toClient[c])
<1> DEFINE Y == applied[c] \cup ({h.log[k].id : k \in DOMAIN h.log} \ {None})
<1>1. /\ Gets(c, "state") /\ Up(c)' = Up(c) /\ Shared' = Shared /\ saved' = saved
      /\ rows'[c] = h.log /\ applied'[c] = Y
  BY DEF HearsState, Hears, Alone, Up, Shared
<1>2. h.op = "state" /\ h \in Frame /\ h \in Down(c)
  BY <1>1, GotDown
<1>3. Sound(h, Down(c)', Shared, saved.id, applied[c])
  BY <1>1, GotFrames
<1>4. h.log \in Seq(Message)
  BY <1>2, FramesCarry
<1> HIDE DEF h
<1>5. \A k \in DOMAIN h.log : h.log[k].id = None \/ h.log[k] \in Lines(h.log)
  <2>1. \A k \in DOMAIN h.log : h.log[k] \in Message
    BY <1>4
  <2>2. QED
    BY <2>1, SaidTyped DEF Lines, Range
<1>6. \A i \in Y \ applied[c] : Has(Lines(h.log), i)
  BY <1>5 DEF Has
<1>7. \A row \in Lines(h.log) : row.id \in Y
  <2>1. \A row \in Said : row.id # None
    BY SaidTyped DEF Ids
  <2>2. QED
    BY <2>1 DEF Lines, Range
<1> HIDE DEF Y
<1>8. \A f \in Up(c) : f.op # "turn"
  BY <1>2 DEF Authored, Author
<1>9. Mirrors(Lines(h.log), Y, Up(c), Down(c)', Shared, saved.id)
  BY <1>2, <1>3, <1>6, <1>7, <1>8, MirrorHearState
<1>10. Single(h.log)
  BY <1>2, <1>3 DEF Sound, Timely
<1>11. QED
  BY <1>1, <1>9, <1>10 DEF Current

\* Every step keeps the clients that follow current, and only a transcript makes one
\* follow.
LEMMA StepCurrents ==
  ASSUME TypeOK, TurnsAreNew, Known, InOrder, Authored, Frames, Currents, Kinds
  PROVE  /\ Currents'
         /\ \A c \in Client : Following(c)' => Following(c) \/ HearsState(c)
<1> SUFFICES ASSUME NEW c \in Client, Following(c)'
             PROVE  Current(c)' /\ (Following(c) \/ HearsState(c))
  BY DEF Currents
<1>1. ASSUME NoNews \/ Announces
      PROVE  Current(c)' /\ (Following(c) \/ HearsState(c))
  BY <1>1, NoNewsCurrent, AnnouncesCurrent
<1>2. ASSUME NEW row \in Said, Adds(row) \/ Corrects(row)
      PROVE  Current(c)' /\ (Following(c) \/ HearsState(c))
  BY <1>2, AddsCurrent, CorrectsCurrent
<1>3. ASSUME NEW f \in Frame, Removes(f)
      PROVE  Current(c)' /\ (Following(c) \/ HearsState(c))
  BY <1>3, RemovesCurrent
<1>4. ASSUME NEW d \in Client, NEW row \in Said, Accepts(d, row)
      PROVE  Current(c)' /\ (Following(c) \/ HearsState(c))
  BY <1>4, AcceptsCurrent
<1>5. ASSUME NEW d \in Client, Answers(d)
      PROVE  Current(c)' /\ (Following(c) \/ HearsState(c))
  BY <1>5, AnswersCurrent
<1>6. ASSUME NEW d \in Client, HearsAppend(d) \/ HearsEdit(d) \/ HearsDelete(d) \/ HearsState(d)
      PROVE  Current(c)' /\ (Following(c) \/ HearsState(c))
  <2>1. CASE c = d
    BY <1>6, <2>1, HearsAppendCurrent, HearsEditCurrent, HearsDeleteCurrent, HearsStateCurrent
  <2>2. CASE c # d
    BY <1>6, <2>2, AloneCurrent DEF HearsAppend, HearsEdit, HearsDelete, HearsState, Hears
  <2>3. QED
    BY <2>1, <2>2
<1>7. ASSUME NEW d \in Client, NEW row \in Said, Says(d, row) \/ CorrectsOwn(d, row)
      PROVE  Current(c)' /\ (Following(c) \/ HearsState(c))
  <2>1. CASE c = d
    BY <1>7, <2>1, SaysCurrent, CorrectsOwnCurrent
  <2>2. CASE c # d
    BY <1>7, <2>2, AloneCurrent DEF Says, CorrectsOwn
  <2>3. QED
    BY <2>1, <2>2
<1>8. ASSUME NEW d \in Client, NEW f \in Frame, RemovesOwn(d, f)
      PROVE  Current(c)' /\ (Following(c) \/ HearsState(c))
  <2>1. CASE c = d
    BY <1>8, <2>1, RemovesOwnCurrent
  <2>2. CASE c # d
    BY <1>8, <2>2, AloneCurrent DEF RemovesOwn
  <2>3. QED
    BY <2>1, <2>2
<1>9. QED
  BY <1>1, <1>2, <1>3, <1>4, <1>5, <1>6, <1>7, <1>8 DEF Kinds

-----------------------------------------------------------------------------
(* How a step changes a chat: for the rows that carry no id *)

\* Nobody deletes anything in this instance: no frame says so.
Undeleted ==
  "delete" \in Events \/ \A c \in Client : \A f \in Up(c) \cup Down(c) : f.op # "delete"

\* Nothing becomes of the reply that p is shown.
Keeps(p) == p \in Client => placeholder'[p] = placeholder[p] /\ (p \in streaming => p \in streaming')

\* The reply is shown where the placeholder says.
Painted(c) == placeholder[c] \in DOMAIN rows[c] /\ rows[c][placeholder[c]].id = Stream

\* What the host's reply, its messages and its transcript do to the chat of c.
Streams(c) ==
  \/ \E row \in Said : rows'[c] = Cleared(c, Append(rows[c], row))
  \/ rows'[c] = Cleared(c, rows[c])
  \/ /\ c \in streaming' /\ ~Painted(c)
     /\ rows'[c] = Append(rows[c], Empty) /\ placeholder'[c] = Len(rows[c]) + 1
  \/ rows'[c] = rows[c] /\ ~Following(c)'
  \/ HearsState(c)

\* How a step changes the chat of p.
Reshapes(p) ==
  \/ /\ Keeps(p)
     /\ \/ rows'[p] = rows[p]
        \/ \E row \in Said : rows'[p] = Append(rows[p], row)
        \/ \E k \in DOMAIN rows[p] : \E row \in Said :
             rows[p][k].id = row.id /\ rows'[p] = [rows[p] EXCEPT ![k] = row]
        \/ \E k \in DOMAIN rows[p] :
             /\ "delete" \in Events /\ rows[p][k] \in Said
             /\ rows'[p] = RemoveAtIndex(rows[p], k)
  \/ p \in Client /\ Streams(p)

\* Nothing is on its way at the start.
LEMMA InitUndeleted == Init => Undeleted
<1>1. Init => \A c \in Client : toHost[c] = <<>> /\ toClient[c] = <<>>
  BY DEF Init
<1>2. DOMAIN <<>> = {}
  OBVIOUS
<1>3. QED
  BY <1>1, <1>2 DEF Undeleted, Up, Down, Range

\* A step whose chats, placeholders and streams stay.
LEMMA SameShape ==
  ASSUME rows' = rows, placeholder' = placeholder, streaming \subseteq streaming', NEW p \in Peer
  PROVE  Reshapes(p)
BY DEF Reshapes, Keeps

\* The host's message stands at the end of its chat.
LEMMA PostShape ==
  ASSUME TypeOK, NEW t \in Texts, HostPosts(t), UNCHANGED <<placeholder, streaming>>, NEW p \in Peer
  PROVE  Reshapes(p)
<1> DEFINE row == [id |-> last + 1, text |-> t]
<1>1. row \in Said /\ rows' = [rows EXCEPT ![Host] = Append(@, row)]
  BY DEF HostPosts, TypeOK, Said, Ids
<1> HIDE DEF row
<1>2. rows'[p] = rows[p] \/ rows'[p] = Append(rows[p], row)
  BY <1>1 DEF TypeOK, Peer
<1>3. QED
  BY <1>1, <1>2 DEF Reshapes, Keeps

\* A client's turn stands at the end of its chat.
LEMMA SayShape ==
  ASSUME TypeOK, NEW c \in Client, NEW t \in Texts, ClientSays(c, t), NEW p \in Peer
  PROVE  Reshapes(p)
<1> USE DEF clientVars
<1> DEFINE row == [id |-> last + 1, text |-> t]
<1>1. /\ row \in Said /\ rows' = [rows EXCEPT ![c] = Append(@, row)]
      /\ UNCHANGED <<placeholder, streaming>>
  BY DEF ClientSays, TypeOK, Said, Ids
<1> HIDE DEF row
<1>2. rows'[p] = rows[p] \/ rows'[p] = Append(rows[p], row)
  BY <1>1 DEF TypeOK, Peer
<1>3. QED
  BY <1>1, <1>2 DEF Reshapes, Keeps

\* A careful user edits and deletes rows with an id.
LEMMA ChangeShape ==
  ASSUME Careful, TypeOK, NEW q \in Peer, NEW k \in DOMAIN rows[q],
         DeletesRow(q, k) \/ \E t \in Texts : EditsRow(q, k, t), NEW p \in Peer
  PROVE  Reshapes(p)
<1> USE DEF clientVars
<1>1. rows[q][k] \in Said
  <2>1. rows[q][k] \in Message \cup {Empty}
    BY DEF TypeOK
  <2>2. rows[q][k].id # Stream /\ rows[q][k].id # None
    BY CarefulEvents DEF DeletesRow, EditsRow, CanChange
  <2>3. QED
    BY <2>1, <2>2, SaidTyped DEF Empty
<1>2. ASSUME NEW t \in Texts, EditsRow(q, k, t)
      PROVE  Reshapes(p)
  <2> DEFINE row == [rows[q][k] EXCEPT !.text = t]
  <2>1. /\ rows' = [rows EXCEPT ![q][k] = row] /\ UNCHANGED <<placeholder, streaming>>
    BY <1>2 DEF EditsRow
  <2>2. row \in Said /\ row.id = rows[q][k].id
    BY <1>1 DEF Said
  <2> HIDE DEF row
  <2>3. p = q => rows'[p] = [rows[p] EXCEPT ![k] = row]
    BY <2>1 DEF TypeOK
  <2>4. p # q => rows'[p] = rows[p]
    BY <2>1 DEF TypeOK
  <2>5. QED
    BY <2>1, <2>2, <2>3, <2>4 DEF Reshapes, Keeps
<1>3. CASE DeletesRow(q, k)
  <2>1. /\ rows' = [rows EXCEPT ![q] = RemoveAtIndex(@, k)] /\ UNCHANGED <<placeholder, streaming>>
        /\ "delete" \in Events
    BY <1>3 DEF DeletesRow, Acts
  <2>2. rows'[p] = IF p = q THEN RemoveAtIndex(rows[p], k) ELSE rows[p]
    BY <2>1 DEF TypeOK
  <2>3. QED
    BY <1>1, <2>1, <2>2 DEF Reshapes, Keeps
<1>4. QED
  BY <1>2, <1>3

\* A remote edit, and a remote delete.
LEMMA EditShape ==
  ASSUME TypeOK, NEW q \in Peer, NEW row \in Said, AppliesEdit(q, row),
         UNCHANGED <<placeholder, streaming>>, NEW p \in Peer
  PROVE  Reshapes(p)
<1>1. CASE rows' = rows
  BY <1>1, SameShape
<1>2. ASSUME NEW k \in Found(q, row.id), rows' = [rows EXCEPT ![q][k] = row]
      PROVE  Reshapes(p)
  <2>1. row.id \in Ids
    BY SaidTyped
  <2>2. k \in DOMAIN rows[q] /\ rows[q][k].id = row.id
    BY <2>1, FoundThere
  <2>3. p = q => rows'[p] = [rows[p] EXCEPT ![k] = row]
    BY <1>2 DEF TypeOK
  <2>4. p # q => rows'[p] = rows[p]
    BY <1>2 DEF TypeOK
  <2>5. QED
    BY <2>2, <2>3, <2>4 DEF Reshapes, Keeps
<1>3. QED
  BY <1>1, <1>2 DEF AppliesEdit

\* A delete that arrives takes out a row with an id.
LEMMA DeleteShape ==
  ASSUME TypeOK, NEW q \in Peer, NEW f, f.row.id \in Ids, AppliesDelete(q, f), "delete" \in Events,
         UNCHANGED <<placeholder, streaming>>, NEW p \in Peer
  PROVE  Reshapes(p)
<1>1. CASE rows' = rows
  BY <1>1, SameShape
<1>2. ASSUME NEW k \in Target(q, f), rows' = [rows EXCEPT ![q] = RemoveAtIndex(@, k)]
      PROVE  Reshapes(p)
  <2>1. k \in Found(q, f.row.id)
    BY <1>2 DEF Target, Ids
  <2>2. k \in DOMAIN rows[q] /\ rows[q][k] \in Said
    BY <2>1, FoundThere
  <2>3. rows'[p] = IF p = q THEN RemoveAtIndex(rows[p], k) ELSE rows[p]
    BY <1>2 DEF TypeOK
  <2>4. QED
    BY <2>2, <2>3 DEF Reshapes, Keeps
<1>3. QED
  BY <1>1, <1>2 DEF AppliesDelete

\* What the host takes from a client is added, rewords a row or takes one out.
LEMMA TakesShape ==
  ASSUME TypeOK, Known, Undeleted, NEW c \in Client,
         HostTakesTurn(c) \/ HostTakesEdit(c) \/ HostTakesDelete(c), NEW p \in Peer
  PROVE  Reshapes(p)
<1> USE DEF clientVars, hostVars
<1> DEFINE h == Head(toHost[c])
<1>1. PICK op \in {"turn", "edit", "delete"} : Takes(c, op)
  BY DEF HostTakesTurn, HostTakesEdit, HostTakesDelete
<1>2. h \in Frame /\ h.op = op /\ h \in Up(c)
  BY <1>1, TakenUp
<1>3. UNCHANGED <<placeholder, streaming>>
  BY DEF HostTakesTurn, HostTakesEdit, HostTakesDelete
<1>4. CASE HostTakesTurn(c)
  <2>1. rows' = [rows EXCEPT ![Host] = Append(@, h.row)] /\ h.op = "turn"
    BY <1>4 DEF HostTakesTurn, Takes
  <2> HIDE DEF h
  <2>2. h.row \in Said
    BY <1>2, <2>1, FramesCarry
  <2>3. rows'[p] = rows[p] \/ rows'[p] = Append(rows[p], h.row)
    BY <2>1 DEF TypeOK, Peer
  <2>4. QED
    BY <1>3, <2>2, <2>3 DEF Reshapes, Keeps
<1>5. CASE HostTakesEdit(c)
  <2>1. AppliesEdit(Host, h.row) /\ h.op = "edit"
    BY <1>5 DEF HostTakesEdit, Takes
  <2> HIDE DEF h
  <2>2. h.row \in Said
    BY <1>2, <2>1, FramesCarry
  <2>3. QED
    BY <1>3, <2>1, <2>2, EditShape DEF Peer
<1>6. CASE HostTakesDelete(c)
  <2>1. AppliesDelete(Host, h) /\ h.op = "delete"
    BY <1>6 DEF HostTakesDelete, Takes
  <2> HIDE DEF h
  <2>2. h.row.id \in 1..last /\ last \in 0..MaxSays
    BY <1>2, <2>1 DEF Known, KnownAt, TypeOK
  <2>3. "delete" \in Events /\ h.row.id \in Ids
    BY <1>2, <2>1, <2>2 DEF Undeleted, Ids
  <2>4. QED
    BY <1>3, <2>1, <2>3, DeleteShape DEF Peer
<1>7. QED
  BY <1>4, <1>5, <1>6

\* An edit or a delete a client gets rewords a row or takes one out.
LEMMA GetsShape ==
  ASSUME TypeOK, Known, Undeleted, NEW c \in Client,
         ClientGetsEdit(c) \/ ClientGetsDelete(c), NEW p \in Peer
  PROVE  Reshapes(p)
<1> USE DEF clientVars
<1> DEFINE h == Head(toClient[c])
<1>1. PICK op \in {"edit", "delete"} : Gets(c, op)
  BY DEF ClientGetsEdit, ClientGetsDelete
<1>2. h \in Frame /\ h.op = op /\ h \in Down(c)
  BY <1>1, GotDown
<1>3. UNCHANGED <<placeholder, streaming>>
  BY DEF ClientGetsEdit, ClientGetsDelete
<1>4. CASE ClientGetsEdit(c)
  <2>1. AppliesEdit(c, h.row) /\ h.op = "edit"
    BY <1>4 DEF ClientGetsEdit, Gets, Got
  <2> HIDE DEF h
  <2>2. h.row \in Said
    BY <1>2, <2>1, FramesCarry
  <2>3. QED
    BY <1>3, <2>1, <2>2, EditShape DEF Peer
<1>5. CASE ClientGetsDelete(c)
  <2>1. AppliesDelete(c, h) /\ h.op = "delete"
    BY <1>5 DEF ClientGetsDelete, Gets
  <2> HIDE DEF h
  <2>2. h.row.id \in 1..last /\ last \in 0..MaxSays
    BY <1>2, <2>1 DEF Known, KnownAt, TypeOK
  <2>3. "delete" \in Events /\ h.row.id \in Ids
    BY <1>2, <2>1, <2>2 DEF Undeleted, Ids
  <2>4. QED
    BY <1>3, <2>1, <2>3, DeleteShape DEF Peer
<1>6. QED
  BY <1>4, <1>5

\* What a client is told while the host writes, and when the host comes or leaves.
LEMMA StreamShape ==
  ASSUME TypeOK, NEW c \in Client,
         \/ ClientGetsAppend(c) \/ ClientGetsToken(c) \/ StreamEnds(c)
         \/ ClientEnters(c) \/ ClientExits(c), NEW p \in Peer
  PROVE  Reshapes(p)
<1> USE DEF clientVars, peerVars
<1>1. CASE p # c
  <2>1. rows'[p] = rows[p]
    BY <1>1 DEF TypeOK, ClientGetsAppend, ClientGetsToken, StreamEnds, ClientEnters, ClientExits
  <2>2. placeholder \in [Client -> Nat]
    BY DEF TypeOK
  <2>3. p \in Client => placeholder'[p] = placeholder[p]
    BY <1>1, <2>2 DEF ClientGetsAppend, ClientGetsToken, StreamEnds, ClientEnters, ClientExits
  <2>4. p \in streaming => p \in streaming'
    BY <1>1 DEF ClientGetsAppend, ClientGetsToken, StreamEnds, ClientEnters, ClientExits
  <2>5. QED
    BY <2>1, <2>3, <2>4 DEF Reshapes, Keeps
<1>2. CASE p = c /\ ClientGetsAppend(c)
  <2>1. Gets(c, "append") /\ streaming' = streaming
    BY <1>2 DEF ClientGetsAppend
  <2>2. Got(c) \in Said
    BY <2>1, GotDown, FramesCarry DEF Got
  <2>3. CASE UNCHANGED <<rows, applied, placeholder>>
    BY <2>1, <2>3, SameShape
  <2>4. CASE rows' = [rows EXCEPT ![c] = Cleared(c, Append(@, Got(c)))]
    <3>1. rows'[c] = Cleared(c, Append(rows[c], Got(c)))
      BY <2>4 DEF TypeOK, Peer
    <3>2. QED
      BY <1>2, <2>2, <3>1 DEF Reshapes, Streams
  <2>5. QED
    BY <1>2, <2>3, <2>4 DEF ClientGetsAppend
<1>3. CASE p = c /\ ClientGetsToken(c)
  <2>1. streaming' = streaming
    BY <1>3 DEF ClientGetsToken
  <2>2. CASE UNCHANGED <<rows, placeholder>>
    BY <2>1, <2>2, SameShape
  <2>3. CASE /\ c \in streaming /\ ~Painted(c)
             /\ rows' = [rows EXCEPT ![c] = Append(@, Empty)]
             /\ placeholder' = [placeholder EXCEPT ![c] = Len(rows[c]) + 1]
    <3>1. rows'[c] = Append(rows[c], Empty) /\ placeholder'[c] = Len(rows[c]) + 1
      BY <2>3 DEF TypeOK, Peer
    <3>2. QED
      BY <1>3, <2>1, <2>3, <3>1 DEF Reshapes, Streams
  <2>4. QED
    BY <1>3, <2>2, <2>3 DEF ClientGetsToken, Painted
<1>4. CASE p = c /\ StreamEnds(c)
  <2>1. rows'[c] = IF c \in open THEN Cleared(c, rows[c]) ELSE rows[c]
    BY <1>4 DEF StreamEnds, TypeOK, Peer
  <2>2. c \notin open => ~Following(c)'
    BY <1>4 DEF StreamEnds, Following, Viewing
  <2>3. QED
    BY <1>4, <2>1, <2>2 DEF Reshapes, Streams
<1>5. CASE p = c /\ ClientExits(c)
  <2>1. rows' = rows /\ ~Following(c)'
    BY <1>5 DEF ClientExits, Following, Viewing
  <2>2. QED
    BY <1>5, <2>1 DEF Reshapes, Streams
<1>6. CASE p = c /\ ClientEnters(c)
  <2>1. rows' = rows /\ open' = open
    BY <1>6 DEF ClientEnters
  <2>2. CASE c \notin open
    BY <1>6, <2>1, <2>2 DEF Reshapes, Streams, Following, Viewing
  <2>3. CASE c \in open
    <3>1. toHost' = [toHost EXCEPT ![c] = Append(@, Signal("join"))]
      BY <1>6, <2>3 DEF ClientEnters, Send
    <3>2. toHost'[c] = Append(toHost[c], Signal("join"))
      BY <3>1 DEF TypeOK
    <3>3. Up(c)' = Up(c) \cup {Signal("join")} /\ Signal("join").op = "join"
      BY <3>2, SentUp DEF Signal, Msg
    <3>4. ~Following(c)'
      BY <3>3 DEF Following, Awaiting, Up, Range
    <3>5. QED
      BY <1>6, <2>1, <3>4 DEF Reshapes, Streams
  <2>4. QED
    BY <2>2, <2>3
<1>7. QED
  BY <1>1, <1>2, <1>3, <1>4, <1>5, <1>6

\* Every step of careful users changes a chat in one of these ways.
LEMMA StepShapes ==
  ASSUME Careful, TypeOK, Known, Undeleted, [Next]_vars, NEW p \in Peer
  PROVE  Reshapes(p)
<1> USE DEF peerVars, netVars, clientVars, hostVars, runVars
<1>1. CASE rows' = rows /\ placeholder' = placeholder /\ streaming \subseteq streaming'
  BY <1>1, SameShape
<1>2. ASSUME NEW t \in Texts, HostSays(t) \/ GenLands(t)
      PROVE  Reshapes(p)
  BY <1>2, PostShape DEF HostSays, GenLands
<1>3. ASSUME NEW c \in Client, NEW t \in Texts, ClientSays(c, t)
      PROVE  Reshapes(p)
  BY <1>3, SayShape
<1>4. ASSUME NEW q \in Peer, NEW k \in DOMAIN rows[q], DeletesRow(q, k) \/ \E t \in Texts : EditsRow(q, k, t)
      PROVE  Reshapes(p)
  BY <1>4, ChangeShape
<1>5. CASE Users
  BY <1>1, <1>2, <1>3, <1>4, <1>5 DEF Users, ClientMoves, Drops, ClientAsks, HostMoves, GenStarts
<1>6. CASE Generation
  BY <1>1, <1>2, <1>6 DEF Generation, GenStreams, TokenTimer, GenEnds
<1>7. CASE HostRoutes
  BY <1>1, <1>7, TakesShape DEF HostRoutes, SaveDone, ReplyDone, HostAway, HostTakesRequest,
     HostTakesJoin, HostTakesRepublish
<1>8. ASSUME NEW c \in Client, ClientRoutes(c)
      PROVE  Reshapes(p)
  <2>1. CASE ClientIgnores(c) \/ StreamBegins(c)
    BY <1>1, <2>1 DEF ClientIgnores, StreamBegins
  <2>2. CASE ClientGetsState(c)
    <3>1. UNCHANGED <<placeholder, streaming>> /\ \A q \in Peer \ {c} : rows'[q] = rows[q]
      BY <2>2 DEF ClientGetsState, TypeOK
    <3>2. HearsState(c)
      BY <2>2, StateKind
    <3>3. QED
      BY <3>1, <3>2 DEF Reshapes, Keeps, Streams
  <2>3. QED
    BY <1>8, <2>1, <2>2, GetsShape, StreamShape DEF ClientRoutes
<1>9. QED
  BY <1>1, <1>5, <1>6, <1>7, <1>8 DEF Next, vars, Returns, Forgets

\* Where nobody deletes, no delete is ever sent.
LEMMA StepUndeleted ==
  ASSUME TypeOK, Undeleted, Kinds
  PROVE  Undeleted'
<1> SUFFICES ASSUME "delete" \notin Events, NEW c \in Client
             PROVE  \A f \in Up(c)' \cup Down(c)' : f.op # "delete"
  BY DEF Undeleted
<1>1. \A d \in Client : \A f \in Up(d) \cup Down(d) : f.op # "delete"
  BY DEF Undeleted
<1>2. \A op \in Signals : op # "delete"
  BY OpsDiffer
<1>3. CASE NoNews
  <2>1. Spoken(Up(c)') \subseteq Up(c) /\ \A f \in Down(c)' : f.op \in Signals \/ f \in Down(c)
    BY <1>3, TrimmedDown DEF NoNews, Idles
  <2>2. QED
    BY <1>1, <1>2, <2>1 DEF Spoken
<1>4. ASSUME NEW row \in Said, Adds(row) \/ Corrects(row)
      PROVE  \A f \in Up(c)' \cup Down(c)' : f.op # "delete"
  <2>1. Up(c)' \subseteq Up(c)
    BY <1>4, TakenUp DEF Adds, Corrects, Meant, Up
  <2>2. Down(c)' \subseteq Down(c) \cup {Msg("append", row), Msg("edit", row)}
    BY <1>4, HeardDown DEF Adds, Corrects
  <2>3. QED
    BY <1>1, <2>1, <2>2, OpsDiffer
<1>5. CASE Announces
  <2>1. Up(c)' = Up(c) /\ Down(c)' \subseteq Down(c) \cup {Msg("append", saved)}
    BY <1>5, HeardDown DEF Announces, Up
  <2>2. QED
    BY <1>1, <2>1, OpsDiffer
<1>6. ASSUME NEW f \in Frame, Removes(f)
      PROVE  FALSE
  <2>1. PICK d \in Client : Takes(d, "delete")
    BY <1>6 DEF Removes, Meant
  <2>2. QED
    BY <1>1, <2>1, TakenUp
<1>7. ASSUME NEW d \in Client, NEW row \in Said, Accepts(d, row)
      PROVE  \A f \in Up(c)' \cup Down(c)' : f.op # "delete"
  BY <1>1, <1>7, TakenUp DEF Accepts, Down
<1>8. ASSUME NEW d \in Client, Answers(d)
      PROVE  \A f \in Up(c)' \cup Down(c)' : f.op # "delete"
  <2>1. Up(c)' \subseteq Up(c)
    BY <1>8, TakenUp DEF Answers
  <2>2. \A g \in Down(c)' : g \in Down(c) \/ g.op \in Signals \/ g = Transcript(rows[Host])
    BY <1>8, AnsweredDown
  <2>3. QED
    BY <1>1, <1>2, <2>1, <2>2, OpsDiffer
<1>9. ASSUME NEW d \in Client, Alone(d), NEW g, g.op # "delete",
             toHost' = toHost \/ toHost'[d] = Append(toHost[d], g),
             toClient'[d] = toClient[d] \/ \E op : Gets(d, op)
      PROVE  \A f \in Up(c)' \cup Down(c)' : f.op # "delete"
  <2>1. CASE c # d
    <3>1. Up(c)' = Up(c) /\ Down(c)' = Down(c)
      BY <1>9, <2>1 DEF Alone, Up, Down
    <3>2. QED
      BY <1>1, <3>1
  <2>2. CASE c = d
    <3>1. Up(c)' \subseteq Up(c) \cup {g}
      BY <1>9, <2>2, SentUp DEF Up
    <3>2. Down(c)' \subseteq Down(c)
      BY <1>9, <2>2, GotDown DEF Down
    <3>3. QED
      BY <1>1, <1>9, <3>1, <3>2
  <2>3. QED
    BY <2>1, <2>2
<1>10. ASSUME NEW d \in Client, NEW row \in Said, Says(d, row) \/ CorrectsOwn(d, row)
       PROVE  \A f \in Up(c)' \cup Down(c)' : f.op # "delete"
  BY <1>9, <1>10, OpsDiffer DEF Says, CorrectsOwn
<1>11. ASSUME NEW d \in Client, NEW f \in Frame, RemovesOwn(d, f)
       PROVE  FALSE
  BY <1>11 DEF RemovesOwn
<1>12. ASSUME NEW d \in Client, HearsAppend(d) \/ HearsEdit(d) \/ HearsDelete(d) \/ HearsState(d)
       PROVE  \A f \in Up(c)' \cup Down(c)' : f.op # "delete"
  <2>1. Alone(d) /\ toHost' = toHost /\ \E op : Gets(d, op)
    BY <1>12 DEF HearsAppend, HearsEdit, HearsDelete, HearsState, Hears
  <2>2. QED
    BY <1>9, <2>1, OpsDiffer
<1>13. QED
  BY <1>3, <1>4, <1>5, <1>6, <1>7, <1>8, <1>10, <1>11, <1>12 DEF Kinds

-----------------------------------------------------------------------------
(* The rows that were there before the chat was shared stay, in front *)

OldFirst(s) ==
  /\ \A k \in DOMAIN History : k \in DOMAIN s /\ s[k] = [id |-> None, text |-> History[k]]
  /\ \A k \in DOMAIN s : s[k].id = None => k \in DOMAIN History

Olds ==
  /\ \A p \in Peer : OldFirst(rows[p])
  /\ \A c \in Client : \A f \in Down(c) : f.op = "state" => OldFirst(f.log)

\* Every chat starts with them.
LEMMA InitOlds == Init => Olds
<1> SUFFICES ASSUME Init PROVE Olds
  OBVIOUS
<1>1. \A p \in Peer : rows[p] = [k \in DOMAIN History |-> [id |-> None, text |-> History[k]]]
  BY DEF Init
<1>2. \A c \in Client : toClient[c] = <<>>
  BY DEF Init
<1>3. DOMAIN <<>> = {}
  OBVIOUS
<1>4. \A c \in Client : Down(c) = {}
  BY <1>2, <1>3 DEF Down, Range
<1>5. QED
  BY <1>1, <1>4 DEF Olds, OldFirst

\* They stay in front as a row is added,
LEMMA OldAppend ==
  ASSUME NEW s \in Seq(Message \cup {Empty}), OldFirst(s), NEW row, row.id # None
  PROVE  OldFirst(Append(s, row))
<1> DEFINE r == Append(s, row)
<1>1. /\ DOMAIN s = 1..Len(s) /\ Len(s) \in Nat /\ DOMAIN r = 1..(Len(s) + 1)
      /\ \A k \in DOMAIN s : r[k] = s[k]
      /\ r[Len(s) + 1] = row
  OBVIOUS
<1> HIDE DEF r
<1>2. \A k \in DOMAIN r : k \in DOMAIN s \/ k = Len(s) + 1
  BY <1>1
<1>3. \A k \in DOMAIN s : k \in DOMAIN r
  BY <1>1
<1>4. QED
  BY <1>1, <1>2, <1>3 DEF OldFirst, r

\* as a row with an id is reworded,
LEMMA OldReword ==
  ASSUME NEW s \in Seq(Message \cup {Empty}), OldFirst(s), NEW k \in DOMAIN s,
         NEW row, row.id # None, s[k].id = row.id
  PROVE  OldFirst([s EXCEPT ![k] = row])
BY DEF OldFirst

\* as a row with an id is taken out,
LEMMA OldRemove ==
  ASSUME NEW s \in Seq(Message \cup {Empty}), OldFirst(s), NEW k \in DOMAIN s, s[k].id # None
  PROVE  OldFirst(RemoveAtIndex(s, k))
<1> DEFINE r == RemoveAtIndex(s, k)
<1>1. /\ DOMAIN r = 1..(Len(s) - 1) /\ DOMAIN s = 1..Len(s) /\ Len(s) \in Nat
      /\ \A j \in DOMAIN r : LET i == IF j < k THEN j ELSE j + 1
                             IN  i \in DOMAIN s /\ i # k /\ r[j] = s[i]
      /\ \A i \in DOMAIN s : i # k => LET j == IF i < k THEN i ELSE i - 1
                                      IN  j \in DOMAIN r /\ r[j] = s[i]
  BY RemoveRows
<1> HIDE DEF r
<1>2. DOMAIN History = 1..Len(History) /\ Len(History) \in Nat /\ k \in Nat
  BY <1>1
<1>3. k > Len(History)
  <2>1. ASSUME k \in DOMAIN History
        PROVE  FALSE
    <3>1. s[k] = [id |-> None, text |-> History[k]]
      BY <2>1 DEF OldFirst
    <3>2. QED
      BY <3>1
  <2>2. QED
    BY <1>1, <1>2, <2>1
<1>4. \A j \in DOMAIN History : j \in DOMAIN r /\ r[j] = [id |-> None, text |-> History[j]]
  BY <1>1, <1>2, <1>3 DEF OldFirst
<1>5. ASSUME NEW j \in DOMAIN r, r[j].id = None
      PROVE  j \in DOMAIN History
  <2>1. CASE j < k
    BY <1>1, <1>5, <2>1 DEF OldFirst
  <2>2. CASE ~(j < k)
    <3>1. j + 1 \in DOMAIN s /\ r[j] = s[j + 1]
      BY <1>1, <2>2
    <3>2. j + 1 \in DOMAIN History /\ j \in Nat
      BY <1>1, <1>5, <3>1 DEF OldFirst
    <3>3. QED
      BY <1>2, <1>3, <2>2, <3>2
  <2>3. QED
    BY <2>1, <2>2
<1>6. QED
  BY <1>4, <1>5 DEF OldFirst, r

\* and as the placeholder of a reply goes.
LEMMA OldCleared ==
  ASSUME NEW c, NEW s \in Seq(Message \cup {Empty}), OldFirst(s)
  PROVE  OldFirst(Cleared(c, s))
BY OldRemove DEF Cleared

\* The transcripts on their way are the host's, then or now.
LEMMA KindsTell ==
  ASSUME TypeOK, Kinds, NEW c \in Client, NEW f \in Down(c)', f.op = "state"
  PROVE  f \in Down(c) \/ f = Transcript(rows[Host])
<1>1. \A op \in Signals : op # "state"
  BY OpsDiffer
<1>2. CASE NoNews
  BY <1>1, <1>2, TrimmedDown DEF NoNews, Idles
<1>3. ASSUME NEW row \in Said, Adds(row) \/ Corrects(row)
      PROVE  f \in Down(c)
  <2>1. Down(c)' \subseteq Down(c) \cup {Msg("append", row), Msg("edit", row)}
    BY <1>3, HeardDown DEF Adds, Corrects
  <2>2. QED
    BY <2>1, OpsDiffer
<1>4. CASE Announces
  <2>1. Down(c)' \subseteq Down(c) \cup {Msg("append", saved)}
    BY <1>4, HeardDown DEF Announces
  <2>2. QED
    BY <2>1, OpsDiffer
<1>5. ASSUME NEW g \in Frame, Removes(g)
      PROVE  f \in Down(c)
  <2>1. Down(c)' \subseteq Down(c) \cup {g} /\ g.op = "delete"
    BY <1>5, HeardDown DEF Removes
  <2>2. QED
    BY <2>1
<1>6. ASSUME NEW d \in Client, Answers(d)
      PROVE  f \in Down(c) \/ f = Transcript(rows[Host])
  BY <1>1, <1>6, AnsweredDown
<1>7. ASSUME NEW d \in Client, NEW row \in Said, Accepts(d, row)
      PROVE  f \in Down(c)
  BY <1>7 DEF Accepts, Down
<1>8. ASSUME NEW d \in Client, Alone(d), toClient'[d] = toClient[d] \/ \E op : Gets(d, op)
      PROVE  f \in Down(c)
  <2>1. Down(c)' \subseteq Down(c)
    BY <1>8, GotDown DEF Alone, Down
  <2>2. QED
    BY <2>1
<1>9. ASSUME NEW d \in Client, NEW row \in Said, Says(d, row) \/ CorrectsOwn(d, row)
      PROVE  f \in Down(c)
  BY <1>8, <1>9 DEF Says, CorrectsOwn
<1>10. ASSUME NEW d \in Client, NEW g \in Frame, RemovesOwn(d, g)
       PROVE  f \in Down(c)
  BY <1>8, <1>10 DEF RemovesOwn
<1>11. ASSUME NEW d \in Client, HearsAppend(d) \/ HearsEdit(d) \/ HearsDelete(d) \/ HearsState(d)
       PROVE  f \in Down(c)
  BY <1>8, <1>11 DEF HearsAppend, HearsEdit, HearsDelete, HearsState, Hears
<1>12. QED
  BY <1>2, <1>3, <1>4, <1>5, <1>6, <1>7, <1>9, <1>10, <1>11 DEF Kinds

\* Every step leaves the rows older than the sharing in front of every chat.
LEMMA StepOlds ==
  ASSUME TypeOK, Olds, Kinds, \A p \in Peer : Reshapes(p)
  PROVE  Olds'
<1>1. None \notin Ids /\ \A row \in Said : row.id # None
  BY SaidTyped DEF Ids
<1>2. ASSUME NEW p \in Peer
      PROVE  OldFirst(rows'[p])
  <2>1. rows[p] \in Seq(Message \cup {Empty}) /\ OldFirst(rows[p])
    BY DEF TypeOK, Olds
  <2>2. Empty.id # None
    BY DEF Empty
  <2>3. ASSUME NEW row \in Said
        PROVE  OldFirst(Append(rows[p], row)) /\ OldFirst(Cleared(p, Append(rows[p], row)))
    <3>1. OldFirst(Append(rows[p], row))
      BY <1>1, <2>1, OldAppend
    <3>2. Append(rows[p], row) \in Seq(Message \cup {Empty})
      BY <2>1, SaidTyped
    <3>3. QED
      BY <3>1, <3>2, OldCleared
  <2>4. OldFirst(Append(rows[p], Empty)) /\ OldFirst(Cleared(p, rows[p]))
    BY <2>1, <2>2, OldAppend, OldCleared
  <2>5. ASSUME NEW k \in DOMAIN rows[p]
        PROVE  /\ \A row \in Said : rows[p][k].id = row.id => OldFirst([rows[p] EXCEPT ![k] = row])
               /\ rows[p][k] \in Said => OldFirst(RemoveAtIndex(rows[p], k))
    BY <1>1, <2>1, OldReword, OldRemove
  <2>6. ASSUME p \in Client, HearsState(p)
        PROVE  OldFirst(rows'[p])
    <3>1. Gets(p, "state") /\ rows'[p] = Head(toClient[p]).log
      BY <2>6 DEF HearsState, Hears
    <3>2. Head(toClient[p]) \in Down(p) /\ Head(toClient[p]).op = "state"
      BY <2>6, <3>1, GotDown
    <3>3. QED
      BY <2>6, <3>1, <3>2 DEF Olds
  <2>7. Reshapes(p)
    OBVIOUS
  <2>8. QED
    BY <2>1, <2>3, <2>4, <2>5, <2>6, <2>7 DEF Reshapes, Streams
<1>3. ASSUME NEW c \in Client, NEW f \in Down(c)', f.op = "state"
      PROVE  OldFirst(f.log)
  <2>1. f \in Down(c) \/ f = Transcript(rows[Host])
    BY <1>3, KindsTell
  <2>2. QED
    BY <1>3, <2>1, OpsDiffer DEF Olds, Peer
<1>4. QED
  BY <1>2, <1>3 DEF Olds

-----------------------------------------------------------------------------
(* The reply being written is in one place, and goes when the generation ends *)

\* Where nobody asks for a reply there is none.
Silent ==
  "reply" \in Events \/ (/\ gen = "off" /\ streaming = {}
                         /\ \A c \in Client : ~Comes(Down(c), "start"))

\* The end of a generation is on its way behind its start.
Closed(q) == \A k \in DOMAIN q : q[k].op = "start" => Comes(After(q, k), "end")

\* Where no reply is being written, a client that is shown one will hear that it is
\* over.
Ending ==
  gen = "off" => \A c \in Client :
    Closed(toClient[c]) /\ (c \in streaming \cap active => Comes(Down(c), "end"))

\* A client that follows shows the reply in its placeholder, while it is written.
Placed ==
  \A c \in Client : Following(c) => \A k \in Writing(c) : k = placeholder[c] /\ c \in streaming

\* At the start no reply is being written.
LEMMA InitPlaced == Init => Silent /\ Ending /\ Placed
<1> SUFFICES ASSUME Init PROVE Silent /\ Ending /\ Placed
  OBVIOUS
<1>1. DOMAIN <<>> = {}
  OBVIOUS
<1>2. \A c \in Client : toClient[c] = <<>> /\ Down(c) = {}
  BY <1>1 DEF Init, Down, Range
<1>3. gen = "off" /\ streaming = {} /\ \A p \in Peer : \A k \in DOMAIN rows[p] : rows[p][k].id # Stream
  BY DEF Init
<1>4. QED
  BY <1>1, <1>2, <1>3 DEF Silent, Ending, Closed, Comes, Placed, Writing, Peer

\* Nothing on its way to c is lost but what c takes and what its connection loses.
Grows(c) == Down(c) \subseteq Down(c)'

\* A broadcast takes nothing from a queue,
LEMMA BroadcastGrows ==
  ASSUME TypeOK, NEW f \in Frame, Broadcast(<<f>>), NEW c \in Client
  PROVE  Grows(c)
<1>1. Heard(f)
  BY BroadcastAppends DEF Heard
<1>2. QED
  BY <1>1, HeardDown DEF Grows

\* nor does an answer,
LEMMA AnswersGrow ==
  ASSUME TypeOK, NEW d \in Client, Answers(d), NEW c \in Client
  PROVE  Grows(c)
<1>1. CASE c # d
  BY <1>1, AnsweredDown DEF Grows
<1>2. CASE c = d /\ c \notin online
  BY <1>2 DEF Answers, Down, Grows
<1>3. CASE c = d /\ c \in online
  <2>1. PICK q \in Seq(Frame) :
          /\ q = toClient[c] \/ \E f \in Frame : f.op \in Signals /\ q = Append(toClient[c], f)
          /\ toClient'[c] = Append(q, Transcript(rows[Host]))
    BY <1>3 DEF Answers
  <2>2. Range(toClient'[c]) = Range(q) \cup {Transcript(rows[Host])}
    BY <2>1, AppendAfter
  <2>3. ASSUME NEW f \in Frame, q = Append(toClient[c], f)
        PROVE  Range(toClient[c]) \subseteq Range(q)
    <3>1. toClient[c] \in Seq(Frame)
      BY DEF TypeOK
    <3>2. Range(q) = Range(toClient[c]) \cup {f}
      BY <2>3, <3>1, AppendAfter
    <3>3. QED
      BY <3>2
  <2>4. Range(toClient[c]) \subseteq Range(q)
    BY <2>1, <2>3
  <2>5. QED
    BY <2>2, <2>4 DEF Grows, Down
<1>4. QED
  BY <1>1, <1>2, <1>3

\* nor does news of a message, or what a client changes of its own.
LEMMA NewsGrow ==
  ASSUME TypeOK, NEW c \in Client,
         \/ \E row \in Said : Adds(row) \/ Corrects(row) \/ \E d \in Client : CorrectsOwn(d, row)
         \/ \E f \in Frame : Removes(f) \/ \E d \in Client : RemovesOwn(d, f)
         \/ Announces
  PROVE  Grows(c)
<1> USE DEF Grows
<1>1. ASSUME NEW f, Heard(f)
      PROVE  Grows(c)
  BY <1>1, HeardDown
<1>2. ASSUME NEW d \in Client, Alone(d), toClient'[d] = toClient[d]
      PROVE  Grows(c)
  BY <1>2 DEF Alone, Down
<1>3. QED
  BY <1>1, <1>2 DEF Adds, Corrects, CorrectsOwn, Removes, RemovesOwn, Announces

\* A stream that goes on went on before, with its end still to come where it was.
Endures(c) ==
  c \in streaming \cap active /\ (Comes(Down(c), "end") => Comes(Down(c)', "end"))

\* What a client reads that is not the end of a reply leaves the end on its way.
LEMMA GetsEndures ==
  ASSUME TypeOK, NEW d \in Client, NEW op, op # "end", Gets(d, op), NEW c \in Client,
         c \in streaming \cap active
  PROVE  Endures(c)
<1>1. c = d => Down(c) = Down(c)' \cup {Head(toClient[c])} /\ Head(toClient[c]).op = op
  BY GotDown
<1>2. c # d => Down(c)' = Down(c)
  BY GotDown
<1>3. QED
  BY <1>1, <1>2 DEF Endures, Comes

\* The end of a reply stays on its way to a client that is shown one.
LEMMA StreamsEndure ==
  ASSUME Careful, TypeOK, HostLeft, Known, Single(rows[Host]), [Next]_vars,
         NEW c \in Client, c \in streaming' \cap active', ~StreamBegins(c)
  PROVE  Endures(c)
<1> USE DEF peerVars, netVars, clientVars, hostVars, runVars
<1>0. \A op \in Signals : Signal(op) \in Frame
  BY FramesTyped
<1>1. CASE UNCHANGED <<toClient, streaming, active>>
  BY <1>1 DEF Endures, Down
<1>2. CASE Grows(c) /\ UNCHANGED <<streaming, active>>
  BY <1>2 DEF Endures, Grows, Comes
<1>3. ASSUME NEW op \in Signals, Broadcast(<<Signal(op)>>), UNCHANGED <<streaming, active>>
      PROVE  Endures(c)
  BY <1>0, <1>2, <1>3, BroadcastGrows
<1>4. ASSUME NEW t \in Texts, HostSays(t) \/ GenLands(t)
      PROVE  Endures(c)
  <2>1. \E row \in Said : Adds(row)
    BY <1>4, PostAdds DEF HostSays, GenLands
  <2>2. UNCHANGED <<streaming, active>>
    BY <1>4 DEF HostSays, GenLands
  <2>3. QED
    BY <1>2, <2>1, <2>2, NewsGrow
<1>5. ASSUME NEW q \in Peer, NEW k \in DOMAIN rows[q], DeletesRow(q, k) \/ \E t \in Texts : EditsRow(q, k, t)
      PROVE  Endures(c)
  <2>1. Grows(c)
    BY <1>5, EditKind, DeleteKind, NewsGrow
  <2>2. UNCHANGED <<streaming, active>>
    BY <1>5 DEF DeletesRow, EditsRow
  <2>3. QED
    BY <1>2, <2>1, <2>2
<1>6. ASSUME NEW d \in Client, Drops(d)
      PROVE  Endures(c)
  <2>1. c # d /\ toClient'[c] = toClient[c] /\ c \in streaming \cap active
    BY <1>6 DEF Drops, TypeOK
  <2>2. QED
    BY <2>1 DEF Endures, Down
<1>7. CASE Users
  <2>1. CASE HostMoves
    BY <1>3, <2>1 DEF HostMoves, Signals
  <2>2. CASE GenStarts
    BY <1>3, <2>2 DEF GenStarts, Signals
  <2>3. CASE \E d \in Client : ClientMoves(d) \/ ClientAsks(d) \/ \E t \in Texts : ClientSays(d, t)
    BY <1>1, <2>3 DEF ClientMoves, ClientAsks, ClientSays
  <2>4. QED
    BY <1>4, <1>5, <1>6, <1>7, <2>1, <2>2, <2>3 DEF Users
<1>8. CASE Generation
  <2>1. CASE TokenTimer
    BY <1>1, <1>3, <2>1 DEF TokenTimer, Signals
  <2>2. CASE GenEnds
    BY <1>3, <2>2 DEF GenEnds, Signals
  <2>3. CASE GenStreams
    BY <1>1, <2>3 DEF GenStreams
  <2>4. QED
    BY <1>4, <1>8, <2>1, <2>2, <2>3 DEF Generation
<1>9. CASE HostRoutes
  <2>1. CASE SaveDone
    <3>1. Grows(c)
      BY <2>1, SaveKind, NewsGrow
    <3>2. QED
      BY <1>2, <2>1, <3>1 DEF SaveDone
  <2>2. ASSUME NEW d \in Client, HostTakesEdit(d) \/ HostTakesDelete(d)
        PROVE  Endures(c)
    <3>1. Grows(c)
      BY <2>2, TakesEditKind, TakesDeleteKind, NewsGrow
    <3>2. QED
      BY <1>2, <2>2, <3>1 DEF HostTakesEdit, HostTakesDelete
  <2>3. ASSUME NEW d \in Client, HostTakesJoin(d) \/ HostTakesRepublish(d)
        PROVE  Endures(c)
    <3>1. Grows(c)
      BY <2>3, AnswerKind, AnswersGrow
    <3>2. QED
      BY <1>2, <2>3, <3>1 DEF HostTakesJoin, HostTakesRepublish
  <2>4. QED
    BY <1>1, <1>9, <2>1, <2>2, <2>3 DEF HostRoutes, ReplyDone, HostAway, HostTakesTurn, HostTakesRequest
<1>10. ASSUME NEW d \in Client, ClientRoutes(d)
       PROVE  Endures(c)
  <2>1. CASE StreamEnds(d)
    <3>1. c # d /\ Gets(d, "end") /\ c \in streaming \cap active
      BY <2>1 DEF StreamEnds
    <3>2. QED
      BY <3>1, GotDown DEF Endures
  <2>2. CASE StreamBegins(d)
    <3>1. c # d /\ Gets(d, "start") /\ c \in streaming \cap active
      BY <2>2 DEF StreamBegins
    <3>2. QED
      BY <3>1, GetsEndures
  <2>3. CASE ClientEnters(d) \/ ClientExits(d)
    <3>1. (\E op \in {"enter", "exit"} : Gets(d, op)) /\ c \in streaming \cap active
      BY <2>3 DEF ClientEnters, ClientExits
    <3>2. QED
      BY <3>1, GetsEndures
  <2>4. CASE ClientIgnores(d)
    <3>1. /\ \E op \in {"append", "edit", "delete", "state", "start", "token"} : Gets(d, op)
          /\ c \in streaming \cap active
      BY <2>4 DEF ClientIgnores
    <3>2. QED
      BY <3>1, GetsEndures
  <2>5. CASE \/ ClientGetsAppend(d) \/ ClientGetsEdit(d) \/ ClientGetsDelete(d)
             \/ ClientGetsState(d) \/ ClientGetsToken(d)
    <3>1. /\ \E op \in {"append", "edit", "delete", "state", "token"} : Gets(d, op)
          /\ c \in streaming \cap active
      BY <2>5 DEF ClientGetsAppend, ClientGetsEdit, ClientGetsDelete, ClientGetsState, ClientGetsToken
    <3>2. QED
      BY <3>1, GetsEndures
  <2>6. QED
    BY <1>10, <2>1, <2>2, <2>3, <2>4, <2>5 DEF ClientRoutes
<1>11. QED
  BY <1>1, <1>7, <1>8, <1>9, <1>10 DEF Next, vars, Returns, Forgets

\* A queue in which every start is ended stays so as anything but a start is sent.
LEMMA ClosedAppend ==
  ASSUME NEW q \in Seq(Frame), NEW f
  PROVE  LET r == Append(q, f)
         IN  /\ Closed(q) /\ f.op # "start" => Closed(r)
             /\ f.op = "end" => Closed(r) /\ Comes(Range(r), "end")
<1> DEFINE r == Append(q, f)
<1>1. /\ Range(r) = Range(q) \cup {f}
      /\ \A k \in DOMAIN r :
           \/ k \in DOMAIN q /\ r[k] = q[k] /\ After(r, k) = After(q, k) \cup {f}
           \/ r[k] = f /\ After(r, k) = {}
  BY AppendAfter
<1> HIDE DEF r
<1>2. QED
  BY <1>1 DEF Closed, Comes, r

\* It stays so as it is read, and the end of a start that was read is still to come.
LEMMA ClosedTail ==
  ASSUME NEW q \in Seq(Frame), q # <<>>, Closed(q)
  PROVE  LET r == Tail(q)
         IN  Closed(r) /\ (Head(q).op = "start" => Comes(Range(r), "end"))
<1> DEFINE r == Tail(q)
<1>1. /\ 1 \in DOMAIN q /\ q[1] = Head(q) /\ After(q, 1) = Range(r)
      /\ \A k \in DOMAIN r : k + 1 \in DOMAIN q /\ r[k] = q[k + 1] /\ After(r, k) = After(q, k + 1)
  BY TailAfter
<1> HIDE DEF r
<1>2. QED
  BY <1>1 DEF Closed, r

\* What is none of the generation's business brings no start.
LEMMA BesideStarts ==
  ASSUME NEW q \in Seq(Frame), NEW r, Beside(q, r)
  PROVE  /\ Closed(q) => Closed(r)
         /\ ~Comes(Range(q), "start") => ~Comes(Range(r), "start")
<1>1. PICK f \in Frame : f.op \notin {"start", "token", "end"} /\ r = Append(q, f)
  BY DEF Beside
<1>2. Range(r) = Range(q) \cup {f}
  BY <1>1, AppendAfter
<1>3. Closed(q) => Closed(r)
  BY <1>1, ClosedAppend
<1>4. QED
  BY <1>1, <1>2, <1>3 DEF Comes

\* It stays so in a step that starts no generation.
LEMMA CalmStarts ==
  ASSUME NEW q \in Seq(Frame), NEW r, Calm(q, r)
  PROVE  /\ Closed(q) => Closed(r)
         /\ ~Comes(Range(q), "start") => ~Comes(Range(r), "start")
<1>1. CASE r = <<>>
  <2>1. DOMAIN r = {}
    BY <1>1
  <2>2. QED
    BY <2>1 DEF Closed, Comes, Range
<1>2. CASE q # <<>> /\ r = Tail(q)
  <2>1. Range(q) = Range(r) \cup {Head(q)}
    BY <1>2, TailAfter
  <2>2. Closed(q) => Closed(r)
    BY <1>2, ClosedTail
  <2>3. QED
    BY <2>1, <2>2 DEF Comes
<1>3. QED
  BY <1>1, <1>2, BesideStarts DEF Calm

\* The generation goes on where it is, but for its start and its end.
LEMMA GenStays ==
  ASSUME [Next]_vars, ~GenStarts, ~GenEnds
  PROVE  gen' = gen \/ (gen = "on" /\ gen' = "landed")
<1> USE DEF hostVars
<1>1. CASE Users
  BY <1>1 DEF Users, HostSays, ClientSays, DeletesRow, EditsRow, ClientMoves, Drops, ClientAsks, HostMoves
<1>2. CASE Generation
  BY <1>2 DEF Generation, GenStreams, TokenTimer, GenLands
<1>3. CASE HostRoutes
  BY <1>3 DEF HostRoutes, SaveDone, ReplyDone, HostAway, HostTakesTurn, HostTakesRequest,
     HostTakesEdit, HostTakesDelete, HostTakesJoin, HostTakesRepublish
<1>4. CASE \E c \in Client : Returns(c) \/ ClientRoutes(c)
  BY <1>4 DEF Returns, ClientRoutes, ClientIgnores, ClientGetsAppend, ClientGetsEdit,
     ClientGetsDelete, ClientGetsState, ClientEnters, ClientExits, StreamBegins,
     ClientGetsToken, StreamEnds
<1>5. QED
  BY <1>1, <1>2, <1>3, <1>4 DEF Next, vars, Forgets

\* Only the start of a reply makes a client show one.
LEMMA StreamsGrow ==
  ASSUME [Next]_vars
  PROVE  streaming' \subseteq streaming \/ \E c \in Client : StreamBegins(c)
<1> USE DEF clientVars
<1>1. CASE Users
  BY <1>1 DEF Users, HostSays, ClientSays, DeletesRow, EditsRow, ClientMoves, Drops, ClientAsks,
     HostMoves, GenStarts
<1>2. CASE Generation
  BY <1>2 DEF Generation, GenStreams, TokenTimer, GenLands, GenEnds
<1>3. CASE HostRoutes
  BY <1>3 DEF HostRoutes, SaveDone, ReplyDone, HostAway, HostTakesTurn, HostTakesRequest,
     HostTakesEdit, HostTakesDelete, HostTakesJoin, HostTakesRepublish
<1>4. CASE \E c \in Client : Returns(c) \/ ClientRoutes(c)
  BY <1>4 DEF Returns, ClientRoutes, ClientIgnores, ClientGetsAppend, ClientGetsEdit,
     ClientGetsDelete, ClientGetsState, ClientEnters, ClientExits,
     ClientGetsToken, StreamEnds
<1>5. QED
  BY <1>1, <1>2, <1>3, <1>4 DEF Next, vars, Forgets

\* Where the host never replies, no reply is shown or announced.
LEMMA StepSilent ==
  ASSUME TypeOK, StreamOrder, Silent, [Next]_vars
  PROVE  Silent'
<1> SUFFICES ASSUME "reply" \notin Events
             PROVE  Silent'
  BY DEF Silent
<1>1. gen = "off" /\ streaming = {} /\ \A c \in Client : ~Comes(Down(c), "start")
  BY DEF Silent
<1>2. ~GenStarts /\ ~GenEnds /\ ~TokenTimer
  BY <1>1 DEF GenStarts, Acts, GenEnds, TokenTimer, StreamOrder
<1>3. gen' = "off"
  BY <1>1, <1>2, GenStays
<1>4. ASSUME NEW c \in Client
      PROVE  ~Comes(Down(c)', "start")
  <2>1. Calm(toClient[c], toClient'[c])
    BY <1>2, StepsAreCalm DEF CalmStep
  <2>2. toClient[c] \in Seq(Frame)
    BY DEF TypeOK
  <2>3. QED
    BY <1>1, <2>1, <2>2, CalmStarts DEF Down
<1>5. ASSUME NEW c \in Client
      PROVE  ~StreamBegins(c)
  BY <1>1, GotDown DEF StreamBegins, Comes
<1>6. streaming' = {}
  BY <1>1, <1>5, StreamsGrow
<1>7. QED
  BY <1>3, <1>4, <1>6 DEF Silent

\* Every step keeps the end of a reply on its way to who is shown it.
LEMMA StepEnding ==
  ASSUME Careful, TypeOK, StreamOrder, HostLeft, Known, Single(rows[Host]), Ending, [Next]_vars
  PROVE  Ending'
<1> SUFFICES ASSUME gen' = "off", NEW c \in Client
             PROVE  Closed(toClient'[c]) /\ (c \in streaming' \cap active' => Comes(Down(c)', "end"))
  BY DEF Ending
<1> DEFINE q == toClient[c]
<1>1. q \in Seq(Frame)
  BY DEF TypeOK
<1>2. CASE GenEnds
  <2>1. Signal("end") \in Frame /\ Signal("end").op = "end"
    BY FramesTyped DEF Signals, Signal, Msg
  <2>2. toClient'[c] = IF c \in online THEN Append(q, Signal("end")) ELSE q
    BY <1>2, <2>1, BroadcastAppends DEF GenEnds
  <2>3. active' = active
    BY <1>2 DEF GenEnds, clientVars
  <2>4. CASE c \in online
    BY <1>1, <2>1, <2>2, <2>4, ClosedAppend DEF Down
  <2>5. CASE c \notin online
    <3>1. q = <<>> /\ DOMAIN <<>> = {} /\ c \notin active
      BY <2>5 DEF StreamOrder, HostLeft
    <3>2. QED
      BY <2>2, <2>3, <2>5, <3>1 DEF Closed
  <2>6. QED
    BY <2>4, <2>5
<1>3. CASE ~GenEnds
  <2>1. ~GenStarts
    BY DEF GenStarts
  <2>2. gen = "off"
    BY <1>3, <2>1, GenStays
  <2>3. ~TokenTimer
    BY <2>2 DEF TokenTimer, StreamOrder
  <2>4. Closed(q) /\ (c \in streaming \cap active => Comes(Down(c), "end"))
    BY <2>2 DEF Ending
  <2>5. Calm(q, toClient'[c])
    BY <1>3, <2>1, <2>3, StepsAreCalm DEF CalmStep
  <2>6. Closed(toClient'[c])
    BY <1>1, <2>4, <2>5, CalmStarts
  <2>7. ASSUME c \in streaming' \cap active'
        PROVE  Comes(Down(c)', "end")
    <3>1. CASE StreamBegins(c)
      <4>1. Gets(c, "start") /\ toClient'[c] = Tail(q)
        BY <3>1 DEF StreamBegins, Gets, TypeOK
      <4>2. QED
        BY <1>1, <2>4, <4>1, ClosedTail DEF Gets, Down
    <3>2. CASE ~StreamBegins(c)
      BY <2>4, <2>7, <3>2, StreamsEndure DEF Endures
    <3>3. QED
      BY <3>1, <3>2
  <2>8. QED
    BY <2>6, <2>7
<1>4. QED
  BY <1>2, <1>3

-----------------------------------------------------------------------------
(* Where the reply is in a chat *)

\* Writing of a chat.
Blank(s) == {k \in DOMAIN s : s[k].id = Stream}

\* A row added is the reply's only if it carries no id;
LEMMA BlankAppend ==
  ASSUME NEW s \in Seq(Message \cup {Empty}), NEW row
  PROVE  LET r == Append(s, row)
         IN  /\ row.id # Stream => Blank(r) = Blank(s)
             /\ Blank(r) \subseteq Blank(s) \cup {Len(s) + 1}
<1> DEFINE r == Append(s, row)
<1>1. /\ DOMAIN s = 1..Len(s) /\ Len(s) \in Nat /\ DOMAIN r = 1..(Len(s) + 1)
      /\ \A k \in DOMAIN s : r[k] = s[k]
      /\ r[Len(s) + 1] = row
  OBVIOUS
<1> HIDE DEF r
<1>2. \A k \in DOMAIN r : k \in DOMAIN s \/ k = Len(s) + 1
  BY <1>1
<1>3. \A k \in DOMAIN s : k \in DOMAIN r
  BY <1>1
<1>4. QED
  BY <1>1, <1>2, <1>3 DEF Blank, r

\* a row reworded keeps its id;
LEMMA BlankReword ==
  ASSUME NEW s \in Seq(Message \cup {Empty}), NEW k \in DOMAIN s, NEW row, s[k].id = row.id
  PROVE  Blank([s EXCEPT ![k] = row]) = Blank(s)
BY DEF Blank

\* a row taken out may shift the reply's.
LEMMA BlankRemove ==
  ASSUME NEW s \in Seq(Message \cup {Empty}), NEW k \in DOMAIN s, \A j \in Blank(s) : j = k
  PROVE  Blank(RemoveAtIndex(s, k)) = {}
<1> DEFINE r == RemoveAtIndex(s, k)
<1>1. \A j \in DOMAIN r : LET i == IF j < k THEN j ELSE j + 1
                           IN  i \in DOMAIN s /\ i # k /\ r[j] = s[i]
  BY RemoveRows
<1> HIDE DEF r
<1>2. \A j \in DOMAIN r : \E i \in DOMAIN s : i # k /\ r[j] = s[i]
  BY <1>1
<1>3. QED
  BY <1>2 DEF Blank, r

\* A placeholder that is where it is remembered is cleared.
LEMMA BlankCleared ==
  ASSUME NEW c, NEW s \in Seq(Message \cup {Empty}), \A j \in Blank(s) : j = placeholder[c]
  PROVE  Blank(Cleared(c, s)) = {}
<1>1. CASE placeholder[c] \in DOMAIN s /\ s[placeholder[c]].id = Stream
  BY <1>1, BlankRemove DEF Cleared
<1>2. CASE ~(placeholder[c] \in DOMAIN s /\ s[placeholder[c]].id = Stream)
  BY <1>2 DEF Cleared, Blank
<1>3. QED
  BY <1>1, <1>2

\* Every step leaves the reply of a client that follows in its placeholder.
LEMMA StepPlaced ==
  ASSUME Apart, TypeOK, Silent, Placed, \A p \in Peer : Reshapes(p),
         \A c \in Client : Following(c)' => Following(c) \/ HearsState(c)
  PROVE  Placed'
<1>1. /\ \A row \in Said : row.id # Stream
      /\ \A x \in Message : x.id # Stream
  BY SaidTyped DEF Ids
<1> SUFFICES ASSUME NEW c \in Client, Following(c)', NEW j \in Blank(rows'[c])
             PROVE  j = placeholder'[c] /\ c \in streaming'
  BY DEF Placed, Writing, Blank
<1> DEFINE s == rows[c]
<1>2. s \in Seq(Message \cup {Empty}) /\ c \in Peer
  BY DEF TypeOK, Peer
<1>3. CASE HearsState(c)
  <2>1. Gets(c, "state") /\ rows'[c] = Head(toClient[c]).log
    BY <1>3 DEF HearsState, Hears
  <2>2. rows'[c] \in Seq(Message)
    BY <2>1, GotDown, FramesCarry
  <2>3. QED
    BY <1>1, <2>2 DEF Blank
<1>4. CASE Following(c) /\ ~HearsState(c)
  <2>1. \A k \in Blank(s) : k = placeholder[c] /\ c \in streaming
    BY <1>4 DEF Placed, Writing, Blank
  <2>2. Reshapes(c)
    BY <1>2
  <2> HIDE DEF s
  <2>3. ASSUME Keeps(c), Blank(rows'[c]) \subseteq Blank(s)
        PROVE  j = placeholder'[c] /\ c \in streaming'
    BY <2>1, <2>3 DEF Keeps
  <2>4. CASE Keeps(c) /\ rows'[c] = s
    BY <2>3, <2>4
  <2>5. ASSUME Keeps(c), NEW row \in Said, rows'[c] = Append(s, row)
        PROVE  j = placeholder'[c] /\ c \in streaming'
    BY <1>1, <1>2, <2>3, <2>5, BlankAppend
  <2>6. ASSUME Keeps(c), NEW k \in DOMAIN s, NEW row \in Said, s[k].id = row.id,
               rows'[c] = [s EXCEPT ![k] = row]
        PROVE  j = placeholder'[c] /\ c \in streaming'
    BY <1>2, <2>3, <2>6, BlankReword
  <2>7. ASSUME Keeps(c), NEW k \in DOMAIN s, "delete" \in Events, rows'[c] = RemoveAtIndex(s, k)
        PROVE  j = placeholder'[c] /\ c \in streaming'
    <3>1. Blank(s) = {}
      BY <2>1, <2>7 DEF Apart, Silent
    <3>2. Blank(rows'[c]) = {}
      BY <1>2, <2>7, <3>1, BlankRemove
    <3>3. QED
      BY <3>2
  <2>8. ASSUME NEW row \in Said, rows'[c] = Cleared(c, Append(s, row))
        PROVE  FALSE
    <3>1. Append(s, row) \in Seq(Message \cup {Empty})
      BY <1>2, SaidTyped
    <3>2. \A k \in Blank(Append(s, row)) : k = placeholder[c]
      BY <1>1, <1>2, <2>1, BlankAppend
    <3>3. Blank(Cleared(c, Append(s, row))) = {}
      BY <3>1, <3>2, BlankCleared
    <3>4. QED
      BY <2>8, <3>3
  <2>9. ASSUME rows'[c] = Cleared(c, s)
        PROVE  FALSE
    BY <1>2, <2>1, <2>9, BlankCleared
  <2>10. ASSUME c \in streaming', ~Painted(c), rows'[c] = Append(s, Empty),
                placeholder'[c] = Len(s) + 1
         PROVE  j = placeholder'[c] /\ c \in streaming'
    <3>1. Blank(s) = {}
      BY <2>1, <2>10 DEF Painted, Blank, s
    <3>2. QED
      BY <1>2, <2>10, <3>1, BlankAppend
  <2>11. QED
    BY <1>4, <2>2, <2>4, <2>5, <2>6, <2>7, <2>8, <2>9, <2>10 DEF Reshapes, Streams, s
<1>5. QED
  BY <1>3, <1>4

\* A client that follows shows at most one reply, and none once it is over.
LEMMA OneReplyShown ==
  ASSUME TypeOK, Ending, Placed
  PROVE  OneReply
<1> SUFFICES ASSUME NEW c \in Client, Following(c)
             PROVE  /\ \A j, k \in Writing(c) : j = k
                    /\ Settled => Writing(c) = {}
  BY DEF OneReply
<1>1. \A k \in Writing(c) : k = placeholder[c] /\ c \in streaming
  BY DEF Placed
<1>2. ASSUME Settled PROVE Writing(c) = {}
  <2>1. gen = "off" /\ toClient[c] = <<>>
    BY <1>2 DEF Settled
  <2>2. DOMAIN toClient[c] = {}
    BY <2>1
  <2>3. ~Comes(Down(c), "end")
    BY <2>2 DEF Comes, Down, Range
  <2>4. c \in active
    BY DEF Following, Viewing
  <2>5. c \notin streaming
    BY <2>1, <2>3, <2>4 DEF Ending
  <2>6. QED
    BY <1>1, <2>5
<1>3. QED
  BY <1>1, <1>2

-----------------------------------------------------------------------------
(* At rest: from the messages to the rows *)

\* Every row of s is a row of t of its own.
Embeds(s, t) ==
  \E f \in [DOMAIN s -> DOMAIN t] :
    /\ \A k \in DOMAIN s : t[f[k]] = s[k]
    /\ \A j, k \in DOMAIN s : f[j] = f[k] => j = k

\* Then t is at least as long.
LEMMA EmbedsLength ==
  ASSUME NEW S, NEW s \in Seq(S), NEW t \in Seq(S), Embeds(s, t)
  PROVE  Len(s) <= Len(t)
<1>1. DOMAIN s = 1..Len(s) /\ DOMAIN t = 1..Len(t) /\ Len(s) \in Nat /\ Len(t) \in Nat
  OBVIOUS
<1>2. PICK f \in [DOMAIN s -> DOMAIN t] : \A j, k \in DOMAIN s : f[j] = f[k] => j = k
  BY DEF Embeds
<1>3. f \in Injection(1..Len(s), 1..Len(t))
  BY <1>1, <1>2 DEF Injection, IsInjective
<1>4. /\ IsFiniteSet(1..Len(s)) /\ Cardinality(1..Len(s)) = Len(s)
      /\ IsFiniteSet(1..Len(t)) /\ Cardinality(1..Len(t)) = Len(t)
  <2>1. \A n \in Nat : IsFiniteSet(1..n) /\ Cardinality(1..n) = n
    <3> TAKE n \in Nat
    <3>1. 1 \in Int /\ n \in Int
      OBVIOUS
    <3>2. IsFiniteSet(1..n) /\ Cardinality(1..n) = IF 1 > n THEN 0 ELSE n - 1 + 1
      BY <3>1, FS_Interval, Zenon
    <3>3. QED
      BY <3>2
  <2>2. QED
    BY <1>1, <2>1
<1>5. Cardinality(1..Len(s)) <= Cardinality(1..Len(t))
  BY <1>3, <1>4, FS_Injection
<1>6. QED
  BY <1>4, <1>5

\* Two chats with the same rows, each as often.
LEMMA EmbeddedRows ==
  ASSUME TypeOK, NEW p \in Peer, NEW q \in Peer, Embeds(rows[p], rows[q]), Embeds(rows[q], rows[p])
  PROVE  SameRows(p, q)
<1>1. rows[p] \in Seq(Message \cup {Empty}) /\ rows[q] \in Seq(Message \cup {Empty})
  BY DEF TypeOK
<1>2. Len(rows[p]) = Len(rows[q])
  <2>1. Len(rows[p]) <= Len(rows[q]) /\ Len(rows[q]) <= Len(rows[p])
    BY <1>1, EmbedsLength
  <2>2. Len(rows[p]) \in Nat /\ Len(rows[q]) \in Nat
    BY <1>1
  <2>3. QED
    BY <2>1, <2>2
<1>3. PICK f \in [DOMAIN rows[p] -> DOMAIN rows[q]] :
        /\ \A k \in DOMAIN rows[p] : rows[q][f[k]] = rows[p][k]
        /\ \A j, k \in DOMAIN rows[p] : f[j] = f[k] => j = k
  BY DEF Embeds
<1>4. ASSUME NEW row
      PROVE  \E g \in [Copies(p, row) -> Copies(q, row)] :
               \A i, j \in DOMAIN g : g[i] = g[j] => i = j
  <2> DEFINE g == [k \in Copies(p, row) |-> f[k]]
  <2>1. \A k \in Copies(p, row) : k \in DOMAIN rows[p] /\ f[k] \in Copies(q, row)
    BY <1>3 DEF Copies
  <2>2. g \in [Copies(p, row) -> Copies(q, row)]
    BY <2>1
  <2>3. \A i, j \in DOMAIN g : g[i] = g[j] => i = j
    BY <1>3, <2>1
  <2> HIDE DEF g
  <2>4. QED
    BY <2>2, <2>3
<1>5. QED
  BY <1>2, <1>4 DEF SameRows

\* Two chats that begin with the same old rows and have the same messages, each once.
LEMMA LinesEmbed ==
  ASSUME NEW s \in Seq(Message \cup {Empty}), NEW t \in Seq(Message \cup {Empty}),
         OldFirst(s), OldFirst(t), Blank(s) = {}, Single(s), Lines(s) \subseteq Lines(t)
  PROVE  Embeds(s, t)
<1>1. \A k \in DOMAIN s : s[k].id # None => s[k] \in Said
  <2>1. \A k \in DOMAIN s : s[k].id # Stream /\ s[k] \in Message \cup {Empty}
    BY DEF Blank
  <2>2. QED
    BY <2>1 DEF Message, Said, Empty
<1>2. \A k \in DOMAIN s : s[k].id # None => \E j \in DOMAIN t : t[j] = s[k]
  BY <1>1 DEF Lines, Range
<1>3. \A k \in DOMAIN s : s[k].id = None => k \in DOMAIN t /\ t[k] = s[k]
  BY DEF OldFirst
<1> DEFINE f == [k \in DOMAIN s |-> IF s[k].id = None THEN k ELSE CHOOSE j \in DOMAIN t : t[j] = s[k]]
<1>4. \A k \in DOMAIN s : f[k] \in DOMAIN t /\ t[f[k]] = s[k]
  BY <1>2, <1>3
<1>5. f \in [DOMAIN s -> DOMAIN t]
  BY <1>4
<1>6. \A k \in DOMAIN s : s[k].id = None => f[k] = k
  OBVIOUS
<1> HIDE DEF f
<1>7. ASSUME NEW j \in DOMAIN s, NEW k \in DOMAIN s, f[j] = f[k] PROVE j = k
  <2>1. s[j] = s[k]
    BY <1>4, <1>7
  <2>2. CASE s[j].id = None
    BY <1>6, <1>7, <2>1, <2>2
  <2>3. CASE s[j].id # None
    <3>1. s[j].id \in Ids
      BY <1>1, <2>3 DEF Said
    <3>2. QED
      BY <2>1, <3>1 DEF Single
  <2>4. QED
    BY <2>2, <2>3
<1>8. QED
  BY <1>4, <1>5, <1>7 DEF Embeds

\* Who is current and has nothing to come has the host's messages.
LEMMA QuietLines ==
  ASSUME NEW L, NEW X, NEW S, NEW m, Mirrors(L, X, {}, {}, S, m), m \notin Ids,
         L \subseteq Said, S \subseteq Said, \A x, y \in S : x.id = y.id => x = y
  PROVE  L = S
<1>1. \A op, i : ~About({}, op, i)
  BY DEF About
<1>2. \A row \in Said : row.id \in Ids
  BY DEF Said
<1>3. \A i \in Ids : Has(S, i) <=> Has(L, i)
  BY <1>1 DEF Mirrors, SameMessages
<1>4. \A row \in L : row \in S
  <2>1. \A row \in L : Has(S, row.id)
    BY <1>2, <1>3 DEF Has
  <2>2. QED
    BY <1>1, <2>1 DEF Mirrors, SameWording
<1>5. \A row \in S : row \in L
  <2> TAKE row \in S
  <2>1. PICK x \in L : x.id = row.id
    BY <1>2, <1>3 DEF Has
  <2>2. x \in S
    BY <1>4, <2>1
  <2>3. QED
    BY <2>1, <2>2
<1>6. QED
  BY <1>4, <1>5

\* Where no id occurs twice, a message is known by its id.
LEMMA LinesOnce ==
  ASSUME NEW s, Single(s)
  PROVE  Lines(s) \subseteq Said /\ \A x, y \in Lines(s) : x.id = y.id => x = y
BY DEF Single, Lines, Range, Said

\* At rest a client in the session's chat has the rows older than the sharing in front,
\* and the host's messages, each once and with the host's wording.
SameMessagesAtRest ==
  Settled => \A c \in Client : Viewing(c) =>
    Single(rows[c]) /\ Lines(rows[c]) = Shared /\ OldFirst(rows[c])

\* A client that is current and awaits nothing does.
LEMMA CurrentAtRest ==
  ASSUME TypeOK, Single(rows[Host]), Currents, Olds
  PROVE  SameMessagesAtRest
<1> SUFFICES ASSUME Settled, NEW c \in Client, Viewing(c)
             PROVE  Single(rows[c]) /\ Lines(rows[c]) = Lines(rows[Host]) /\ OldFirst(rows[c])
  BY DEF SameMessagesAtRest, Shared
<1>1. toHost[c] = <<>> /\ toClient[c] = <<>> /\ pc = "idle"
  BY DEF Settled
<1>2. DOMAIN toHost[c] = {} /\ DOMAIN toClient[c] = {}
  BY <1>1
<1>3. Following(c)
  BY <1>2 DEF Following, Awaiting
<1>4. Up(c) = {} /\ Down(c) = {}
  BY <1>2 DEF Up, Down, Range
<1>5. saved = Empty /\ saved.id \notin Ids
  BY <1>1 DEF TypeOK, Empty, Ids
<1>6. Single(rows[c]) /\ Mirrors(Lines(rows[c]), applied[c], {}, {}, Lines(rows[Host]), saved.id)
  BY <1>3, <1>4 DEF Currents, Current, Shared
<1>7. Lines(rows[c]) = Lines(rows[Host])
  BY <1>5, <1>6, LinesOnce, QuietLines
<1>8. OldFirst(rows[c])
  BY DEF Olds, Peer
<1>9. QED
  BY <1>6, <1>7, <1>8

\* With no reply half written, the rows are the same.
LEMMA FollowersMirror ==
  ASSUME TypeOK, Single(rows[Host]), Olds, OneReply, SameMessagesAtRest
  PROVE  Mirrored
<1> SUFFICES ASSUME Settled, NEW c \in Client, Viewing(c)
             PROVE  SameRows(c, Host)
  BY DEF Mirrored
<1>1. Single(rows[c]) /\ Lines(rows[c]) = Lines(rows[Host])
  BY DEF SameMessagesAtRest, Shared
<1>2. /\ c \in Peer /\ Host \in Peer
      /\ rows[c] \in Seq(Message \cup {Empty}) /\ rows[Host] \in Seq(Message \cup {Empty})
  BY DEF TypeOK, Peer
<1>3. Blank(rows[c]) = {}
  <2>1. DOMAIN toHost[c] = {} /\ DOMAIN toClient[c] = {}
    BY DEF Settled
  <2>2. Following(c)
    BY <2>1 DEF Following, Awaiting
  <2>3. QED
    BY <2>2 DEF OneReply, Writing, Blank
<1>4. Blank(rows[Host]) = {}
  <2>1. \A x \in Message : x.id # Stream
    BY DEF Message, Ids
  <2>2. QED
    BY <2>1 DEF Blank, TypeOK
<1>5. Embeds(rows[c], rows[Host]) /\ Embeds(rows[Host], rows[c])
  BY <1>1, <1>2, <1>3, <1>4, LinesEmbed DEF Olds
<1>6. QED
  BY <1>2, <1>5, EmbeddedRows

-----------------------------------------------------------------------------
(* The theorems *)

\* The inductive invariant: what is on its way between the host and the clients, what
\* the chats hold, and when a reply is over.  Placed, where the reply is, comes on top.
MirrorInv ==
  /\ StreamOrder /\ HostLeft /\ Known /\ Authored /\ InOrder /\ Frames /\ Currents
  /\ Undeleted /\ Olds /\ Silent /\ Ending

\* Both hold at the start.
LEMMA InitMirrors == Init => MirrorInv /\ Placed
BY InitOrdered, InitLeft, InitKnown, InitAuthored, InitFrames, InitCurrents, InitUndeleted,
   InitOlds, InitPlaced DEF MirrorInv

\* In the host's chat no id occurs twice.
LEMMA HostSingle == HostChat!Once => Single(rows[Host])
BY DEF HostChat!Once, Single, Ids

\* Every step of careful users keeps the inductive invariant, and what was found of the
\* reply where nobody deletes under it.
LEMMA StepMirrors ==
  ASSUME Careful, TypeOK, TypeOK', TurnsAreNew, HostChat!Once, MirrorInv, [Next]_vars
  PROVE  MirrorInv' /\ (Apart /\ Placed => Placed')
<1>1. Single(rows[Host])
  BY HostSingle
<1>2. Kinds
  BY <1>1, StepKinds DEF MirrorInv
<1>3. \A p \in Peer : Reshapes(p)
  BY StepShapes DEF MirrorInv
<1>4. StreamOrder' /\ HostLeft'
  BY StepOrdered, StepLeft DEF MirrorInv
<1>5. Known' /\ InOrder' /\ Authored'
  BY <1>2, StepKnown, StepInOrder, StepAuthored DEF MirrorInv
<1>6. Frames'
  BY <1>1, <1>2, StepFrames DEF MirrorInv
<1>7. Currents' /\ \A c \in Client : Following(c)' => Following(c) \/ HearsState(c)
  BY <1>2, StepCurrents DEF MirrorInv
<1>8. Undeleted' /\ Olds'
  BY <1>2, <1>3, StepUndeleted, StepOlds DEF MirrorInv
<1>9. Silent' /\ Ending'
  BY <1>1, StepSilent, StepEnding DEF MirrorInv
<1>10. Apart /\ Placed => Placed'
  BY <1>3, <1>7, StepPlaced DEF MirrorInv
<1>11. QED
  BY <1>4, <1>5, <1>6, <1>7, <1>8, <1>9, <1>10 DEF MirrorInv

\* So it holds throughout.
LEMMA MirrorHolds ==
  ASSUME Careful
  PROVE  Spec => [](TypeOK /\ HostChat!Once /\ MirrorInv)
<1>1. Init => MirrorInv
  BY InitMirrors
<1>2. TypeOK /\ TypeOK' /\ TurnsAreNew /\ HostChat!Once /\ MirrorInv /\ [Next]_vars => MirrorInv'
  BY StepMirrors
<1>3. QED
  BY <1>1, <1>2, TypeCorrect, NewTurns, HostHoldsEachOnce, PTL DEF Spec

\* And so does Placed.
LEMMA PlacedHolds ==
  ASSUME Careful, Apart
  PROVE  Spec => []Placed
<1>1. Init => Placed
  BY InitMirrors
<1>2. /\ TypeOK /\ TypeOK' /\ TurnsAreNew /\ HostChat!Once /\ MirrorInv /\ Placed /\ [Next]_vars
      => Placed'
  BY StepMirrors
<1>3. QED
  BY <1>1, <1>2, MirrorHolds, NewTurns, PTL DEF Spec

\* applyRemoteMessage, applyRemoteEdit, applyRemoteDelete and applySnapshot with
\* appliedIds: at every moment, not only at rest, a client that follows differs from the
\* host by no more than what is on its way between them.
THEOREM FollowersAreCurrent ==
  ASSUME Careful
  PROVE  Spec => []Currents
<1>1. MirrorInv => Currents
  BY DEF MirrorInv
<1>2. QED
  BY <1>1, MirrorHolds, PTL

\* Once nothing is on its way, a client in the session's chat has the host's messages,
\* each once and with the host's wording, even where deletes shift a reply half written.
THEOREM MessagesMirror ==
  ASSUME Careful
  PROVE  Spec => []SameMessagesAtRest
<1>1. TypeOK /\ HostChat!Once /\ MirrorInv => SameMessagesAtRest
  BY HostSingle, CurrentAtRest DEF MirrorInv
<1>2. QED
  BY <1>1, MirrorHolds, PTL

\* beginStream, applyStreamToken, endStream and #clearStreamPlaceholder: a client that
\* follows shows one reply being written at most, and none once everything has arrived.
THEOREM OneReplyOnly ==
  ASSUME Careful, Apart
  PROVE  Spec => []OneReply
<1>1. TypeOK /\ MirrorInv /\ Placed => OneReply
  BY OneReplyShown DEF MirrorInv
<1>2. QED
  BY <1>1, MirrorHolds, PlacedHolds, PTL

\* Once nothing is on its way, a client in the session's chat has the host's rows, each
\* as often as the host, with the host's wording, whoever wrote, corrected and deleted
\* at the same time.
THEOREM ChatsMirror ==
  ASSUME Careful, Apart
  PROVE  Spec => []Mirrored
<1>1. TypeOK /\ HostChat!Once /\ MirrorInv /\ OneReply => Mirrored
  BY HostSingle, CurrentAtRest, FollowersMirror DEF MirrorInv
<1>2. QED
  BY <1>1, MirrorHolds, OneReplyOnly, PTL
=============================================================================
