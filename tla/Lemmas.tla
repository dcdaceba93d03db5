------------------------------- MODULE Lemmas -------------------------------
(***************************************************************************)
(* Facts that the proofs share.                                            *)
(*                                                                         *)
(* First about natural numbers and sequences.  Least elements stand in for *)
(* induction: to show a statement for every n, take the least n for which  *)
(* it fails.                                                               *)
(*                                                                         *)
(* Then what the operators of Peer do to a bucket, for any set S of votes  *)
(* that are numbered: where AddVote puts a vote, what its loop makes of    *)
(* lastSeqSeen, what the searches by hash find, and why Seen and Before    *)
(* do not change their minds.                                              *)
(***************************************************************************)
EXTENDS Peer, SeqSums, Integers, Sequences, SequencesExt,
        WellFoundedInduction, TLAPS

-----------------------------------------------------------------------------
(* Natural numbers                                                         *)

Less == {ss \in Nat \X Nat : ss[1] < ss[2]}

\* The order of the natural numbers is well-founded.
LEMMA LessWellFounded == IsWellFoundedOn(Less, Nat)
  BY NatLessThanWellFounded DEF OpToRel, Less

\* A non-empty set of natural numbers has a least element.
LEMMA LeastExists ==
  ASSUME NEW T \in SUBSET Nat, T # {}
  PROVE  \E x \in T : \A y \in T : x <= y
<1>1. PICK x \in T : \A y \in T : <<y, x>> \notin Less
  BY LessWellFounded, WFMin
<1>2. ASSUME NEW y \in T PROVE x <= y
  <2>1. x \in Nat /\ y \in Nat
    OBVIOUS
  <2>2. <<y, x>> \in Nat \X Nat /\ <<y, x>> \notin Less
    BY <1>1, <2>1
  <2>3. ~(<<y, x>>[1] < <<y, x>>[2])
    BY <2>2 DEF Less
  <2> QED
    BY <2>1, <2>3
<1> QED
  BY <1>2

\* A non-empty bounded set of natural numbers has a greatest element.
LEMMA GreatestExists ==
  ASSUME NEW T \in SUBSET Nat, NEW n \in Nat, T # {}, \A x \in T : x <= n
  PROVE  \E x \in T : \A y \in T : x >= y
<1> DEFINE U == {k \in 0..n : n - k \in T}
<1>1. U \subseteq Nat
  OBVIOUS
<1>2. PICK t \in T : TRUE
  OBVIOUS
<1>3. n - t \in U
  BY <1>2
<1> HIDE DEF U
<1>4. PICK k \in U : \A y \in U : k <= y
  BY <1>1, <1>3, LeastExists
<1> USE DEF U
<1>5. n - k \in T
  BY <1>4
<1>6. ASSUME NEW y \in T PROVE n - k >= y
  <2>1. n - y \in U
    BY <1>6
  <2> QED
    BY <2>1, <1>4
<1> QED
  BY <1>5, <1>6

-----------------------------------------------------------------------------
(* Sequences                                                               *)

\* The elements of a concatenation.
LEMMA ConcatElements ==
  ASSUME NEW S, NEW s \in Seq(S), NEW t \in Seq(S)
  PROVE  /\ s \o t \in Seq(S)
         /\ Len(s \o t) = Len(s) + Len(t)
         /\ \A i \in 1..Len(s) : (s \o t)[i] = s[i]
         /\ \A i \in 1..Len(t) : (s \o t)[Len(s) + i] = t[i]
  OBVIOUS

\* The elements of a sequence after an insertion at position p.
LEMMA InsertAtElements ==
  ASSUME NEW S, NEW s \in Seq(S), NEW e \in S, NEW p \in 1..(Len(s) + 1)
  PROVE  /\ InsertAt(s, p, e) \in Seq(S)
         /\ Len(InsertAt(s, p, e)) = Len(s) + 1
         /\ \A i \in 1..(p - 1) : InsertAt(s, p, e)[i] = s[i]
         /\ InsertAt(s, p, e)[p] = e
         /\ \A i \in p..Len(s) : InsertAt(s, p, e)[i + 1] = s[i]
<1> DEFINE left == SubSeq(s, 1, p - 1)
           right == SubSeq(s, p, Len(s))
           start == left \o <<e>>
           n == Len(s)
<1>1. InsertAt(s, p, e) = start \o right
  BY Zenon DEF InsertAt
<1>2. p \in Nat /\ p >= 1 /\ n \in Nat /\ p <= n + 1
  OBVIOUS
<1>3. /\ left \in Seq(S) /\ Len(left) = p - 1
      /\ \A i \in 1..(p - 1) : left[i] = s[i]
  OBVIOUS
<1>4. /\ right \in Seq(S) /\ Len(right) = n - p + 1
      /\ \A i \in 1..(n - p + 1) : right[i] = s[p + i - 1]
  OBVIOUS
<1> HIDE DEF left, right
<1>5. <<e>> \in Seq(S) /\ Len(<<e>>) = 1 /\ <<e>>[1] = e
  OBVIOUS
<1>6. /\ start \in Seq(S) /\ Len(start) = p
      /\ \A i \in 1..(p - 1) : start[i] = s[i]
      /\ start[p] = e
  <2>1. /\ start \in Seq(S)
        /\ Len(start) = Len(left) + Len(<<e>>)
        /\ \A i \in 1..Len(left) : start[i] = left[i]
        /\ \A i \in 1..Len(<<e>>) : start[Len(left) + i] = <<e>>[i]
    BY <1>3, <1>5, ConcatElements
  <2>2. Len(start) = p
    BY <2>1, <1>2, <1>3, <1>5
  <2>3. start[p] = e
    <3>1. start[Len(left) + 1] = e
      BY <2>1, <1>5
    <3> QED
      BY <3>1, <1>2, <1>3
  <2> QED
    BY <2>1, <2>2, <2>3, <1>3
<1> HIDE DEF start
<1> DEFINE new == start \o right
<1>7. /\ new \in Seq(S)
      /\ Len(new) = Len(start) + Len(right)
      /\ \A i \in 1..Len(start) : new[i] = start[i]
      /\ \A i \in 1..Len(right) : new[Len(start) + i] = right[i]
  BY <1>4, <1>6, ConcatElements
<1> HIDE DEF new, n
<1>8. Len(new) = n + 1
  BY <1>2, <1>4, <1>6, <1>7
<1>9. \A i \in 1..(p - 1) : new[i] = s[i]
  BY <1>2, <1>6, <1>7
<1>10. new[p] = e
  BY <1>2, <1>6, <1>7
<1>11. ASSUME NEW i \in p..n PROVE new[i + 1] = s[i]
  <2>1. i - p + 1 \in 1..(n - p + 1) /\ p + (i - p + 1) = i + 1
        /\ p + (i - p + 1) - 1 = i
    BY <1>2
  <2>2. new[p + (i - p + 1)] = right[i - p + 1]
    BY <2>1, <1>4, <1>6, <1>7
  <2> QED
    BY <2>1, <2>2, <1>4
<1> QED
  BY <1>1, <1>7, <1>8, <1>9, <1>10, <1>11 DEF new, n

\* The elements of a sequence after the one at position p was removed.
LEMMA RemoveAtElements ==
  ASSUME NEW S, NEW s \in Seq(S), NEW p \in 1..Len(s)
  PROVE  /\ RemoveAt(s, p) \in Seq(S)
         /\ Len(RemoveAt(s, p)) = Len(s) - 1
         /\ \A i \in 1..(p - 1) : RemoveAt(s, p)[i] = s[i]
         /\ \A i \in p..(Len(s) - 1) : RemoveAt(s, p)[i] = s[i + 1]
<1> DEFINE left == SubSeq(s, 1, p - 1)
           right == SubSeq(s, p + 1, Len(s))
           n == Len(s)
<1>1. RemoveAt(s, p) = left \o right
  BY Zenon DEF RemoveAt
<1>2. p \in Nat /\ p >= 1 /\ n \in Nat /\ p <= n
  OBVIOUS
<1>3. /\ left \in Seq(S) /\ Len(left) = p - 1
      /\ \A i \in 1..(p - 1) : left[i] = s[i]
  OBVIOUS
<1>4. /\ right \in Seq(S) /\ Len(right) = n - p
      /\ \A i \in 1..(n - p) : right[i] = s[p + i]
  OBVIOUS
<1> HIDE DEF left, right
<1> DEFINE new == left \o right
<1>5. /\ new \in Seq(S)
      /\ Len(new) = Len(left) + Len(right)
      /\ \A i \in 1..Len(left) : new[i] = left[i]
      /\ \A i \in 1..Len(right) : new[Len(left) + i] = right[i]
  <2>1. left \in Seq(S) /\ right \in Seq(S)
    BY <1>3, <1>4
  <2> QED
    BY <2>1, ConcatElements
<1> HIDE DEF new
<1>6. Len(new) = n - 1
  BY <1>2, <1>3, <1>4, <1>5
<1> HIDE DEF n
<1>7. \A i \in 1..(p - 1) : new[i] = s[i]
  BY <1>3, <1>5
<1>8. ASSUME NEW i \in p..(n - 1) PROVE new[i] = s[i + 1]
  <2>1. i - p + 1 \in 1..(n - p) /\ p - 1 + (i - p + 1) = i
        /\ p + (i - p + 1) = i + 1
    BY <1>2
  <2>2. new[p - 1 + (i - p + 1)] = right[i - p + 1]
    BY <2>1, <1>3, <1>4, <1>5
  <2> QED
    BY <2>1, <2>2, <1>4
<1>9. \A i \in p..(n - 1) : new[i] = s[i + 1]
  BY <1>8
<1> QED
  BY <1>1, <1>5, <1>6, <1>7, <1>9 DEF new, n

\* What is left are the other elements, all of them.
LEMMA RemoveAtKeeps ==
  ASSUME NEW S, NEW s \in Seq(S), NEW p \in 1..Len(s)
  PROVE  /\ \A j \in DOMAIN RemoveAt(s, p) :
              \E i \in DOMAIN s \ {p} : RemoveAt(s, p)[j] = s[i]
         /\ \A i \in DOMAIN s \ {p} :
              \E j \in DOMAIN RemoveAt(s, p) : RemoveAt(s, p)[j] = s[i]
<1> DEFINE n == Len(s)
           r == RemoveAt(s, p)
<1>1. /\ r \in Seq(S) /\ Len(r) = n - 1
      /\ \A i \in 1..(p - 1) : r[i] = s[i]
      /\ \A i \in p..(n - 1) : r[i] = s[i + 1]
  BY RemoveAtElements
<1>2. n \in Nat /\ p \in 1..n /\ DOMAIN s = 1..n /\ DOMAIN r = 1..(n - 1)
  BY <1>1
<1> HIDE DEF n, r
<1>3. ASSUME NEW j \in 1..(n - 1)
      PROVE  \E i \in DOMAIN s \ {p} : r[j] = s[i]
  <2>1. CASE j < p
    <3>1. j \in 1..(p - 1) /\ j \in DOMAIN s \ {p}
      BY <1>2, <2>1
    <3> QED
      BY <1>1, <3>1
  <2>2. CASE j >= p
    <3>1. j \in p..(n - 1) /\ j + 1 \in DOMAIN s \ {p}
      BY <1>2, <2>2
    <3> QED
      BY <1>1, <3>1
  <2> QED
    BY <1>2, <2>1, <2>2
<1>4. ASSUME NEW i \in DOMAIN s \ {p}
      PROVE  \E j \in 1..(n - 1) : r[j] = s[i]
  <2>1. CASE i < p
    <3>1. i \in 1..(p - 1) /\ i \in 1..(n - 1)
      BY <1>2, <2>1
    <3> QED
      BY <1>1, <3>1
  <2>2. CASE i > p
    <3>1. i - 1 \in p..(n - 1) /\ i - 1 \in 1..(n - 1) /\ i - 1 + 1 = i
      BY <1>2, <2>2
    <3> QED
      BY <1>1, <3>1
  <2> QED
    BY <1>2, <2>1, <2>2
<1> QED
  BY <1>2, <1>3, <1>4 DEF r

\* No two of the elements that stay come from the same place.
LEMMA RemoveAtPlaces ==
  ASSUME NEW S, NEW s \in Seq(S), NEW p \in 1..Len(s)
  PROVE  \E f \in [DOMAIN RemoveAt(s, p) -> DOMAIN s \ {p}] :
           /\ \A j \in DOMAIN RemoveAt(s, p) : RemoveAt(s, p)[j] = s[f[j]]
           /\ \A i, j \in DOMAIN RemoveAt(s, p) : f[i] = f[j] => i = j
<1> DEFINE n == Len(s)
           r == RemoveAt(s, p)
           f == [j \in 1..(n - 1) |-> IF j < p THEN j ELSE j + 1]
<1>1. /\ r \in Seq(S) /\ Len(r) = n - 1
      /\ \A i \in 1..(p - 1) : r[i] = s[i]
      /\ \A i \in p..(n - 1) : r[i] = s[i + 1]
  BY RemoveAtElements
<1>2. n \in Nat /\ p \in Nat /\ p >= 1 /\ p <= n /\ DOMAIN s = 1..n
  OBVIOUS
<1> HIDE DEF r, n
<1>3. DOMAIN r = 1..(n - 1)
  BY <1>1
<1>4. f \in [1..(n - 1) -> (1..n) \ {p}]
  BY <1>2
<1>5. \A j \in 1..(n - 1) : r[j] = s[f[j]]
  BY <1>1, <1>2
<1>6. \A i, j \in 1..(n - 1) : f[i] = f[j] => i = j
  BY <1>2
<1> HIDE DEF f
<1> QED
  BY <1>2, <1>3, <1>4, <1>5, <1>6 DEF r

-----------------------------------------------------------------------------
(* The buckets of a peer                                                   *)

Numbered(S) == \A v \in S : v.seq \in Nat

BucketsOf(S, H) ==
  [votes : Seq(S), lastSeqSeen : Nat, commitedHashes : SUBSET H]

-----------------------------------------------------------------------------
(* The loop over the list at the end of AddVote                            *)

\* g holds the value of lastSeqSeen after each of the first n iterations.
Advances(g, votes, from, last, n) ==
  /\ g \in [0..n -> Nat]
  /\ \A i \in 0..n :
       g[i] = IF i < from THEN last
              ELSE IF votes[i].seq = g[i-1] + 1 THEN g[i-1] + 1
              ELSE g[i-1]

\* The loop runs to its end, whatever the list.
LEMMA AdvancesExists ==
  ASSUME NEW votes, NEW from \in Nat \ {0}, NEW last \in Nat, NEW n \in Nat
  PROVE  \E g : Advances(g, votes, from, last, n)
<1> DEFINE Bad == {k \in Nat : ~ \E g : Advances(g, votes, from, last, k)}
<1> SUFFICES ASSUME Bad # {} PROVE FALSE
  OBVIOUS
<1>1. Bad \in SUBSET Nat
  OBVIOUS
<1> HIDE DEF Bad
<1>2. PICK m \in Bad : \A k \in Bad : m <= k
  BY <1>1, LeastExists
<1>3. m \in Nat
  BY <1>1
<1> USE DEF Bad
<1>4. CASE m = 0
  <2>1. Advances([i \in 0..0 |-> last], votes, from, last, 0)
    BY DEF Advances
  <2> QED
    BY <2>1, <1>4
<1>5. CASE m > 0
  <2>1. m - 1 \in Nat /\ m - 1 \notin Bad
    BY <1>2, <1>3, <1>5
  <2>2. PICK g : Advances(g, votes, from, last, m - 1)
    BY <2>1
  <2> DEFINE e == IF m < from THEN last
                  ELSE IF votes[m].seq = g[m-1] + 1 THEN g[m-1] + 1
                  ELSE g[m-1]
             h == [i \in 0..m |-> IF i < m THEN g[i] ELSE e]
  <2>3. h \in [0..m -> Nat]
    BY <2>2, <1>3, <1>5 DEF Advances
  <2>4. ASSUME NEW i \in 0..m
        PROVE  h[i] = IF i < from THEN last
                      ELSE IF votes[i].seq = h[i-1] + 1 THEN h[i-1] + 1
                      ELSE h[i-1]
    <3>1. CASE i < m
      <4>1. i \in 0..(m-1) /\ h[i] = g[i]
        BY <3>1, <1>3
      <4>2. i >= from => h[i-1] = g[i-1]
        BY <3>1, <1>3
      <4> QED
        BY <4>1, <4>2, <2>2 DEF Advances
    <3>2. CASE i = m
      <4>1. h[m-1] = g[m-1] /\ h[m] = e
        BY <1>3, <1>5
      <4> HIDE DEF h
      <4> QED
        BY <4>1, <3>2, <1>3
    <3> QED
      BY <3>1, <3>2, <1>3
  <2>5. Advances(h, votes, from, last, m)
    BY <2>3, <2>4 DEF Advances
  <2> QED
    BY <2>5
<1> QED
  BY <1>3, <1>4, <1>5

\* Every number the loop passes over is the sequence number of an element.
LEMMA AdvancesCovers ==
  ASSUME NEW votes, NEW from \in Nat \ {0}, NEW last \in Nat, NEW n \in Nat,
         NEW g, Advances(g, votes, from, last, n)
  PROVE  /\ g[n] \in Nat
         /\ g[n] >= last
         /\ \A k \in (last + 1)..g[n] :
              \E j \in from..n : votes[j].seq = k
<1> DEFINE Covered(i) == /\ g[i] >= last
                         /\ \A k \in (last + 1)..g[i] :
                              \E j \in from..i : votes[j].seq = k
           Bad == {i \in 0..n : ~Covered(i)}
<1>1. \A i \in 0..n : g[i] \in Nat
  BY DEF Advances
<1> SUFFICES ASSUME Bad # {} PROVE FALSE
  BY <1>1
<1>2. Bad \in SUBSET Nat
  OBVIOUS
<1> HIDE DEF Bad
<1>3. PICK m \in Bad : \A k \in Bad : m <= k
  BY <1>2, LeastExists
<1> USE DEF Bad
<1>4. m \in 0..n /\ ~Covered(m)
  BY <1>3
<1>5. CASE m < from
  <2>1. g[m] = last
    BY <1>4, <1>5 DEF Advances
  <2> QED
    BY <2>1, <1>4
<1>6. CASE m >= from
  <2>1. m - 1 \in 0..n /\ m - 1 \notin Bad
    BY <1>3, <1>4, <1>6
  <2>2. Covered(m - 1)
    BY <2>1
  <2>3. g[m] = IF votes[m].seq = g[m-1] + 1 THEN g[m-1] + 1 ELSE g[m-1]
    BY <1>4, <1>6 DEF Advances
  <2>4. g[m-1] \in Nat /\ m \in from..m /\ from..(m-1) \subseteq from..m
    BY <1>1, <2>1, <1>4, <1>6
  <2>5. Covered(m)
    <3>1. g[m] >= last
      BY <2>2, <2>3, <2>4
    <3>2. ASSUME NEW k \in (last + 1)..g[m]
          PROVE  \E j \in from..m : votes[j].seq = k
      <4>1. CASE k \in (last + 1)..g[m-1]
        BY <4>1, <2>2, <2>4
      <4>2. CASE k \notin (last + 1)..g[m-1]
        <5>1. k = g[m-1] + 1 /\ votes[m].seq = k
          BY <4>2, <2>3, <2>4
        <5> QED
          BY <5>1, <2>4
      <4> QED
        BY <4>1, <4>2
    <3> QED
      BY <3>1, <3>2
  <2> QED
    BY <2>5, <1>4
<1> QED
  BY <1>4, <1>5, <1>6

\* AdvanceSeen returns what the loop leaves in lastSeqSeen.
LEMMA AdvanceSeenIs ==
  ASSUME NEW S, NEW votes \in Seq(S), NEW from \in Nat \ {0}, NEW last \in Nat
  PROVE  \E g : /\ Advances(g, votes, from, last, Len(votes))
                /\ AdvanceSeen(votes, from, last) = g[Len(votes)]
<1> DEFINE n == Len(votes)
           step(r, i) == IF i < from THEN last
                         ELSE IF votes[i].seq = r[i-1] + 1 THEN r[i-1] + 1
                         ELSE r[i-1]
           seen == CHOOSE r : r = [i \in 0..n |-> step(r, i)]
<1>1. n \in Nat
  OBVIOUS
<1>2. AdvanceSeen(votes, from, last) = seen[n]
  BY DEF AdvanceSeen
<1>3. PICK g : Advances(g, votes, from, last, n)
  BY <1>1, AdvancesExists
<1>4. g = [i \in 0..n |-> step(g, i)]
  BY <1>3 DEF Advances
<1>5. seen = [i \in 0..n |-> step(seen, i)]
  BY <1>4
<1>6. Advances(seen, votes, from, last, n)
  <2> HIDE DEF seen
  <2>1. ASSUME NEW i \in 0..n PROVE seen[i] = step(seen, i)
    BY <1>5
  <2> DEFINE Bad == {i \in 0..n : seen[i] \notin Nat}
  <2>2. Bad = {}
    <3> SUFFICES ASSUME Bad # {} PROVE FALSE
      OBVIOUS
    <3>1. Bad \in SUBSET Nat
      OBVIOUS
    <3> HIDE DEF Bad
    <3>2. PICK m \in Bad : \A k \in Bad : m <= k
      BY <3>1, LeastExists
    <3> USE DEF Bad
    <3>3. m \in 0..n /\ seen[m] \notin Nat
      BY <3>2
    <3>4. seen[m] = step(seen, m)
      BY <2>1, <3>3
    <3>5. m >= from
      BY <3>3, <3>4
    <3>6. m - 1 \in 0..n /\ m - 1 \notin Bad
      BY <3>5, <3>3, <3>2
    <3>7. seen[m-1] \in Nat
      BY <3>6
    <3> QED
      BY <3>3, <3>4, <3>5, <3>7
  <2>3. seen \in [0..n -> Nat]
    BY <2>2, <1>5
  <2> QED
    BY <2>1, <2>3 DEF Advances
<1> HIDE DEF seen
<1> QED
  BY <1>2, <1>6

\* The loop advances lastSeqSeen over numbers of the elements from `from' on.
LEMMA AdvanceSeenCovers ==
  ASSUME NEW S, NEW votes \in Seq(S), NEW from \in Nat \ {0}, NEW last \in Nat
  PROVE  /\ AdvanceSeen(votes, from, last) \in Nat
         /\ AdvanceSeen(votes, from, last) >= last
         /\ \A k \in (last + 1)..AdvanceSeen(votes, from, last) :
              \E j \in from..Len(votes) : votes[j].seq = k
<1> DEFINE n == Len(votes)
<1>1. n \in Nat
  OBVIOUS
<1>2. PICK g : /\ Advances(g, votes, from, last, n)
               /\ AdvanceSeen(votes, from, last) = g[n]
  BY AdvanceSeenIs
<1> HIDE DEF n
<1>3. /\ g[n] \in Nat
      /\ g[n] >= last
      /\ \A k \in (last + 1)..g[n] : \E j \in from..n : votes[j].seq = k
  BY <1>1, <1>2, AdvancesCovers
<1> QED
  BY <1>2, <1>3 DEF n

\* If these are in order it stops only where the next number is missing.
LEMMA AdvanceSeenStops ==
  ASSUME NEW S, Numbered(S), NEW votes \in Seq(S), NEW from \in Nat \ {0},
         NEW last \in Nat,
         \A i, j \in from..Len(votes) : i < j => votes[i].seq < votes[j].seq
  PROVE  \A j \in from..Len(votes) :
           votes[j].seq # AdvanceSeen(votes, from, last) + 1
<1> DEFINE n == Len(votes)
<1>1. PICK g : /\ Advances(g, votes, from, last, n)
               /\ AdvanceSeen(votes, from, last) = g[n]
  BY AdvanceSeenIs
<1> DEFINE Stops(i) == \A j \in from..i : votes[j].seq # g[i] + 1
           Bad == {i \in 0..n : ~Stops(i)}
<1> SUFFICES ASSUME Bad # {} PROVE FALSE
  BY <1>1
<1>2. Bad \in SUBSET Nat
  OBVIOUS
<1> HIDE DEF Bad
<1>3. PICK m \in Bad : \A k \in Bad : m <= k
  BY <1>2, LeastExists
<1> USE DEF Bad
<1>4. m \in 0..n /\ ~Stops(m)
  BY <1>3
<1>5. m >= from
  BY <1>4
<1>6. m - 1 \in 0..n /\ m - 1 \notin Bad
  BY <1>3, <1>4, <1>5
<1>7. Stops(m - 1)
  BY <1>6
<1>8. /\ g[m-1] \in Nat
      /\ g[m] = IF votes[m].seq = g[m-1] + 1 THEN g[m-1] + 1 ELSE g[m-1]
  <2>1. ~(m < from) /\ m \in 0..n /\ m - 1 \in 0..n
    BY <1>4, <1>5, <1>6
  <2> HIDE DEF n, Bad, Stops
  <2> QED
    BY <2>1, <1>1 DEF Advances
<1>9. \A j \in from..m : votes[j].seq \in Nat
  <2>1. \A j \in from..m : votes[j] \in S
    BY <1>4
  <2> QED
    BY <2>1 DEF Numbered
<1>10. \A j \in from..(m-1) : votes[j].seq < votes[m].seq
  BY <1>4, <1>5
<1>11. ASSUME NEW j \in from..m PROVE votes[j].seq # g[m] + 1
  <2>1. j \in from..(m-1) \/ j = m
    BY <1>4, <1>5
  <2>2. votes[j].seq \in Nat /\ votes[m].seq \in Nat
    BY <1>9, <1>4, <1>5
  <2>3. j \in from..(m-1) => /\ votes[j].seq < votes[m].seq
                             /\ votes[j].seq # g[m-1] + 1
    BY <1>7, <1>10
  <2> HIDE DEF Bad, Stops, n
  <2> QED
    BY <2>1, <2>2, <2>3, <1>8
<1> QED
  BY <1>4, <1>11

-----------------------------------------------------------------------------
(* Where AddVote looks and what it finds                                   *)

\* The element before a vote is nil or not above it; all behind it are.
LEMMA PrevElementIs ==
  ASSUME NEW S, Numbered(S), NEW votes \in Seq(S), NEW v \in S
  PROVE  /\ PrevElement(votes, v) \in 0..Len(votes)
         /\ PrevElement(votes, v) # 0 =>
              votes[PrevElement(votes, v)].seq <= v.seq
         /\ \A i \in (PrevElement(votes, v) + 1)..Len(votes) :
              votes[i].seq > v.seq
<1> DEFINE I == {i \in 1..Len(votes) : votes[i].seq <= v.seq}
<1>1. PrevElement(votes, v) = IF I # {} THEN Max(I) ELSE 0
  BY DEF PrevElement, SelectLastInSeq
<1>2. v.seq \in Nat /\ \A i \in 1..Len(votes) : votes[i].seq \in Nat
  <2>1. \A i \in 1..Len(votes) : votes[i] \in S
    OBVIOUS
  <2> QED
    BY <2>1 DEF Numbered
<1>3. CASE I # {}
  <2>1. /\ I \in SUBSET Nat /\ Len(votes) \in Nat
        /\ \A x \in I : x <= Len(votes)
    OBVIOUS
  <2> HIDE DEF I
  <2>2. \E x \in I : \A y \in I : x >= y
    BY <1>3, <2>1, GreatestExists
  <2>3. Max(I) \in I /\ \A y \in I : Max(I) >= y
    BY <2>2 DEF Max
  <2> DEFINE m == Max(I)
  <2> HIDE DEF m
  <2> USE DEF I
  <2>4. \A i \in (m + 1)..Len(votes) : i \notin I
    BY <2>1, <2>3 DEF m
  <2>5. \A i \in (m + 1)..Len(votes) : votes[i].seq > v.seq
    BY <2>1, <2>3, <2>4, <1>2 DEF m
  <2>6. m \in I
    BY <2>3 DEF m
  <2> QED
    BY <1>1, <1>3, <2>5, <2>6 DEF m
<1>4. CASE I = {}
  BY <1>1, <1>2, <1>4
<1> QED
  BY <1>3, <1>4

\* The search by hash finds the first element with the hash, or nil.
LEMMA ElementByHashIs ==
  ASSUME NEW b, NEW h, Len(b.votes) \in Nat
  PROVE  LET e == elementByHash(b, h)
         IN  /\ e \in 0..Len(b.votes)
             /\ e # 0 => b.votes[e].txHash = h
             /\ e # 0 => \A i \in 1..(e - 1) : b.votes[i].txHash # h
             /\ e = 0 => \A i \in 1..Len(b.votes) : b.votes[i].txHash # h
<1> DEFINE I == {i \in 1..Len(b.votes) : b.votes[i].txHash = h}
           e == elementByHash(b, h)
<1>1. e = IF I # {} THEN Min(I) ELSE 0
  BY DEF elementByHash, SelectInSeq
<1> HIDE DEF e
<1>2. CASE I # {}
  <2>1. I \in SUBSET Nat
    OBVIOUS
  <2> HIDE DEF I
  <2>2. \E x \in I : \A y \in I : x <= y
    BY <1>2, <2>1, LeastExists
  <2>3. e \in I /\ \A y \in I : e <= y
    BY <1>1, <1>2, <2>2 DEF Min
  <2> USE DEF I
  <2>4. \A i \in 1..(e - 1) : i \notin I
    BY <2>3
  <2> QED
    BY <2>3, <2>4 DEF e
<1>3. CASE I = {}
  BY <1>1, <1>3 DEF e
<1> QED
  BY <1>2, <1>3

-----------------------------------------------------------------------------
(* AddVote                                                                 *)

\* The list `new' is the list `old' with vote v put behind position pos,
\* before elements that are all above it.
PutBehind(old, new, v, pos) ==
  /\ pos \in 0..Len(old)
  /\ Len(new) = Len(old) + 1
  /\ \A i \in 1..pos : new[i] = old[i]
  /\ new[pos + 1] = v
  /\ \A i \in (pos + 1)..Len(old) : new[i + 1] = old[i]
  /\ \A i \in (pos + 1)..Len(old) : old[i].seq > v.seq

\* The place of a vote: behind the last element that is not above it, which is
\* below it, or at the end when there is none.
IsPlaceOf(votes, v, pos) ==
  IF PrevElement(votes, v) = 0 THEN pos = Len(votes)
  ELSE pos = PrevElement(votes, v) /\ votes[pos].seq < v.seq

\* Vote v is put into bucket b; lastSeqSeen is advanced but after an error.
Puts(b, r, v) ==
  \E pos : /\ PutBehind(b.votes, r.bucket.votes, v, pos)
           /\ IsPlaceOf(b.votes, v, pos)
           /\ r.bucket.lastSeqSeen =
                IF r.err THEN b.lastSeqSeen
                ELSE AdvanceSeen(r.bucket.votes, pos + 1, b.lastSeqSeen)

\* Bucket b is left as it is: an error, or a number that is in the list.
Refuses(b, r, v) ==
  r.bucket = b /\ (r.err \/ v.seq \in SeqsIn(b.votes))

\* Some element of the list and v are neighbours whose hashes do not match.
Mismatch(votes, v) ==
  \E i \in DOMAIN votes :
    ~validHashes(votes[i], v) \/ ~validHashes(v, votes[i])

\* What AddVote makes of bucket b.
AddVoteDoes(b, r, v, S, H) ==
  /\ r.bucket \in BucketsOf(S, H)
  /\ r.added \in BOOLEAN /\ r.err \in BOOLEAN
  /\ r.err => Mismatch(b.votes, v)
  /\ r.bucket.commitedHashes = b.commitedHashes
  /\ r.bucket.lastSeqSeen >= b.lastSeqSeen
  /\ Puts(b, r, v) \/ Refuses(b, r, v)

\* The end of AddVote after an insertion.
LEMMA InsertedDoes ==
  ASSUME NEW S, NEW H, Numbered(S), NEW b \in BucketsOf(S, H), NEW v \in S,
         NEW votes \in Seq(S), NEW pos \in Nat,
         PutBehind(b.votes, votes, v, pos), IsPlaceOf(b.votes, v, pos)
  PROVE  AddVoteDoes(b, Inserted(b, votes, pos + 1), v, S, H)
<1> DEFINE last == AdvanceSeen(votes, pos + 1, b.lastSeqSeen)
           nb == [b EXCEPT !.votes = votes, !.lastSeqSeen = last]
<1>1. b.lastSeqSeen \in Nat /\ pos + 1 \in Nat \ {0}
  BY DEF BucketsOf
<1>2. last \in Nat /\ last >= b.lastSeqSeen
  BY <1>1, AdvanceSeenCovers
<1>3. Inserted(b, votes, pos + 1)
        = [bucket |-> nb, added |-> TRUE, err |-> FALSE]
  BY DEF Inserted, Result
<1> HIDE DEF last
<1>4. /\ nb \in BucketsOf(S, H) /\ nb.votes = votes
      /\ nb.lastSeqSeen = last
      /\ nb.commitedHashes = b.commitedHashes
  BY <1>2 DEF BucketsOf
<1> HIDE DEF nb
<1> DEFINE r == [bucket |-> nb, added |-> TRUE, err |-> FALSE]
<1>5. r.bucket = nb /\ r.added = TRUE /\ r.err = FALSE
  OBVIOUS
<1> HIDE DEF r
<1>6. Puts(b, r, v)
  BY <1>4, <1>5 DEF Puts, last
<1>7. AddVoteDoes(b, r, v, S, H)
  BY <1>2, <1>4, <1>5, <1>6 DEF AddVoteDoes
<1> QED
  BY <1>3, <1>7 DEF r

\* Inserting at position pos + 1 puts a vote behind position pos.
LEMMA InsertBehind ==
  ASSUME NEW S, NEW s \in Seq(S), NEW v \in S, NEW pos \in 0..Len(s),
         \A i \in (pos + 1)..Len(s) : s[i].seq > v.seq
  PROVE  /\ InsertAt(s, pos + 1, v) \in Seq(S)
         /\ PutBehind(s, InsertAt(s, pos + 1, v), v, pos)
<1>1. pos + 1 \in 1..(Len(s) + 1) /\ pos + 1 - 1 = pos
  OBVIOUS
<1>2. /\ InsertAt(s, pos + 1, v) \in Seq(S)
      /\ Len(InsertAt(s, pos + 1, v)) = Len(s) + 1
      /\ \A i \in 1..pos : InsertAt(s, pos + 1, v)[i] = s[i]
      /\ InsertAt(s, pos + 1, v)[pos + 1] = v
      /\ \A i \in (pos + 1)..Len(s) :
           InsertAt(s, pos + 1, v)[i + 1] = s[i]
  BY <1>1, InsertAtElements
<1> QED
  BY <1>2 DEF PutBehind

\* The three outcomes of AddVote: the vote is put in its place, its number is
\* there already, or its hash does not match that of a neighbour.
LEMMA AddVoteIs ==
  ASSUME NEW S, NEW H, Numbered(S), NEW b \in BucketsOf(S, H), NEW v \in S
  PROVE  AddVoteDoes(b, AddVote(b, v), v, S, H)
<1> DEFINE p == PrevElement(b.votes, v)
           n == Len(b.votes)
<1>1. b.votes \in Seq(S) /\ b.lastSeqSeen \in Nat /\ n \in Nat
  BY DEF BucketsOf
<1>2. /\ p \in 0..n
      /\ p # 0 => b.votes[p].seq <= v.seq
      /\ \A i \in (p + 1)..n : b.votes[i].seq > v.seq
  BY <1>1, PrevElementIs
<1>3. b.lastSeqSeen >= b.lastSeqSeen
  BY <1>1
<1>4. v.seq \in Nat /\ (p # 0 => b.votes[p].seq \in Nat)
  <2>1. p # 0 => b.votes[p] \in S
    BY <1>1, <1>2
  <2> QED
    BY <2>1 DEF Numbered
<1>5. ASSUME NEW err \in BOOLEAN,
             err => Mismatch(b.votes, v), err \/ v.seq \in SeqsIn(b.votes)
      PROVE  AddVoteDoes(b, Result(b, FALSE, err), v, S, H)
  BY <1>3, <1>5 DEF AddVoteDoes, Refuses, Result
<1>6. CASE p = 0
  <2> DEFINE new == Append(b.votes, v)
  <2>1. new \in Seq(S) /\ PutBehind(b.votes, new, v, n)
    BY <1>1 DEF PutBehind
  <2>2. IsPlaceOf(b.votes, v, n)
    BY <1>6 DEF IsPlaceOf
  <2>3. AddVoteDoes(b, Inserted(b, new, n + 1), v, S, H)
    BY <1>1, <2>1, <2>2, InsertedDoes
  <2>4. AddVote(b, v) = Inserted(b, new, n + 1)
    BY <1>6 DEF AddVote
  <2> QED
    BY <2>3, <2>4
<1>7. CASE p # 0 /\ b.votes[p].seq = v.seq
  <2>1. v.seq \in SeqsIn(b.votes)
    BY <1>1, <1>2, <1>7 DEF SeqsIn
  <2>2. AddVote(b, v) = Result(b, FALSE, FALSE)
    BY <1>7 DEF AddVote
  <2> QED
    BY <1>5, <2>1, <2>2
<1>8. CASE p # 0 /\ b.votes[p].seq # v.seq /\ ~validHashes(b.votes[p], v)
  <2>1. Mismatch(b.votes, v)
    BY <1>1, <1>2, <1>8 DEF Mismatch
  <2>2. AddVote(b, v) = Result(b, FALSE, TRUE)
    BY <1>8 DEF AddVote
  <2> QED
    BY <1>5, <2>1, <2>2
<1>9. CASE p # 0 /\ b.votes[p].seq # v.seq /\ validHashes(b.votes[p], v)
  <2> DEFINE new == InsertAt(b.votes, p + 1, v)
  <2>1. AddVote(b, v) = InsertAfter(b, v, p)
    BY <1>9 DEF AddVote
  <2>2. new \in Seq(S) /\ PutBehind(b.votes, new, v, p)
    <3> HIDE DEF p
    <3> QED
      BY <1>1, <1>2, InsertBehind
  <2>3. Len(new) = n + 1 /\ \A i \in (p + 1)..n : new[i + 1] = b.votes[i]
    BY <2>2 DEF PutBehind
  <2> HIDE DEF new
  <2>4. IsPlaceOf(b.votes, v, p)
    BY <1>2, <1>4, <1>9 DEF IsPlaceOf
  <2>5. AddVoteDoes(b, Inserted(b, new, p + 1), v, S, H)
    BY <1>2, <2>2, <2>4, InsertedDoes
  <2>6. ASSUME p + 2 \in DOMAIN new, ~validHashes(v, new[p + 2])
        PROVE  AddVoteDoes(b, Result([b EXCEPT !.votes = new], FALSE, TRUE),
                           v, S, H)
    <3> DEFINE nb == [b EXCEPT !.votes = new]
               r == Result(nb, FALSE, TRUE)
    <3>1. nb \in BucketsOf(S, H) /\ nb.votes = new
          /\ nb.lastSeqSeen = b.lastSeqSeen
          /\ nb.commitedHashes = b.commitedHashes
      BY <2>2 DEF BucketsOf
    <3>2. Mismatch(b.votes, v)
      <4>1. p + 1 \in (p + 1)..n /\ p + 1 + 1 = p + 2
        BY <2>2, <2>3, <2>6, <1>1, <1>2
      <4>2. new[p + 2] = b.votes[p + 1] /\ p + 1 \in DOMAIN b.votes
        BY <4>1, <2>3, <1>1, <1>2
      <4> QED
        BY <4>2, <2>6 DEF Mismatch
    <3> HIDE DEF nb
    <3>3. r.bucket = nb /\ r.added = FALSE /\ r.err = TRUE
      BY DEF Result
    <3> HIDE DEF r
    <3>4. Puts(b, r, v)
      BY <3>1, <3>3, <2>2, <2>4 DEF Puts
    <3>5. AddVoteDoes(b, r, v, S, H)
      BY <3>1, <3>2, <3>3, <3>4, <1>3 DEF AddVoteDoes
    <3> QED
      BY <3>5 DEF r, nb
  <2> QED
    BY <2>1, <2>5, <2>6 DEF InsertAfter, new
<1> QED
  BY <1>6, <1>7, <1>8, <1>9

\* The list after AddVote holds the old votes and at most v besides.
LEMMA PutBehindVotes ==
  ASSUME NEW old, NEW new, NEW v, NEW pos, Len(old) \in Nat,
         DOMAIN old = 1..Len(old), DOMAIN new = 1..Len(new),
         PutBehind(old, new, v, pos)
  PROVE  /\ \A i \in DOMAIN old : \E j \in DOMAIN new : new[j] = old[i]
         /\ \A j \in DOMAIN new :
              new[j] = v \/ \E i \in DOMAIN old : new[j] = old[i]
         /\ SeqsIn(old) \subseteq SeqsIn(new)
<1>1. pos \in 0..Len(old) /\ Len(new) = Len(old) + 1
  BY DEF PutBehind
<1>2. ASSUME NEW i \in DOMAIN old
      PROVE  \E j \in DOMAIN new : new[j] = old[i]
  <2>1. i <= pos => i \in DOMAIN new /\ new[i] = old[i]
    BY <1>1 DEF PutBehind
  <2>2. i > pos => i + 1 \in DOMAIN new /\ new[i + 1] = old[i]
    BY <1>1 DEF PutBehind
  <2>3. i <= pos \/ i > pos
    BY <1>1
  <2> QED
    BY <2>1, <2>2, <2>3
<1>3. ASSUME NEW j \in DOMAIN new
      PROVE  new[j] = v \/ \E i \in DOMAIN old : new[j] = old[i]
  <2>1. CASE j <= pos
    <3>1. j \in DOMAIN old /\ new[j] = old[j]
      BY <1>1, <2>1 DEF PutBehind
    <3> QED
      BY <3>1
  <2>2. CASE j = pos + 1
    BY <2>2 DEF PutBehind
  <2>3. CASE j > pos + 1
    <3>1. j - 1 \in (pos + 1)..Len(old) /\ j - 1 + 1 = j
      BY <1>1, <2>3
    <3>2. new[j] = old[j - 1] /\ j - 1 \in DOMAIN old
      BY <1>1, <3>1 DEF PutBehind
    <3> QED
      BY <3>2
  <2> QED
    BY <1>1, <2>1, <2>2, <2>3
<1>4. SeqsIn(old) \subseteq SeqsIn(new)
  BY <1>2 DEF SeqsIn
<1> QED
  BY <1>2, <1>3, <1>4

\* AddVote leaves no gap below lastSeqSeen.
LEMMA AddVoteLeavesNoGaps ==
  ASSUME NEW S, NEW H, Numbered(S), NEW b \in BucketsOf(S, H), NEW v \in S,
         NEW r, AddVoteDoes(b, r, v, S, H), NoGaps(b)
  PROVE  NoGaps(r.bucket)
<1> DEFINE nb == r.bucket
<1>1. /\ b.votes \in Seq(S) /\ nb.votes \in Seq(S)
      /\ b.lastSeqSeen \in Nat /\ nb.lastSeqSeen \in Nat
  BY DEF BucketsOf, AddVoteDoes
<1>2. CASE Refuses(b, r, v)
  BY <1>2 DEF Refuses
<1>3. CASE Puts(b, r, v)
  <2>1. PICK pos : /\ PutBehind(b.votes, nb.votes, v, pos)
                   /\ nb.lastSeqSeen =
                        IF r.err THEN b.lastSeqSeen
                        ELSE AdvanceSeen(nb.votes, pos + 1, b.lastSeqSeen)
    BY <1>3 DEF Puts
  <2>2. SeqsIn(b.votes) \subseteq SeqsIn(nb.votes)
    BY <1>1, <2>1, PutBehindVotes
  <2>3. pos + 1 \in Nat \ {0}
    BY <1>1, <2>1 DEF PutBehind
  <2> DEFINE last == AdvanceSeen(nb.votes, pos + 1, b.lastSeqSeen)
  <2>4. /\ last \in Nat
        /\ \A k \in (b.lastSeqSeen + 1)..last :
             \E j \in (pos + 1)..Len(nb.votes) : nb.votes[j].seq = k
    BY <1>1, <2>3, AdvanceSeenCovers
  <2> HIDE DEF last
  <2>5. ASSUME NEW k \in 1..nb.lastSeqSeen
        PROVE  k \in SeqsIn(nb.votes)
    <3>1. CASE k <= b.lastSeqSeen
      BY <3>1, <1>1, <2>2 DEF NoGaps
    <3>2. CASE k > b.lastSeqSeen
      <4>1. k \in (b.lastSeqSeen + 1)..last
        BY <3>2, <1>1, <2>1, <2>4 DEF last
      <4>2. PICK j \in (pos + 1)..Len(nb.votes) : nb.votes[j].seq = k
        BY <4>1, <2>4
      <4>3. j \in DOMAIN nb.votes
        BY <1>1, <2>3
      <4> QED
        BY <4>2, <4>3 DEF SeqsIn
    <3> QED
      BY <3>1, <3>2, <1>1
  <2> QED
    BY <2>5 DEF NoGaps
<1> QED
  BY <1>2, <1>3 DEF AddVoteDoes

-----------------------------------------------------------------------------
(* Seen and Before                                                         *)

\* What the search by hash finds after a vote was put into the list: the same
\* vote as before, or the new one if it comes first.
LEMMA FoundAfterPut ==
  ASSUME NEW b, NEW nb, NEW v, NEW pos, NEW h, Len(b.votes) \in Nat,
         PutBehind(b.votes, nb.votes, v, pos)
  PROVE  LET e == elementByHash(b, h)
             f == elementByHash(nb, h)
         IN  /\ e # 0 => f # 0
             /\ f # 0 => \/ e # 0 /\ nb.votes[f] = b.votes[e]
                         \/ /\ nb.votes[f] = v /\ v.txHash = h
                            /\ \A i \in 1..pos : b.votes[i].txHash # h
                            /\ e # 0 => b.votes[e].seq > v.seq
<1> DEFINE e == elementByHash(b, h)
           f == elementByHash(nb, h)
           n == Len(b.votes)
<1>1. /\ pos \in 0..n
      /\ Len(nb.votes) = n + 1
      /\ \A i \in 1..pos : nb.votes[i] = b.votes[i]
      /\ nb.votes[pos + 1] = v
      /\ \A i \in (pos + 1)..n : nb.votes[i + 1] = b.votes[i]
      /\ \A i \in (pos + 1)..n : b.votes[i].seq > v.seq
  BY DEF PutBehind
<1>2. /\ e \in 0..n
      /\ e # 0 => b.votes[e].txHash = h
      /\ e # 0 => \A i \in 1..(e - 1) : b.votes[i].txHash # h
      /\ e = 0 => \A i \in 1..n : b.votes[i].txHash # h
  BY ElementByHashIs
<1>3. n \in Nat /\ n + 1 \in Nat
  OBVIOUS
<1>4. /\ f \in 0..(n + 1)
      /\ f # 0 => nb.votes[f].txHash = h
      /\ f # 0 => \A i \in 1..(f - 1) : nb.votes[i].txHash # h
      /\ f = 0 => \A i \in 1..(n + 1) : nb.votes[i].txHash # h
  BY <1>1, <1>3, ElementByHashIs
<1> HIDE DEF e, f, n
<1> SUFFICES /\ e # 0 => f # 0
             /\ f # 0 => \/ e # 0 /\ nb.votes[f] = b.votes[e]
                         \/ /\ nb.votes[f] = v /\ v.txHash = h
                            /\ \A i \in 1..pos : b.votes[i].txHash # h
                            /\ e # 0 => b.votes[e].seq > v.seq
  BY DEF e, f
<1>5. ASSUME f # 0, f <= pos PROVE e # 0 /\ nb.votes[f] = b.votes[e]
  <2>1. b.votes[f].txHash = h /\ f \in 1..n /\ nb.votes[f] = b.votes[f]
    BY <1>1, <1>3, <1>4, <1>5
  <2>2. e # 0 /\ e <= f
    BY <1>2, <1>3, <2>1
  <2>3. e >= f
    BY <1>1, <1>2, <1>3, <1>4, <1>5, <2>2
  <2> QED
    BY <1>2, <1>3, <2>1, <2>2, <2>3
<1>6. ASSUME f = pos + 1
      PROVE  /\ nb.votes[f] = v /\ v.txHash = h
             /\ \A i \in 1..pos : b.votes[i].txHash # h
             /\ e # 0 => b.votes[e].seq > v.seq
  <2>1. nb.votes[f] = v /\ v.txHash = h
    BY <1>1, <1>4, <1>6
  <2>2. ASSUME NEW i \in 1..pos PROVE b.votes[i].txHash # h
    <3>1. nb.votes[i] = b.votes[i] /\ i \in 1..(f - 1) /\ f # 0
      BY <1>1, <1>3, <1>6
    <3> QED
      BY <3>1, <1>4
  <2>3. e # 0 => e \in (pos + 1)..n
    BY <1>1, <1>2, <1>3, <2>2
  <2> QED
    BY <1>1, <2>1, <2>2, <2>3
<1>7. ASSUME f > pos + 1 PROVE e # 0 /\ nb.votes[f] = b.votes[e]
  <2>1. f - 1 \in (pos + 1)..n /\ f - 1 + 1 = f
    BY <1>1, <1>3, <1>4, <1>7
  <2>2. nb.votes[f] = b.votes[f - 1] /\ b.votes[f - 1].txHash = h
    BY <1>1, <1>4, <2>1
  <2>3. e # 0 /\ e <= f - 1
    BY <1>1, <1>2, <1>3, <2>1, <2>2
  <2>4. ASSUME e < f - 1 PROVE FALSE
    <3>1. CASE e <= pos
      <4>1. nb.votes[e].txHash = h /\ e \in 1..(f - 1)
        BY <1>1, <1>2, <1>3, <2>1, <2>3, <2>4, <3>1
      <4> QED
        BY <4>1, <1>4, <2>3
    <3>2. CASE e > pos
      <4>1. e \in (pos + 1)..n
        BY <1>1, <1>2, <1>3, <3>2
      <4>2. nb.votes[e + 1].txHash = h
        BY <1>1, <1>2, <2>3, <4>1
      <4>3. e + 1 \in 1..(f - 1) /\ f # 0
        BY <1>1, <1>3, <1>4, <1>7, <2>4, <4>1
      <4> QED
        BY <4>2, <4>3, <1>4
    <3> QED
      BY <3>1, <3>2, <1>1, <1>2, <1>3
  <2>5. e = f - 1
    BY <2>1, <2>3, <2>4, <1>2, <1>1, <1>3
  <2> QED
    BY <2>2, <2>3, <2>5
<1>8. ASSUME e # 0 PROVE f # 0
  <2>1. CASE e <= pos
    <3>1. nb.votes[e].txHash = h /\ e \in 1..(n + 1)
      BY <1>1, <1>2, <1>3, <1>8, <2>1
    <3> QED
      BY <3>1, <1>4
  <2>2. CASE e > pos
    <3>1. nb.votes[e + 1].txHash = h /\ e + 1 \in 1..(n + 1)
      BY <1>1, <1>2, <1>3, <1>8, <2>2
    <3> QED
      BY <3>1, <1>4
  <2> QED
    BY <2>1, <2>2, <1>1, <1>2, <1>3
<1>9. f # 0 => f <= pos \/ f = pos + 1 \/ f > pos + 1
  BY <1>1, <1>3, <1>4
<1> QED
  BY <1>5, <1>6, <1>7, <1>8, <1>9

\* What is seen stays seen, whoever signs the votes: the first vote for a
\* transaction only ever gets a lower number.
LEMMA AddVoteKeepsSeen ==
  ASSUME NEW S, NEW H, Numbered(S), NEW b \in BucketsOf(S, H), NEW v \in S,
         NEW r, AddVoteDoes(b, r, v, S, H), NEW h, Seen(b, h)
  PROVE  Seen(r.bucket, h)
<1> DEFINE nb == r.bucket
           e == elementByHash(b, h)
           f == elementByHash(nb, h)
<1>1. CASE Refuses(b, r, v)
  BY <1>1 DEF Refuses
<1>2. CASE Puts(b, r, v)
  <2>1. PICK pos : PutBehind(b.votes, nb.votes, v, pos)
    BY <1>2 DEF Puts
  <2>2. /\ b.votes \in Seq(S) /\ Len(b.votes) \in Nat
        /\ nb.votes \in Seq(S) /\ Len(nb.votes) \in Nat
        /\ b.lastSeqSeen \in Nat /\ nb.lastSeqSeen \in Nat
        /\ nb.lastSeqSeen >= b.lastSeqSeen
    BY DEF AddVoteDoes, BucketsOf
  <2>3. /\ e # 0 /\ e \in 0..Len(b.votes)
        /\ b.votes[e].seq <= b.lastSeqSeen
    BY <2>2, ElementByHashIs DEF Seen
  <2>4. f \in 0..Len(nb.votes)
    BY <2>2, ElementByHashIs
  <2>5. /\ f # 0
        /\ \/ nb.votes[f] = b.votes[e]
           \/ nb.votes[f] = v /\ b.votes[e].seq > v.seq
    <3>1. /\ e # 0 => f # 0
          /\ f # 0 => \/ e # 0 /\ nb.votes[f] = b.votes[e]
                      \/ /\ nb.votes[f] = v /\ v.txHash = h
                         /\ \A i \in 1..pos : b.votes[i].txHash # h
                         /\ e # 0 => b.votes[e].seq > v.seq
      BY <2>1, <2>2, FoundAfterPut
    <3> QED
      BY <2>3, <3>1
  <2>6. /\ b.votes[e].seq \in Nat /\ nb.votes[f].seq \in Nat
        /\ v.seq \in Nat
    <3>1. b.votes[e] \in S /\ nb.votes[f] \in S
      BY <2>2, <2>3, <2>4, <2>5
    <3> QED
      BY <3>1 DEF Numbered
  <2> HIDE DEF e, f, nb
  <2>7. nb.votes[f].seq <= nb.lastSeqSeen
    BY <2>2, <2>3, <2>5, <2>6
  <2> QED
    BY <2>5, <2>7 DEF Seen, e, f, nb
<1> QED
  BY <1>1, <1>2 DEF AddVoteDoes

\* The numbers in the list stay in it.
LEMMA AddVoteKeepsSeqs ==
  ASSUME NEW S, NEW H, NEW b \in BucketsOf(S, H), NEW v \in S,
         NEW r, AddVoteDoes(b, r, v, S, H)
  PROVE  SeqsIn(b.votes) \subseteq SeqsIn(r.bucket.votes)
<1>1. CASE Refuses(b, r, v)
  BY <1>1 DEF Refuses
<1>2. CASE Puts(b, r, v)
  <2> DEFINE old == b.votes
             new == r.bucket.votes
  <2>1. PICK pos : PutBehind(old, new, v, pos)
    BY <1>2 DEF Puts
  <2>2. /\ old \in Seq(S) /\ Len(old) \in Nat
        /\ new \in Seq(S) /\ Len(new) \in Nat
    BY DEF AddVoteDoes, BucketsOf
  <2> QED
    BY <2>1, <2>2, PutBehindVotes
<1> QED
  BY <1>1, <1>2 DEF AddVoteDoes

\* A transaction whose vote is seen stays before another one, if the voter gives
\* a number to one transaction only and vote 0, if there is one, has come: every
\* number up to its own is in the list.
LEMMA AddVoteKeepsSeenBefore ==
  ASSUME NEW S, NEW H, Numbered(S), NEW b \in BucketsOf(S, H), NEW v \in S,
         NEW r, AddVoteDoes(b, r, v, S, H), NoGaps(b),
         v.seq = 0 => 0 \in SeqsIn(b.votes),
         \A i \in DOMAIN b.votes :
           b.votes[i].seq = v.seq => b.votes[i].txHash = v.txHash,
         NEW h, NEW g, Seen(b, h), Before(b, h, g)
  PROVE  Before(r.bucket, h, g)
<1> DEFINE nb == r.bucket
           e == elementByHash(b, h)
           f == elementByHash(nb, h)
           d == elementByHash(b, g)
           c == elementByHash(nb, g)
<1>1. CASE Refuses(b, r, v)
  BY <1>1 DEF Refuses
<1>2. CASE h \in b.commitedHashes
  BY <1>2 DEF Before, AddVoteDoes
<1>3. CASE Puts(b, r, v) /\ h \notin b.commitedHashes
  <2>1. PICK pos : PutBehind(b.votes, nb.votes, v, pos)
    BY <1>3 DEF Puts
  <2>2. /\ b.votes \in Seq(S) /\ Len(b.votes) \in Nat
        /\ nb.votes \in Seq(S) /\ Len(nb.votes) \in Nat
        /\ b.lastSeqSeen \in Nat
        /\ nb.commitedHashes = b.commitedHashes
    BY DEF AddVoteDoes, BucketsOf
  <2>3. /\ e # 0 /\ b.votes[e].seq <= b.lastSeqSeen
        /\ d # 0 => b.votes[e].seq < b.votes[d].seq
        /\ g \notin b.commitedHashes
    BY <1>3 DEF Seen, Before
  <2>4. /\ e \in 0..Len(b.votes) /\ f \in 0..Len(nb.votes)
        /\ d \in 0..Len(b.votes) /\ c \in 0..Len(nb.votes)
    BY <2>2, ElementByHashIs
  <2>5. /\ f # 0
        /\ \/ nb.votes[f] = b.votes[e]
           \/ nb.votes[f] = v /\ b.votes[e].seq > v.seq
    <3>1. /\ e # 0 => f # 0
          /\ f # 0 => \/ e # 0 /\ nb.votes[f] = b.votes[e]
                      \/ /\ nb.votes[f] = v /\ v.txHash = h
                         /\ \A i \in 1..pos : b.votes[i].txHash # h
                         /\ e # 0 => b.votes[e].seq > v.seq
      BY <2>1, <2>2, FoundAfterPut
    <3> QED
      BY <2>3, <3>1
  <2>6. c # 0 => \/ d # 0 /\ nb.votes[c] = b.votes[d]
                 \/ /\ nb.votes[c] = v /\ v.txHash = g
                    /\ \A i \in 1..pos : b.votes[i].txHash # g
    BY <2>1, <2>2, FoundAfterPut
  <2>7. \A i \in DOMAIN b.votes : b.votes[i].seq \in Nat
    <3>1. \A i \in DOMAIN b.votes : b.votes[i] \in S
      BY <2>2
    <3> QED
      BY <3>1 DEF Numbered
  <2>8. /\ e \in DOMAIN b.votes /\ b.votes[e].seq \in Nat /\ v.seq \in Nat
        /\ d # 0 => b.votes[d].seq \in Nat
    <3>1. e \in DOMAIN b.votes /\ (d # 0 => d \in DOMAIN b.votes)
      BY <2>2, <2>3, <2>4
    <3> QED
      BY <3>1, <2>7 DEF Numbered
  <2>9. ASSUME nb.votes[c] = v, v.txHash = g,
               \A i \in 1..pos : b.votes[i].txHash # g
        PROVE  b.votes[e].seq < v.seq
    <3> SUFFICES ASSUME v.seq <= b.votes[e].seq PROVE FALSE
      BY <2>8
    <3>1. v.seq = 0 \/ v.seq \in 1..b.lastSeqSeen
      BY <2>2, <2>3, <2>8
    <3>2. PICK k \in DOMAIN b.votes : b.votes[k].seq = v.seq
      BY <3>1 DEF NoGaps, SeqsIn
    <3>3. b.votes[k].txHash = g
      BY <3>2, <2>9
    <3>4. k \notin 1..pos /\ k \in 1..Len(b.votes) /\ pos \in Nat
      BY <3>3, <2>9, <2>1, <2>2 DEF PutBehind
    <3>5. k \in (pos + 1)..Len(b.votes)
      BY <3>4
    <3>6. b.votes[k].seq > v.seq
      BY <3>5, <2>1 DEF PutBehind
    <3> QED
      BY <3>2, <3>6, <2>8
  <2> HIDE DEF e, f, c, d, nb
  <2>10. nb.votes[f].seq \in Nat /\ nb.votes[f].seq <= b.votes[e].seq
    BY <2>5, <2>8
  <2>11. c # 0 => nb.votes[f].seq < nb.votes[c].seq
    <3>1. CASE c # 0 /\ d # 0 /\ nb.votes[c] = b.votes[d]
      BY <3>1, <2>3, <2>8, <2>10
    <3>2. CASE /\ nb.votes[c] = v /\ v.txHash = g
               /\ \A i \in 1..pos : b.votes[i].txHash # g
      BY <3>2, <2>8, <2>9, <2>10
    <3> QED
      BY <3>1, <3>2, <2>6
  <2> QED
    BY <2>2, <2>3, <2>5, <2>11 DEF Before, c, f, nb
<1> QED
  BY <1>1, <1>2, <1>3 DEF AddVoteDoes

\* When a vote is above all those in the list, it is added at the end, if at
\* all, and what a peer has before another transaction stays before it.
LEMMA AddVoteKeepsBefore ==
  ASSUME NEW S, NEW H, Numbered(S), NEW b \in BucketsOf(S, H), NEW v \in S,
         NEW r, AddVoteDoes(b, r, v, S, H),
         \A i \in DOMAIN b.votes : b.votes[i].seq < v.seq,
         NEW h, NEW g, Before(b, h, g)
  PROVE  Before(r.bucket, h, g)
<1> DEFINE nb == r.bucket
           e == elementByHash(b, h)
           f == elementByHash(nb, h)
           d == elementByHash(b, g)
           c == elementByHash(nb, g)
<1>1. CASE Refuses(b, r, v)
  BY <1>1 DEF Refuses
<1>2. CASE h \in b.commitedHashes
  BY <1>2 DEF Before, AddVoteDoes
<1>3. CASE Puts(b, r, v) /\ h \notin b.commitedHashes
  <2>1. PICK pos : PutBehind(b.votes, nb.votes, v, pos)
    BY <1>3 DEF Puts
  <2>2. /\ b.votes \in Seq(S) /\ Len(b.votes) \in Nat
        /\ nb.commitedHashes = b.commitedHashes
    BY DEF AddVoteDoes, BucketsOf
  <2>3. /\ e # 0 /\ g \notin b.commitedHashes
        /\ d # 0 => b.votes[e].seq < b.votes[d].seq
    BY <1>3 DEF Before
  <2>4. /\ e \in DOMAIN b.votes
        /\ d # 0 => d \in DOMAIN b.votes
    <3>1. e \in 0..Len(b.votes) /\ d \in 0..Len(b.votes)
      BY <2>2, ElementByHashIs
    <3> QED
      BY <2>2, <2>3, <3>1
  <2>5. v.seq \in Nat /\ b.votes[e].seq \in Nat /\ b.votes[e].seq < v.seq
    <3>1. b.votes[e] \in S
      BY <2>2, <2>4
    <3> QED
      BY <2>4, <3>1 DEF Numbered
  <2>6. f # 0 /\ nb.votes[f] = b.votes[e]
    <3>1. /\ e # 0 => f # 0
          /\ f # 0 => \/ e # 0 /\ nb.votes[f] = b.votes[e]
                      \/ /\ nb.votes[f] = v /\ v.txHash = h
                         /\ \A i \in 1..pos : b.votes[i].txHash # h
                         /\ e # 0 => b.votes[e].seq > v.seq
      BY <2>1, <2>2, FoundAfterPut
    <3> HIDE DEF e, f, nb
    <3> QED
      BY <2>3, <2>5, <3>1
  <2>7. c # 0 => \/ d # 0 /\ nb.votes[c] = b.votes[d]
                 \/ /\ nb.votes[c] = v /\ v.txHash = g
                    /\ \A i \in 1..pos : b.votes[i].txHash # g
    BY <2>1, <2>2, FoundAfterPut
  <2> HIDE DEF e, f, c, d, nb
  <2>8. c # 0 => nb.votes[f].seq < nb.votes[c].seq
    BY <2>3, <2>5, <2>6, <2>7
  <2> QED
    BY <2>2, <2>3, <2>6, <2>8 DEF Before, c, f, nb
<1> QED
  BY <1>1, <1>2, <1>3 DEF AddVoteDoes

\* A commit leaves what is seen, and what is before a transaction that it does
\* not commit.
LEMMA UpdateTxSetKeeps ==
  ASSUME NEW S, NEW H, NEW b \in BucketsOf(S, H), NEW hs
  PROVE  LET nb == UpdateTxSet(b, hs)
         IN  /\ nb.votes = b.votes /\ nb.lastSeqSeen = b.lastSeqSeen
             /\ nb.commitedHashes = b.commitedHashes \cup hs
             /\ \A h : Seen(nb, h) <=> Seen(b, h)
             /\ \A h, g : Before(b, h, g) /\ g \notin hs => Before(nb, h, g)
<1> DEFINE nb == UpdateTxSet(b, hs)
<1>1. /\ nb.votes = b.votes /\ nb.lastSeqSeen = b.lastSeqSeen
      /\ nb.commitedHashes = b.commitedHashes \cup hs
  BY DEF UpdateTxSet, BucketsOf
<1> HIDE DEF nb
<1>2. \A h : elementByHash(nb, h) = elementByHash(b, h)
  BY <1>1 DEF elementByHash
<1>3. \A h : Seen(nb, h) <=> Seen(b, h)
  BY <1>1, <1>2 DEF Seen
<1>4. \A h, g : Before(b, h, g) /\ g \notin hs => Before(nb, h, g)
  BY <1>1, <1>2 DEF Before
<1> QED
  BY <1>1, <1>3, <1>4 DEF nb

\* A bucket that holds each of two transactions as before the other has both of
\* them committed.
LEMMA BeforeIsAsymmetric ==
  ASSUME NEW S, NEW H, Numbered(S), NEW b \in BucketsOf(S, H), NEW h, NEW g,
         Before(b, h, g), Before(b, g, h)
  PROVE  {h, g} \subseteq b.commitedHashes
<1> DEFINE e == elementByHash(b, h)
           d == elementByHash(b, g)
<1> SUFFICES ASSUME h \notin b.commitedHashes \/ g \notin b.commitedHashes
             PROVE  FALSE
  OBVIOUS
<1>1. /\ e # 0 /\ d # 0 /\ b.votes[e].seq < b.votes[d].seq
      /\ b.votes[d].seq < b.votes[e].seq
  BY DEF Before
<1>2. b.votes \in Seq(S) /\ Len(b.votes) \in Nat
  BY DEF BucketsOf
<1>3. e \in 0..Len(b.votes) /\ d \in 0..Len(b.votes)
  BY <1>2, ElementByHashIs
<1>4. b.votes[e] \in S /\ b.votes[d] \in S
  BY <1>1, <1>2, <1>3
<1>5. b.votes[e].seq \in Nat /\ b.votes[d].seq \in Nat
  BY <1>4 DEF Numbered
<1> QED
  BY <1>1, <1>5

-----------------------------------------------------------------------------
(* Votes of an honest voter                                                *)

\* No two votes have one number or one transaction, and each links to the one
\* before.
HonestVotes(S) ==
  \A v, w \in S :
    /\ v.seq = w.seq => v = w
    /\ v.txHash = w.txHash => v = w
    /\ v.seq + 1 = w.seq => w.prevHash = Hash(v)

\* The hashes of votes of an honest voter match, whichever are neighbours.
LEMMA HonestVoteIsNotRefused ==
  ASSUME NEW S, NEW H, HonestVotes(S), NEW b \in BucketsOf(S, H), NEW v \in S,
         NEW r, AddVoteDoes(b, r, v, S, H)
  PROVE  ~r.err
<1> SUFFICES ASSUME Mismatch(b.votes, v) PROVE FALSE
  BY DEF AddVoteDoes
<1>1. PICK i \in DOMAIN b.votes :
        ~validHashes(b.votes[i], v) \/ ~validHashes(v, b.votes[i])
  BY DEF Mismatch
<1>2. b.votes[i] \in S
  BY DEF BucketsOf
<1> QED
  BY <1>1, <1>2 DEF validHashes, HonestVotes

\* The search by hash finds the one vote for a transaction.
LEMMA HonestVoteIsFound ==
  ASSUME NEW S, NEW H, HonestVotes(S), NEW b \in BucketsOf(S, H),
         NEW i \in DOMAIN b.votes
  PROVE  LET e == elementByHash(b, b.votes[i].txHash)
         IN  e # 0 /\ b.votes[e] = b.votes[i]
<1> DEFINE h == b.votes[i].txHash
           e == elementByHash(b, h)
<1>1. b.votes \in Seq(S) /\ Len(b.votes) \in Nat
  BY DEF BucketsOf
<1>2. /\ e \in 0..Len(b.votes)
      /\ e # 0 => b.votes[e].txHash = h
      /\ e = 0 => \A k \in 1..Len(b.votes) : b.votes[k].txHash # h
  BY <1>1, ElementByHashIs
<1>3. e # 0
  BY <1>1, <1>2
<1>4. b.votes[e] \in S /\ b.votes[i] \in S
  BY <1>1, <1>2, <1>3
<1> QED
  BY <1>2, <1>3, <1>4 DEF HonestVotes

\* The votes are in the order of their numbers and lastSeqSeen is exact.
InOrder(votes) ==
  \A i, j \in DOMAIN votes : i < j => votes[i].seq < votes[j].seq

Exact(b) == InOrder(b.votes) /\ b.lastSeqSeen + 1 \notin SeqsIn(b.votes)

HeadIs(votes, first) == votes # << >> => votes[1].seq = first

\* When the first vote was the first to arrive, and no vote fails, every vote
\* comes to its place and lastSeqSeen stays exact.
LEMMA AddVoteKeepsExact ==
  ASSUME NEW S, NEW H, Numbered(S), NEW b \in BucketsOf(S, H), NEW v \in S,
         NEW r, AddVoteDoes(b, r, v, S, H), ~r.err,
         NEW first, v.seq >= first, HeadIs(b.votes, first) => Exact(b),
         HeadIs(r.bucket.votes, first)
  PROVE  Exact(r.bucket)
<1> DEFINE nb == r.bucket
           old == b.votes
           new == nb.votes
           n == Len(old)
           last == b.lastSeqSeen
<1>1. /\ old \in Seq(S) /\ n \in Nat /\ DOMAIN old = 1..n
      /\ new \in Seq(S) /\ DOMAIN new = 1..Len(new)
      /\ last \in Nat /\ v.seq \in Nat
  BY DEF AddVoteDoes, BucketsOf, Numbered
<1>2. CASE Refuses(b, r, v)
  BY <1>2 DEF Refuses
<1>3. CASE Puts(b, r, v)
  <2>1. PICK pos : /\ PutBehind(old, new, v, pos)
                   /\ IsPlaceOf(old, v, pos)
                   /\ nb.lastSeqSeen = AdvanceSeen(new, pos + 1, last)
    BY <1>3 DEF Puts
  <2>2. /\ pos \in 0..n
        /\ Len(new) = n + 1
        /\ \A i \in 1..pos : new[i] = old[i]
        /\ new[pos + 1] = v
        /\ \A i \in (pos + 1)..n : new[i + 1] = old[i]
        /\ \A i \in (pos + 1)..n : old[i].seq > v.seq
    BY <2>1 DEF PutBehind
  <2>3. /\ \A i \in 1..n : old[i].seq \in Nat
        /\ \A i \in 1..(n + 1) : new[i].seq \in Nat
    <3>1. /\ \A i \in 1..n : old[i] \in S
          /\ \A i \in 1..(n + 1) : new[i] \in S
      BY <1>1, <2>2
    <3> QED
      BY <3>1 DEF Numbered
  <2>4. n # 0 => /\ pos # 0 /\ old[pos].seq < v.seq
                 /\ Exact(b)
    <3> SUFFICES ASSUME n # 0
                 PROVE  pos # 0 /\ old[pos].seq < v.seq /\ Exact(b)
      OBVIOUS
    <3>1. pos # 0
      <4>1. PrevElement(old, v) \in 0..n
        BY <1>1, PrevElementIs
      <4> QED
        BY <4>1, <1>1, <2>1 DEF IsPlaceOf
    <3>2. new[1] = old[1] /\ new # << >>
      BY <3>1, <1>1, <2>2
    <3>3. old[1].seq = first /\ Exact(b)
      BY <3>2 DEF HeadIs
    <3>4. PrevElement(old, v) # 0
      <4>1. SUFFICES ASSUME PrevElement(old, v) = 0 PROVE FALSE
        OBVIOUS
      <4>2. \A i \in (0 + 1)..n : old[i].seq > v.seq
        BY <4>1, <1>1, PrevElementIs
      <4>3. 1 \in (0 + 1)..n
        BY <1>1
      <4> QED
        BY <4>2, <4>3, <3>3, <1>1, <2>3
    <3> QED
      BY <3>1, <3>3, <3>4, <2>1 DEF IsPlaceOf
  <2> HIDE DEF n, old, new, nb, last
  <2>5. ASSUME NEW i \in 1..pos PROVE new[i].seq < v.seq
    <3>1. n # 0 /\ i \in 1..n /\ pos \in 1..n /\ i <= pos
      BY <1>1, <2>2
    <3>2. old[i].seq <= old[pos].seq
      BY <3>1, <2>3, <2>4, <1>1 DEF Exact, InOrder, old
    <3> QED
      BY <3>1, <3>2, <2>2, <2>3, <2>4, <1>1
  <2>6. ASSUME NEW i \in (pos + 2)..(n + 1) PROVE new[i].seq > v.seq
    <3>1. i - 1 \in (pos + 1)..n /\ i - 1 + 1 = i
      BY <1>1, <2>2
    <3> QED
      BY <3>1, <2>2
  <2>7. InOrder(new)
    <3> SUFFICES ASSUME NEW i \in 1..(n + 1), NEW j \in 1..(n + 1), i < j
                 PROVE  new[i].seq < new[j].seq
      BY <1>1, <2>2 DEF InOrder
    <3>1. CASE j <= pos
      <4>1. /\ n # 0 /\ i \in 1..n /\ j \in 1..n
            /\ new[i] = old[i] /\ new[j] = old[j]
        BY <3>1, <1>1, <2>2
      <4> QED
        BY <4>1, <2>4, <1>1 DEF Exact, InOrder, old
    <3>2. CASE i <= pos /\ j > pos
      <4>1. new[i].seq < v.seq /\ (j = pos + 1 \/ j \in (pos + 2)..(n + 1))
        BY <3>2, <1>1, <2>2, <2>5
      <4>2. new[j].seq >= v.seq
        BY <4>1, <1>1, <2>2, <2>3, <2>6
      <4> QED
        BY <4>1, <4>2, <1>1, <2>3
    <3>3. CASE i = pos + 1
      <4>1. j \in (pos + 2)..(n + 1)
        BY <3>3, <1>1, <2>2
      <4> QED
        BY <4>1, <3>3, <2>2, <2>6, <1>1, <2>3
    <3>4. CASE i > pos + 1
      <4>1. i - 1 \in (pos + 1)..n /\ i - 1 + 1 = i
            /\ j - 1 \in (pos + 1)..n /\ j - 1 + 1 = j
        BY <3>4, <1>1, <2>2
      <4>2. new[i] = old[i - 1] /\ new[j] = old[j - 1]
        BY <4>1, <2>2
      <4>3. n # 0 /\ i - 1 \in 1..n /\ j - 1 \in 1..n /\ i - 1 < j - 1
        BY <4>1, <1>1, <2>2
      <4> QED
        BY <4>2, <4>3, <2>4, <1>1 DEF Exact, InOrder, old
    <3> QED
      BY <3>1, <3>2, <3>3, <3>4, <1>1, <2>2
  <2> DEFINE a == AdvanceSeen(new, pos + 1, last)
  <2>8. pos + 1 \in Nat \ {0}
    BY <2>2
  <2>9. /\ a \in Nat /\ a >= last
        /\ \A k \in (last + 1)..a :
             \E j \in (pos + 1)..Len(new) : new[j].seq = k
    BY <1>1, <2>8, AdvanceSeenCovers
  <2>10. \A j \in (pos + 1)..Len(new) : new[j].seq # a + 1
    <3>1. \A i, j \in (pos + 1)..Len(new) :
            i < j => new[i].seq < new[j].seq
      <4>1. (pos + 1)..Len(new) \subseteq DOMAIN new
        BY <1>1, <2>2
      <4> QED
        BY <4>1, <2>7 DEF InOrder
    <3> QED
      BY <3>1, <1>1, <2>8, AdvanceSeenStops
  <2> HIDE DEF a
  <2>11. ASSUME NEW j \in 1..pos PROVE new[j].seq # a + 1
    <3>1. n # 0 /\ j \in 1..n /\ new[j] = old[j] /\ new[j].seq < v.seq
      BY <1>1, <2>2, <2>5
    <3>2. CASE a = last
      <4>1. old[j].seq \in SeqsIn(old)
        BY <3>1, <1>1 DEF SeqsIn
      <4> QED
        BY <4>1, <3>1, <3>2, <2>4 DEF Exact, old, last
    <3>3. CASE a > last
      <4>1. a \in (last + 1)..a
        BY <3>3, <1>1, <2>9
      <4>2. PICK k \in (pos + 1)..Len(new) : new[k].seq = a
        BY <4>1, <2>9
      <4>3. j < k /\ j \in DOMAIN new /\ k \in DOMAIN new
        BY <1>1, <2>2, <3>1
      <4>4. new[j].seq < a
        BY <4>2, <4>3, <2>7 DEF InOrder
      <4> QED
        BY <4>4, <2>9, <2>3, <3>1, <1>1
    <3> QED
      BY <3>2, <3>3, <2>9, <1>1
  <2>12. \A j \in DOMAIN new : new[j].seq # a + 1
    <3>1. \A j \in DOMAIN new : j \in 1..pos \/ j \in (pos + 1)..Len(new)
      BY <1>1, <2>2
    <3> QED
      BY <3>1, <2>10, <2>11
  <2> QED
    BY <2>1, <2>7, <2>12 DEF Exact, SeqsIn, a, new, nb, last
<1> QED
  BY <1>2, <1>3 DEF AddVoteDoes

-----------------------------------------------------------------------------
(* Sums                                                                    *)

\* g holds the sums of the first elements of s.
Sums(g, f, s, n) ==
  g = [i \in 0..n |-> IF i = 0 THEN 0 ELSE g[i-1] + f[s[i]]]

\* The sums of the first elements exist, whatever the length.
LEMMA SumsExist ==
  ASSUME NEW f, NEW s, NEW n \in Nat
  PROVE  \E g : Sums(g, f, s, n)
<1> DEFINE Bad == {k \in Nat : ~ \E g : Sums(g, f, s, k)}
<1> SUFFICES ASSUME Bad # {} PROVE FALSE
  OBVIOUS
<1>1. Bad \in SUBSET Nat
  OBVIOUS
<1> HIDE DEF Bad
<1>2. PICK l \in Bad : \A k \in Bad : l <= k
  BY <1>1, LeastExists
<1>3. l \in Nat
  BY <1>1
<1> USE DEF Bad
<1>4. CASE l = 0
  <2> DEFINE h == [i \in 0..0 |-> 0]
  <2>1. h = [i \in 0..0 |-> IF i = 0 THEN 0 ELSE h[i-1] + f[s[i]]]
    OBVIOUS
  <2>2. Sums(h, f, s, 0)
    BY <2>1 DEF Sums
  <2> QED
    BY <2>2, <1>4
<1>5. CASE l > 0
  <2>1. l - 1 \in Nat /\ l - 1 \notin Bad
    BY <1>2, <1>3, <1>5
  <2>2. PICK g : Sums(g, f, s, l - 1)
    BY <2>1
  <2> DEFINE e == g[l-1] + f[s[l]]
             h == [i \in 0..l |-> IF i < l THEN g[i] ELSE e]
  <2>3. ASSUME NEW i \in 0..l
        PROVE  h[i] = IF i = 0 THEN 0 ELSE h[i-1] + f[s[i]]
    <3>1. CASE i < l
      <4>1. i \in 0..(l-1) /\ h[i] = g[i]
        BY <3>1, <1>3
      <4>2. i # 0 => h[i-1] = g[i-1]
        BY <3>1, <1>3
      <4>3. g[i] = IF i = 0 THEN 0 ELSE g[i-1] + f[s[i]]
        BY <2>2, <4>1 DEF Sums
      <4> HIDE DEF h
      <4> QED
        BY <4>1, <4>2, <4>3
    <3>2. CASE i = l
      <4>1. h[l-1] = g[l-1] /\ h[l] = e /\ l # 0
        BY <1>3, <1>5
      <4> HIDE DEF h
      <4> QED
        BY <4>1, <3>2
    <3> QED
      BY <3>1, <3>2, <1>3
  <2>4. h = [i \in 0..l |-> h[i]]
    OBVIOUS
  <2> HIDE DEF h
  <2>5. Sums(h, f, s, l)
    BY <2>3, <2>4 DEF Sums
  <2> QED
    BY <2>5
<1> QED
  BY <1>3, <1>4, <1>5

Weighs(f, S) == \A x \in S : f[x] \in Nat

\* Sum is the last of these sums, and all of them are natural numbers.
LEMMA SumIs ==
  ASSUME NEW S, NEW f, Weighs(f, S), NEW s \in Seq(S)
  PROVE  \E g \in [0..Len(s) -> Nat] :
           /\ g[0] = 0
           /\ \A i \in 1..Len(s) : g[i] = g[i-1] + f[s[i]]
           /\ Sum(f, s) = g[Len(s)]
<1> DEFINE n == Len(s)
           sum == CHOOSE g : g = [i \in 0..n |-> IF i = 0 THEN 0
                                                 ELSE g[i-1] + f[s[i]]]
<1>1. n \in Nat /\ \A i \in 1..n : f[s[i]] \in Nat
  BY DEF Weighs
<1>2. Sum(f, s) = sum[n]
  BY DEF Sum
<1>3. PICK g : Sums(g, f, s, n)
  BY <1>1, SumsExist
<1>4. Sums(sum, f, s, n)
  BY <1>3 DEF Sums
<1> HIDE DEF sum, n
<1>5. /\ sum[0] = 0
      /\ \A i \in 1..n : sum[i] = sum[i-1] + f[s[i]]
      /\ DOMAIN sum = 0..n
      /\ sum = [i \in 0..n |-> sum[i]]
  BY <1>1, <1>4 DEF Sums
<1> DEFINE Bad == {i \in 0..n : sum[i] \notin Nat}
<1>6. Bad = {}
  <2> SUFFICES ASSUME Bad # {} PROVE FALSE
    OBVIOUS
  <2>1. Bad \in SUBSET Nat
    BY <1>1
  <2> HIDE DEF Bad
  <2>2. PICK l \in Bad : \A i \in Bad : l <= i
    BY <2>1, LeastExists
  <2> USE DEF Bad
  <2>3. l \in 0..n /\ sum[l] \notin Nat /\ l # 0
    BY <1>5, <2>2
  <2>4. l \in 1..n /\ l - 1 \in 0..n /\ ~(l <= l - 1)
    BY <1>1, <2>3
  <2>5. sum[l-1] \in Nat /\ f[s[l]] \in Nat
    BY <1>1, <2>2, <2>4
  <2>6. sum[l] = sum[l-1] + f[s[l]]
    BY <1>5, <2>4
  <2> QED
    BY <2>3, <2>5, <2>6
<1>7. sum \in [0..n -> Nat]
  BY <1>5, <1>6
<1> QED
  BY <1>2, <1>5, <1>7 DEF n

\* h holds the sums of the first elements of s.
Totals(h, f, s) ==
  /\ h \in [0..Len(s) -> Int]
  /\ h[0] = 0
  /\ \A i \in 1..Len(s) : h[i] = h[i-1] + f[s[i]]

\* There is only one way to sum.
LEMMA SumIsUnique ==
  ASSUME NEW S, NEW f, Weighs(f, S), NEW s \in Seq(S), NEW h, Totals(h, f, s)
  PROVE  Sum(f, s) = h[Len(s)]
<1> USE DEF Totals
<1> DEFINE n == Len(s)
<1>1. PICK g \in [0..n -> Nat] :
             /\ g[0] = 0
             /\ \A i \in 1..n : g[i] = g[i-1] + f[s[i]]
             /\ Sum(f, s) = g[n]
  BY SumIs
<1>2. n \in Nat
  OBVIOUS
<1> DEFINE Bad == {i \in 0..n : h[i] # g[i]}
<1>3. Bad = {}
  <2> SUFFICES ASSUME Bad # {} PROVE FALSE
    OBVIOUS
  <2>1. Bad \in SUBSET Nat
    BY <1>2
  <2> HIDE DEF Bad
  <2>2. PICK l \in Bad : \A i \in Bad : l <= i
    BY <2>1, LeastExists
  <2> USE DEF Bad
  <2>3. l \in 0..n /\ h[l] # g[l] /\ l # 0
    BY <1>1, <2>2
  <2>4. l \in 1..n /\ l - 1 \in 0..n /\ ~(l <= l - 1)
    BY <1>2, <2>3
  <2>5. h[l-1] = g[l-1]
    BY <2>2, <2>4
  <2> QED
    BY <1>1, <2>3, <2>4, <2>5
<1> QED
  BY <1>1, <1>2, <1>3

\* A sum of natural numbers is one.
LEMMA SumType ==
  ASSUME NEW S, NEW f, Weighs(f, S), NEW s \in Seq(S)
  PROVE  Sum(f, s) \in Nat
<1>1. PICK g \in [0..Len(s) -> Nat] : Sum(f, s) = g[Len(s)]
  BY SumIs
<1>2. Len(s) \in 0..Len(s)
  OBVIOUS
<1> QED
  BY <1>1, <1>2

\* One more element.
LEMMA SumAppend ==
  ASSUME NEW S, NEW f, Weighs(f, S), NEW s \in Seq(S), NEW x \in S
  PROVE  Sum(f, Append(s, x)) = Sum(f, s) + f[x]
<1> DEFINE n == Len(s)
           t == Append(s, x)
<1>1. PICK g \in [0..n -> Nat] :
             /\ g[0] = 0
             /\ \A i \in 1..n : g[i] = g[i-1] + f[s[i]]
             /\ Sum(f, s) = g[n]
  BY SumIs
<1>2. /\ n \in Nat /\ t \in Seq(S) /\ Len(t) = n + 1 /\ t[n + 1] = x
      /\ \A i \in 1..n : t[i] = s[i]
      /\ f[x] \in Nat
  BY DEF Weighs
<1> HIDE DEF t, n
<1> DEFINE h == [i \in 0..(n + 1) |-> IF i <= n THEN g[i] ELSE g[n] + f[x]]
<1>3. h \in [0..(n + 1) -> Int] /\ h[0] = 0 /\ h[n + 1] = g[n] + f[x]
  BY <1>1, <1>2
<1>4. ASSUME NEW i \in 1..(n + 1) PROVE h[i] = h[i-1] + f[t[i]]
  <2>1. CASE i <= n
    <3>1. i \in 1..n /\ h[i] = g[i] /\ h[i-1] = g[i-1]
      BY <1>2, <2>1
    <3> HIDE DEF h
    <3> QED
      BY <1>1, <1>2, <3>1
  <2>2. CASE i = n + 1
    <3>1. h[i] = g[n] + f[x] /\ h[i-1] = g[n]
      BY <1>2, <2>2
    <3> HIDE DEF h
    <3> QED
      BY <1>2, <2>2, <3>1
  <2> QED
    BY <1>2, <2>1, <2>2
<1> HIDE DEF h
<1>5. Sum(f, t) = h[n + 1]
  <2>1. Totals(h, f, t)
    BY <1>2, <1>3, <1>4 DEF Totals
  <2>2. Sum(f, t) = h[Len(t)]
    BY <1>2, <2>1, SumIsUnique
  <2> QED
    BY <1>2, <2>2
<1> QED
  BY <1>1, <1>3, <1>5 DEF t

\* The sum of nothing.
LEMMA SumOfNone ==
  ASSUME NEW S, NEW f, Weighs(f, S), NEW s \in Seq(S)
  PROVE  s = << >> => Sum(f, s) = 0
<1>1. PICK g \in [0..Len(s) -> Nat] :
             /\ g[0] = 0
             /\ \A i \in 1..Len(s) : g[i] = g[i-1] + f[s[i]]
             /\ Sum(f, s) = g[Len(s)]
  BY SumIs
<1> QED
  BY <1>1
=============================================================================
