--------------------------- MODULE MempoolProofs ----------------------------
(***************************************************************************)
(* For any transactions, limits, cache size and configuration, over a      *)
(* socket or with an application in the same process: the mempool never    *)
(* panics, the consensus is told when there are transactions, what was     *)
(* committed stays out while the cache forgets nothing, the limits are     *)
(* kept as far as the callers allow, the longest prefix that fits is       *)
(* reaped, and the list changes only in the ways of TxList.                *)
(***************************************************************************)
EXTENDS Mempool, Lemmas, FiniteSetTheorems

-----------------------------------------------------------------------------
(* Types                                                                   *)

Elements == [tx : Txs, height : Nat, senders : SUBSET Nat]

Mems ==
  [txs : Seq(Elements), txsMap : SUBSET Txs, txsBytes : Int,
   cache : Seq(Txs), height : Nat, recheckCursor : Nat, recheckEnd : Int,
   notifiedTxsAvailable : BOOLEAN, txsAvailable : {0, 1}, panicked : BOOLEAN]

Stages == {"asked", "adding", "added", "telling"}

Asking == [recheck : {FALSE}, tx : Txs, sender : Nat, stage : Stages]

Rechecking == [recheck : {TRUE}, tx : Txs]

\* A transaction in the map has an element in the list.
Mapped(m) == \A tx \in m.txsMap : \E i \in DOMAIN m.txs : m.txs[i].tx = tx

MemOK(m) == m \in Mems /\ m.panicked = FALSE /\ Mapped(m)

\* The fields of a configuration.
LEMMA ConfigType ==
  ASSUME config \in Configs
  PROVE  /\ config.Size \in Nat /\ config.CacheSize \in Nat
         /\ config.Recheck \in BOOLEAN /\ config.Local \in BOOLEAN
         /\ config.KeepInvalidTxsInCache \in BOOLEAN
         /\ config.Senders \in SUBSET Nat
  BY MempoolAssumption

-----------------------------------------------------------------------------
(* The cache                                                               *)

\* The place of a transaction that is in the cache.
LEMMA FirstPlace ==
  ASSUME NEW s \in Seq(Txs), NEW tx, tx \in ToSet(s)
  PROVE  \E p \in 1..Len(s) : s[p] = tx /\ RemoveFirst(s, tx) = RemoveAt(s, p)
<1> DEFINE I == {i \in 1..Len(s) : s[i] = tx}
           p == SelectInSeq(s, LAMBDA v : v = tx)
<1>1. I # {} /\ I \in SUBSET Nat
  BY DEF ToSet
<1>2. p = Min(I)
  BY <1>1 DEF SelectInSeq
<1>3. \E x \in I : \A y \in I : x <= y
  <2> HIDE DEF I
  <2> QED
    BY <1>1, LeastExists
<1>4. Min(I) \in I
  BY <1>3 DEF Min
<1>5. \E i \in 1..Len(s) : s[i] = tx
  BY <1>1
<1>6. RemoveFirst(s, tx) = RemoveAt(s, p)
  BY <1>5 DEF RemoveFirst
<1> QED
  BY <1>2, <1>4, <1>6

\* A transaction that is not in the cache is not removed.
LEMMA NotInCache ==
  ASSUME NEW s \in Seq(Txs), NEW tx, tx \notin ToSet(s)
  PROVE  RemoveFirst(s, tx) = s
<1>1. ~ \E i \in 1..Len(s) : s[i] = tx
  BY DEF ToSet
<1> QED
  BY <1>1 DEF RemoveFirst

\* What is left of the cache is a cache.
LEMMA CacheRemoveType ==
  ASSUME NEW s \in Seq(Txs), NEW tx
  PROVE  CacheRemove(s, tx) \in Seq(Txs)
<1>1. CASE tx \in ToSet(s)
  <2>1. PICK p \in 1..Len(s) : RemoveFirst(s, tx) = RemoveAt(s, p)
    BY <1>1, FirstPlace
  <2>2. RemoveAt(s, p) \in Seq(Txs)
    BY RemoveAtElements
  <2> QED
    BY <2>1, <2>2 DEF CacheRemove
<1>2. CASE tx \notin ToSet(s)
  BY <1>2, NotInCache DEF CacheRemove
<1> QED
  BY <1>1, <1>2

\* The cache a transaction is pushed into is a cache.
LEMMA CachePushType ==
  ASSUME config \in Configs, NEW s \in Seq(Txs), NEW tx \in Txs
  PROVE  CachePush(s, tx) \in Seq(Txs)
<1>1. config.CacheSize \in Nat
  BY ConfigType
<1>2. CacheRemove(s, tx) \in Seq(Txs)
  BY CacheRemoveType
<1>3. Append(CacheRemove(s, tx), tx) \in Seq(Txs)
  <2>1. \A r \in Seq(Txs) : Append(r, tx) \in Seq(Txs)
    OBVIOUS
  <2> QED
    BY <1>2, <2>1
<1>4. Len(s) >= config.CacheSize /\ config.CacheSize # 0 =>
        Append(Tail(s), tx) \in Seq(Txs)
  BY <1>1
<1>5. Append(s, tx) \in Seq(Txs)
  OBVIOUS
<1> QED
  BY <1>2, <1>3, <1>4, <1>5 DEF CachePush

-----------------------------------------------------------------------------
(* The fields that the operators on the list leave alone                   *)

SameRecheck(m, n) ==
  n.recheckCursor = m.recheckCursor /\ n.recheckEnd = m.recheckEnd

SameSignal(m, n) ==
  /\ n.notifiedTxsAvailable = m.notifiedTxsAvailable
  /\ n.txsAvailable = m.txsAvailable

\* A change of the cache alone.
LEMMA CacheIs ==
  ASSUME NEW m, MemOK(m), NEW s \in Seq(Txs)
  PROVE  LET n == [m EXCEPT !.cache = s]
         IN  /\ MemOK(n) /\ SameRecheck(m, n) /\ SameSignal(m, n)
             /\ n.txs = m.txs /\ n.txsMap = m.txsMap /\ n.cache = s
             /\ n.height = m.height
  BY DEF MemOK, Mems, Mapped, SameRecheck, SameSignal

\* addTx puts a transaction at the end of the list and into the map.
LEMMA AddTxIs ==
  ASSUME NEW m, MemOK(m), NEW tx \in Txs, NEW sender \in Nat
  PROVE  LET n == addTx(m, tx, sender)
         IN  /\ MemOK(n) /\ SameRecheck(m, n) /\ SameSignal(m, n)
             /\ n.cache = m.cache
             /\ n.txsMap = m.txsMap \cup {tx}
             /\ Len(n.txs) = Len(m.txs) + 1
             /\ n.txs[Len(m.txs) + 1].tx = tx
             /\ \A i \in DOMAIN m.txs : n.txs[i] = m.txs[i]
<1> DEFINE e == [tx |-> tx, height |-> m.height, senders |-> {sender}]
           s == Append(m.txs, e)
           n == addTx(m, tx, sender)
<1>1. m \in Mems /\ Mapped(m) /\ m.panicked = FALSE /\ e \in Elements
  BY DEF MemOK, Mems, Elements
<1>2. m.txs \in Seq(Elements)
  BY <1>1 DEF Mems
<1>3. /\ s \in Seq(Elements) /\ Len(s) = Len(m.txs) + 1
      /\ s[Len(m.txs) + 1] = e
      /\ \A i \in DOMAIN m.txs : s[i] = m.txs[i] /\ i \in DOMAIN s
      /\ Len(m.txs) + 1 \in DOMAIN s
  <2> HIDE DEF e
  <2> QED
    BY <1>1, <1>2
<1>4. TxSize[tx] \in Int
  BY MempoolAssumption
<1> HIDE DEF s
<1>5. n = [m EXCEPT !.txs = s, !.txsMap = m.txsMap \cup {tx},
                    !.txsBytes = m.txsBytes + TxSize[tx]]
  BY <1>1 DEF addTx, s, Mems
<1> HIDE DEF n
<1>6. /\ n \in Mems /\ n.panicked = FALSE /\ n.txs = s
      /\ n.txsMap = m.txsMap \cup {tx} /\ n.cache = m.cache
      /\ SameRecheck(m, n) /\ SameSignal(m, n)
  <2>1. /\ m.txsMap \cup {tx} \in SUBSET Txs
        /\ m.txsBytes + TxSize[tx] \in Int
    BY <1>1, <1>4 DEF Mems
  <2>2. n \in Mems
    BY <1>1, <1>3, <1>5, <2>1 DEF Mems
  <2> QED
    BY <1>1, <1>5, <2>2 DEF Mems, SameRecheck, SameSignal
<1>7. e.tx = tx
  OBVIOUS
<1> HIDE DEF e
<1>8. Mapped(n)
  BY <1>1, <1>3, <1>6, <1>7 DEF Mapped
<1> QED
  BY <1>3, <1>6, <1>7, <1>8 DEF MemOK, n

\* removeTx takes one element out of the list and its transaction out of the
\* map; the elements behind it move up.
LEMMA RemoveTxIs ==
  ASSUME NEW m, MemOK(m), NEW pos \in 1..Len(m.txs), NEW b
  PROVE  LET n == removeTx(m, pos, b)
         IN  /\ MemOK(n) /\ SameRecheck(m, n) /\ SameSignal(m, n)
             /\ n.cache = IF b THEN CacheRemove(m.cache, m.txs[pos].tx)
                          ELSE m.cache
             /\ n.txsMap = m.txsMap \ {m.txs[pos].tx}
             /\ Len(n.txs) = Len(m.txs) - 1
             /\ \A i \in 1..(pos - 1) : n.txs[i] = m.txs[i]
             /\ \A i \in pos..(Len(m.txs) - 1) : n.txs[i] = m.txs[i + 1]
<1> DEFINE k == Len(m.txs)
           tx == m.txs[pos].tx
           s == RemoveAt(m.txs, pos)
           c == IF b THEN CacheRemove(m.cache, tx) ELSE m.cache
           n == removeTx(m, pos, b)
<1>1. m \in Mems /\ Mapped(m) /\ m.panicked = FALSE
  BY DEF MemOK
<1>2. m.txs \in Seq(Elements) /\ k \in Nat /\ m.cache \in Seq(Txs)
  BY <1>1 DEF Mems
<1>3. m.txs[pos] \in Elements
  BY <1>2
<1>4. tx \in Txs /\ TxSize[tx] \in Int
  BY <1>3, MempoolAssumption DEF Elements
<1>5. c \in Seq(Txs)
  BY <1>2, CacheRemoveType
<1>6. /\ s \in Seq(Elements) /\ Len(s) = k - 1
      /\ \A i \in 1..(pos - 1) : s[i] = m.txs[i]
      /\ \A i \in pos..(k - 1) : s[i] = m.txs[i + 1]
  BY <1>2, RemoveAtElements
<1> HIDE DEF s, c
<1>7. n = [m EXCEPT !.txs = s, !.txsMap = m.txsMap \ {tx},
                    !.txsBytes = m.txsBytes - TxSize[tx], !.cache = c]
  BY <1>1 DEF removeTx, s, c, Mems
<1> HIDE DEF n, tx
<1>8. /\ n \in Mems /\ n.panicked = FALSE /\ n.txs = s
      /\ n.txsMap = m.txsMap \ {tx} /\ n.cache = c
      /\ SameRecheck(m, n) /\ SameSignal(m, n)
  <2>1. /\ m.txsMap \ {tx} \in SUBSET Txs
        /\ m.txsBytes - TxSize[tx] \in Int
    BY <1>1, <1>4 DEF Mems
  <2>2. n \in Mems
    BY <1>1, <1>5, <1>6, <1>7, <2>1 DEF Mems
  <2> QED
    BY <1>1, <1>7, <2>2 DEF Mems, SameRecheck, SameSignal
<1>9. ASSUME NEW t \in m.txsMap, t # tx
      PROVE  \E i \in DOMAIN s : s[i].tx = t
  <2>1. PICK j \in 1..k : m.txs[j].tx = t
    BY <1>1, <1>2 DEF Mapped
  <2>2. j \in DOMAIN m.txs \ {pos}
    BY <1>2, <1>9, <2>1 DEF tx
  <2>3. \A l \in DOMAIN m.txs \ {pos} :
          \E i \in DOMAIN RemoveAt(m.txs, pos) :
            RemoveAt(m.txs, pos)[i] = m.txs[l]
    BY <1>2, RemoveAtKeeps
  <2>4. \E i \in DOMAIN s : s[i] = m.txs[j]
    BY <2>2, <2>3 DEF s
  <2> QED
    BY <2>1, <2>4
<1>10. Mapped(n)
  BY <1>8, <1>9 DEF Mapped
<1> QED
  BY <1>6, <1>8, <1>10 DEF MemOK, n, c, tx

\* notifyTxsAvailable sets the flag, and sends if it was not set.
LEMMA NotifyIs ==
  ASSUME NEW m, MemOK(m), m.txs # << >>
  PROVE  LET n == notifyTxsAvailable(m)
         IN  /\ MemOK(n) /\ SameRecheck(m, n)
             /\ n.cache = m.cache /\ n.txsMap = m.txsMap /\ n.txs = m.txs
             /\ n.notifiedTxsAvailable = TRUE
             /\ n.txsAvailable = IF m.notifiedTxsAvailable THEN m.txsAvailable
                                 ELSE 1
<1> DEFINE n == notifyTxsAvailable(m)
           a == IF m.notifiedTxsAvailable THEN m.txsAvailable ELSE 1
<1>1. m \in Mems /\ a \in {0, 1}
  BY DEF MemOK, Mems
<1>2. n = [m EXCEPT !.notifiedTxsAvailable = TRUE, !.txsAvailable = a]
  BY <1>1 DEF notifyTxsAvailable, Mems
<1> HIDE DEF n, a
<1>3. n \in Mems /\ n.panicked = m.panicked /\ n.txs = m.txs
      /\ n.txsMap = m.txsMap /\ n.cache = m.cache /\ SameRecheck(m, n)
      /\ n.notifiedTxsAvailable = TRUE /\ n.txsAvailable = a
  BY <1>1, <1>2 DEF Mems, SameRecheck
<1> QED
  BY <1>3 DEF MemOK, Mapped, n, a

-----------------------------------------------------------------------------
(* The elements of the map, and a block                                    *)

\* The element of a transaction in the map is one of the list.
LEMMA ElementOfIs ==
  ASSUME NEW m, MemOK(m), NEW tx \in m.txsMap
  PROVE  ElementOf(m, tx) \in 1..Len(m.txs) /\ m.txs[ElementOf(m, tx)].tx = tx
<1> DEFINE n == Len(m.txs)
           I == {i \in 1..n : m.txs[i].tx = tx}
<1>1. m.txs \in Seq(Elements) /\ n \in Nat /\ DOMAIN m.txs = 1..n
  BY DEF MemOK, Mems
<1>2. I # {}
  BY <1>1 DEF MemOK, Mapped
<1>3. ElementOf(m, tx) = Max(I)
  BY <1>2 DEF ElementOf, SelectLastInSeq
<1>4. \E x \in I : \A y \in I : x >= y
  <2>1. I \in SUBSET Nat /\ \A x \in I : x <= n
    BY <1>1
  <2> HIDE DEF I
  <2> QED
    BY <1>1, <1>2, <2>1, GreatestExists
<1>5. Max(I) \in I
  BY <1>4 DEF Max
<1> QED
  BY <1>3, <1>5

\* A sender is added to an element of the list.
LEMMA RecordSenderIs ==
  ASSUME NEW m, MemOK(m), NEW tx, NEW sender \in Nat
  PROVE  LET n == RecordSender(m, tx, sender)
         IN  /\ MemOK(n) /\ SameRecheck(m, n) /\ SameSignal(m, n)
             /\ n.cache = m.cache /\ n.txsMap = m.txsMap
             /\ Len(n.txs) = Len(m.txs)
             /\ \A i \in DOMAIN m.txs : n.txs[i].tx = m.txs[i].tx
<1> DEFINE n == RecordSender(m, tx, sender)
           pos == ElementOf(m, tx)
           e == [m.txs[pos] EXCEPT !.senders = @ \cup {sender}]
           s == [m.txs EXCEPT ![pos] = e]
<1>1. CASE tx \notin m.txsMap
  <2>1. n = m
    BY <1>1 DEF RecordSender
  <2> HIDE DEF n
  <2>2. /\ MemOK(n) /\ SameRecheck(m, n) /\ SameSignal(m, n)
        /\ n.cache = m.cache /\ n.txsMap = m.txsMap
        /\ Len(n.txs) = Len(m.txs)
        /\ \A i \in DOMAIN m.txs : n.txs[i].tx = m.txs[i].tx
    BY <2>1 DEF SameRecheck, SameSignal
  <2> QED
    BY <2>2 DEF n
<1>2. CASE tx \in m.txsMap
  <2>1. m \in Mems /\ m.panicked = FALSE /\ Mapped(m)
    BY DEF MemOK
  <2>2. pos \in 1..Len(m.txs) /\ m.txs \in Seq(Elements)
    BY <1>2, <2>1, ElementOfIs DEF Mems
  <2>3. m.txs[pos] \in Elements
    BY <2>2
  <2>4. n = [m EXCEPT !.txs = s]
    BY <1>2, <2>1, <2>2 DEF RecordSender, Mems
  <2> HIDE DEF n, pos
  <2>5. e \in Elements /\ e.tx = m.txs[pos].tx
    BY <2>3 DEF Elements
  <2> HIDE DEF e
  <2>6. /\ s \in Seq(Elements) /\ Len(s) = Len(m.txs)
        /\ DOMAIN s = DOMAIN m.txs
        /\ \A i \in DOMAIN m.txs : s[i].tx = m.txs[i].tx
    BY <2>2, <2>5
  <2> HIDE DEF s
  <2>7. /\ n \in Mems /\ n.panicked = FALSE /\ n.txs = s
        /\ n.txsMap = m.txsMap /\ n.cache = m.cache
        /\ SameRecheck(m, n) /\ SameSignal(m, n)
    BY <2>1, <2>4, <2>6 DEF Mems, SameRecheck, SameSignal
  <2>8. Mapped(n)
    BY <2>1, <2>6, <2>7 DEF Mapped
  <2> QED
    BY <2>6, <2>7, <2>8 DEF MemOK, n
<1> QED
  BY <1>1, <1>2

Deliveries == [tx : Txs, ok : BOOLEAN]

\* What a committed transaction does: it is removed from the list, if it is in
\* the map, and the cache changes.
LEMMA UpdateTxIs ==
  ASSUME config \in Configs, NEW m, MemOK(m), NEW d \in Deliveries
  PROVE  LET n == UpdateTx(m, d)
         IN  MemOK(n) /\ SameRecheck(m, n) /\ SameSignal(m, n)
<1> DEFINE c == CASE d.ok -> CachePush(m.cache, d.tx)
                  [] ~d.ok /\ ~config.KeepInvalidTxsInCache ->
                       CacheRemove(m.cache, d.tx)
                  [] OTHER -> m.cache
           k == [m EXCEPT !.cache = c]
           pos == ElementOf(m, d.tx)
           r == removeTx(k, pos, FALSE)
<1>1. m.cache \in Seq(Txs) /\ d.tx \in Txs
  BY DEF MemOK, Mems, Deliveries
<1>2. c \in Seq(Txs)
  <2>1. /\ CachePush(m.cache, d.tx) \in Seq(Txs)
        /\ CacheRemove(m.cache, d.tx) \in Seq(Txs)
    BY <1>1, CachePushType, CacheRemoveType
  <2>2. \/ c = CachePush(m.cache, d.tx)
        \/ c = CacheRemove(m.cache, d.tx)
        \/ c = m.cache
    OBVIOUS
  <2> QED
    BY <1>1, <2>1, <2>2
<1>3. UpdateTx(m, d) = IF d.tx \in m.txsMap THEN r ELSE k
  BY DEF UpdateTx
<1> HIDE DEF c
<1>4. /\ MemOK(k) /\ SameRecheck(m, k) /\ SameSignal(m, k)
      /\ k.txs = m.txs
  BY <1>2, CacheIs
<1> HIDE DEF k
<1>5. CASE d.tx \in m.txsMap
  <2>1. pos \in 1..Len(k.txs)
    BY <1>4, <1>5, ElementOfIs
  <2> HIDE DEF pos
  <2>2. MemOK(r) /\ SameRecheck(k, r) /\ SameSignal(k, r)
    BY <1>4, <2>1, RemoveTxIs
  <2> HIDE DEF r
  <2>3. SameRecheck(m, r) /\ SameSignal(m, r)
    BY <1>4, <2>2 DEF SameRecheck, SameSignal
  <2> QED
    BY <1>3, <1>5, <2>2, <2>3
<1>6. CASE d.tx \notin m.txsMap
  BY <1>3, <1>4, <1>6
<1> QED
  BY <1>5, <1>6

\* g holds the mempool after each of the first n transactions of a block.
Updates(g, m, block, n) ==
  g = [i \in 0..n |-> IF i = 0 THEN m ELSE UpdateTx(g[i-1], block[i])]

\* The loop over the block runs to its end.
LEMMA UpdatesExists ==
  ASSUME NEW m, NEW block, NEW n \in Nat
  PROVE  \E g : Updates(g, m, block, n)
<1> DEFINE Bad == {k \in Nat : ~ \E g : Updates(g, m, block, k)}
<1> SUFFICES ASSUME Bad # {} PROVE FALSE
  OBVIOUS
<1>1. Bad \in SUBSET Nat
  OBVIOUS
<1> HIDE DEF Bad
<1>2. PICK l \in Bad : \A k \in Bad : l <= k
  BY <1>1, LeastExists
<1>3. l \in Nat
  BY <1>1
<1> USE DEF Bad
<1>4. CASE l = 0
  <2> DEFINE h == [i \in 0..0 |-> m]
  <2>1. h = [i \in 0..0 |-> IF i = 0 THEN m ELSE UpdateTx(h[i-1], block[i])]
    OBVIOUS
  <2>2. Updates(h, m, block, 0)
    BY <2>1 DEF Updates
  <2> QED
    BY <2>2, <1>4
<1>5. CASE l > 0
  <2>1. l - 1 \in Nat /\ l - 1 \notin Bad
    BY <1>2, <1>3, <1>5
  <2>2. PICK g : Updates(g, m, block, l - 1)
    BY <2>1
  <2> DEFINE e == UpdateTx(g[l-1], block[l])
             h == [i \in 0..l |-> IF i < l THEN g[i] ELSE e]
  <2>3. ASSUME NEW i \in 0..l
        PROVE  h[i] = IF i = 0 THEN m ELSE UpdateTx(h[i-1], block[i])
    <3>1. CASE i < l
      <4>1. i \in 0..(l-1) /\ h[i] = g[i]
        BY <3>1, <1>3
      <4>2. i # 0 => h[i-1] = g[i-1]
        BY <3>1, <1>3
      <4>3. g[i] = IF i = 0 THEN m ELSE UpdateTx(g[i-1], block[i])
        BY <2>2, <4>1 DEF Updates
      <4> HIDE DEF h
      <4> QED
        BY <4>1, <4>2, <4>3
    <3>2. CASE i = l
      <4>1. h[l-1] = g[l-1] /\ h[l] = e /\ l # 0
        BY <1>3, <1>5
      <4> HIDE DEF h
      <4> QED
        BY <4>1, <3>2
    <3> QED
      BY <3>1, <3>2, <1>3
  <2>4. h = [i \in 0..l |-> h[i]]
    OBVIOUS
  <2> HIDE DEF h
  <2>5. Updates(h, m, block, l)
    BY <2>3, <2>4 DEF Updates
  <2> QED
    BY <2>5
<1> QED
  BY <1>3, <1>4, <1>5

\* What Update does to the list is a chain of such steps.
LEMMA UpdateTxsIs ==
  ASSUME NEW m, NEW block \in Seq(Deliveries)
  PROVE  \E g : /\ g[0] = m
                /\ \A i \in 1..Len(block) : g[i] = UpdateTx(g[i-1], block[i])
                /\ UpdateTxs(m, block) = g[Len(block)]
<1> DEFINE n == Len(block)
           after == CHOOSE g : g = [i \in 0..n |->
                      IF i = 0 THEN m ELSE UpdateTx(g[i-1], block[i])]
<1>1. n \in Nat
  OBVIOUS
<1>2. UpdateTxs(m, block) = after[n]
  BY DEF UpdateTxs
<1>3. PICK g : Updates(g, m, block, n)
  BY <1>1, UpdatesExists
<1>4. Updates(after, m, block, n)
  BY <1>3 DEF Updates
<1> HIDE DEF after
<1>5. /\ after[0] = m
      /\ \A i \in 1..n : after[i] = UpdateTx(after[i-1], block[i])
  BY <1>1, <1>4 DEF Updates
<1> QED
  BY <1>2, <1>5

\* A block leaves the recheck and the signal alone.
LEMMA UpdateTxsKeeps ==
  ASSUME config \in Configs, NEW m, MemOK(m), NEW block \in Seq(Deliveries)
  PROVE  LET n == UpdateTxs(m, block)
         IN  MemOK(n) /\ SameRecheck(m, n) /\ SameSignal(m, n)
<1> DEFINE k == Len(block)
<1>1. PICK g : /\ g[0] = m
               /\ \A i \in 1..k : g[i] = UpdateTx(g[i-1], block[i])
               /\ UpdateTxs(m, block) = g[k]
  BY UpdateTxsIs
<1>2. k \in Nat /\ \A i \in 1..k : block[i] \in Deliveries
  OBVIOUS
<1> HIDE DEF k
<1> DEFINE Good(n) == MemOK(n) /\ SameRecheck(m, n) /\ SameSignal(m, n)
           Bad == {i \in 0..k : ~Good(g[i])}
<1>3. Bad = {}
  <2> SUFFICES ASSUME Bad # {} PROVE FALSE
    OBVIOUS
  <2>1. Bad \in SUBSET Nat
    BY <1>2
  <2> HIDE DEF Bad
  <2>2. PICK l \in Bad : \A i \in Bad : l <= i
    BY <2>1, LeastExists
  <2> USE DEF Bad
  <2>3. Good(m)
    BY DEF SameRecheck, SameSignal
  <2>4. l \in 0..k /\ ~Good(g[l]) /\ l # 0
    BY <1>1, <2>2, <2>3
  <2>5. l \in 1..k /\ l - 1 \in 0..k /\ ~(l <= l - 1)
    BY <1>2, <2>4
  <2>6. Good(g[l-1])
    BY <2>2, <2>5
  <2>7. /\ MemOK(UpdateTx(g[l-1], block[l]))
        /\ SameRecheck(g[l-1], UpdateTx(g[l-1], block[l]))
        /\ SameSignal(g[l-1], UpdateTx(g[l-1], block[l]))
    BY <1>2, <2>5, <2>6, UpdateTxIs
  <2>8. MemOK(g[l]) /\ SameRecheck(g[l-1], g[l]) /\ SameSignal(g[l-1], g[l])
    BY <1>1, <2>5, <2>7
  <2>9. SameRecheck(m, g[l]) /\ SameSignal(m, g[l])
    BY <2>6, <2>8 DEF SameRecheck, SameSignal
  <2> QED
    BY <2>4, <2>8, <2>9
<1>4. Good(g[k])
  BY <1>2, <1>3
<1> QED
  BY <1>1, <1>4

-----------------------------------------------------------------------------
(* The invariant of the requests                                           *)

\* Request r comes from a caller that has added its transaction and has not
\* told the consensus yet.
Telling(r) == r.recheck = FALSE /\ r.stage \in {"added", "telling"}

\* While a recheck is under way, the first requests are those for the elements
\* from the cursor to the end of the list, in this order, and no other one is a
\* recheck; a local application has no other one at all.
RechecksFollow(m, rs) ==
  LET n == Len(m.txs) - m.recheckCursor + 1
  IN  /\ m.recheckCursor \in 1..Len(m.txs)
      /\ m.recheckEnd = Len(m.txs)
      /\ n <= Len(rs)
      /\ \A i \in 1..n : /\ rs[i].recheck = TRUE
                         /\ rs[i].tx = m.txs[m.recheckCursor + i - 1].tx
      /\ \A i \in (n + 1)..Len(rs) : rs[i].recheck = FALSE
      /\ config.Local => Len(rs) = n

RecheckOK(m, rs) ==
  IF m.recheckCursor = 0
  THEN \A i \in DOMAIN rs : rs[i].recheck = FALSE
  ELSE RechecksFollow(m, rs)

\* Only the callers of a local application go beyond "asked", and nothing is
\* removed while one of them has yet to tell of its transaction.
CallersOK(m, rs) ==
  \A i \in DOMAIN rs : rs[i].recheck = FALSE =>
    /\ rs[i].stage # "asked" => config.Local
    /\ Telling(rs[i]) => m.txs # << >>

\* The consensus has been told, or somebody is about to.
ToldOK(m, rs, t) ==
  /\ m.notifiedTxsAvailable => t \/ m.txsAvailable = 1
  /\ m.txs # << >> /\ m.recheckCursor = 0 =>
       m.notifiedTxsAvailable \/ \E i \in DOMAIN rs : Telling(rs[i])

Requests == Seq(Asking \cup Rechecking)

Safe(m, rs, t) ==
  /\ MemOK(m) /\ rs \in Requests
  /\ RecheckOK(m, rs) /\ CallersOK(m, rs) /\ ToldOK(m, rs, t)

\* A request is a recheck or that of a caller.
LEMMA RequestIs ==
  ASSUME NEW rs \in Requests, NEW i \in DOMAIN rs
  PROVE  /\ rs[i].recheck \in BOOLEAN /\ rs[i].tx \in Txs
         /\ rs[i].recheck = FALSE =>
              /\ rs[i] \in Asking
              /\ rs[i].sender \in Nat /\ rs[i].stage \in Stages
<1>1. rs[i] \in Asking \cup Rechecking
  BY DEF Requests
<1> QED
  BY <1>1 DEF Asking, Rechecking

\* The list is empty iff its length is 0.
LEMMA EmptyIs ==
  ASSUME NEW m, MemOK(m)
  PROVE  /\ m.txs \in Seq(Elements) /\ Len(m.txs) \in Nat
         /\ DOMAIN m.txs = 1..Len(m.txs)
         /\ m.txs = << >> <=> Len(m.txs) = 0
  BY DEF MemOK, Mems

\* When the list keeps its transactions and the flags are as they were, all is
\* as it was.
LEMMA SameIsSafe ==
  ASSUME NEW m, NEW n, NEW rs, NEW t, Safe(m, rs, t), MemOK(n),
         SameRecheck(m, n), SameSignal(m, n), Len(n.txs) = Len(m.txs),
         \A i \in DOMAIN m.txs : n.txs[i].tx = m.txs[i].tx
  PROVE  Safe(n, rs, t)
<1>1. MemOK(m)
  BY DEF Safe
<1>2. (n.txs = << >> <=> m.txs = << >>) /\ DOMAIN m.txs = 1..Len(m.txs)
      /\ Len(m.txs) \in Nat
  BY <1>1, EmptyIs
<1>3. RecheckOK(n, rs)
  <2>1. CASE m.recheckCursor = 0
    BY <2>1 DEF Safe, RecheckOK, SameRecheck
  <2>2. CASE m.recheckCursor # 0
    <3>1. RechecksFollow(m, rs)
      BY <2>2 DEF Safe, RecheckOK
    <3> DEFINE k == Len(m.txs) - m.recheckCursor + 1
    <3>2. m.recheckCursor \in 1..Len(m.txs)
      BY <3>1 DEF RechecksFollow
    <3>3. \A i \in 1..k : m.recheckCursor + i - 1 \in 1..Len(m.txs)
      BY <1>2, <3>2
    <3>4. \A i \in 1..k : n.txs[m.recheckCursor + i - 1].tx =
                            m.txs[m.recheckCursor + i - 1].tx
      BY <1>2, <3>3
    <3>5. n.recheckCursor = m.recheckCursor /\ n.recheckEnd = m.recheckEnd
      BY DEF SameRecheck
    <3>6. RechecksFollow(n, rs)
      BY <3>1, <3>4, <3>5 DEF RechecksFollow
    <3> QED
      BY <2>2, <3>5, <3>6 DEF RecheckOK
  <2> QED
    BY <2>1, <2>2
<1>4. CallersOK(n, rs)
  BY <1>2 DEF Safe, CallersOK
<1>5. ToldOK(n, rs, t)
  BY <1>2 DEF Safe, ToldOK, SameSignal, SameRecheck
<1> QED
  BY <1>3, <1>4, <1>5 DEF Safe

-----------------------------------------------------------------------------
(* CheckTx                                                                 *)

\* A new caller comes behind all requests.
LEMMA AskIsSafe ==
  ASSUME NEW m, NEW rs, NEW t, Safe(m, rs, t), NEW r \in Asking,
         r.stage = "asked", ~(config.Local /\ m.recheckCursor # 0)
  PROVE  Safe(m, Append(rs, r), t)
<1> DEFINE new == Append(rs, r)
           n == Len(rs)
<1>1. /\ new \in Requests /\ Len(new) = n + 1 /\ n \in Nat
      /\ DOMAIN rs = 1..n /\ DOMAIN new = 1..(n + 1)
      /\ \A i \in 1..n : new[i] = rs[i]
      /\ new[n + 1] = r
  BY DEF Safe, Requests
<1>2. r.recheck = FALSE
  BY DEF Asking
<1> HIDE DEF new, n
<1>3. RecheckOK(m, new)
  <2>1. CASE m.recheckCursor = 0
    BY <1>1, <1>2, <2>1 DEF Safe, RecheckOK
  <2>2. CASE m.recheckCursor # 0
    <3> DEFINE k == Len(m.txs) - m.recheckCursor + 1
    <3>1. RechecksFollow(m, rs)
      BY <2>2 DEF Safe, RecheckOK
    <3>2. MemOK(m)
      BY DEF Safe
    <3>3. k \in Nat /\ k <= n
      <4>1. Len(m.txs) \in Nat
        BY <3>2, EmptyIs
      <4> QED
        BY <3>1, <4>1 DEF RechecksFollow, n
    <3>4. \A i \in 1..k : new[i] = rs[i]
      BY <1>1, <3>3
    <3>5. ASSUME NEW i \in (k + 1)..(n + 1) PROVE new[i].recheck = FALSE
      <4>1. CASE i = n + 1
        BY <1>1, <1>2, <4>1
      <4>2. CASE i # n + 1
        <5>1. i \in (k + 1)..n /\ i \in 1..n
          BY <1>1, <3>3, <4>2
        <5>2. rs[i].recheck = FALSE
          BY <3>1, <5>1 DEF RechecksFollow, n
        <5> QED
          BY <1>1, <5>1, <5>2
      <4> QED
        BY <4>1, <4>2
    <3>6. RechecksFollow(m, new)
      <4>1. /\ m.recheckCursor \in 1..Len(m.txs)
            /\ m.recheckEnd = Len(m.txs)
            /\ k <= Len(new)
            /\ config.Local => Len(new) = k
        BY <1>1, <2>2, <3>1, <3>3 DEF RechecksFollow
      <4>2. ASSUME NEW i \in 1..k
            PROVE  /\ new[i].recheck = TRUE
                   /\ new[i].tx = m.txs[m.recheckCursor + i - 1].tx
        BY <3>1, <3>4 DEF RechecksFollow
      <4> QED
        BY <1>1, <3>5, <4>1, <4>2 DEF RechecksFollow
    <3> QED
      BY <2>2, <3>6 DEF RecheckOK
  <2> QED
    BY <2>1, <2>2
<1>4. CallersOK(m, new)
  BY <1>1 DEF Safe, CallersOK, Telling
<1>5. ToldOK(m, new, t)
  <2>1. \A i \in DOMAIN rs : i \in DOMAIN new /\ new[i] = rs[i]
    BY <1>1
  <2> QED
    BY <2>1 DEF Safe, ToldOK
<1> QED
  BY <1>1, <1>3, <1>4, <1>5 DEF Safe, new

\* CheckTx adds a sender, or asks behind all other requests.
LEMMA CheckTxKeeps ==
  ASSUME config \in Configs, Safe(mem, requests, told), NEW tx \in Txs,
         NEW sender \in config.Senders, CheckTx(tx, sender)
  PROVE  Safe(mem', requests', told')
<1> DEFINE pushed == [mem EXCEPT !.cache = CachePush(@, tx)]
           r == [recheck |-> FALSE, tx |-> tx, sender |-> sender,
                 stage |-> "asked"]
<1>1. MemOK(mem) /\ mem.cache \in Seq(Txs) /\ told' = told /\ sender \in Nat
  BY ConfigType DEF Safe, MemOK, Mems, CheckTx
<1>2. /\ MemOK(pushed) /\ SameRecheck(mem, pushed) /\ SameSignal(mem, pushed)
      /\ pushed.txs = mem.txs
  <2> DEFINE c == CachePush(mem.cache, tx)
             p == [mem EXCEPT !.cache = c]
  <2>1. c \in Seq(Txs)
    BY <1>1, CachePushType
  <2> HIDE DEF c
  <2>2. MemOK(p) /\ SameRecheck(mem, p) /\ SameSignal(mem, p)
        /\ p.txs = mem.txs
    BY <1>1, <2>1, CacheIs
  <2>3. pushed = p
    BY <1>1 DEF c, MemOK, Mems
  <2> HIDE DEF p, pushed
  <2> QED
    BY <2>2, <2>3
<1>3. \/ mem' = RecordSender(pushed, tx, sender) /\ requests' = requests
      \/ mem' = pushed /\ requests' = Append(requests, r)
  BY DEF CheckTx
<1> HIDE DEF pushed
<1>4. Safe(pushed, requests, told)
  BY <1>1, <1>2, SameIsSafe
<1>5. CASE mem' = RecordSender(pushed, tx, sender) /\ requests' = requests
  <2> DEFINE n == RecordSender(pushed, tx, sender)
  <2>1. /\ MemOK(n) /\ SameRecheck(pushed, n) /\ SameSignal(pushed, n)
        /\ Len(n.txs) = Len(pushed.txs)
        /\ \A i \in DOMAIN pushed.txs : n.txs[i].tx = pushed.txs[i].tx
    BY <1>1, <1>2, RecordSenderIs
  <2> HIDE DEF n
  <2>2. Safe(n, requests, told)
    BY <1>4, <2>1, SameIsSafe
  <2> QED
    BY <1>1, <1>5, <2>2 DEF n
<1>6. CASE mem' = pushed /\ requests' = Append(requests, r)
  <2>1. r \in Asking /\ r.stage = "asked"
    BY <1>1 DEF Asking, Stages
  <2>2. ~(config.Local /\ pushed.recheckCursor # 0)
    BY <1>2 DEF CheckTx, LocalRecheck, SameRecheck
  <2> HIDE DEF r
  <2>3. Safe(pushed, Append(requests, r), told)
    BY <1>4, <2>1, <2>2, AskIsSafe
  <2> QED
    BY <1>1, <1>6, <2>3
<1> QED
  BY <1>3, <1>5, <1>6

-----------------------------------------------------------------------------
(* The answers of the application                                          *)

\* The requests that are left when the first one is answered.
LEMMA TailIs ==
  ASSUME NEW rs \in Requests, rs # << >>
  PROVE  /\ Tail(rs) \in Requests /\ Len(rs) \in Nat /\ Len(rs) >= 1
         /\ Len(Tail(rs)) = Len(rs) - 1
         /\ DOMAIN Tail(rs) = 1..(Len(rs) - 1) /\ DOMAIN rs = 1..Len(rs)
         /\ \A i \in 1..(Len(rs) - 1) : Tail(rs)[i] = rs[i + 1]
         /\ Head(rs) = rs[1]
  BY DEF Requests

\* What resCbFirstTime does to the list and the flags.
LEMMA ResCbFirstTimeIs ==
  ASSUME NEW m, MemOK(m), NEW req \in Asking, NEW valid \in BOOLEAN
  PROVE  LET n == resCbFirstTime(m, req, valid)
         IN  /\ MemOK(n) /\ SameRecheck(m, n)
             /\ IF valid /\ ~isFull(m, req.tx)
                THEN /\ n.txs # << >>
                     /\ n.notifiedTxsAvailable = TRUE
                     /\ n.txsAvailable = IF m.notifiedTxsAvailable
                                         THEN m.txsAvailable ELSE 1
                ELSE SameSignal(m, n) /\ n.txs = m.txs
<1> DEFINE n == resCbFirstTime(m, req, valid)
           a == addTx(m, req.tx, req.sender)
           c == IF valid THEN CacheRemove(m.cache, req.tx)
                ELSE IF config.KeepInvalidTxsInCache THEN m.cache
                ELSE CacheRemove(m.cache, req.tx)
           k == [m EXCEPT !.cache = c]
<1>1. m \in Mems /\ m.cache \in Seq(Txs) /\ req.tx \in Txs /\ req.sender \in Nat
  BY DEF MemOK, Mems, Asking
<1>2. CASE valid /\ ~isFull(m, req.tx)
  <2>1. n = notifyTxsAvailable(a)
    BY <1>2 DEF resCbFirstTime
  <2>2. /\ MemOK(a) /\ SameRecheck(m, a) /\ SameSignal(m, a)
        /\ Len(a.txs) = Len(m.txs) + 1
    BY <1>1, AddTxIs
  <2> HIDE DEF n, a
  <2>3. a.txs # << >>
    BY <2>2, EmptyIs
  <2>4. /\ MemOK(n) /\ SameRecheck(a, n) /\ n.txs = a.txs
        /\ n.notifiedTxsAvailable = TRUE
        /\ n.txsAvailable = IF a.notifiedTxsAvailable THEN a.txsAvailable
                            ELSE 1
    BY <2>1, <2>2, <2>3, NotifyIs
  <2>5. SameRecheck(m, n)
    BY <2>2, <2>4 DEF SameRecheck
  <2>6. n.txsAvailable = IF m.notifiedTxsAvailable THEN m.txsAvailable ELSE 1
    BY <2>2, <2>4 DEF SameSignal
  <2> QED
    BY <1>2, <2>3, <2>4, <2>5, <2>6 DEF n
<1>3. CASE ~(valid /\ ~isFull(m, req.tx))
  <2>1. n = k
    BY <1>1, <1>3 DEF resCbFirstTime, Mems
  <2>2. c \in Seq(Txs)
    BY <1>1, CacheRemoveType
  <2> HIDE DEF n, c
  <2>3. MemOK(k) /\ SameRecheck(m, k) /\ SameSignal(m, k) /\ k.txs = m.txs
    BY <2>2, CacheIs
  <2> HIDE DEF k
  <2>4. MemOK(n) /\ SameRecheck(m, n) /\ SameSignal(m, n) /\ n.txs = m.txs
    BY <2>1, <2>3
  <2> QED
    BY <1>3, <2>4 DEF n
<1> QED
  BY <1>2, <1>3

\* The answer to a caller of CheckTx over a socket: no recheck is under way.
LEMMA FirstAnswerIsSafe ==
  ASSUME config \in Configs, NEW m, NEW rs, NEW t, Safe(m, rs, t),
         rs # << >>, Head(rs).recheck = FALSE, ~config.Local,
         NEW valid \in BOOLEAN
  PROVE  /\ m.recheckCursor = 0
         /\ Safe(resCbFirstTime(m, Head(rs), valid), Tail(rs), t)
<1> DEFINE req == Head(rs)
           n == resCbFirstTime(m, req, valid)
<1>1. MemOK(m) /\ rs \in Requests
  BY DEF Safe
<1>2. /\ Tail(rs) \in Requests /\ DOMAIN Tail(rs) = 1..(Len(rs) - 1)
      /\ DOMAIN rs = 1..Len(rs) /\ Len(rs) \in Nat /\ Len(rs) >= 1
      /\ \A i \in 1..(Len(rs) - 1) : Tail(rs)[i] = rs[i + 1]
      /\ req = rs[1]
  BY <1>1, TailIs
<1>3. req \in Asking
  <2>1. 1 \in DOMAIN rs
    BY <1>2
  <2> QED
    BY <1>1, <1>2, <2>1, RequestIs
<1>4. m.recheckCursor = 0
  <2> SUFFICES ASSUME m.recheckCursor # 0 PROVE FALSE
    OBVIOUS
  <2>1. RechecksFollow(m, rs)
    BY DEF Safe, RecheckOK
  <2>2. Len(m.txs) \in Nat
    BY <1>1, EmptyIs
  <2>3. 1 \in 1..(Len(m.txs) - m.recheckCursor + 1)
    BY <2>1, <2>2 DEF RechecksFollow
  <2> QED
    BY <1>2, <2>1, <2>3 DEF RechecksFollow
<1>5. \A j \in DOMAIN Tail(rs) : \E i \in DOMAIN rs : Tail(rs)[j] = rs[i]
  <2>1. \A j \in 1..(Len(rs) - 1) : j + 1 \in 1..Len(rs)
    BY <1>2
  <2> QED
    BY <1>2, <2>1
<1>6. /\ MemOK(n) /\ SameRecheck(m, n)
      /\ IF valid /\ ~isFull(m, req.tx)
         THEN /\ n.txs # << >>
              /\ n.notifiedTxsAvailable = TRUE
              /\ n.txsAvailable = IF m.notifiedTxsAvailable
                                  THEN m.txsAvailable ELSE 1
         ELSE SameSignal(m, n) /\ n.txs = m.txs
  BY <1>1, <1>3, ResCbFirstTimeIs
<1> HIDE DEF n
<1>7. RecheckOK(n, Tail(rs))
  BY <1>4, <1>5, <1>6 DEF Safe, RecheckOK, SameRecheck
<1>8. \A i \in DOMAIN rs : ~Telling(rs[i])
  BY DEF Safe, CallersOK, Telling
<1>9. CallersOK(n, Tail(rs))
  BY <1>5, <1>8 DEF Safe, CallersOK
<1>10. ToldOK(n, Tail(rs), t)
  BY <1>4, <1>6, <1>8 DEF Safe, ToldOK, SameSignal
<1> QED
  BY <1>2, <1>4, <1>6, <1>7, <1>9, <1>10 DEF Safe, n

\* The answer to a recheck belongs to the element at the cursor.
LEMMA RecheckAnswerIsSafe ==
  ASSUME config \in Configs, NEW m, NEW rs, NEW t, Safe(m, rs, t),
         rs # << >>, m.recheckCursor # 0, NEW valid \in BOOLEAN
  PROVE  /\ Head(rs).recheck = TRUE
         /\ Safe(resCbRecheck(m, Head(rs), valid), Tail(rs), t)
<1> DEFINE req == Head(rs)
           c == m.recheckCursor
           len == Len(m.txs)
           left == IF valid THEN m
                   ELSE removeTx(m, c, ~config.KeepInvalidTxsInCache)
           next == NextCursor(left, ~valid)
           n == resCbRecheck(m, req, valid)
           rest == Tail(rs)
           k == Len(rs)
<1>1. MemOK(m) /\ rs \in Requests /\ RechecksFollow(m, rs)
  BY DEF Safe, RecheckOK
<1>2. /\ rest \in Requests /\ k \in Nat /\ k >= 1
      /\ Len(rest) = k - 1
      /\ DOMAIN rest = 1..(k - 1) /\ DOMAIN rs = 1..k
      /\ \A i \in 1..(k - 1) : rest[i] = rs[i + 1]
      /\ req = rs[1]
  BY <1>1, TailIs
<1>3. /\ len \in Nat /\ c \in 1..len /\ m.recheckEnd = len
      /\ len - c + 1 <= k
      /\ config.Local => k = len - c + 1
  BY <1>1, EmptyIs DEF RechecksFollow
<1>4. \A i \in 1..(len - c + 1) :
        rs[i].recheck = TRUE /\ rs[i].tx = m.txs[c + i - 1].tx
  BY <1>1 DEF RechecksFollow
<1>5. \A i \in (len - c + 2)..k : rs[i].recheck = FALSE
  <2>1. len - c + 1 + 1 = len - c + 2
    BY <1>3
  <2>2. \A i \in (len - c + 1 + 1)..k : rs[i].recheck = FALSE
    BY <1>1 DEF RechecksFollow
  <2> QED
    BY <2>1, <2>2
<1>6. req.recheck = TRUE /\ req.tx = m.txs[c].tx
  <2>1. 1 \in 1..(len - c + 1) /\ c + 1 - 1 = c
    BY <1>3
  <2>2. rs[1].recheck = TRUE /\ rs[1].tx = m.txs[c + 1 - 1].tx
    BY <1>4, <2>1
  <2> QED
    BY <1>2, <2>1, <2>2
<1>7. n = IF next.recheckCursor = 0 /\ next.txs # << >>
          THEN notifyTxsAvailable(next) ELSE next
  BY <1>6 DEF resCbRecheck
<1>8. /\ MemOK(left) /\ SameRecheck(m, left) /\ SameSignal(m, left)
      /\ Len(left.txs) = IF valid THEN len ELSE len - 1
      /\ \A i \in (c + 1)..len :
           left.txs[IF valid THEN i ELSE i - 1] = m.txs[i]
  <2>1. CASE valid
    <3>1. left = m
      BY <2>1
    <3> HIDE DEF left
    <3> QED
      BY <1>1, <2>1, <3>1 DEF SameRecheck, SameSignal
  <2>2. CASE ~valid
    <3> DEFINE r == removeTx(m, c, ~config.KeepInvalidTxsInCache)
    <3>1. /\ MemOK(r) /\ SameRecheck(m, r) /\ SameSignal(m, r)
          /\ Len(r.txs) = len - 1
          /\ \A i \in c..(len - 1) : r.txs[i] = m.txs[i + 1]
      BY <1>1, <1>3, RemoveTxIs
    <3>2. left = r
      BY <2>2
    <3> HIDE DEF r, left, len, c
    <3>3. \A i \in (c + 1)..len : i - 1 \in c..(len - 1) /\ i - 1 + 1 = i
      BY <1>3
    <3>4. \A i \in (c + 1)..len : r.txs[i - 1] = m.txs[i]
      BY <3>1, <3>3
    <3> QED
      BY <2>2, <3>1, <3>2, <3>4
  <2> QED
    BY <2>1, <2>2
<1> HIDE DEF left
<1>9. left \in Mems /\ left.recheckCursor = c /\ left.recheckEnd = len
  BY <1>3, <1>8 DEF MemOK, SameRecheck
<1>10. CallersOK(left, rest)
  <2>1. ASSUME NEW j \in 1..(k - 1), rest[j].recheck = FALSE
        PROVE  ~config.Local /\ rs[j + 1].recheck = FALSE
               /\ j + 1 \in DOMAIN rs
    <3>1. rest[j] = rs[j + 1] /\ j + 1 \in 1..k
      BY <1>2
    <3>2. j + 1 \notin 1..(len - c + 1)
      BY <1>4, <2>1, <3>1
    <3> QED
      BY <1>2, <1>3, <2>1, <3>1, <3>2
  <2>2. \A j \in 1..(k - 1) : rest[j].recheck = FALSE =>
          ~config.Local /\ rest[j].stage = "asked"
    BY <1>2, <2>1 DEF Safe, CallersOK
  <2> QED
    BY <1>2, <2>2 DEF CallersOK, Telling
<1>11. CASE c = len
  <2> DEFINE z == [left EXCEPT !.recheckCursor = 0]
  <2>1. next = z
    BY <1>9, <1>11 DEF NextCursor
  <2> HIDE DEF next
  <2>2. /\ MemOK(z) /\ SameSignal(left, z) /\ z.recheckCursor = 0
        /\ z.txs = left.txs
    BY <1>8, <1>9 DEF MemOK, Mems, Mapped, SameSignal
  <2> HIDE DEF z
  <2>3. \A j \in 1..(k - 1) : rest[j].recheck = FALSE
    <3>1. \A j \in 1..(k - 1) : j + 1 \in (len - c + 2)..k
      BY <1>2, <1>3, <1>11
    <3> QED
      BY <1>2, <1>5, <3>1
  <2>4. CASE z.txs # << >>
    <3>1. n = notifyTxsAvailable(z)
      BY <1>7, <2>1, <2>2, <2>4
    <3> HIDE DEF n
    <3>2. /\ MemOK(n) /\ SameRecheck(z, n) /\ n.txs = z.txs
          /\ n.notifiedTxsAvailable = TRUE
          /\ n.txsAvailable = IF z.notifiedTxsAvailable THEN z.txsAvailable
                              ELSE 1
      BY <2>2, <2>4, <3>1, NotifyIs
    <3>3. n.recheckCursor = 0
      BY <2>2, <3>2 DEF SameRecheck
    <3>4. RecheckOK(n, rest)
      BY <1>2, <2>3, <3>3 DEF RecheckOK
    <3>5. CallersOK(n, rest)
      BY <1>10, <2>2, <3>2 DEF CallersOK
    <3>6. ToldOK(n, rest, t)
      BY <1>8, <2>2, <3>2 DEF Safe, ToldOK, SameSignal
    <3> QED
      BY <1>2, <1>6, <3>2, <3>4, <3>5, <3>6 DEF Safe, n
  <2>5. CASE z.txs = << >>
    <3>1. n = z
      BY <1>7, <2>1, <2>5
    <3> HIDE DEF n
    <3>2. RecheckOK(n, rest)
      BY <1>2, <2>2, <2>3, <3>1 DEF RecheckOK
    <3>3. CallersOK(n, rest)
      BY <1>10, <2>2, <3>1 DEF CallersOK
    <3>4. ToldOK(n, rest, t)
      BY <1>8, <2>2, <2>5, <3>1 DEF Safe, ToldOK, SameSignal
    <3> QED
      BY <1>2, <1>6, <2>2, <3>1, <3>2, <3>3, <3>4 DEF Safe, n
  <2> QED
    BY <2>4, <2>5
<1>12. CASE c # len
  <2> DEFINE z == IF valid THEN [left EXCEPT !.recheckCursor = c + 1]
                  ELSE [left EXCEPT !.recheckEnd = len - 1]
             zlen == IF valid THEN len ELSE len - 1
             zc == IF valid THEN c + 1 ELSE c
  <2>1. next = z
    BY <1>9, <1>12 DEF NextCursor, Mems
  <2> HIDE DEF next
  <2>2. /\ MemOK(z) /\ SameSignal(left, z)
        /\ z.txs = left.txs
        /\ z.recheckCursor = zc /\ z.recheckEnd = zlen
    <3>1. c + 1 \in Nat /\ len - 1 \in Int
      BY <1>3
    <3>2. z \in Mems
      BY <1>9, <3>1 DEF Mems
    <3> QED
      BY <1>8, <1>9, <3>2 DEF MemOK, Mems, Mapped, SameSignal
  <2> HIDE DEF z
  <2>3. zc # 0 /\ zc \in 1..zlen /\ zlen \in Nat
    BY <1>3, <1>12
  <2>4. n = z
    BY <1>7, <2>1, <2>2, <2>3
  <2> HIDE DEF n
  <2>5. Len(z.txs) = zlen
    BY <1>8, <2>2
  <2>6. zlen - zc + 1 = len - c /\ len - c >= 1 /\ len - c <= k - 1
    BY <1>2, <1>3, <1>12
  <2>7. ASSUME NEW i \in 1..(len - c)
        PROVE  /\ rest[i].recheck = TRUE
               /\ rest[i].tx = z.txs[zc + i - 1].tx
    <3>1. i \in 1..(k - 1) /\ i + 1 \in 1..(len - c + 1)
      BY <1>2, <1>3, <2>6
    <3>2. rest[i] = rs[i + 1]
      BY <1>2, <3>1
    <3>3. rs[i + 1].recheck = TRUE /\ rs[i + 1].tx = m.txs[c + (i + 1) - 1].tx
      BY <1>4, <3>1
    <3>4. c + (i + 1) - 1 = c + i /\ c + i \in (c + 1)..len
      BY <1>3
    <3>5. c \in Nat /\ i \in Nat
      BY <1>3
    <3>6. left.txs[zc + i - 1] = m.txs[c + i]
      <4>1. CASE valid
        <5>1. \A j \in (c + 1)..len : left.txs[j] = m.txs[j]
          BY <1>8, <4>1
        <5> QED
          BY <3>4, <3>5, <4>1, <5>1
      <4>2. CASE ~valid
        <5>1. \A j \in (c + 1)..len : left.txs[j - 1] = m.txs[j]
          BY <1>8, <4>2
        <5>2. left.txs[(c + i) - 1] = m.txs[c + i]
          BY <3>4, <5>1
        <5>3. zc = c
          BY <4>2
        <5> HIDE DEF zc
        <5> HIDE DEF c
        <5> QED
          BY <3>5, <5>2, <5>3
      <4> QED
        BY <4>1, <4>2
    <3> QED
      BY <2>2, <3>2, <3>3, <3>4, <3>6
  <2>8. ASSUME NEW i \in (len - c + 1)..(k - 1)
        PROVE  rest[i].recheck = FALSE
    <3>1. i \in 1..(k - 1) /\ i + 1 \in (len - c + 2)..k
      BY <1>2, <1>3, <2>6
    <3> QED
      BY <1>2, <1>5, <3>1
  <2>9. config.Local => k - 1 = len - c
    BY <1>2, <1>3
  <2> HIDE DEF zlen, zc
  <2>10. RechecksFollow(z, rest)
    <3>1. Len(z.txs) - z.recheckCursor + 1 = len - c
      BY <2>2, <2>5, <2>6
    <3>2. z.recheckCursor \in 1..Len(z.txs) /\ z.recheckEnd = Len(z.txs)
      BY <2>2, <2>3, <2>5
    <3>3. \A i \in 1..(len - c) :
            /\ rest[i].recheck = TRUE
            /\ rest[i].tx = z.txs[z.recheckCursor + i - 1].tx
      BY <2>2, <2>7
    <3> QED
      BY <1>2, <2>6, <2>8, <2>9, <3>1, <3>2, <3>3 DEF RechecksFollow
  <2>11. RecheckOK(z, rest)
    BY <2>2, <2>3, <2>10 DEF RecheckOK
  <2>12. CallersOK(z, rest)
    BY <1>10, <2>2 DEF CallersOK
  <2>13. ToldOK(z, rest, t)
    BY <1>8, <2>2, <2>3 DEF Safe, ToldOK, SameSignal
  <2> QED
    BY <1>2, <1>6, <2>2, <2>4, <2>11, <2>12, <2>13 DEF Safe, n
<1> QED
  BY <1>11, <1>12

\* An answer over a socket, or to a recheck.
LEMMA ResponseKeeps ==
  ASSUME config \in Configs, Safe(mem, requests, told),
         NEW valid \in BOOLEAN, Response(valid)
  PROVE  Safe(mem', requests', told')
<1> DEFINE req == Head(requests)
           after == globalCb(mem, req, valid)
<1>1. /\ requests # << >> /\ requests' = Tail(requests) /\ told' = told
      /\ config.Local => req.recheck
      /\ mem' = IF ~req.recheck /\ ~after.panicked
                THEN reqResCb(after, req, valid) ELSE after
  BY DEF Response
<1>2. requests \in Requests /\ MemOK(mem)
  BY DEF Safe
<1>3. req = requests[1] /\ req.recheck \in BOOLEAN
  <2>1. req = requests[1] /\ 1 \in DOMAIN requests
    BY <1>1, <1>2, TailIs
  <2> QED
    BY <1>2, <2>1, RequestIs
<1>4. CASE mem.recheckCursor # 0
  <2>1. /\ req.recheck = TRUE
        /\ Safe(resCbRecheck(mem, req, valid), Tail(requests), told)
    BY <1>1, <1>4, RecheckAnswerIsSafe
  <2>2. after = resCbRecheck(mem, req, valid)
    BY <1>4 DEF globalCb
  <2> HIDE DEF after
  <2> QED
    BY <1>1, <2>1, <2>2
<1>5. CASE mem.recheckCursor = 0
  <2>1. after = mem
    BY <1>5 DEF globalCb
  <2> HIDE DEF after
  <2>2. req.recheck = FALSE
    <3>1. 1 \in DOMAIN requests
      BY <1>1, <1>2, TailIs
    <3> QED
      BY <1>3, <1>5, <3>1 DEF Safe, RecheckOK
  <2>3. Safe(resCbFirstTime(mem, req, valid), Tail(requests), told)
    BY <1>1, <2>2, FirstAnswerIsSafe
  <2>4. mem' = resCbFirstTime(mem, req, valid)
    BY <1>1, <1>2, <1>5, <2>1, <2>2 DEF reqResCb, MemOK
  <2> QED
    BY <1>1, <2>3, <2>4
<1> QED
  BY <1>4, <1>5

-----------------------------------------------------------------------------
(* The callers of a local application                                      *)

\* While somebody is in CheckTx, a local application is not asked again.
LEMMA NoLocalRecheck ==
  ASSUME NEW m, NEW rs, NEW t, Safe(m, rs, t), config.Local,
         NEW i \in DOMAIN rs, rs[i].recheck = FALSE
  PROVE  /\ m.recheckCursor = 0
         /\ \A j \in DOMAIN rs : rs[j].recheck = FALSE
<1>1. m.recheckCursor = 0
  <2> SUFFICES ASSUME m.recheckCursor # 0 PROVE FALSE
    OBVIOUS
  <2>1. RechecksFollow(m, rs) /\ rs \in Requests
    BY DEF Safe, RecheckOK
  <2>2. i \in 1..Len(rs)
    BY <2>1 DEF Requests
  <2> QED
    BY <2>1, <2>2 DEF RechecksFollow
<1> QED
  BY <1>1 DEF Safe, RecheckOK

\* A caller comes to its next step.
LEMMA StageIs ==
  ASSUME NEW rs \in Requests, NEW i \in DOMAIN rs, rs[i].recheck = FALSE,
         NEW st \in Stages
  PROVE  LET new == [rs EXCEPT ![i].stage = st]
         IN  /\ new \in Requests /\ DOMAIN new = DOMAIN rs
             /\ new[i].recheck = FALSE /\ new[i].stage = st
             /\ new[i].tx = rs[i].tx
             /\ \A j \in DOMAIN rs : j # i => new[j] = rs[j]
<1> DEFINE r == [rs[i] EXCEPT !.stage = st]
           new == [rs EXCEPT ![i] = r]
<1>1. rs[i] \in Asking
  BY RequestIs
<1>2. /\ r \in Asking /\ r.recheck = FALSE /\ r.stage = st
      /\ r.tx = rs[i].tx
  BY <1>1 DEF Asking
<1> HIDE DEF r
<1>3. new \in Requests /\ DOMAIN new = DOMAIN rs
  BY <1>2 DEF Requests
<1>4. new[i] = r /\ \A j \in DOMAIN rs : j # i => new[j] = rs[j]
  OBVIOUS
<1>5. [rs EXCEPT ![i].stage = st] = new
  BY DEF r
<1> HIDE DEF new
<1> QED
  BY <1>2, <1>3, <1>4, <1>5

\* A caller that returns leaves the requests.
LEMMA ReturnIs ==
  ASSUME NEW rs \in Requests, NEW i \in DOMAIN rs
  PROVE  LET new == RemoveAt(rs, i)
         IN  /\ new \in Requests
             /\ \A j \in DOMAIN new : \E l \in DOMAIN rs \ {i} : new[j] = rs[l]
             /\ \A l \in DOMAIN rs \ {i} : \E j \in DOMAIN new : new[j] = rs[l]
<1>1. rs \in Seq(Asking \cup Rechecking) /\ i \in 1..Len(rs)
  BY DEF Requests
<1>2. RemoveAt(rs, i) \in Seq(Asking \cup Rechecking)
  BY <1>1, RemoveAtElements
<1>3. /\ \A j \in DOMAIN RemoveAt(rs, i) :
           \E l \in DOMAIN rs \ {i} : RemoveAt(rs, i)[j] = rs[l]
      /\ \A l \in DOMAIN rs \ {i} :
           \E j \in DOMAIN RemoveAt(rs, i) : RemoveAt(rs, i)[j] = rs[l]
  BY <1>1, RemoveAtKeeps
<1> QED
  BY <1>2, <1>3 DEF Requests

\* A caller goes on to add its transaction, or returns.
LEMMA LocalAnswerKeeps ==
  ASSUME config \in Configs, Safe(mem, requests, told),
         NEW i \in DOMAIN requests, NEW valid \in BOOLEAN,
         LocalAnswer(i, valid)
  PROVE  Safe(mem', requests', told')
<1>1. /\ config.Local /\ told' = told /\ requests[i].stage = "asked"
      /\ requests \in Requests /\ MemOK(mem)
      /\ ~requests[i].recheck
  BY DEF LocalAnswer, LocalCaller, Safe
<1>2. requests[i].recheck = FALSE /\ requests[i] \in Asking
  BY <1>1, RequestIs
<1>3. /\ mem.recheckCursor = 0
      /\ \A j \in DOMAIN requests : requests[j].recheck = FALSE
  BY <1>1, <1>2, NoLocalRecheck
<1>4. CASE valid /\ ~isFull(mem, requests[i].tx)
  <2> DEFINE new == [requests EXCEPT ![i].stage = "adding"]
  <2>1. requests' = new /\ mem' = mem
    BY <1>4 DEF LocalAnswer
  <2>2. /\ new \in Requests /\ DOMAIN new = DOMAIN requests
        /\ new[i].recheck = FALSE /\ new[i].stage = "adding"
        /\ \A j \in DOMAIN requests : j # i => new[j] = requests[j]
    BY <1>1, <1>2, StageIs DEF Stages
  <2> HIDE DEF new
  <2>3. RecheckOK(mem, new)
    BY <1>3, <2>2 DEF RecheckOK
  <2>4. CallersOK(mem, new)
    BY <1>1, <2>2 DEF Safe, CallersOK, Telling
  <2>5. ToldOK(mem, new, told)
    BY <1>1, <2>2 DEF Safe, ToldOK, Telling
  <2> QED
    BY <1>1, <2>1, <2>2, <2>3, <2>4, <2>5 DEF Safe
<1>5. CASE ~(valid /\ ~isFull(mem, requests[i].tx))
  <2> DEFINE new == RemoveAt(requests, i)
             n == resCbFirstTime(mem, requests[i], valid)
  <2>1. requests' = new /\ mem' = n
    BY <1>5 DEF LocalAnswer
  <2>2. /\ new \in Requests
        /\ \A j \in DOMAIN new :
             \E l \in DOMAIN requests \ {i} : new[j] = requests[l]
        /\ \A l \in DOMAIN requests \ {i} :
             \E j \in DOMAIN new : new[j] = requests[l]
    BY <1>1, ReturnIs
  <2>3. MemOK(n) /\ SameRecheck(mem, n) /\ SameSignal(mem, n)
        /\ n.txs = mem.txs
    BY <1>1, <1>2, <1>5, ResCbFirstTimeIs
  <2> HIDE DEF new, n
  <2>4. RecheckOK(n, new)
    BY <1>3, <2>2, <2>3 DEF RecheckOK, SameRecheck
  <2>5. CallersOK(n, new)
    BY <2>2, <2>3 DEF Safe, CallersOK
  <2>6. ToldOK(n, new, told)
    BY <1>1, <2>2, <2>3 DEF Safe, ToldOK, Telling, SameSignal, SameRecheck
  <2> QED
    BY <1>1, <2>1, <2>2, <2>3, <2>4, <2>5, <2>6 DEF Safe
<1> QED
  BY <1>4, <1>5

\* A caller that has added its transaction has to tell of it.
LEMMA LocalAddTxKeeps ==
  ASSUME config \in Configs, Safe(mem, requests, told),
         NEW i \in DOMAIN requests, LocalAddTx(i)
  PROVE  Safe(mem', requests', told')
<1>1. /\ config.Local /\ told' = told
      /\ requests \in Requests /\ MemOK(mem)
      /\ ~requests[i].recheck
  BY DEF LocalAddTx, LocalCaller, Safe
<1>2. /\ requests[i].recheck = FALSE /\ requests[i] \in Asking
      /\ requests[i].tx \in Txs /\ requests[i].sender \in Nat
  BY <1>1, RequestIs
<1>3. /\ mem.recheckCursor = 0
      /\ \A j \in DOMAIN requests : requests[j].recheck = FALSE
  BY <1>1, <1>2, NoLocalRecheck
<1> DEFINE new == [requests EXCEPT ![i].stage = "added"]
           n == addTx(mem, requests[i].tx, requests[i].sender)
<1>4. requests' = new /\ mem' = n
  BY DEF LocalAddTx
<1>5. /\ new \in Requests /\ DOMAIN new = DOMAIN requests
      /\ new[i].recheck = FALSE /\ new[i].stage = "added"
      /\ \A j \in DOMAIN requests : j # i => new[j] = requests[j]
  BY <1>1, <1>2, StageIs DEF Stages
<1>6. /\ MemOK(n) /\ SameRecheck(mem, n) /\ SameSignal(mem, n)
      /\ Len(n.txs) = Len(mem.txs) + 1
  BY <1>1, <1>2, AddTxIs
<1> HIDE DEF new, n
<1>7. n.txs # << >>
  BY <1>1, <1>6, EmptyIs
<1>8. RecheckOK(n, new)
  BY <1>3, <1>5, <1>6 DEF RecheckOK, SameRecheck
<1>9. CallersOK(n, new)
  BY <1>1, <1>7 DEF CallersOK
<1>10. ToldOK(n, new, told)
  BY <1>5, <1>6 DEF Safe, ToldOK, Telling, SameSignal
<1> QED
  BY <1>1, <1>4, <1>5, <1>6, <1>8, <1>9, <1>10 DEF Safe

\* A caller returns only if somebody has set the flag.
LEMMA LocalReadNotifiedKeeps ==
  ASSUME config \in Configs, Safe(mem, requests, told),
         NEW i \in DOMAIN requests, LocalReadNotified(i)
  PROVE  Safe(mem', requests', told')
<1>1. /\ config.Local /\ told' = told
      /\ requests \in Requests /\ MemOK(mem)
      /\ ~requests[i].recheck /\ requests[i].stage = "added"
  BY DEF LocalReadNotified, LocalCaller, Safe
<1>2. requests[i].recheck = FALSE
  BY <1>1, RequestIs
<1>3. /\ mem.recheckCursor = 0
      /\ \A j \in DOMAIN requests : requests[j].recheck = FALSE
  BY <1>1, <1>2, NoLocalRecheck
<1>4. mem.txs # << >>
  BY <1>1, <1>2 DEF Safe, CallersOK, Telling
<1>5. mem' = mem
  BY <1>4 DEF LocalReadNotified
<1>6. CASE mem.notifiedTxsAvailable
  <2> DEFINE new == RemoveAt(requests, i)
  <2>1. requests' = new
    BY <1>6 DEF LocalReadNotified
  <2>2. /\ new \in Requests
        /\ \A j \in DOMAIN new :
             \E l \in DOMAIN requests \ {i} : new[j] = requests[l]
    BY <1>1, ReturnIs
  <2> HIDE DEF new
  <2>3. RecheckOK(mem, new)
    BY <1>3, <2>2 DEF RecheckOK
  <2>4. CallersOK(mem, new)
    BY <2>2 DEF Safe, CallersOK
  <2>5. ToldOK(mem, new, told)
    BY <1>6 DEF Safe, ToldOK
  <2> QED
    BY <1>1, <1>5, <2>1, <2>2, <2>3, <2>4, <2>5 DEF Safe
<1>7. CASE ~mem.notifiedTxsAvailable
  <2> DEFINE new == [requests EXCEPT ![i].stage = "telling"]
  <2>1. requests' = new
    BY <1>7 DEF LocalReadNotified
  <2>2. /\ new \in Requests /\ DOMAIN new = DOMAIN requests
        /\ new[i].recheck = FALSE /\ new[i].stage = "telling"
        /\ \A j \in DOMAIN requests : j # i => new[j] = requests[j]
    BY <1>1, <1>2, StageIs DEF Stages
  <2> HIDE DEF new
  <2>3. RecheckOK(mem, new)
    BY <1>3, <2>2 DEF RecheckOK
  <2>4. CallersOK(mem, new)
    BY <1>1, <1>4 DEF CallersOK
  <2>5. ToldOK(mem, new, told)
    BY <1>7, <2>2 DEF ToldOK, Telling
  <2> QED
    BY <1>1, <1>5, <2>1, <2>2, <2>3, <2>4, <2>5 DEF Safe
<1> QED
  BY <1>6, <1>7

\* A caller that tells leaves a signal in the channel.
LEMMA LocalNotifyKeeps ==
  ASSUME config \in Configs, Safe(mem, requests, told),
         NEW i \in DOMAIN requests, LocalNotify(i)
  PROVE  Safe(mem', requests', told')
<1>1. /\ config.Local /\ told' = told
      /\ requests \in Requests /\ MemOK(mem)
      /\ ~requests[i].recheck
  BY DEF LocalNotify, LocalCaller, Safe
<1>2. requests[i].recheck = FALSE
  BY <1>1, RequestIs
<1>3. /\ mem.recheckCursor = 0
      /\ \A j \in DOMAIN requests : requests[j].recheck = FALSE
  BY <1>1, <1>2, NoLocalRecheck
<1> DEFINE new == RemoveAt(requests, i)
           n == [mem EXCEPT !.notifiedTxsAvailable = TRUE, !.txsAvailable = 1]
<1>4. requests' = new /\ mem' = n
  BY DEF LocalNotify
<1>5. /\ new \in Requests
      /\ \A j \in DOMAIN new :
           \E l \in DOMAIN requests \ {i} : new[j] = requests[l]
  BY <1>1, ReturnIs
<1>6. /\ MemOK(n) /\ n.recheckCursor = 0 /\ n.txs = mem.txs
      /\ n.notifiedTxsAvailable = TRUE /\ n.txsAvailable = 1
  BY <1>1, <1>3 DEF MemOK, Mems, Mapped
<1> HIDE DEF new, n
<1>7. RecheckOK(n, new)
  BY <1>3, <1>5, <1>6 DEF RecheckOK
<1>8. CallersOK(n, new)
  BY <1>5, <1>6 DEF Safe, CallersOK
<1>9. ToldOK(n, new, told)
  BY <1>6 DEF ToldOK
<1> QED
  BY <1>1, <1>4, <1>5, <1>6, <1>7, <1>8, <1>9 DEF Safe

-----------------------------------------------------------------------------
(* The consensus                                                           *)

\* The requests that recheckTxs sends follow the list.
LEMMA RecheckRequestsIs ==
  ASSUME NEW m, MemOK(m)
  PROVE  LET rs == RecheckRequests(m)
         IN  /\ rs \in Requests /\ Len(rs) = Len(m.txs)
             /\ DOMAIN rs = 1..Len(m.txs)
             /\ \A i \in 1..Len(m.txs) :
                  rs[i].recheck = TRUE /\ rs[i].tx = m.txs[i].tx
<1> DEFINE rs == RecheckRequests(m)
           len == Len(m.txs)
<1>1. /\ len \in Nat /\ DOMAIN m.txs = 1..len /\ m.txs \in Seq(Elements)
  BY EmptyIs
<1> HIDE DEF len
<1>2. rs = [i \in 1..len |-> [recheck |-> TRUE, tx |-> m.txs[i].tx]]
  BY <1>1 DEF RecheckRequests
<1>3. \A i \in 1..len : m.txs[i] \in Elements
  BY <1>1 DEF len
<1>4. \A i \in 1..len :
        [recheck |-> TRUE, tx |-> m.txs[i].tx] \in Asking \cup Rechecking
  BY <1>3 DEF Rechecking, Elements
<1> HIDE DEF rs
<1>5. rs \in [1..len -> Asking \cup Rechecking]
  BY <1>2, <1>4
<1>6. rs \in Requests /\ Len(rs) = len /\ DOMAIN rs = 1..len
  BY <1>1, <1>5 DEF Requests
<1>7. \A i \in 1..len : rs[i].recheck = TRUE /\ rs[i].tx = m.txs[i].tx
  BY <1>2
<1> QED
  BY <1>6, <1>7 DEF rs, len

\* A block, with the rechecks it asks for.
LEMMA UpdateKeeps ==
  ASSUME config \in Configs, Safe(mem, requests, told), NEW block \in Blocks,
         Update(block)
  PROVE  Safe(mem', requests', told')
<1> DEFINE begun == [mem EXCEPT !.height = @ + 1,
                                !.notifiedTxsAvailable = FALSE]
           left == UpdateTxs(begun, block)
           len == Len(left.txs)
<1>1. /\ MemOK(mem) /\ requests = << >> /\ told' = FALSE
      /\ block \in Seq(Deliveries)
  BY MempoolAssumption DEF Safe, Update, FlushAppConn, Deliveries
<1>2. mem.recheckCursor = 0
  <2> SUFFICES ASSUME mem.recheckCursor # 0 PROVE FALSE
    OBVIOUS
  <2>1. RechecksFollow(mem, requests)
    BY DEF Safe, RecheckOK
  <2>2. Len(mem.txs) \in Nat
    BY <1>1, EmptyIs
  <2> QED
    BY <1>1, <2>1, <2>2 DEF RechecksFollow
<1>3. /\ MemOK(begun) /\ begun.recheckCursor = 0
      /\ begun.notifiedTxsAvailable = FALSE
  <2>1. mem.height + 1 \in Nat
    BY <1>1 DEF MemOK, Mems
  <2> QED
    BY <1>1, <1>2, <2>1 DEF MemOK, Mems, Mapped
<1>4. /\ mem' = CASE config.Recheck /\ left.txs # << >> -> recheckTxs(left)
                  [] ~(config.Recheck /\ left.txs # << >>)
                       /\ left.txs # << >> -> notifyTxsAvailable(left)
                  [] OTHER -> left
      /\ requests' = IF config.Recheck /\ left.txs # << >>
                     THEN requests \o RecheckRequests(left) ELSE requests
  BY DEF Update
<1> HIDE DEF begun
<1>5. MemOK(left) /\ SameRecheck(begun, left) /\ SameSignal(begun, left)
  BY <1>1, <1>3, UpdateTxsKeeps
<1> HIDE DEF left
<1>6. left.recheckCursor = 0 /\ left.notifiedTxsAvailable = FALSE
  BY <1>3, <1>5 DEF SameRecheck, SameSignal
<1>7. << >> \in Requests
  BY DEF Requests
<1>8. CASE config.Recheck /\ left.txs # << >>
  <2> DEFINE n == recheckTxs(left)
             rs == RecheckRequests(left)
  <2>1. mem' = n /\ requests' = << >> \o rs
    BY <1>1, <1>4, <1>8
  <2>2. /\ len \in Nat /\ len # 0 /\ DOMAIN left.txs = 1..len
        /\ left.txs \in Seq(Elements)
    BY <1>5, <1>8, EmptyIs
  <2>3. /\ rs \in Requests /\ Len(rs) = len /\ DOMAIN rs = 1..len
        /\ \A i \in 1..len : rs[i].recheck = TRUE /\ rs[i].tx = left.txs[i].tx
    BY <1>5, RecheckRequestsIs
  <2>4. << >> \o rs = rs
    <3> HIDE DEF rs
    <3> QED
      BY <2>3 DEF Requests
  <2>5. /\ MemOK(n) /\ n.recheckCursor = 1 /\ n.recheckEnd = len
        /\ n.txs = left.txs /\ n.notifiedTxsAvailable = FALSE
    <3> HIDE DEF len
    <3>1. /\ left \in Mems /\ len \in Int /\ 1 \in Nat
          /\ left.panicked = FALSE /\ Mapped(left)
      BY <1>5, <2>2 DEF MemOK
    <3>2. n = [left EXCEPT !.recheckCursor = 1, !.recheckEnd = len]
      BY DEF recheckTxs, len
    <3> HIDE DEF n
    <3>3. /\ n \in Mems /\ n.panicked = FALSE /\ n.txsMap = left.txsMap
          /\ n.recheckCursor = 1 /\ n.recheckEnd = len
          /\ n.txs = left.txs /\ n.notifiedTxsAvailable = FALSE
      BY <1>6, <3>1, <3>2 DEF Mems
    <3> QED
      BY <3>1, <3>3 DEF MemOK, Mapped
  <2> HIDE DEF n, rs
  <2>6. RechecksFollow(n, rs)
    <3>1. Len(n.txs) - n.recheckCursor + 1 = len
      BY <2>2, <2>5
    <3>2. n.recheckCursor \in 1..Len(n.txs)
      BY <2>2, <2>5
    <3>3. \A i \in 1..len : n.recheckCursor + i - 1 = i
      BY <2>2, <2>5
    <3> HIDE DEF len
    <3>4. (len + 1)..Len(rs) = {}
      BY <2>2, <2>3
    <3> QED
      BY <2>2, <2>3, <2>5, <3>1, <3>2, <3>3, <3>4 DEF RechecksFollow, len
  <2>7. RecheckOK(n, rs)
    BY <2>5, <2>6 DEF RecheckOK
  <2>8. CallersOK(n, rs)
    BY <2>3 DEF CallersOK
  <2>9. ToldOK(n, rs, FALSE)
    BY <2>5 DEF ToldOK
  <2> QED
    BY <1>1, <2>1, <2>3, <2>4, <2>5, <2>7, <2>8, <2>9 DEF Safe
<1>9. CASE ~config.Recheck /\ left.txs # << >>
  <2> DEFINE n == notifyTxsAvailable(left)
  <2>1. mem' = n /\ requests' = << >>
    BY <1>1, <1>4, <1>9
  <2>2. /\ MemOK(n) /\ SameRecheck(left, n)
        /\ n.notifiedTxsAvailable = TRUE /\ n.txsAvailable = 1
    BY <1>5, <1>6, <1>9, NotifyIs
  <2> HIDE DEF n
  <2>3. RecheckOK(n, << >>) /\ CallersOK(n, << >>)
    BY <1>6, <2>2 DEF RecheckOK, CallersOK, SameRecheck
  <2>4. ToldOK(n, << >>, FALSE)
    BY <2>2 DEF ToldOK
  <2> QED
    BY <1>1, <1>7, <2>1, <2>2, <2>3, <2>4 DEF Safe
<1>10. CASE left.txs = << >>
  <2>1. mem' = left /\ requests' = << >>
    BY <1>1, <1>4, <1>10
  <2>2. RecheckOK(left, << >>) /\ CallersOK(left, << >>)
    BY <1>6 DEF RecheckOK, CallersOK
  <2>3. ToldOK(left, << >>, FALSE)
    BY <1>6, <1>10 DEF ToldOK
  <2> QED
    BY <1>1, <1>5, <1>7, <2>1, <2>2, <2>3 DEF Safe
<1> QED
  BY <1>8, <1>9, <1>10

\* The consensus takes the signal, and knows.
LEMMA ReceiveKeeps ==
  ASSUME Safe(mem, requests, told), ReceiveTxsAvailable
  PROVE  Safe(mem', requests', told')
<1> DEFINE n == [mem EXCEPT !.txsAvailable = 0]
<1>1. MemOK(mem) /\ mem' = n /\ requests' = requests /\ told' = TRUE
  BY DEF Safe, ReceiveTxsAvailable
<1>2. /\ MemOK(n) /\ SameRecheck(mem, n) /\ n.txs = mem.txs
      /\ n.notifiedTxsAvailable = mem.notifiedTxsAvailable
  BY <1>1 DEF MemOK, Mems, Mapped, SameRecheck
<1> HIDE DEF n
<1>3. RecheckOK(n, requests)
  BY <1>2 DEF Safe, RecheckOK, RechecksFollow, SameRecheck
<1>4. CallersOK(n, requests)
  BY <1>2 DEF Safe, CallersOK
<1>5. ToldOK(n, requests, TRUE)
  BY <1>2 DEF Safe, ToldOK, SameRecheck
<1> QED
  BY <1>1, <1>2, <1>3, <1>4, <1>5 DEF Safe

-----------------------------------------------------------------------------
(* The mempool never panics, and the consensus is told                     *)

Inv == config \in Configs /\ Safe(mem, requests, told)

\* Nothing is under way at first.
LEMMA InvInit == Init => Inv
<1> SUFFICES ASSUME Init PROVE Inv
  OBVIOUS
<1>1. MemOK(mem)
  BY DEF Init, New, MemOK, Mems, Mapped
<1>2. requests \in Requests
  BY DEF Init, Requests
<1>3. RecheckOK(mem, requests) /\ CallersOK(mem, requests)
  BY DEF Init, New, RecheckOK, CallersOK
<1>4. ToldOK(mem, requests, told)
  BY DEF Init, New, ToldOK
<1> QED
  BY <1>1, <1>2, <1>3, <1>4 DEF Inv, Safe, Init

\* Every action keeps the invariant.
LEMMA InvNext == Inv /\ [Next]_vars => Inv'
<1> SUFFICES ASSUME Inv, [Next]_vars PROVE Inv'
  OBVIOUS
<1>1. config \in Configs /\ Safe(mem, requests, told)
  BY DEF Inv
<1>2. config' = config
  BY DEF Next, CheckTx, CheckTxError, Response, LocalAnswer, LocalAddTx,
         LocalReadNotified, LocalNotify, LocalCaller, Update,
         ReceiveTxsAvailable, vars
<1>3. Safe(mem', requests', told')
  <2>1. CASE \E tx \in Txs, sender \in config.Senders : CheckTx(tx, sender)
    BY <1>1, <2>1, CheckTxKeeps
  <2>2. CASE \E valid \in BOOLEAN : Response(valid)
    BY <1>1, <2>2, ResponseKeeps
  <2>3. CASE \E i \in DOMAIN requests, valid \in BOOLEAN :
               LocalAnswer(i, valid)
    BY <1>1, <2>3, LocalAnswerKeeps
  <2>4. CASE \E i \in DOMAIN requests : LocalAddTx(i)
    BY <1>1, <2>4, LocalAddTxKeeps
  <2>5. CASE \E i \in DOMAIN requests : LocalReadNotified(i)
    BY <1>1, <2>5, LocalReadNotifiedKeeps
  <2>6. CASE \E i \in DOMAIN requests : LocalNotify(i)
    BY <1>1, <2>6, LocalNotifyKeeps
  <2>7. CASE \E block \in Blocks : Update(block)
    BY <1>1, <2>7, UpdateKeeps
  <2>8. CASE ReceiveTxsAvailable
    BY <1>1, <2>8, ReceiveKeeps
  <2>9. CASE UNCHANGED vars \/ \E tx \in Txs : CheckTxError(tx)
    <3>1. mem' = mem /\ requests' = requests /\ told' = told
      BY <2>9 DEF CheckTxError, vars
    <3> QED
      BY <1>1, <3>1
  <2> QED
    BY <2>1, <2>2, <2>3, <2>4, <2>5, <2>6, <2>7, <2>8, <2>9 DEF Next
<1>4. Safe(mem, requests, told)'
  BY <1>2, <1>3 DEF Safe, RecheckOK, RechecksFollow, CallersOK
<1> QED
  BY <1>1, <1>2, <1>4 DEF Inv

\* No callback panics: the answers to the rechecks find the elements they are
\* for, no other answer comes between them, and there is something to tell of
\* when the consensus is told.
THEOREM CallbacksNeverPanic == Spec => []NeverPanics
<1>1. Inv => NeverPanics
  BY DEF Inv, Safe, MemOK, NeverPanics
<1> QED
  BY <1>1, InvInit, InvNext, PTL DEF Spec

\* The consensus is told of transactions at every height, or somebody is about
\* to tell it.
THEOREM TheConsensusIsTold == Spec => []ConsensusIsTold
<1>1. Inv => ConsensusIsTold
  <2> SUFFICES ASSUME Inv, mem.txs # << >>, mem.recheckCursor = 0,
                      Finishing = {}
               PROVE  /\ mem.notifiedTxsAvailable
                      /\ told \/ mem.txsAvailable = 1
    BY DEF ConsensusIsTold
  <2>1. \A i \in DOMAIN requests : ~Telling(requests[i])
    BY DEF Finishing, Telling
  <2> QED
    BY <2>1 DEF Inv, Safe, ToldOK
<1> QED
  BY <1>1, InvInit, InvNext, PTL DEF Spec

-----------------------------------------------------------------------------
(* A cache that forgets nothing                                            *)

Distinct(s) == \A i, j \in DOMAIN s : s[i] = s[j] => i = j

\* A sequence of distinct transactions that lacks one is shorter than there
\* are transactions.
LEMMA RoomInCache ==
  ASSUME NEW s \in Seq(Txs), Distinct(s), NEW tx \in Txs, tx \notin ToSet(s)
  PROVE  Len(s) < Cardinality(Txs)
<1> DEFINE n == Len(s)
<1>1. n \in Nat /\ s \in [1..n -> Txs] /\ DOMAIN s = 1..n
  OBVIOUS
<1> HIDE DEF n
<1>2. IsFiniteSet(Txs)
  BY MempoolAssumption
<1>3. s \in Injection(1..n, Txs)
  BY <1>1 DEF Injection, IsInjective, Distinct
<1>4. /\ Cardinality(1..n) <= Cardinality(Txs)
      /\ Cardinality(1..n) = Cardinality(Txs) <=> s \in Surjection(1..n, Txs)
  BY <1>2, <1>3, FS_Injection
<1>5. s \notin Surjection(1..n, Txs)
  BY <1>1 DEF Surjection, ToSet
<1>6. Cardinality(1..n) = n
  BY <1>1, FS_Interval
<1>7. Cardinality(Txs) \in Nat
  BY <1>2, FS_CardinalityType
<1> QED
  BY <1>1, <1>4, <1>5, <1>6, <1>7 DEF n

\* What is removed from the cache is gone, and nothing else is.
LEMMA CacheRemoveIs ==
  ASSUME NEW s \in Seq(Txs), Distinct(s), NEW tx
  PROVE  /\ Distinct(CacheRemove(s, tx))
         /\ ToSet(CacheRemove(s, tx)) = ToSet(s) \ {tx}
<1>1. CASE tx \in ToSet(s)
  <2>1. PICK p \in 1..Len(s) : s[p] = tx /\ RemoveFirst(s, tx) = RemoveAt(s, p)
    BY <1>1, FirstPlace
  <2> DEFINE r == RemoveAt(s, p)
  <2>2. PICK f \in [DOMAIN r -> DOMAIN s \ {p}] :
               /\ \A j \in DOMAIN r : r[j] = s[f[j]]
               /\ \A i, j \in DOMAIN r : f[i] = f[j] => i = j
    BY RemoveAtPlaces
  <2>3. \A i \in DOMAIN s \ {p} : \E j \in DOMAIN r : r[j] = s[i]
    BY RemoveAtKeeps
  <2>4. CacheRemove(s, tx) = r /\ p \in DOMAIN s
    BY <2>1 DEF CacheRemove
  <2> HIDE DEF r
  <2>5. Distinct(r)
    BY <2>2 DEF Distinct
  <2>6. ToSet(r) = ToSet(s) \ {tx}
    <3>1. ASSUME NEW x \in ToSet(r) PROVE x \in ToSet(s) \ {tx}
      BY <2>1, <2>2, <2>4 DEF ToSet, Distinct
    <3>2. ASSUME NEW x \in ToSet(s) \ {tx} PROVE x \in ToSet(r)
      BY <2>1, <2>3, <2>4 DEF ToSet
    <3> QED
      BY <3>1, <3>2
  <2> QED
    BY <2>4, <2>5, <2>6
<1>2. CASE tx \notin ToSet(s)
  BY <1>2, NotInCache DEF CacheRemove
<1> QED
  BY <1>1, <1>2

\* A transaction at the end of a sequence that lacks it.
LEMMA AppendIs ==
  ASSUME NEW s \in Seq(Txs), Distinct(s), NEW tx \in Txs, tx \notin ToSet(s)
  PROVE  /\ Distinct(Append(s, tx))
         /\ ToSet(Append(s, tx)) = ToSet(s) \cup {tx}
<1> DEFINE n == Len(s)
           r == Append(s, tx)
<1>1. /\ n \in Nat /\ DOMAIN s = 1..n /\ DOMAIN r = 1..(n + 1)
      /\ \A i \in 1..n : r[i] = s[i]
      /\ r[n + 1] = tx
  OBVIOUS
<1> HIDE DEF n, r
<1>2. \A i \in 1..(n + 1) : i \in 1..n \/ i = n + 1
  BY <1>1
<1>3. \A i \in 1..n : s[i] # tx /\ i \in 1..(n + 1)
  BY <1>1 DEF ToSet
<1>4. n + 1 \in 1..(n + 1)
  BY <1>1
<1>5. Distinct(r)
  <2> SUFFICES ASSUME NEW i \in DOMAIN r, NEW j \in DOMAIN r, r[i] = r[j]
               PROVE  i = j
    BY DEF Distinct
  <2>1. CASE i \in 1..n /\ j \in 1..n
    BY <1>1, <2>1 DEF Distinct
  <2>2. CASE i = n + 1 \/ j = n + 1
    BY <1>1, <1>2, <1>3, <2>2
  <2> QED
    BY <1>1, <1>2, <2>1, <2>2
<1>6. ToSet(r) = ToSet(s) \cup {tx}
  BY <1>1, <1>2, <1>3, <1>4 DEF ToSet
<1> QED
  BY <1>5, <1>6 DEF r

\* What is pushed into the cache is in it, and nothing is lost.
LEMMA CachePushIs ==
  ASSUME config \in Configs, CacheForgetsNone,
         NEW s \in Seq(Txs), Distinct(s), NEW tx \in Txs
  PROVE  /\ Distinct(CachePush(s, tx))
         /\ ToSet(CachePush(s, tx)) = ToSet(s) \cup {tx}
<1>1. config.CacheSize \in Nat /\ config.CacheSize # 0
  <2>1. config.CacheSize \in Nat /\ IsFiniteSet(Txs)
    BY ConfigType, MempoolAssumption
  <2>2. Cardinality(Txs) \in Nat /\ Cardinality(Txs) # 0
    BY <2>1, FS_CardinalityType, FS_EmptySet
  <2> QED
    BY <2>1, <2>2 DEF CacheForgetsNone
<1>2. CASE tx \in ToSet(s)
  <2> DEFINE r == CacheRemove(s, tx)
  <2>1. r \in Seq(Txs) /\ Distinct(r) /\ ToSet(r) = ToSet(s) \ {tx}
    BY CacheRemoveIs, CacheRemoveType
  <2>2. CachePush(s, tx) = Append(r, tx)
    BY <1>1, <1>2 DEF CachePush
  <2> HIDE DEF r
  <2>3. Distinct(Append(r, tx)) /\ ToSet(Append(r, tx)) = ToSet(r) \cup {tx}
    BY <2>1, AppendIs
  <2> QED
    BY <1>2, <2>1, <2>2, <2>3
<1>3. CASE tx \notin ToSet(s)
  <2>1. Len(s) < Cardinality(Txs)
    BY <1>3, RoomInCache
  <2>2. Cardinality(Txs) \in Nat
    BY MempoolAssumption, FS_CardinalityType
  <2>3. ~(Len(s) >= config.CacheSize)
    BY <1>1, <2>1, <2>2 DEF CacheForgetsNone
  <2>4. CachePush(s, tx) = Append(s, tx)
    BY <1>1, <1>3, <2>3 DEF CachePush
  <2> QED
    BY <1>3, <2>4, AppendIs
<1> QED
  BY <1>2, <1>3

-----------------------------------------------------------------------------
(* A list without repetitions                                              *)

Held(m) == {m.txs[i].tx : i \in DOMAIN m.txs}

NoneTwice(m) == \A i, j \in DOMAIN m.txs : m.txs[i].tx = m.txs[j].tx => i = j

\* The map has the transactions of the list, none of them twice, the cache has
\* these and what was committed, and these two have nothing in common.
Once(m, C) ==
  /\ m.txsMap = Held(m) /\ NoneTwice(m) /\ Distinct(m.cache)
  /\ Held(m) \subseteq ToSet(m.cache)
  /\ C \subseteq ToSet(m.cache) \ Held(m)

\* A new transaction is added to the list.
LEMMA AddTxHolds ==
  ASSUME NEW m, MemOK(m), NoneTwice(m), NEW tx \in Txs, tx \notin Held(m),
         NEW sender \in Nat
  PROVE  LET n == addTx(m, tx, sender)
         IN  Held(n) = Held(m) \cup {tx} /\ NoneTwice(n)
<1> DEFINE n == addTx(m, tx, sender)
           k == Len(m.txs)
<1>1. /\ MemOK(n) /\ Len(n.txs) = k + 1 /\ n.txs[k + 1].tx = tx
      /\ \A i \in DOMAIN m.txs : n.txs[i] = m.txs[i]
  BY AddTxIs
<1> HIDE DEF n
<1>2. k \in Nat /\ DOMAIN m.txs = 1..k /\ DOMAIN n.txs = 1..(k + 1)
  BY <1>1, EmptyIs
<1> HIDE DEF k
<1>3. \A i \in 1..(k + 1) : i \in 1..k \/ i = k + 1
  BY <1>2
<1>4. \A i \in 1..k : i \in 1..(k + 1) /\ m.txs[i].tx # tx
  BY <1>2 DEF Held
<1>5. k + 1 \in 1..(k + 1)
  BY <1>2
<1>6. NoneTwice(n)
  <2> SUFFICES ASSUME NEW i \in 1..(k + 1), NEW j \in 1..(k + 1),
                      n.txs[i].tx = n.txs[j].tx
               PROVE  i = j
    BY <1>2 DEF NoneTwice
  <2>1. CASE i \in 1..k /\ j \in 1..k
    BY <1>1, <1>2, <2>1 DEF NoneTwice
  <2>2. CASE i = k + 1 \/ j = k + 1
    BY <1>1, <1>2, <1>3, <1>4, <2>2
  <2> QED
    BY <1>3, <2>1, <2>2
<1>7. Held(n) = Held(m) \cup {tx}
  BY <1>1, <1>2, <1>3, <1>4, <1>5 DEF Held
<1> QED
  BY <1>6, <1>7 DEF n

\* A transaction is removed from the list.
LEMMA RemoveTxHolds ==
  ASSUME NEW m, MemOK(m), NoneTwice(m), NEW pos \in 1..Len(m.txs), NEW b
  PROVE  LET n == removeTx(m, pos, b)
         IN  Held(n) = Held(m) \ {m.txs[pos].tx} /\ NoneTwice(n)
<1> DEFINE n == removeTx(m, pos, b)
           r == RemoveAt(m.txs, pos)
           tx == m.txs[pos].tx
<1>1. m \in Mems /\ m.txs \in Seq(Elements)
  BY DEF MemOK, Mems
<1>2. n.txs = r
  BY <1>1 DEF removeTx, Mems
<1>3. PICK f \in [DOMAIN r -> DOMAIN m.txs \ {pos}] :
             /\ \A j \in DOMAIN r : r[j] = m.txs[f[j]]
             /\ \A i, j \in DOMAIN r : f[i] = f[j] => i = j
  BY <1>1, RemoveAtPlaces
<1>4. \A i \in DOMAIN m.txs \ {pos} : \E j \in DOMAIN r : r[j] = m.txs[i]
  BY <1>1, RemoveAtKeeps
<1>5. pos \in DOMAIN m.txs
  BY <1>1
<1> HIDE DEF n, r
<1>6. NoneTwice(n)
  BY <1>2, <1>3 DEF NoneTwice
<1>7. ASSUME NEW x \in Held(n) PROVE x \in Held(m) /\ x # tx
  BY <1>2, <1>3, <1>5 DEF NoneTwice, Held
<1>8. ASSUME NEW x \in Held(m), x # tx PROVE x \in Held(n)
  <2>1. PICK i \in DOMAIN m.txs : m.txs[i].tx = x
    BY DEF Held
  <2>2. PICK j \in DOMAIN r : r[j] = m.txs[i]
    BY <1>4, <1>8, <2>1
  <2> QED
    BY <1>2, <2>1, <2>2 DEF Held
<1>9. Held(n) = Held(m) \ {tx}
  BY <1>7, <1>8
<1> QED
  BY <1>6, <1>9 DEF n

\* The same elements, with other senders.
LEMMA SameHolds ==
  ASSUME NEW m, NEW n, MemOK(m), MemOK(n), Len(n.txs) = Len(m.txs),
         \A i \in DOMAIN m.txs : n.txs[i].tx = m.txs[i].tx
  PROVE  Held(n) = Held(m) /\ (NoneTwice(m) => NoneTwice(n))
<1>1. DOMAIN n.txs = DOMAIN m.txs
  BY EmptyIs
<1> QED
  BY <1>1 DEF Held, NoneTwice

-----------------------------------------------------------------------------
(* A block                                                                 *)

\* A committed transaction leaves the list; it stays in the cache if it was a
\* success.
LEMMA UpdateTxHolds ==
  ASSUME config \in Configs, CacheForgetsNone, NEW m, MemOK(m),
         NEW d \in Deliveries, NEW C, Once(m, C), NEW D,
         D \subseteq IF d.ok THEN C \cup {d.tx} ELSE C \ {d.tx}
  PROVE  Once(UpdateTx(m, d), D)
<1> DEFINE c == CASE d.ok -> CachePush(m.cache, d.tx)
                  [] ~d.ok /\ ~config.KeepInvalidTxsInCache ->
                       CacheRemove(m.cache, d.tx)
                  [] OTHER -> m.cache
           k == [m EXCEPT !.cache = c]
           pos == ElementOf(m, d.tx)
           r == removeTx(k, pos, FALSE)
           n == UpdateTx(m, d)
<1>1. m.cache \in Seq(Txs) /\ d.tx \in Txs /\ d.ok \in BOOLEAN
  BY DEF MemOK, Mems, Deliveries
<1>2. /\ Distinct(m.cache) /\ NoneTwice(m) /\ m.txsMap = Held(m)
      /\ Held(m) \subseteq ToSet(m.cache)
      /\ C \subseteq ToSet(m.cache) \ Held(m)
  BY DEF Once
<1>3. /\ c \in Seq(Txs) /\ Distinct(c)
      /\ ToSet(m.cache) \ {d.tx} \subseteq ToSet(c)
      /\ (d.ok => d.tx \in ToSet(c))
  <2>1. CASE d.ok
    <3>1. c = CachePush(m.cache, d.tx)
      BY <2>1
    <3> HIDE DEF c
    <3> QED
      BY <1>1, <1>2, <3>1, CachePushIs, CachePushType
  <2>2. CASE ~d.ok
    <3>1. c = CacheRemove(m.cache, d.tx) \/ c = m.cache
      BY <2>2
    <3> HIDE DEF c
    <3> QED
      BY <1>1, <1>2, <2>2, <3>1, CacheRemoveIs, CacheRemoveType
  <2> QED
    BY <2>1, <2>2
<1>4. n = IF d.tx \in m.txsMap THEN r ELSE k
  BY DEF UpdateTx
<1> HIDE DEF c
<1>5. /\ MemOK(k) /\ k.txs = m.txs /\ k.txsMap = m.txsMap /\ k.cache = c
  BY <1>3, CacheIs
<1> HIDE DEF k
<1>6. NoneTwice(k) /\ Held(k) = Held(m)
  BY <1>2, <1>5 DEF NoneTwice, Held
<1>7. /\ n.cache = c /\ Held(n) = Held(m) \ {d.tx} /\ n.txsMap = Held(n)
      /\ NoneTwice(n)
  <2>1. CASE d.tx \in m.txsMap
    <3>1. pos \in 1..Len(k.txs) /\ k.txs[pos].tx = d.tx
      BY <1>5, <2>1, ElementOfIs
    <3> HIDE DEF pos
    <3>2. r.cache = k.cache /\ r.txsMap = k.txsMap \ {k.txs[pos].tx}
      BY <1>5 DEF removeTx, MemOK, Mems
    <3>3. Held(r) = Held(k) \ {k.txs[pos].tx} /\ NoneTwice(r)
      BY <1>5, <1>6, <3>1, RemoveTxHolds
    <3> HIDE DEF r, n
    <3> QED
      BY <1>2, <1>4, <1>5, <1>6, <2>1, <3>1, <3>2, <3>3
  <2>2. CASE d.tx \notin m.txsMap
    <3> HIDE DEF n
    <3> QED
      BY <1>2, <1>4, <1>5, <1>6, <2>2
  <2> QED
    BY <2>1, <2>2
<1> HIDE DEF n
<1>8. D \subseteq ToSet(c) \ Held(n)
  BY <1>1, <1>2, <1>3, <1>7
<1> QED
  BY <1>2, <1>3, <1>7, <1>8 DEF Once, n

\* The transactions whose last commit was a success, among those commited
\* before and the first i of a block.
CommitedUpTo(block, i) ==
  {tx \in Txs :
     \/ tx \in commited /\ \A j \in 1..i : block[j].tx # tx
     \/ \E j \in 1..i : /\ block[j].tx = tx /\ block[j].ok
                        /\ \A l \in (j + 1)..i : block[l].tx # tx}

\* One more transaction of the block.
LEMMA CommitedStep ==
  ASSUME NEW block \in Seq(Deliveries), NEW i \in 1..Len(block)
  PROVE  LET C == CommitedUpTo(block, i - 1)
         IN  CommitedUpTo(block, i) \subseteq
               IF block[i].ok THEN C \cup {block[i].tx} ELSE C \ {block[i].tx}
<1> SUFFICES ASSUME NEW tx \in CommitedUpTo(block, i)
             PROVE  IF block[i].ok
                    THEN tx = block[i].tx \/ tx \in CommitedUpTo(block, i - 1)
                    ELSE tx # block[i].tx /\ tx \in CommitedUpTo(block, i - 1)
  OBVIOUS
<1>1. i \in Nat /\ i >= 1 /\ i \in 1..i /\ tx \in Txs
  BY DEF CommitedUpTo
<1>2. \A j \in 1..(i - 1) : j \in 1..i
  BY <1>1
<1>3. CASE tx \in commited /\ \A j \in 1..i : block[j].tx # tx
  BY <1>1, <1>2, <1>3 DEF CommitedUpTo
<1>4. CASE \E j \in 1..i : /\ block[j].tx = tx /\ block[j].ok
                           /\ \A l \in (j + 1)..i : block[l].tx # tx
  <2>1. PICK j \in 1..i : /\ block[j].tx = tx /\ block[j].ok
                          /\ \A l \in (j + 1)..i : block[l].tx # tx
    BY <1>4
  <2>2. CASE j = i
    BY <2>1, <2>2
  <2>3. CASE j # i
    <3>1. j \in 1..(i - 1) /\ i \in (j + 1)..i
      BY <1>1, <2>3
    <3>2. \A l \in (j + 1)..(i - 1) : l \in (j + 1)..i
      BY <1>1, <3>1
    <3>3. tx # block[i].tx
      BY <2>1, <3>1
    <3>4. tx \in CommitedUpTo(block, i - 1)
      BY <1>1, <2>1, <3>1, <3>2 DEF CommitedUpTo
    <3> QED
      BY <3>3, <3>4
  <2> QED
    BY <2>2, <2>3
<1> QED
  BY <1>3, <1>4 DEF CommitedUpTo

\* The history variable holds them at the end of the block.
LEMMA CommitedByIs ==
  ASSUME NEW block \in Seq(Deliveries)
  PROVE  CommitedBy(block) \subseteq CommitedUpTo(block, Len(block))
<1> SUFFICES ASSUME NEW tx \in CommitedBy(block)
             PROVE  tx \in CommitedUpTo(block, Len(block))
  OBVIOUS
<1> DEFINE n == Len(block)
           I == {i \in 1..n : block[i].tx = tx}
           last == SelectLastInSeq(block, LAMBDA d : d.tx = tx)
<1>1. /\ n \in Nat /\ tx \in Txs
      /\ IF last = 0 THEN tx \in commited ELSE block[last].ok
  BY DEF CommitedBy
<1>2. last = IF I # {} THEN Max(I) ELSE 0
  BY DEF SelectLastInSeq
<1>3. CASE I = {}
  <2>1. tx \in commited /\ \A j \in 1..n : block[j].tx # tx
    BY <1>1, <1>2, <1>3
  <2> QED
    BY <1>1, <2>1 DEF CommitedUpTo
<1>4. CASE I # {}
  <2>1. I \in SUBSET Nat /\ \A x \in I : x <= n
    BY <1>1
  <2>2. \E x \in I : \A y \in I : x >= y
    <3> HIDE DEF I, n
    <3> QED
      BY <1>1, <1>4, <2>1, GreatestExists
  <2>3. Max(I) \in I /\ \A y \in I : Max(I) >= y
    BY <2>2 DEF Max
  <2>4. last = Max(I)
    BY <1>2, <1>4
  <2> HIDE DEF last
  <2>5. last \in 1..n /\ block[last].tx = tx /\ \A y \in I : last >= y
    BY <2>3, <2>4
  <2>6. \A l \in (last + 1)..n : l \in 1..n /\ ~(last >= l)
    BY <1>1, <2>5
  <2>7. \A l \in (last + 1)..n : block[l].tx # tx
    BY <2>5, <2>6
  <2>8. block[last].ok
    BY <1>1, <2>5
  <2> QED
    BY <1>1, <2>5, <2>7, <2>8 DEF CommitedUpTo
<1> QED
  BY <1>3, <1>4

\* The block leaves what it commits in the cache and out of the list.
LEMMA UpdateTxsHolds ==
  ASSUME config \in Configs, CacheForgetsNone, NEW m, MemOK(m),
         NEW block \in Seq(Deliveries), commited \subseteq Txs,
         Once(m, commited)
  PROVE  Once(UpdateTxs(m, block), CommitedBy(block))
<1> DEFINE k == Len(block)
           C(i) == CommitedUpTo(block, i)
<1>1. PICK g : /\ g[0] = m
               /\ \A i \in 1..k : g[i] = UpdateTx(g[i-1], block[i])
               /\ UpdateTxs(m, block) = g[k]
  BY UpdateTxsIs
<1>2. k \in Nat /\ \A i \in 1..k : block[i] \in Deliveries
  OBVIOUS
<1>3. \A i \in 1..k : C(i) \subseteq IF block[i].ok
                                     THEN C(i - 1) \cup {block[i].tx}
                                     ELSE C(i - 1) \ {block[i].tx}
  BY CommitedStep
<1>4. CommitedBy(block) \subseteq C(k)
  BY CommitedByIs
<1>5. C(0) \subseteq commited
  BY DEF CommitedUpTo
<1> HIDE DEF k, C
<1> DEFINE Good(i) == MemOK(g[i]) /\ Once(g[i], C(i))
           Bad == {i \in 0..k : ~Good(i)}
<1>6. Bad = {}
  <2> SUFFICES ASSUME Bad # {} PROVE FALSE
    OBVIOUS
  <2>1. Bad \in SUBSET Nat
    BY <1>2
  <2> HIDE DEF Bad
  <2>2. PICK l \in Bad : \A i \in Bad : l <= i
    BY <2>1, LeastExists
  <2> USE DEF Bad
  <2>3. Good(0)
    BY <1>1, <1>5 DEF Once
  <2>4. l \in 0..k /\ ~Good(l) /\ l # 0
    BY <2>2, <2>3
  <2>5. l \in 1..k /\ l - 1 \in 0..k /\ ~(l <= l - 1)
    BY <1>2, <2>4
  <2>6. Good(l - 1)
    BY <2>2, <2>5
  <2>7. MemOK(UpdateTx(g[l-1], block[l]))
    BY <1>2, <2>5, <2>6, UpdateTxIs
  <2>8. Once(UpdateTx(g[l-1], block[l]), C(l))
    BY <1>2, <1>3, <2>5, <2>6, UpdateTxHolds
  <2> QED
    BY <1>1, <2>4, <2>5, <2>7, <2>8
<1>7. Once(g[k], C(k))
  BY <1>2, <1>6
<1> QED
  BY <1>1, <1>4, <1>7 DEF Once

-----------------------------------------------------------------------------
(* The requests that may still add a transaction                           *)

Asks(rs) ==
  {i \in DOMAIN rs : /\ rs[i].recheck = FALSE
                      /\ rs[i].stage \in {"asked", "adding"}}

\* They ask for different transactions, that the cache has and that are neither
\* in the list nor commited.
AskedOK(m, rs, C) ==
  /\ \A i, j \in Asks(rs) : rs[i].tx = rs[j].tx => i = j
  /\ \A i \in Asks(rs) : rs[i].tx \in ToSet(m.cache) \ (Held(m) \cup C)

Kept(m, rs, C) == Once(m, C) /\ AskedOK(m, rs, C)

\* The i-th request does not ask any more, and no other one begins to.
Fewer(rs, i, new) ==
  \E f \in [Asks(new) -> Asks(rs) \ {i}] :
    /\ \A j \in Asks(new) : new[j].tx = rs[f[j]].tx
    /\ \A j, l \in Asks(new) : f[j] = f[l] => j = l

\* Who asks no more leaves its transaction to nobody else.
LEMMA FewerIs ==
  ASSUME NEW m, NEW rs, NEW C, AskedOK(m, rs, C), NEW i, NEW new,
         Fewer(rs, i, new)
  PROVE  /\ AskedOK(m, new, C)
         /\ i \in Asks(rs) => \A j \in Asks(new) : new[j].tx # rs[i].tx
<1>1. PICK f \in [Asks(new) -> Asks(rs) \ {i}] :
             /\ \A j \in Asks(new) : new[j].tx = rs[f[j]].tx
             /\ \A j, l \in Asks(new) : f[j] = f[l] => j = l
  BY DEF Fewer
<1>2. AskedOK(m, new, C)
  BY <1>1 DEF AskedOK
<1>3. i \in Asks(rs) => \A j \in Asks(new) : new[j].tx # rs[i].tx
  BY <1>1 DEF AskedOK
<1> QED
  BY <1>2, <1>3

\* The first request is answered.
LEMMA TailFewer ==
  ASSUME NEW rs \in Requests, rs # << >>
  PROVE  Fewer(rs, 1, Tail(rs))
<1> DEFINE new == Tail(rs)
           f == [j \in Asks(new) |-> j + 1]
           n == Len(rs)
<1>1. /\ n \in Nat /\ DOMAIN new = 1..(n - 1) /\ DOMAIN rs = 1..n
      /\ \A j \in 1..(n - 1) : new[j] = rs[j + 1]
  BY TailIs
<1> HIDE DEF n, new
<1>2. \A j \in 1..(n - 1) : j + 1 \in 1..n /\ j + 1 # 1
  BY <1>1
<1>3. Asks(new) \subseteq 1..(n - 1)
  BY <1>1 DEF Asks
<1>4. f \in [Asks(new) -> Asks(rs) \ {1}]
  BY <1>1, <1>2, <1>3 DEF Asks
<1>5. \A j \in Asks(new) : new[j].tx = rs[f[j]].tx
  BY <1>1, <1>3
<1>6. \A j, l \in Asks(new) : f[j] = f[l] => j = l
  BY <1>1, <1>3
<1> HIDE DEF f
<1> QED
  BY <1>4, <1>5, <1>6 DEF Fewer, new

\* A caller returns.
LEMMA ReturnFewer ==
  ASSUME NEW rs \in Requests, NEW i \in DOMAIN rs
  PROVE  Fewer(rs, i, RemoveAt(rs, i))
<1> DEFINE new == RemoveAt(rs, i)
<1>1. rs \in Seq(Asking \cup Rechecking) /\ i \in 1..Len(rs)
  BY DEF Requests
<1>2. PICK f \in [DOMAIN new -> DOMAIN rs \ {i}] :
             /\ \A j \in DOMAIN new : new[j] = rs[f[j]]
             /\ \A j, l \in DOMAIN new : f[j] = f[l] => j = l
  BY <1>1, RemoveAtPlaces
<1> HIDE DEF new
<1> DEFINE g == [j \in Asks(new) |-> f[j]]
<1>3. g \in [Asks(new) -> Asks(rs) \ {i}]
  BY <1>2 DEF Asks
<1>4. \A j \in Asks(new) : new[j].tx = rs[g[j]].tx
  BY <1>2 DEF Asks
<1>5. \A j, l \in Asks(new) : g[j] = g[l] => j = l
  BY <1>2 DEF Asks
<1> HIDE DEF g
<1> QED
  BY <1>3, <1>4, <1>5 DEF Fewer, new

\* A caller has added its transaction.
LEMMA StageFewer ==
  ASSUME NEW rs \in Requests, NEW i \in DOMAIN rs, rs[i].recheck = FALSE,
         NEW st \in {"added", "telling"}
  PROVE  Fewer(rs, i, [rs EXCEPT ![i].stage = st])
<1> DEFINE new == [rs EXCEPT ![i].stage = st]
           f == [j \in Asks(new) |-> j]
<1>1. /\ DOMAIN new = DOMAIN rs /\ new[i].stage = st
      /\ \A j \in DOMAIN rs : j # i => new[j] = rs[j]
  <2>1. st \in Stages
    BY DEF Stages
  <2> QED
    BY <2>1, StageIs
<1> HIDE DEF new
<1>2. \A j \in Asks(new) : j \in Asks(rs) \ {i} /\ new[j] = rs[j]
  BY <1>1 DEF Asks
<1>3. f \in [Asks(new) -> Asks(rs) \ {i}]
  BY <1>2
<1>4. \A j \in Asks(new) : f[j] = j
  OBVIOUS
<1> HIDE DEF f
<1> QED
  BY <1>2, <1>3, <1>4 DEF Fewer, new

\* A transaction that was asked for is added.
LEMMA AddedIsKept ==
  ASSUME NEW m, MemOK(m), NEW rs, NEW C, Kept(m, rs, C), NEW i \in Asks(rs),
         rs[i].tx \in Txs, NEW sender \in Nat, NEW new, Fewer(rs, i, new)
  PROVE  Kept(addTx(m, rs[i].tx, sender), new, C)
<1> DEFINE tx == rs[i].tx
           n == addTx(m, tx, sender)
<1>1. Once(m, C) /\ AskedOK(m, rs, C)
  BY DEF Kept
<1>2. tx \in ToSet(m.cache) \ (Held(m) \cup C) /\ NoneTwice(m)
  BY <1>1 DEF AskedOK, Once
<1>3. n.cache = m.cache /\ n.txsMap = m.txsMap \cup {tx}
  BY AddTxIs
<1>4. Held(n) = Held(m) \cup {tx} /\ NoneTwice(n)
  BY <1>2, AddTxHolds
<1>5. AskedOK(m, new, C) /\ \A j \in Asks(new) : new[j].tx # tx
  BY <1>1, FewerIs
<1> HIDE DEF n, tx
<1>6. Once(n, C)
  BY <1>1, <1>2, <1>3, <1>4 DEF Once
<1>7. AskedOK(n, new, C)
  BY <1>3, <1>4, <1>5 DEF AskedOK
<1> QED
  BY <1>6, <1>7 DEF Kept, n, tx

\* A transaction that was asked for is rejected.
LEMMA RejectedIsKept ==
  ASSUME NEW m, MemOK(m), NEW rs, NEW C, Kept(m, rs, C), NEW i \in Asks(rs),
         NEW new, Fewer(rs, i, new), NEW n, n.txs = m.txs,
         n.txsMap = m.txsMap,
         n.cache = m.cache \/ n.cache = CacheRemove(m.cache, rs[i].tx)
  PROVE  Kept(n, new, C)
<1>1. Once(m, C) /\ AskedOK(m, rs, C) /\ m.cache \in Seq(Txs)
  BY DEF Kept, MemOK, Mems
<1>2. rs[i].tx \notin Held(m) \cup C /\ Distinct(m.cache)
  BY <1>1 DEF AskedOK, Once
<1>3. Distinct(n.cache) /\ ToSet(m.cache) \ {rs[i].tx} \subseteq ToSet(n.cache)
  BY <1>1, <1>2, CacheRemoveIs
<1>4. Held(n) = Held(m) /\ (NoneTwice(m) => NoneTwice(n))
  BY DEF Held, NoneTwice
<1>5. AskedOK(m, new, C) /\ \A j \in Asks(new) : new[j].tx # rs[i].tx
  BY <1>1, FewerIs
<1>6. Once(n, C)
  BY <1>1, <1>2, <1>3, <1>4 DEF Once
<1>7. AskedOK(n, new, C)
  BY <1>3, <1>4, <1>5 DEF AskedOK
<1> QED
  BY <1>6, <1>7 DEF Kept

\* Nothing but flags changes, and some request is done.
LEMMA SameIsKept ==
  ASSUME NEW m, NEW rs, NEW C, Kept(m, rs, C), NEW n, n.txs = m.txs,
         n.txsMap = m.txsMap, n.cache = m.cache, NEW i, NEW new,
         Fewer(rs, i, new)
  PROVE  Kept(n, new, C)
<1>1. AskedOK(m, new, C) /\ Once(m, C)
  BY FewerIs DEF Kept
<1>2. Held(n) = Held(m) /\ (NoneTwice(m) => NoneTwice(n))
  BY DEF Held, NoneTwice
<1> QED
  BY <1>1, <1>2 DEF Kept, AskedOK, Once

\* An element of the list is removed, from the cache too or not.
LEMMA RemovedIsKept ==
  ASSUME NEW m, MemOK(m), NEW rs, NEW C, Kept(m, rs, C),
         NEW pos \in 1..Len(m.txs), NEW b \in BOOLEAN
  PROVE  Kept(removeTx(m, pos, b), rs, C)
<1> DEFINE n == removeTx(m, pos, b)
           tx == m.txs[pos].tx
<1>1. /\ Once(m, C) /\ AskedOK(m, rs, C) /\ m.cache \in Seq(Txs)
      /\ NoneTwice(m)
  BY DEF Kept, MemOK, Mems, Once
<1>2. Held(n) = Held(m) \ {tx} /\ NoneTwice(n)
  BY <1>1, RemoveTxHolds
<1>3. /\ n.txsMap = m.txsMap \ {tx}
      /\ n.cache = m.cache \/ n.cache = CacheRemove(m.cache, tx)
  BY DEF removeTx, MemOK, Mems
<1>4. tx \in Held(m)
  <2>1. pos \in DOMAIN m.txs
    BY EmptyIs
  <2> QED
    BY <2>1 DEF Held
<1> HIDE DEF n, tx
<1>5. Distinct(n.cache) /\ ToSet(m.cache) \ {tx} \subseteq ToSet(n.cache)
  BY <1>1, <1>3, CacheRemoveIs DEF Once
<1>6. Once(n, C)
  BY <1>1, <1>2, <1>3, <1>4, <1>5 DEF Once
<1>7. AskedOK(n, rs, C)
  BY <1>1, <1>2, <1>4, <1>5 DEF AskedOK
<1> QED
  BY <1>6, <1>7 DEF Kept, n

-----------------------------------------------------------------------------
(* The actions                                                             *)

\* What the cache lacks was neither asked for nor listed nor commited.
LEMMA CheckTxHolds ==
  ASSUME config \in Configs, CacheForgetsNone, Safe(mem, requests, told),
         Kept(mem, requests, commited), NEW tx \in Txs,
         NEW sender \in config.Senders, CheckTx(tx, sender)
  PROVE  Kept(mem', requests', commited)
<1> DEFINE c == CachePush(mem.cache, tx)
           pushed == [mem EXCEPT !.cache = c]
           r == [recheck |-> FALSE, tx |-> tx, sender |-> sender,
                 stage |-> "asked"]
           new == Append(requests, r)
<1>1. /\ MemOK(mem) /\ mem.cache \in Seq(Txs) /\ sender \in Nat
      /\ requests \in Requests
      /\ Once(mem, commited) /\ AskedOK(mem, requests, commited)
      /\ Distinct(mem.cache)
  BY ConfigType DEF Safe, MemOK, Mems, Kept, Once
<1>2. /\ c \in Seq(Txs) /\ Distinct(c)
      /\ ToSet(c) = ToSet(mem.cache) \cup {tx}
  BY <1>1, CachePushIs, CachePushType
<1>3. config.CacheSize > 0
  <2>1. config.CacheSize \in Nat /\ IsFiniteSet(Txs)
    BY ConfigType, MempoolAssumption
  <2>2. Cardinality(Txs) \in Nat /\ Cardinality(Txs) # 0
    BY <2>1, FS_CardinalityType, FS_EmptySet
  <2> QED
    BY <2>1, <2>2 DEF CacheForgetsNone
<1>4. \/ mem' = RecordSender(pushed, tx, sender) /\ requests' = requests
      \/ mem' = pushed /\ requests' = new /\ tx \notin ToSet(mem.cache)
  BY <1>3 DEF CheckTx
<1> HIDE DEF c
<1>5. /\ MemOK(pushed) /\ pushed.txs = mem.txs
      /\ pushed.txsMap = mem.txsMap /\ pushed.cache = c
  BY <1>1, <1>2, CacheIs
<1> HIDE DEF pushed
<1>6. Held(pushed) = Held(mem) /\ NoneTwice(pushed)
  BY <1>1, <1>5 DEF Held, NoneTwice, Once
<1>7. Once(pushed, commited) /\ AskedOK(pushed, requests, commited)
  BY <1>1, <1>2, <1>5, <1>6 DEF Once, AskedOK
<1>8. CASE mem' = RecordSender(pushed, tx, sender) /\ requests' = requests
  <2> DEFINE n == RecordSender(pushed, tx, sender)
  <2>1. /\ MemOK(n) /\ n.cache = pushed.cache /\ n.txsMap = pushed.txsMap
        /\ Len(n.txs) = Len(pushed.txs)
        /\ \A i \in DOMAIN pushed.txs : n.txs[i].tx = pushed.txs[i].tx
    BY <1>1, <1>5, RecordSenderIs
  <2> HIDE DEF n
  <2>2. Held(n) = Held(pushed) /\ NoneTwice(n)
    BY <1>5, <1>6, <2>1, SameHolds
  <2>3. Once(n, commited) /\ AskedOK(n, requests, commited)
    BY <1>7, <2>1, <2>2 DEF Once, AskedOK
  <2> QED
    BY <1>8, <2>3 DEF Kept, n
<1>9. CASE /\ mem' = pushed /\ requests' = new
           /\ tx \notin ToSet(mem.cache)
  <2> DEFINE n == Len(requests)
  <2>1. /\ n \in Nat /\ DOMAIN requests = 1..n /\ DOMAIN new = 1..(n + 1)
        /\ \A i \in 1..n : new[i] = requests[i]
        /\ new[n + 1] = r
    <3>1. r \in Asking
      BY <1>1 DEF Asking, Stages
    <3> HIDE DEF r
    <3> QED
      BY <1>1, <3>1 DEF Requests
  <2>2. r.tx = tx
    OBVIOUS
  <2> HIDE DEF n, r, new
  <2>3. \A i \in 1..(n + 1) : i \in 1..n \/ i = n + 1
    BY <2>1
  <2>4. \A i \in Asks(new) : i \in Asks(requests) \/ i = n + 1
    BY <2>1, <2>3 DEF Asks
  <2>5. \A i \in Asks(requests) :
          /\ new[i].tx = requests[i].tx
          /\ requests[i].tx \in ToSet(mem.cache) \ (Held(mem) \cup commited)
    BY <1>1, <2>1 DEF AskedOK, Asks
  <2>6. tx \notin Held(mem) \cup commited
    BY <1>1, <1>9 DEF Once
  <2>7. \A i \in Asks(new) :
          new[i].tx \in ToSet(c) \ (Held(mem) \cup commited)
    BY <1>2, <2>1, <2>2, <2>4, <2>5, <2>6
  <2>8. ASSUME NEW i \in Asks(new), NEW j \in Asks(new),
               new[i].tx = new[j].tx
        PROVE  i = j
    <3>1. CASE i \in Asks(requests) /\ j \in Asks(requests)
      BY <1>1, <2>5, <2>8, <3>1 DEF AskedOK
    <3>2. CASE i = n + 1 \/ j = n + 1
      BY <1>9, <2>1, <2>2, <2>4, <2>5, <2>8, <3>2
    <3> QED
      BY <2>4, <3>1, <3>2
  <2>9. AskedOK(pushed, new, commited)
    BY <1>5, <1>6, <2>7, <2>8 DEF AskedOK
  <2> QED
    BY <1>7, <1>9, <2>9 DEF Kept
<1> QED
  BY <1>4, <1>8, <1>9

\* What resCbFirstTime does to the list, the map and the cache.
LEMMA FirstAnswerHolds ==
  ASSUME NEW m, MemOK(m), NEW rs \in Requests, NEW C, Kept(m, rs, C),
         NEW i \in DOMAIN rs, rs[i].recheck = FALSE, rs[i].stage = "asked",
         NEW new, Fewer(rs, i, new), NEW valid \in BOOLEAN
  PROVE  Kept(resCbFirstTime(m, rs[i], valid), new, C)
<1> DEFINE req == rs[i]
           n == resCbFirstTime(m, req, valid)
           a == addTx(m, req.tx, req.sender)
<1>1. /\ i \in Asks(rs) /\ req.tx \in Txs /\ req.sender \in Nat
      /\ m \in Mems
  BY RequestIs DEF Asks, MemOK
<1>2. CASE valid /\ ~isFull(m, req.tx)
  <2>1. n = notifyTxsAvailable(a)
    BY <1>2 DEF resCbFirstTime
  <2>2. Kept(a, new, C)
    BY <1>1, AddedIsKept
  <2>3. MemOK(a) /\ Len(a.txs) = Len(m.txs) + 1
    BY <1>1, AddTxIs
  <2> HIDE DEF n, a
  <2>4. a.txs # << >>
    BY <2>3, EmptyIs
  <2>5. n.cache = a.cache /\ n.txsMap = a.txsMap /\ n.txs = a.txs
    BY <2>1, <2>3, <2>4, NotifyIs
  <2>6. Held(n) = Held(a) /\ (NoneTwice(a) => NoneTwice(n))
    BY <2>5 DEF Held, NoneTwice
  <2> QED
    BY <2>2, <2>5, <2>6 DEF Kept, Once, AskedOK, n
<1>3. CASE ~(valid /\ ~isFull(m, req.tx))
  <2>1. /\ n.txs = m.txs /\ n.txsMap = m.txsMap
        /\ n.cache = m.cache \/ n.cache = CacheRemove(m.cache, req.tx)
    BY <1>1, <1>3 DEF resCbFirstTime, Mems
  <2> HIDE DEF n
  <2>2. Kept(n, new, C)
    BY <1>1, <2>1, RejectedIsKept
  <2> QED
    BY <2>2 DEF n
<1> QED
  BY <1>2, <1>3

\* The answer to a recheck removes at most the element at the cursor.
LEMMA RecheckAnswerHolds ==
  ASSUME config \in Configs, NEW m, NEW rs, NEW t, Safe(m, rs, t), NEW C,
         Kept(m, rs, C), rs # << >>, m.recheckCursor # 0,
         NEW valid \in BOOLEAN
  PROVE  Kept(resCbRecheck(m, Head(rs), valid), Tail(rs), C)
<1> DEFINE req == Head(rs)
           b == ~config.KeepInvalidTxsInCache
           left == IF valid THEN m ELSE removeTx(m, m.recheckCursor, b)
           next == NextCursor(left, ~valid)
           n == resCbRecheck(m, req, valid)
<1>1. /\ MemOK(m) /\ rs \in Requests /\ m.recheckCursor \in 1..Len(m.txs)
      /\ b \in BOOLEAN
  BY DEF Safe, RecheckOK, RechecksFollow
<1>2. m.txs[m.recheckCursor].tx = req.tx
  <2>1. Safe(n, Tail(rs), t)
    BY RecheckAnswerIsSafe
  <2>2. n.panicked = FALSE /\ m \in Mems
    BY <1>1, <2>1 DEF Safe, MemOK
  <2> QED
    BY <2>2 DEF resCbRecheck, Panic, Mems
<1>3. n = IF next.recheckCursor = 0 /\ next.txs # << >>
          THEN notifyTxsAvailable(next) ELSE next
  BY <1>2 DEF resCbRecheck
<1>4. MemOK(left) /\ Kept(left, rs, C)
  <2>1. CASE valid
    BY <1>1, <2>1
  <2>2. CASE ~valid
    <3> DEFINE r == removeTx(m, m.recheckCursor, b)
    <3>1. MemOK(r) /\ Kept(r, rs, C)
      <4> HIDE DEF b
      <4> QED
        BY <1>1, RemoveTxIs, RemovedIsKept
    <3> QED
      BY <2>2, <3>1
  <2> QED
    BY <2>1, <2>2
<1> HIDE DEF left
<1>5. /\ next.txs = left.txs /\ next.txsMap = left.txsMap
      /\ next.cache = left.cache
  BY <1>4 DEF NextCursor, MemOK, Mems
<1>6. /\ n.txs = left.txs /\ n.txsMap = left.txsMap
      /\ n.cache = left.cache
  <2>1. next = [left EXCEPT !.recheckCursor = 0]
        \/ next = [left EXCEPT !.recheckEnd = @ - 1]
        \/ next = [left EXCEPT !.recheckCursor = @ + 1]
    BY DEF NextCursor
  <2>2. DOMAIN left = {"txs", "txsMap", "txsBytes", "cache", "height",
                       "recheckCursor", "recheckEnd", "notifiedTxsAvailable",
                       "txsAvailable", "panicked"}
    BY <1>4 DEF MemOK, Mems
  <2>3. DOMAIN next = DOMAIN left
    BY <2>1
  <2> HIDE DEF next, n
  <2> QED
    BY <1>3, <1>5, <2>2, <2>3 DEF notifyTxsAvailable, Panic
<1> HIDE DEF n, next
<1>7. Fewer(rs, 1, Tail(rs))
  BY <1>1, TailFewer
<1>8. Kept(n, Tail(rs), C)
  BY <1>4, <1>6, <1>7, SameIsKept
<1> QED
  BY <1>8 DEF n

\* An answer over a socket, or to a recheck.
LEMMA ResponseHolds ==
  ASSUME config \in Configs, Safe(mem, requests, told),
         Kept(mem, requests, commited), NEW valid \in BOOLEAN, Response(valid)
  PROVE  Kept(mem', requests', commited)
<1> DEFINE req == Head(requests)
           after == globalCb(mem, req, valid)
<1>1. /\ requests # << >> /\ requests' = Tail(requests)
      /\ config.Local => req.recheck
      /\ mem' = IF ~req.recheck /\ ~after.panicked
                THEN reqResCb(after, req, valid) ELSE after
  BY DEF Response
<1>2. requests \in Requests /\ MemOK(mem)
  BY DEF Safe
<1>3. req = requests[1] /\ req.recheck \in BOOLEAN /\ 1 \in DOMAIN requests
  <2>1. req = requests[1] /\ 1 \in DOMAIN requests
    BY <1>1, <1>2, TailIs
  <2> QED
    BY <1>2, <2>1, RequestIs
<1>4. CASE mem.recheckCursor # 0
  <2>1. req.recheck = TRUE
    BY <1>1, <1>4, RecheckAnswerIsSafe
  <2>2. Kept(resCbRecheck(mem, req, valid), Tail(requests), commited)
    BY <1>1, <1>4, RecheckAnswerHolds
  <2>3. after = resCbRecheck(mem, req, valid)
    BY <1>4 DEF globalCb
  <2> HIDE DEF after
  <2> QED
    BY <1>1, <2>1, <2>2, <2>3
<1>5. CASE mem.recheckCursor = 0
  <2>1. after = mem
    BY <1>5 DEF globalCb
  <2> HIDE DEF after
  <2>2. req.recheck = FALSE
    BY <1>3, <1>5 DEF Safe, RecheckOK
  <2>3. req.stage = "asked"
    <3>1. ~config.Local
      BY <1>1, <2>2
    <3> QED
      BY <1>3, <2>2, <3>1 DEF Safe, CallersOK
  <2>4. Fewer(requests, 1, Tail(requests))
    BY <1>1, <1>2, TailFewer
  <2>5. Kept(resCbFirstTime(mem, requests[1], valid), Tail(requests), commited)
    BY <1>2, <1>3, <2>2, <2>3, <2>4, FirstAnswerHolds
  <2>6. mem' = resCbFirstTime(mem, req, valid)
    BY <1>1, <1>2, <1>5, <2>1, <2>2 DEF reqResCb, MemOK
  <2> QED
    BY <1>1, <1>3, <2>5, <2>6
<1> QED
  BY <1>4, <1>5

\* A caller of a local application takes its next step.
LEMMA LocalHolds ==
  ASSUME config \in Configs, Safe(mem, requests, told),
         Kept(mem, requests, commited), NEW i \in DOMAIN requests,
         \/ \E valid \in BOOLEAN : LocalAnswer(i, valid)
         \/ LocalAddTx(i) \/ LocalReadNotified(i) \/ LocalNotify(i)
  PROVE  Kept(mem', requests', commited)
<1>1. requests \in Requests /\ MemOK(mem) /\ ~requests[i].recheck
  BY DEF Safe, LocalAnswer, LocalAddTx, LocalReadNotified, LocalNotify,
         LocalCaller
<1>2. /\ requests[i].recheck = FALSE /\ requests[i].tx \in Txs
      /\ requests[i].sender \in Nat
  BY <1>1, RequestIs
<1>3. Fewer(requests, i, RemoveAt(requests, i))
  BY <1>1, ReturnFewer
<1>4. \A st \in {"added", "telling"} :
        Fewer(requests, i, [requests EXCEPT ![i].stage = st])
  BY <1>1, <1>2, StageFewer
<1>5. ASSUME NEW valid \in BOOLEAN, LocalAnswer(i, valid)
      PROVE  Kept(mem', requests', commited)
  <2>1. requests[i].stage = "asked"
    BY <1>5 DEF LocalAnswer, LocalCaller
  <2>2. CASE valid /\ ~isFull(mem, requests[i].tx)
    <3> DEFINE new == [requests EXCEPT ![i].stage = "adding"]
    <3>1. requests' = new /\ mem' = mem
      BY <1>5, <2>2 DEF LocalAnswer
    <3>2. /\ DOMAIN new = DOMAIN requests /\ new[i].tx = requests[i].tx
          /\ \A j \in DOMAIN requests : j # i => new[j] = requests[j]
      BY <1>1, <1>2, StageIs DEF Stages
    <3> HIDE DEF new
    <3>3. \A j \in Asks(new) : j \in Asks(requests)
                               /\ new[j].tx = requests[j].tx
      BY <1>2, <2>1, <3>2 DEF Asks
    <3> QED
      BY <3>1, <3>3 DEF Kept, AskedOK
  <2>3. CASE ~(valid /\ ~isFull(mem, requests[i].tx))
    <3>1. /\ requests' = RemoveAt(requests, i)
          /\ mem' = resCbFirstTime(mem, requests[i], valid)
      BY <1>5, <2>3 DEF LocalAnswer
    <3> QED
      BY <1>1, <1>2, <1>3, <2>1, <3>1, FirstAnswerHolds
  <2> QED
    BY <2>2, <2>3
<1>6. CASE LocalAddTx(i)
  <2>1. /\ requests' = [requests EXCEPT ![i].stage = "added"]
        /\ mem' = addTx(mem, requests[i].tx, requests[i].sender)
        /\ requests[i].stage = "adding"
    BY <1>6 DEF LocalAddTx, LocalCaller
  <2>2. i \in Asks(requests)
    BY <1>2, <2>1 DEF Asks
  <2>3. Fewer(requests, i, requests')
    BY <1>4, <2>1
  <2> QED
    BY <1>1, <1>2, <2>1, <2>2, <2>3, AddedIsKept
<1>7. CASE LocalReadNotified(i) \/ LocalNotify(i)
  <2>1. Fewer(requests, i, requests')
    BY <1>3, <1>4, <1>7 DEF LocalReadNotified, LocalNotify
  <2>2. /\ mem'.txs = mem.txs /\ mem'.txsMap = mem.txsMap
        /\ mem'.cache = mem.cache
    BY <1>1, <1>7 DEF LocalReadNotified, LocalNotify, Panic, MemOK, Mems
  <2> QED
    BY <2>1, <2>2, SameIsKept
<1> QED
  BY <1>5, <1>6, <1>7

\* A block takes what it commits out of the list, when nobody asks.
LEMMA UpdateHolds ==
  ASSUME config \in Configs, CacheForgetsNone, Safe(mem, requests, told),
         commited \subseteq Txs, Kept(mem, requests, commited),
         NEW block \in Blocks, Update(block)
  PROVE  Kept(mem', requests', commited') /\ commited' \subseteq Txs
<1> DEFINE begun == [mem EXCEPT !.height = @ + 1,
                                !.notifiedTxsAvailable = FALSE]
           left == UpdateTxs(begun, block)
<1>1. /\ MemOK(mem) /\ requests = << >> /\ block \in Seq(Deliveries)
      /\ commited' = CommitedBy(block)
  BY MempoolAssumption DEF Safe, Update, FlushAppConn, Deliveries
<1>2. /\ MemOK(begun) /\ begun.txs = mem.txs
      /\ begun.txsMap = mem.txsMap /\ begun.cache = mem.cache
  <2>1. mem.height + 1 \in Nat
    BY <1>1 DEF MemOK, Mems
  <2> QED
    BY <1>1, <2>1 DEF MemOK, Mems, Mapped
<1>3. /\ mem' = CASE config.Recheck /\ left.txs # << >> -> recheckTxs(left)
                  [] ~(config.Recheck /\ left.txs # << >>)
                       /\ left.txs # << >> -> notifyTxsAvailable(left)
                  [] OTHER -> left
      /\ requests' = IF config.Recheck /\ left.txs # << >>
                     THEN requests \o RecheckRequests(left) ELSE requests
  BY DEF Update
<1> HIDE DEF begun
<1>4. Once(begun, commited)
  BY <1>2 DEF Kept, Once, Held, NoneTwice
<1>5. MemOK(left) /\ Once(left, commited')
  BY <1>1, <1>2, <1>4, UpdateTxsKeeps, UpdateTxsHolds
<1> HIDE DEF left
<1>6. /\ mem'.txs = left.txs /\ mem'.txsMap = left.txsMap
      /\ mem'.cache = left.cache
  <2>1. left \in Mems
    BY <1>5 DEF MemOK
  <2>2. \/ mem' = left \/ mem' = recheckTxs(left)
        \/ mem' = notifyTxsAvailable(left)
    BY <1>3
  <2> QED
    BY <2>1, <2>2 DEF recheckTxs, notifyTxsAvailable, Panic, Mems
<1>7. Once(mem', commited')
  BY <1>5, <1>6 DEF Once, Held, NoneTwice
<1>8. Asks(requests') = {}
  <2>1. CASE config.Recheck /\ left.txs # << >>
    <3> DEFINE rs == RecheckRequests(left)
    <3>1. rs \in Requests /\ \A i \in DOMAIN rs : rs[i].recheck = TRUE
      BY <1>5, RecheckRequestsIs
    <3> HIDE DEF rs
    <3>2. << >> \o rs = rs
      BY <3>1 DEF Requests
    <3> QED
      BY <1>1, <1>3, <2>1, <3>1, <3>2 DEF Asks, rs
  <2>2. CASE ~(config.Recheck /\ left.txs # << >>)
    BY <1>1, <1>3, <2>2 DEF Asks
  <2> QED
    BY <2>1, <2>2
<1>9. AskedOK(mem', requests', commited')
  BY <1>8 DEF AskedOK
<1>10. commited' \subseteq Txs
  BY <1>1 DEF CommitedBy
<1> QED
  BY <1>7, <1>9, <1>10 DEF Kept

-----------------------------------------------------------------------------
(* What was committed stays out                                            *)

OnceInv ==
  /\ Inv
  /\ commited \subseteq Txs
  /\ CacheForgetsNone => Kept(mem, requests, commited)

\* Nothing is held, asked for or committed at first.
LEMMA OnceInit == Init => OnceInv
<1> SUFFICES ASSUME Init PROVE OnceInv
  OBVIOUS
<1>1. /\ Inv /\ commited = {} /\ requests = << >>
      /\ mem.txs = << >> /\ mem.txsMap = {} /\ mem.cache = << >>
  BY InvInit DEF Init, New
<1>2. Once(mem, commited)
  BY <1>1 DEF Once, Held, NoneTwice, Distinct
<1>3. AskedOK(mem, requests, commited)
  BY <1>1 DEF AskedOK, Asks
<1> QED
  BY <1>1, <1>2, <1>3 DEF OnceInv, Kept

\* Every action keeps the invariant.
LEMMA OnceNext == OnceInv /\ [Next]_vars => OnceInv'
<1> SUFFICES ASSUME OnceInv, [Next]_vars PROVE OnceInv'
  OBVIOUS
<1>1. config \in Configs /\ Safe(mem, requests, told) /\ commited \subseteq Txs
  BY DEF OnceInv, Inv
<1>2. Inv'
  BY InvNext DEF OnceInv
<1>3. config' = config
  BY DEF Next, CheckTx, CheckTxError, Response, LocalAnswer, LocalAddTx,
         LocalReadNotified, LocalNotify, LocalCaller, Update,
         ReceiveTxsAvailable, vars
<1>4. commited' \subseteq Txs
  BY <1>1 DEF Next, CheckTx, CheckTxError, Response, LocalAnswer, LocalAddTx,
         LocalReadNotified, LocalNotify, LocalCaller, Update, CommitedBy,
         ReceiveTxsAvailable, vars
<1>5. ASSUME CacheForgetsNone PROVE Kept(mem', requests', commited')
  <2>1. Kept(mem, requests, commited)
    BY <1>5 DEF OnceInv
  <2>2. CASE \E tx \in Txs, sender \in config.Senders : CheckTx(tx, sender)
    <3>1. commited' = commited
      BY <2>2 DEF CheckTx
    <3> QED
      BY <1>1, <1>5, <2>1, <2>2, <3>1, CheckTxHolds
  <2>3. CASE \E valid \in BOOLEAN : Response(valid)
    <3>1. commited' = commited
      BY <2>3 DEF Response
    <3> QED
      BY <1>1, <2>1, <2>3, <3>1, ResponseHolds
  <2>4. CASE \E i \in DOMAIN requests :
               \/ \E valid \in BOOLEAN : LocalAnswer(i, valid)
               \/ LocalAddTx(i) \/ LocalReadNotified(i) \/ LocalNotify(i)
    <3>1. commited' = commited
      BY <2>4 DEF LocalAnswer, LocalAddTx, LocalReadNotified, LocalNotify,
                  LocalCaller
    <3> QED
      BY <1>1, <2>1, <2>4, <3>1, LocalHolds
  <2>5. CASE \E block \in Blocks : Update(block)
    BY <1>1, <1>5, <2>1, <2>5, UpdateHolds
  <2>6. CASE \/ UNCHANGED vars \/ \E tx \in Txs : CheckTxError(tx)
             \/ ReceiveTxsAvailable
    <3>1. /\ mem'.txs = mem.txs /\ mem'.txsMap = mem.txsMap
          /\ mem'.cache = mem.cache
          /\ requests' = requests /\ commited' = commited
      <4>1. mem \in Mems
        BY <1>1 DEF Safe, MemOK
      <4> QED
        BY <2>6, <4>1 DEF CheckTxError, ReceiveTxsAvailable, vars, Mems
    <3> QED
      BY <2>1, <3>1 DEF Kept, Once, AskedOK, Held, NoneTwice
  <2> QED
    BY <2>2, <2>3, <2>4, <2>5, <2>6 DEF Next
<1> QED
  BY <1>2, <1>3, <1>4, <1>5
     DEF OnceInv, CacheForgetsNone, Kept, Once, AskedOK, Held, NoneTwice,
         Distinct, Asks

\* A transaction that was committed successfully is not in the mempool, however
\* often it is submitted again and whatever else happens to it, as long as the
\* cache has room for all transactions.
THEOREM CommitedTxsStayOut == Spec => []CommitedStayOut
<1>1. OnceInv => CommitedStayOut
  <2> SUFFICES ASSUME OnceInv, CacheForgetsNone PROVE commited \cap Listed = {}
    BY DEF CommitedStayOut
  <2>1. Listed = Held(mem)
    BY DEF Listed, ListedTxs, ToSet, Held
  <2> QED
    BY <2>1 DEF OnceInv, Kept, Once
<1> QED
  BY <1>1, OnceInit, OnceNext, PTL DEF Spec

-----------------------------------------------------------------------------
(* Sums                                                                    *)

\* One element less.
LEMMA SumRemoveAt ==
  ASSUME NEW S, NEW f, Weighs(f, S), NEW s \in Seq(S), NEW p \in 1..Len(s)
  PROVE  Sum(f, RemoveAt(s, p)) = Sum(f, s) - f[s[p]]
<1> DEFINE n == Len(s)
           t == RemoveAt(s, p)
           w == f[s[p]]
<1>1. PICK g \in [0..n -> Nat] :
             /\ g[0] = 0
             /\ \A i \in 1..n : g[i] = g[i-1] + f[s[i]]
             /\ Sum(f, s) = g[n]
  BY SumIs
<1>2. /\ t \in Seq(S) /\ Len(t) = n - 1
      /\ \A i \in 1..(p - 1) : t[i] = s[i]
      /\ \A i \in p..(n - 1) : t[i] = s[i + 1]
  BY RemoveAtElements
<1>3. /\ n \in Nat /\ p \in Nat /\ p >= 1 /\ p <= n /\ w \in Nat
      /\ \A i \in 1..n : f[s[i]] \in Nat
  BY DEF Weighs
<1>4. g[p] = g[p-1] + w
  BY <1>1
<1> HIDE DEF t, n, w
<1> DEFINE h == [i \in 0..(n - 1) |-> IF i < p THEN g[i] ELSE g[i+1] - w]
<1>5. h \in [0..(n - 1) -> Int] /\ h[0] = 0
  <2>1. \A i \in 0..(n - 1) : i \in 0..n /\ i + 1 \in 0..n
    BY <1>3
  <2> QED
    BY <1>1, <1>3, <2>1
<1>6. h[n - 1] = g[n] - w
  <2>1. CASE n - 1 < p
    <3>1. n = p /\ n - 1 \in 0..(n - 1)
      BY <1>3, <2>1
    <3>2. h[n - 1] = g[n - 1] /\ g[n - 1] \in Nat
      BY <1>3, <2>1, <3>1
    <3> QED
      BY <1>3, <1>4, <3>1, <3>2
  <2>2. CASE ~(n - 1 < p)
    <3>1. n - 1 \in 0..(n - 1) /\ n - 1 + 1 = n
      BY <1>3
    <3> QED
      BY <2>2, <3>1
  <2> QED
    BY <2>1, <2>2
<1>7. ASSUME NEW i \in 1..(n - 1) PROVE h[i] = h[i-1] + f[t[i]]
  <2>1. i \in Nat /\ i - 1 \in 0..(n - 1) /\ i \in 0..(n - 1) /\ i \in 1..n
        /\ i + 1 \in 1..n /\ i - 1 \in 0..n /\ i + 1 - 1 = i
    BY <1>3
  <2>2. /\ g[i] = g[i-1] + f[s[i]] /\ g[i+1] = g[i] + f[s[i+1]]
        /\ g[i-1] \in Nat /\ g[i] \in Nat /\ g[i+1] \in Nat
        /\ f[s[i]] \in Nat /\ f[s[i+1]] \in Nat
    <3>1. g[i] = g[i-1] + f[s[i]]
      BY <1>1, <2>1
    <3>2. g[i+1] = g[i] + f[s[i+1]]
      <4>1. g[i+1] = g[i+1-1] + f[s[i+1]]
        BY <1>1, <2>1
      <4> QED
        BY <2>1, <4>1
    <3>3. g[i-1] \in Nat /\ g[i] \in Nat /\ g[i+1] \in Nat
      BY <1>1, <1>3, <2>1
    <3>4. f[s[i]] \in Nat /\ f[s[i+1]] \in Nat
      BY <1>3, <2>1
    <3> QED
      BY <3>1, <3>2, <3>3, <3>4
  <2>3. CASE i < p
    <3>1. h[i] = g[i] /\ h[i-1] = g[i-1] /\ t[i] = s[i]
      BY <1>2, <1>3, <2>1, <2>3
    <3> HIDE DEF h
    <3> QED
      BY <2>2, <3>1
  <2>4. CASE i = p
    <3>1. h[i] = g[i+1] - w /\ h[i-1] = g[i-1] /\ t[i] = s[i+1]
      BY <1>2, <1>3, <2>1, <2>4
    <3>2. g[i] = g[i-1] + w
      BY <1>4, <2>4
    <3>3. g[i+1] - w = g[i-1] + f[s[i+1]]
      <4> DEFINE a == g[i-1]  b == g[i]  c == g[i+1]  d == f[s[i+1]]
      <4>1. a \in Nat /\ b \in Nat /\ c \in Nat /\ d \in Nat
            /\ c = b + d /\ b = a + w
        BY <2>2, <3>2
      <4> HIDE DEF a, b, c, d
      <4>2. c - w = a + d
        BY <1>3, <4>1
      <4> QED
        BY <4>2 DEF a, b, c, d
    <3> HIDE DEF h
    <3> QED
      BY <3>1, <3>3
  <2>5. CASE i > p
    <3>1. /\ i - 1 + 1 = i /\ ~(i < p) /\ ~(i - 1 < p)
          /\ i \in p..(n - 1)
      BY <1>3, <2>1, <2>5
    <3>2. h[i] = g[i+1] - w
      BY <2>1, <3>1
    <3>3. h[i-1] = g[i] - w
      BY <2>1, <3>1
    <3>4. t[i] = s[i+1]
      BY <1>2, <3>1
    <3>5. g[i+1] - w = g[i] - w + f[s[i+1]]
      <4> DEFINE b == g[i]  c == g[i+1]  d == f[s[i+1]]
      <4>1. b \in Nat /\ c \in Nat /\ d \in Nat /\ c = b + d
        BY <2>2
      <4> HIDE DEF b, c, d
      <4>2. c - w = b - w + d
        BY <1>3, <4>1
      <4> QED
        BY <4>2 DEF b, c, d
    <3> HIDE DEF h
    <3> QED
      BY <3>2, <3>3, <3>4, <3>5
  <2> QED
    BY <1>3, <2>1, <2>3, <2>4, <2>5
<1> HIDE DEF h
<1>8. Sum(f, t) = h[n - 1]
  <2>1. Totals(h, f, t)
    BY <1>2, <1>5, <1>7 DEF Totals
  <2>2. Sum(f, t) = h[Len(t)]
    BY <1>2, <2>1, SumIsUnique
  <2> QED
    BY <1>2, <2>2
<1> QED
  BY <1>1, <1>6, <1>8 DEF t, w

\* Elements that weigh the same sum up to the same.
LEMMA SumSame ==
  ASSUME NEW S, NEW f, Weighs(f, S), NEW s \in Seq(S),
         NEW T, NEW g, Weighs(g, T), NEW t \in Seq(T), Len(t) = Len(s),
         \A i \in 1..Len(s) : f[s[i]] = g[t[i]]
  PROVE  Sum(f, s) = Sum(g, t)
<1>1. PICK h \in [0..Len(t) -> Nat] :
             /\ h[0] = 0
             /\ \A i \in 1..Len(t) : h[i] = h[i-1] + g[t[i]]
             /\ Sum(g, t) = h[Len(t)]
  BY SumIs
<1>2. Totals(h, f, s)
  BY <1>1 DEF Totals
<1>3. Sum(f, s) = h[Len(s)]
  BY <1>2, SumIsUnique
<1> QED
  BY <1>1, <1>3

\* The first element is taken.
LEMMA SumTail ==
  ASSUME NEW S, NEW f, Weighs(f, S), NEW s \in Seq(S), s # << >>
  PROVE  Sum(f, Tail(s)) = Sum(f, s) - f[s[1]]
<1> DEFINE t == Tail(s)
           r == RemoveAt(s, 1)
           n == Len(s)
<1>1. /\ n \in Nat /\ 1 \in 1..n /\ t \in Seq(S) /\ Len(t) = n - 1
      /\ \A i \in 1..(n - 1) : t[i] = s[i + 1]
  OBVIOUS
<1>2. r \in Seq(S) /\ Len(r) = n - 1 /\ \A i \in 1..(n - 1) : r[i] = s[i + 1]
  BY <1>1, RemoveAtElements
<1>3. Sum(f, r) = Sum(f, s) - f[s[1]]
  BY <1>1, SumRemoveAt
<1> HIDE DEF t, r
<1>4. Sum(f, t) = Sum(f, r)
  BY <1>1, <1>2, SumSame
<1> QED
  BY <1>3, <1>4 DEF t

\* One element is replaced.
LEMMA SumReplace ==
  ASSUME NEW S, NEW f, Weighs(f, S), NEW s \in Seq(S), NEW p \in 1..Len(s),
         NEW t \in Seq(S), Len(t) = Len(s),
         \A i \in 1..Len(s) : i # p => t[i] = s[i]
  PROVE  Sum(f, t) = Sum(f, s) - f[s[p]] + f[t[p]]
<1> DEFINE n == Len(s)
           r == RemoveAt(s, p)
           q == RemoveAt(t, p)
<1>1. n \in Nat /\ p \in 1..Len(t) /\ p \in Nat /\ p <= n
  OBVIOUS
<1>2. /\ r \in Seq(S) /\ Len(r) = n - 1
      /\ \A i \in 1..(p - 1) : r[i] = s[i]
      /\ \A i \in p..(n - 1) : r[i] = s[i + 1]
  BY RemoveAtElements
<1>3. /\ q \in Seq(S) /\ Len(q) = n - 1
      /\ \A i \in 1..(p - 1) : q[i] = t[i]
      /\ \A i \in p..(n - 1) : q[i] = t[i + 1]
  BY <1>1, RemoveAtElements
<1>4. Sum(f, r) = Sum(f, s) - f[s[p]] /\ Sum(f, q) = Sum(f, t) - f[t[p]]
  BY <1>1, SumRemoveAt
<1>5. Sum(f, s) \in Nat /\ Sum(f, t) \in Nat
  BY SumType
<1>6. f[s[p]] \in Nat /\ f[t[p]] \in Nat
  BY <1>1 DEF Weighs
<1> HIDE DEF r, q
<1>7. ASSUME NEW i \in 1..(n - 1) PROVE q[i] = r[i]
  <2>1. i \in 1..n /\ i + 1 \in 1..n
    BY <1>1
  <2>2. CASE i \in 1..(p - 1)
    BY <1>2, <1>3, <2>1, <2>2
  <2>3. CASE i \in p..(n - 1)
    <3>1. i + 1 # p
      BY <1>1, <2>3
    <3>2. t[i + 1] = s[i + 1]
      BY <2>1, <3>1
    <3> QED
      BY <1>2, <1>3, <2>3, <3>2
  <2> QED
    BY <1>1, <2>2, <2>3
<1>8. Sum(f, q) = Sum(f, r)
  <2>1. /\ q \in Seq(S) /\ r \in Seq(S) /\ Len(r) = Len(q)
        /\ \A i \in 1..Len(q) : f[q[i]] = f[r[i]]
    BY <1>2, <1>3, <1>7
  <2> QED
    BY <2>1, SumSame
<1> DEFINE a == Sum(f, s)  b == Sum(f, t)  c == f[s[p]]  d == f[t[p]]
<1>9. a \in Nat /\ b \in Nat /\ c \in Nat /\ d \in Nat /\ a - c = b - d
  BY <1>4, <1>5, <1>6, <1>8
<1> HIDE DEF a, b, c, d
<1>10. b = a - c + d
  BY <1>9
<1> QED
  BY <1>10 DEF a, b, c, d

\* Elements that weigh at most b each.
LEMMA SumBound ==
  ASSUME NEW S, NEW f, Weighs(f, S), NEW s \in Seq(S), NEW b \in Nat,
         \A i \in 1..Len(s) : f[s[i]] <= b
  PROVE  Sum(f, s) <= Len(s) * b
<1> DEFINE n == Len(s)
<1>1. PICK g \in [0..n -> Nat] :
             /\ g[0] = 0
             /\ \A i \in 1..n : g[i] = g[i-1] + f[s[i]]
             /\ Sum(f, s) = g[n]
  BY SumIs
<1>2. n \in Nat /\ \A i \in 1..n : f[s[i]] \in Nat
  BY DEF Weighs
<1> DEFINE Bad == {i \in 0..n : ~(g[i] <= i * b)}
<1>3. Bad = {}
  <2> SUFFICES ASSUME Bad # {} PROVE FALSE
    OBVIOUS
  <2>1. Bad \in SUBSET Nat
    BY <1>2
  <2> HIDE DEF Bad
  <2>2. PICK l \in Bad : \A i \in Bad : l <= i
    BY <2>1, LeastExists
  <2> USE DEF Bad
  <2>3. 0 * b = 0
    OBVIOUS
  <2>4. l \in 0..n /\ ~(g[l] <= l * b) /\ l # 0
    BY <1>1, <2>2, <2>3
  <2>5. l \in 1..n /\ l - 1 \in 0..n /\ ~(l <= l - 1) /\ l \in Nat
    BY <1>2, <2>4
  <2>6. g[l-1] <= (l - 1) * b
    BY <2>2, <2>5
  <2>7. /\ g[l] = g[l-1] + f[s[l]] /\ f[s[l]] <= b
        /\ g[l] \in Nat /\ g[l-1] \in Nat /\ f[s[l]] \in Nat
    BY <1>1, <1>2, <2>5
  <2>8. (l - 1) * b + b = l * b /\ (l - 1) * b \in Int /\ l * b \in Int
    BY <2>5
  <2> DEFINE x == (l - 1) * b  y == l * b  u == g[l-1]  v == g[l]  w == f[s[l]]
  <2>9. /\ x \in Int /\ y \in Int /\ u \in Nat /\ v \in Nat /\ w \in Nat
        /\ x + b = y /\ u <= x /\ v = u + w /\ w <= b
    BY <2>6, <2>7, <2>8
  <2> HIDE DEF x, y, u, v, w
  <2>10. v <= y
    BY <2>9
  <2> QED
    BY <2>4, <2>10 DEF v, y
<1>4. n \in 0..n
  BY <1>2
<1> QED
  BY <1>1, <1>3, <1>4

\* Nothing sums up to nothing.
LEMMA SumEmpty ==
  ASSUME NEW S, NEW f, Weighs(f, S), NEW s \in Seq(S), s = << >>
  PROVE  Sum(f, s) = 0
<1>1. PICK g \in [0..Len(s) -> Nat] : g[0] = 0 /\ Sum(f, s) = g[Len(s)]
  BY SumIs
<1>2. Len(s) = 0
  OBVIOUS
<1> QED
  BY <1>1, <1>2

-----------------------------------------------------------------------------
(* The limits of the list and what the callers are about to add            *)

ElementSize == [e \in Elements |-> TxSize[e.tx]]

\* The total agrees with the list.
AddsUp(m) == m.txsBytes = Sum(ElementSize, m.txs)

\* Request r comes from a caller that has passed the test of the limits.
Adding(r) == r.recheck = FALSE /\ r.stage = "adding"

AddsOne == [r \in Asking \cup Rechecking |-> IF Adding(r) THEN 1 ELSE 0]

AddsBytes ==
  [r \in Asking \cup Rechecking |-> IF Adding(r) THEN TxSize[r.tx] ELSE 0]

\* What the callers of a local application exceed the limits by.
ExcessBytes == (MaxPending - 1) * config.MaxTxBytes

\* The limits, with the transactions that callers are about to add.
Within(m, rs) ==
  IF config.Local
  THEN /\ Len(m.txs) + Sum(AddsOne, rs) <= config.Size + (MaxPending - 1)
       /\ m.txsBytes + Sum(AddsBytes, rs) <= config.MaxTxsBytes + ExcessBytes
  ELSE Len(m.txs) <= config.Size /\ m.txsBytes <= config.MaxTxsBytes

\* There are few callers, and each asks for a transaction that is not too big.
FewCallers(rs) ==
  \A i \in DOMAIN rs : rs[i].recheck = FALSE =>
    TxSize[rs[i].tx] <= config.MaxTxBytes /\ Len(rs) <= MaxPending

Limited(m, rs) == AddsUp(m) /\ Within(m, rs) /\ FewCallers(rs)

\* The list of n is no larger than that of m.
NoLarger(m, n) ==
  AddsUp(n) /\ Len(n.txs) <= Len(m.txs) /\ n.txsBytes <= m.txsBytes

\* The requests in new are some of those in rs, and add no more.
NoMore(rs, new) ==
  /\ new \in Requests /\ Len(new) <= Len(rs)
  /\ \A j \in DOMAIN new : \E i \in DOMAIN rs :
       new[j].recheck = rs[i].recheck /\ new[j].tx = rs[i].tx
  /\ Sum(AddsOne, new) <= Sum(AddsOne, rs)
  /\ Sum(AddsBytes, new) <= Sum(AddsBytes, rs)

\* Everything has a weight.
LEMMA WeightsAre ==
  /\ Weighs(TxSize, Txs)
  /\ Weighs(ElementSize, Elements)
  /\ Weighs(AddsOne, Asking \cup Rechecking)
  /\ Weighs(AddsBytes, Asking \cup Rechecking)
  /\ \A e \in Elements : ElementSize[e] = TxSize[e.tx]
  /\ \A r \in Asking \cup Rechecking :
       /\ AddsOne[r] = IF Adding(r) THEN 1 ELSE 0
       /\ AddsBytes[r] = IF Adding(r) THEN TxSize[r.tx] ELSE 0
<1>1. Weighs(TxSize, Txs)
  BY MempoolAssumption DEF Weighs
<1>2. \A e \in Elements : ElementSize[e] = TxSize[e.tx] /\ e.tx \in Txs
  BY DEF ElementSize, Elements
<1>3. \A r \in Asking \cup Rechecking :
        /\ r.tx \in Txs
        /\ AddsOne[r] = IF Adding(r) THEN 1 ELSE 0
        /\ AddsBytes[r] = IF Adding(r) THEN TxSize[r.tx] ELSE 0
  BY DEF AddsOne, AddsBytes, Asking, Rechecking
<1> QED
  BY <1>1, <1>2, <1>3 DEF Weighs

\* What the limits are sums of.
LEMMA LimitTypes ==
  ASSUME config \in Configs
  PROVE  /\ config.Size \in Nat /\ config.MaxTxsBytes \in Nat
         /\ config.MaxTxBytes \in Nat /\ config.Local \in BOOLEAN
         /\ MaxPending \in Nat /\ MaxPending >= 1
         /\ ExcessBytes \in Nat
         /\ \A m : MemOK(m) => Len(m.txs) \in Nat /\ m.txsBytes \in Int
         /\ \A rs \in Requests : /\ Sum(AddsOne, rs) \in Nat
                                 /\ Sum(AddsBytes, rs) \in Nat
                                 /\ Len(rs) \in Nat
<1>1. /\ config.Size \in Nat /\ config.MaxTxsBytes \in Nat
      /\ config.MaxTxBytes \in Nat /\ config.Local \in BOOLEAN
      /\ MaxPending \in Nat /\ MaxPending >= 1
  BY MempoolAssumption
<1>2. ExcessBytes \in Nat
  <2>1. \A a, b \in Nat : a * b \in Nat
    OBVIOUS
  <2>2. MaxPending - 1 \in Nat
    BY <1>1
  <2> QED
    BY <1>1, <2>1, <2>2 DEF ExcessBytes
<1>3. ASSUME NEW rs \in Requests
      PROVE  Sum(AddsOne, rs) \in Nat /\ Sum(AddsBytes, rs) \in Nat
             /\ Len(rs) \in Nat
  BY WeightsAre, SumType DEF Requests
<1>4. \A m : MemOK(m) => Len(m.txs) \in Nat /\ m.txsBytes \in Int
  BY DEF MemOK, Mems
<1> QED
  BY <1>1, <1>2, <1>3, <1>4

\* A list that is no larger, and requests that add no more, keep the limits.
LEMMA NoLargerIsLimited ==
  ASSUME config \in Configs, NEW m, MemOK(m), NEW n, MemOK(n),
         NEW rs \in Requests, Limited(m, rs), NEW new, NoLarger(m, n), NoMore(rs, new)
  PROVE  Limited(n, new)
<1>1. new \in Requests
  BY DEF NoMore
<1>2. Within(n, new)
  <2> DEFINE a == Len(m.txs)  b == Len(n.txs)  c == m.txsBytes  d == n.txsBytes
             e == Sum(AddsOne, rs)  f == Sum(AddsOne, new)
             g == Sum(AddsBytes, rs)  h == Sum(AddsBytes, new)
             s == config.Size  x == config.MaxTxsBytes
  <2>1. /\ a \in Nat /\ b \in Nat /\ c \in Int /\ d \in Int /\ e \in Nat
        /\ f \in Nat /\ g \in Nat /\ h \in Nat /\ s \in Nat /\ x \in Nat
        /\ MaxPending \in Nat /\ ExcessBytes \in Nat
    BY <1>1, LimitTypes
  <2>2. b <= a /\ d <= c /\ f <= e /\ h <= g
    BY DEF NoLarger, NoMore
  <2>3. IF config.Local
        THEN a + e <= s + (MaxPending - 1) /\ c + g <= x + ExcessBytes
        ELSE a <= s /\ c <= x
    BY DEF Limited, Within
  <2> HIDE DEF a, b, c, d, e, f, g, h, s, x
  <2>4. IF config.Local
        THEN b + f <= s + (MaxPending - 1) /\ d + h <= x + ExcessBytes
        ELSE b <= s /\ d <= x
    BY <2>1, <2>2, <2>3
  <2> QED
    BY <2>4 DEF Within, b, d, f, h, s, x
<1>3. FewCallers(new)
  <2> SUFFICES ASSUME NEW j \in DOMAIN new, new[j].recheck = FALSE
               PROVE  TxSize[new[j].tx] <= config.MaxTxBytes
                      /\ Len(new) <= MaxPending
    BY DEF FewCallers
  <2>1. PICK i \in DOMAIN rs :
              new[j].recheck = rs[i].recheck /\ new[j].tx = rs[i].tx
    BY DEF NoMore
  <2>2. TxSize[rs[i].tx] <= config.MaxTxBytes /\ Len(rs) <= MaxPending
    BY <2>1 DEF Limited, FewCallers
  <2>3. Len(new) <= Len(rs) /\ Len(new) \in Nat /\ Len(rs) \in Nat
        /\ MaxPending \in Nat
    BY <1>1, LimitTypes DEF NoMore
  <2> QED
    BY <2>1, <2>2, <2>3
<1> QED
  BY <1>2, <1>3 DEF Limited, NoLarger

\* When nothing but other fields changes, the list is no larger.
LEMMA SameIsNoLarger ==
  ASSUME NEW m, MemOK(m), AddsUp(m), NEW n, MemOK(n),
         n.txsBytes = m.txsBytes, Len(n.txs) = Len(m.txs),
         \A i \in DOMAIN m.txs : n.txs[i].tx = m.txs[i].tx
  PROVE  NoLarger(m, n)
<1>1. /\ m.txs \in Seq(Elements) /\ n.txs \in Seq(Elements)
      /\ Len(m.txs) \in Nat /\ m.txsBytes \in Int
      /\ DOMAIN m.txs = 1..Len(m.txs)
  BY DEF MemOK, Mems
<1>2. \A i \in 1..Len(m.txs) : m.txs[i] \in Elements /\ n.txs[i] \in Elements
  BY <1>1
<1>3. \A i \in 1..Len(m.txs) : ElementSize[m.txs[i]] = ElementSize[n.txs[i]]
  BY <1>1, <1>2, WeightsAre
<1>4. Sum(ElementSize, m.txs) = Sum(ElementSize, n.txs)
  <2> DEFINE s == m.txs  t == n.txs
  <2>1. /\ s \in Seq(Elements) /\ t \in Seq(Elements) /\ Len(t) = Len(s)
        /\ \A i \in 1..Len(s) : ElementSize[s[i]] = ElementSize[t[i]]
    BY <1>1, <1>3
  <2>2. Weighs(ElementSize, Elements)
    BY WeightsAre
  <2> HIDE DEF s, t
  <2>3. Sum(ElementSize, s) = Sum(ElementSize, t)
    BY <2>1, <2>2, SumSame
  <2> QED
    BY <2>3 DEF s, t
<1> QED
  BY <1>1, <1>4 DEF NoLarger, AddsUp

\* What is no larger than what is no larger.
LEMMA NoLargerTwice ==
  ASSUME NEW m, MemOK(m), NEW n, MemOK(n), NEW k, MemOK(k),
         NoLarger(m, n), NoLarger(n, k)
  PROVE  NoLarger(m, k)
<1>1. /\ m.txsBytes \in Int /\ Len(m.txs) \in Nat
      /\ n.txsBytes \in Int /\ Len(n.txs) \in Nat
      /\ k.txsBytes \in Int /\ Len(k.txs) \in Nat
  BY DEF MemOK, Mems
<1> QED
  BY <1>1 DEF NoLarger

\* addTx counts what it adds.
LEMMA AddTxAddsUp ==
  ASSUME NEW m, MemOK(m), AddsUp(m), NEW tx \in Txs, NEW sender \in Nat
  PROVE  LET n == addTx(m, tx, sender)
         IN  /\ AddsUp(n) /\ Len(n.txs) = Len(m.txs) + 1
             /\ n.txsBytes = m.txsBytes + TxSize[tx]
<1> DEFINE e == [tx |-> tx, height |-> m.height, senders |-> {sender}]
           n == addTx(m, tx, sender)
           s == Append(m.txs, e)
<1>1. m \in Mems /\ m.txs \in Seq(Elements) /\ e \in Elements
  BY DEF MemOK, Mems, Elements
<1>2. n.txs = s /\ n.txsBytes = m.txsBytes + TxSize[tx]
  BY <1>1 DEF addTx, Mems
<1>3. e.tx = tx
  OBVIOUS
<1> HIDE DEF e
<1>4. Sum(ElementSize, s) = Sum(ElementSize, m.txs) + ElementSize[e]
  BY <1>1, WeightsAre, SumAppend
<1>5. ElementSize[e] = TxSize[tx]
  BY <1>1, <1>3, WeightsAre
<1>6. Len(s) = Len(m.txs) + 1
  BY <1>1
<1> HIDE DEF s, n
<1> QED
  BY <1>2, <1>4, <1>5, <1>6 DEF AddsUp, n

\* removeTx subtracts what it removes.
LEMMA RemoveTxNoLarger ==
  ASSUME NEW m, MemOK(m), AddsUp(m), NEW pos \in 1..Len(m.txs), NEW b
  PROVE  NoLarger(m, removeTx(m, pos, b))
<1> DEFINE n == removeTx(m, pos, b)
           s == RemoveAt(m.txs, pos)
           tx == m.txs[pos].tx
<1>1. m \in Mems /\ m.txs \in Seq(Elements) /\ m.txsBytes \in Int
      /\ Len(m.txs) \in Nat
  BY DEF MemOK, Mems
<1>2. n.txs = s /\ n.txsBytes = m.txsBytes - TxSize[tx]
  BY <1>1 DEF removeTx, Mems
<1>3. m.txs[pos] \in Elements
  BY <1>1
<1>4. ElementSize[m.txs[pos]] = TxSize[tx] /\ TxSize[tx] \in Nat
  BY <1>3, WeightsAre DEF Weighs
<1>5. Sum(ElementSize, s) = Sum(ElementSize, m.txs) - ElementSize[m.txs[pos]]
  BY <1>1, WeightsAre, SumRemoveAt
<1>6. Len(s) = Len(m.txs) - 1
  BY <1>1, RemoveAtElements
<1> HIDE DEF s, n, tx
<1>7. AddsUp(n)
  BY <1>2, <1>4, <1>5 DEF AddsUp
<1>8. Len(n.txs) <= Len(m.txs) /\ n.txsBytes <= m.txsBytes
  BY <1>1, <1>2, <1>4, <1>6
<1> QED
  BY <1>7, <1>8 DEF NoLarger, n

\* So does a committed transaction ...
LEMMA UpdateTxNoLarger ==
  ASSUME config \in Configs, NEW m, MemOK(m), AddsUp(m), NEW d \in Deliveries
  PROVE  NoLarger(m, UpdateTx(m, d))
<1> DEFINE c == CASE d.ok -> CachePush(m.cache, d.tx)
                  [] ~d.ok /\ ~config.KeepInvalidTxsInCache ->
                       CacheRemove(m.cache, d.tx)
                  [] OTHER -> m.cache
           k == [m EXCEPT !.cache = c]
           pos == ElementOf(m, d.tx)
           r == removeTx(k, pos, FALSE)
<1>1. m.cache \in Seq(Txs) /\ d.tx \in Txs
  BY DEF MemOK, Mems, Deliveries
<1>2. c \in Seq(Txs)
  <2>1. /\ CachePush(m.cache, d.tx) \in Seq(Txs)
        /\ CacheRemove(m.cache, d.tx) \in Seq(Txs)
    BY <1>1, CachePushType, CacheRemoveType
  <2>2. \/ c = CachePush(m.cache, d.tx)
        \/ c = CacheRemove(m.cache, d.tx)
        \/ c = m.cache
    OBVIOUS
  <2> QED
    BY <1>1, <2>1, <2>2
<1>3. UpdateTx(m, d) = IF d.tx \in m.txsMap THEN r ELSE k
  BY DEF UpdateTx
<1> HIDE DEF c
<1>4. MemOK(k) /\ k.txs = m.txs
  BY <1>2, CacheIs
<1>5. k.txsBytes = m.txsBytes
  BY DEF MemOK, Mems
<1> HIDE DEF k
<1>6. AddsUp(k)
  BY <1>4, <1>5 DEF AddsUp
<1>7. m.txsBytes \in Int /\ Len(m.txs) \in Nat
  BY DEF MemOK, Mems
<1>8. CASE d.tx \in m.txsMap
  <2>1. pos \in 1..Len(k.txs)
    BY <1>4, <1>8, ElementOfIs
  <2> HIDE DEF pos
  <2>2. NoLarger(k, r)
    BY <1>4, <1>6, <2>1, RemoveTxNoLarger
  <2> HIDE DEF r
  <2>3. NoLarger(m, r)
    BY <1>4, <1>5, <2>2 DEF NoLarger
  <2> QED
    BY <1>3, <1>8, <2>3
<1>9. CASE d.tx \notin m.txsMap
  <2>1. NoLarger(m, k)
    BY <1>4, <1>5, <1>6, <1>7 DEF NoLarger
  <2> QED
    BY <1>3, <1>9, <2>1
<1> QED
  BY <1>8, <1>9

\* ... and a block.
LEMMA UpdateTxsNoLarger ==
  ASSUME config \in Configs, NEW m, MemOK(m), AddsUp(m),
         NEW block \in Seq(Deliveries)
  PROVE  NoLarger(m, UpdateTxs(m, block))
<1> DEFINE k == Len(block)
<1>1. PICK g : /\ g[0] = m
               /\ \A i \in 1..k : g[i] = UpdateTx(g[i-1], block[i])
               /\ UpdateTxs(m, block) = g[k]
  BY UpdateTxsIs
<1>2. k \in Nat /\ \A i \in 1..k : block[i] \in Deliveries
  OBVIOUS
<1> HIDE DEF k
<1> DEFINE Good(n) == MemOK(n) /\ NoLarger(m, n)
           Bad == {i \in 0..k : ~Good(g[i])}
<1>3. Bad = {}
  <2> SUFFICES ASSUME Bad # {} PROVE FALSE
    OBVIOUS
  <2>1. Bad \in SUBSET Nat
    BY <1>2
  <2> HIDE DEF Bad
  <2>2. PICK l \in Bad : \A i \in Bad : l <= i
    BY <2>1, LeastExists
  <2> USE DEF Bad
  <2>3. Good(m)
    <3>1. m.txsBytes \in Int /\ Len(m.txs) \in Nat
      BY DEF MemOK, Mems
    <3> QED
      BY <3>1 DEF NoLarger
  <2>4. l \in 0..k /\ ~Good(g[l]) /\ l # 0
    BY <1>1, <2>2, <2>3
  <2>5. l \in 1..k /\ l - 1 \in 0..k /\ ~(l <= l - 1)
    BY <1>2, <2>4
  <2>6. MemOK(g[l-1]) /\ NoLarger(m, g[l-1]) /\ AddsUp(g[l-1])
    BY <2>2, <2>5 DEF NoLarger
  <2>7. /\ MemOK(UpdateTx(g[l-1], block[l]))
        /\ NoLarger(g[l-1], UpdateTx(g[l-1], block[l]))
    BY <1>2, <2>5, <2>6, UpdateTxIs, UpdateTxNoLarger
  <2>8. MemOK(g[l]) /\ NoLarger(g[l-1], g[l])
    BY <1>1, <2>5, <2>7
  <2>9. NoLarger(m, g[l])
    BY <2>6, <2>8, NoLargerTwice
  <2> QED
    BY <2>4, <2>8, <2>9
<1>4. Good(g[k])
  BY <1>2, <1>3
<1> QED
  BY <1>1, <1>4

\* The requests stay as they are, ...
LEMMA SameIsNoMore ==
  ASSUME config \in Configs, NEW rs \in Requests
  PROVE  NoMore(rs, rs)
<1>1. Sum(AddsOne, rs) \in Nat /\ Sum(AddsBytes, rs) \in Nat /\ Len(rs) \in Nat
  BY LimitTypes
<1> QED
  BY <1>1 DEF NoMore

\* ... the first one is answered, ...
LEMMA TailIsNoMore ==
  ASSUME config \in Configs, NEW rs \in Requests, rs # << >>
  PROVE  NoMore(rs, Tail(rs))
<1> DEFINE new == Tail(rs)
           R == Asking \cup Rechecking
           n == Len(rs)
<1>1. /\ new \in Requests /\ n \in Nat /\ n >= 1 /\ Len(new) = n - 1
      /\ DOMAIN new = 1..(n - 1) /\ DOMAIN rs = 1..n
      /\ \A j \in 1..(n - 1) : new[j] = rs[j + 1]
  BY TailIs
<1>2. rs \in Seq(R) /\ rs[1] \in R
  <2>1. rs \in Seq(R)
    BY DEF Requests
  <2> QED
    BY <1>1, <2>1
<1>3. Weighs(AddsOne, R) /\ Weighs(AddsBytes, R)
  BY WeightsAre
<1> HIDE DEF R
<1>4. /\ Sum(AddsOne, new) = Sum(AddsOne, rs) - AddsOne[rs[1]]
      /\ Sum(AddsBytes, new) = Sum(AddsBytes, rs) - AddsBytes[rs[1]]
  BY <1>2, <1>3, SumTail
<1>5. AddsOne[rs[1]] \in Nat /\ AddsBytes[rs[1]] \in Nat
  BY <1>2, <1>3 DEF Weighs
<1>6. Sum(AddsOne, rs) \in Nat /\ Sum(AddsBytes, rs) \in Nat
  BY LimitTypes
<1> HIDE DEF new, n
<1>7. /\ Sum(AddsOne, new) <= Sum(AddsOne, rs)
      /\ Sum(AddsBytes, new) <= Sum(AddsBytes, rs)
  BY <1>4, <1>5, <1>6
<1>8. \A j \in 1..(n - 1) : j + 1 \in 1..n
  BY <1>1
<1>9. Len(new) <= n
  BY <1>1
<1> QED
  BY <1>1, <1>7, <1>8, <1>9 DEF NoMore, new, n

\* ... a caller returns, ...
LEMMA ReturnIsNoMore ==
  ASSUME config \in Configs, NEW rs \in Requests, NEW i \in DOMAIN rs
  PROVE  NoMore(rs, RemoveAt(rs, i))
<1> DEFINE new == RemoveAt(rs, i)
           R == Asking \cup Rechecking
           n == Len(rs)
<1>1. /\ new \in Requests
      /\ \A j \in DOMAIN new : \E l \in DOMAIN rs \ {i} : new[j] = rs[l]
  BY ReturnIs
<1>2. rs \in Seq(R) /\ i \in 1..n /\ n \in Nat
  BY DEF Requests
<1>3. Len(new) = n - 1 /\ rs[i] \in R
  BY <1>2, RemoveAtElements
<1>4. Weighs(AddsOne, R) /\ Weighs(AddsBytes, R)
  BY WeightsAre
<1> HIDE DEF R
<1>5. /\ Sum(AddsOne, new) = Sum(AddsOne, rs) - AddsOne[rs[i]]
      /\ Sum(AddsBytes, new) = Sum(AddsBytes, rs) - AddsBytes[rs[i]]
  BY <1>2, <1>4, SumRemoveAt
<1>6. AddsOne[rs[i]] \in Nat /\ AddsBytes[rs[i]] \in Nat
  BY <1>3, <1>4 DEF Weighs
<1>7. Sum(AddsOne, rs) \in Nat /\ Sum(AddsBytes, rs) \in Nat
  BY LimitTypes
<1> HIDE DEF new, n
<1>8. /\ Sum(AddsOne, new) <= Sum(AddsOne, rs)
      /\ Sum(AddsBytes, new) <= Sum(AddsBytes, rs)
  BY <1>5, <1>6, <1>7
<1>9. Len(new) <= n
  BY <1>2, <1>3
<1> QED
  BY <1>1, <1>8, <1>9 DEF NoMore, new, n

\* What a caller adds to the sums before and after it goes on.
LEMMA StageSums ==
  ASSUME config \in Configs, NEW rs \in Requests, NEW i \in DOMAIN rs,
         rs[i].recheck = FALSE, NEW st \in Stages
  PROVE  LET new == [rs EXCEPT ![i].stage = st]
             size == TxSize[rs[i].tx]
         IN  /\ size \in Nat /\ new \in Requests /\ Len(new) = Len(rs)
             /\ \A j \in DOMAIN new :
                  new[j].recheck = rs[j].recheck /\ new[j].tx = rs[j].tx
             /\ Sum(AddsOne, new) = Sum(AddsOne, rs)
                  - (IF rs[i].stage = "adding" THEN 1 ELSE 0)
                  + (IF st = "adding" THEN 1 ELSE 0)
             /\ Sum(AddsBytes, new) = Sum(AddsBytes, rs)
                  - (IF rs[i].stage = "adding" THEN size ELSE 0)
                  + (IF st = "adding" THEN size ELSE 0)
<1> DEFINE new == [rs EXCEPT ![i].stage = st]
           size == TxSize[rs[i].tx]
           R == Asking \cup Rechecking
           n == Len(rs)
<1>1. /\ new \in Requests /\ DOMAIN new = DOMAIN rs
      /\ new[i].recheck = FALSE /\ new[i].stage = st
      /\ new[i].tx = rs[i].tx
      /\ \A j \in DOMAIN rs : j # i => new[j] = rs[j]
  BY StageIs
<1> HIDE DEF new
<1>2. /\ rs \in Seq(R) /\ new \in Seq(R) /\ i \in 1..n /\ n \in Nat
      /\ Len(new) = n /\ DOMAIN rs = 1..n
  BY <1>1 DEF Requests
<1>3. rs[i] \in R /\ new[i] \in R
  BY <1>2
<1>4. Weighs(AddsOne, R) /\ Weighs(AddsBytes, R)
  BY WeightsAre
<1>5. /\ AddsOne[rs[i]] = IF rs[i].stage = "adding" THEN 1 ELSE 0
      /\ AddsOne[new[i]] = IF st = "adding" THEN 1 ELSE 0
      /\ AddsBytes[rs[i]] = IF rs[i].stage = "adding" THEN size ELSE 0
      /\ AddsBytes[new[i]] = IF st = "adding" THEN size ELSE 0
  BY <1>1, <1>3, WeightsAre DEF Adding
<1>6. size \in Nat
  BY MempoolAssumption, RequestIs
<1> HIDE DEF R, size
<1>7. \A j \in 1..n : j # i => new[j] = rs[j]
  BY <1>1, <1>2
<1>8. /\ Sum(AddsOne, new) = Sum(AddsOne, rs) - AddsOne[rs[i]] + AddsOne[new[i]]
      /\ Sum(AddsBytes, new)
           = Sum(AddsBytes, rs) - AddsBytes[rs[i]] + AddsBytes[new[i]]
  <2>1. /\ rs \in Seq(R) /\ new \in Seq(R) /\ i \in 1..Len(rs)
        /\ Len(new) = Len(rs)
        /\ \A j \in 1..Len(rs) : j # i => new[j] = rs[j]
    BY <1>2, <1>7
  <2>2. Sum(AddsOne, new) = Sum(AddsOne, rs) - AddsOne[rs[i]] + AddsOne[new[i]]
    BY <1>4, <2>1, SumReplace
  <2>3. Sum(AddsBytes, new)
          = Sum(AddsBytes, rs) - AddsBytes[rs[i]] + AddsBytes[new[i]]
    BY <1>4, <2>1, SumReplace
  <2> QED
    BY <2>2, <2>3
<1>9. \A j \in DOMAIN new :
        new[j].recheck = rs[j].recheck /\ new[j].tx = rs[j].tx
  BY <1>1
<1> QED
  BY <1>1, <1>2, <1>5, <1>6, <1>8, <1>9 DEF new, size

\* ... or a caller goes on, unless it passes the test.
LEMMA StageIsNoMore ==
  ASSUME config \in Configs, NEW rs \in Requests, NEW i \in DOMAIN rs,
         rs[i].recheck = FALSE, NEW st \in {"added", "telling"}
  PROVE  NoMore(rs, [rs EXCEPT ![i].stage = st])
<1> DEFINE new == [rs EXCEPT ![i].stage = st]
           size == TxSize[rs[i].tx]
           a == IF rs[i].stage = "adding" THEN 1 ELSE 0
           b == IF rs[i].stage = "adding" THEN size ELSE 0
<1>1. st \in Stages /\ st # "adding"
  BY DEF Stages
<1>2. /\ size \in Nat /\ new \in Requests /\ Len(new) = Len(rs)
      /\ \A j \in DOMAIN new :
           new[j].recheck = rs[j].recheck /\ new[j].tx = rs[j].tx
      /\ Sum(AddsOne, new) = Sum(AddsOne, rs) - a
           + (IF st = "adding" THEN 1 ELSE 0)
      /\ Sum(AddsBytes, new) = Sum(AddsBytes, rs) - b
           + (IF st = "adding" THEN size ELSE 0)
  BY <1>1, StageSums
<1>3. a \in Nat /\ b \in Nat
  BY <1>2
<1>4. Sum(AddsOne, rs) \in Nat /\ Sum(AddsBytes, rs) \in Nat
      /\ Len(rs) \in Nat
  BY LimitTypes
<1> HIDE DEF new, a, b, size
<1>5. Sum(AddsOne, new) = Sum(AddsOne, rs) - a
      /\ Sum(AddsBytes, new) = Sum(AddsBytes, rs) - b
  BY <1>1, <1>2, <1>3, <1>4
<1>6. /\ Sum(AddsOne, new) <= Sum(AddsOne, rs)
      /\ Sum(AddsBytes, new) <= Sum(AddsBytes, rs)
      /\ Len(new) <= Len(rs)
  BY <1>2, <1>3, <1>4, <1>5
<1>7. DOMAIN new = DOMAIN rs
  BY <1>2 DEF Requests
<1> QED
  BY <1>2, <1>6, <1>7 DEF NoMore, new

\* A caller has passed the tests of CheckTx.
LEMMA CheckTxLimited ==
  ASSUME config \in Configs, Safe(mem, requests, told), MemOK(mem'),
         Limited(mem, requests), NEW tx \in Txs,
         NEW sender \in config.Senders, CheckTx(tx, sender)
  PROVE  Limited(mem', requests')
<1> DEFINE c == CachePush(mem.cache, tx)
           pushed == [mem EXCEPT !.cache = c]
           r == [recheck |-> FALSE, tx |-> tx, sender |-> sender,
                 stage |-> "asked"]
           new == Append(requests, r)
<1>1. /\ MemOK(mem) /\ mem.cache \in Seq(Txs) /\ sender \in Nat
      /\ requests \in Requests /\ AddsUp(mem)
  BY ConfigType DEF Safe, MemOK, Mems, Limited
<1>2. c \in Seq(Txs)
  BY <1>1, CachePushType
<1>3. \/ mem' = RecordSender(pushed, tx, sender) /\ requests' = requests
      \/ /\ mem' = pushed /\ requests' = new
         /\ TxSize[tx] <= config.MaxTxBytes /\ Len(requests) < MaxPending
  BY DEF CheckTx
<1> HIDE DEF c
<1>4. MemOK(pushed) /\ pushed.txs = mem.txs
  BY <1>1, <1>2, CacheIs
<1>5. pushed.txsBytes = mem.txsBytes
  BY <1>1 DEF MemOK, Mems
<1> HIDE DEF pushed
<1>6. NoMore(requests, requests)
  BY <1>1, SameIsNoMore
<1>7. CASE mem' = RecordSender(pushed, tx, sender) /\ requests' = requests
  <2> DEFINE n == RecordSender(pushed, tx, sender)
  <2>1. /\ MemOK(n) /\ Len(n.txs) = Len(pushed.txs)
        /\ \A i \in DOMAIN pushed.txs : n.txs[i].tx = pushed.txs[i].tx
    BY <1>1, <1>4, RecordSenderIs
  <2>2. n.txsBytes = pushed.txsBytes
    BY <1>4 DEF RecordSender, MemOK, Mems
  <2> HIDE DEF n
  <2>3. NoLarger(mem, n)
    BY <1>1, <1>4, <1>5, <2>1, <2>2, SameIsNoLarger
  <2>4. Limited(n, requests)
    BY <1>1, <1>6, <2>1, <2>3, NoLargerIsLimited
  <2> QED
    BY <1>7, <2>4 DEF n
<1>8. CASE /\ mem' = pushed /\ requests' = new
           /\ TxSize[tx] <= config.MaxTxBytes /\ Len(requests) < MaxPending
  <2> DEFINE n == Len(requests)
             R == Asking \cup Rechecking
  <2>1. NoLarger(mem, pushed)
    BY <1>1, <1>4, <1>5, SameIsNoLarger
  <2>2. Limited(pushed, requests)
    BY <1>1, <1>4, <1>6, <2>1, NoLargerIsLimited
  <2>3. r \in R /\ r.tx = tx /\ r.recheck = FALSE /\ r.stage = "asked"
    BY <1>1 DEF Asking, Stages
  <2> HIDE DEF r
  <2>4. requests \in Seq(R)
    BY <1>1 DEF Requests
  <2>5. /\ n \in Nat /\ DOMAIN requests = 1..n /\ DOMAIN new = 1..(n + 1)
        /\ \A i \in 1..n : new[i] = requests[i]
        /\ new[n + 1] = r /\ Len(new) = n + 1
    BY <2>3, <2>4
  <2>6. AddsOne[r] = 0 /\ AddsBytes[r] = 0
    BY <2>3, WeightsAre DEF Adding
  <2>7. Weighs(AddsOne, R) /\ Weighs(AddsBytes, R)
    BY WeightsAre
  <2> HIDE DEF R
  <2>8. /\ Sum(AddsOne, new) = Sum(AddsOne, requests) + AddsOne[r]
        /\ Sum(AddsBytes, new) = Sum(AddsBytes, requests) + AddsBytes[r]
    BY <2>3, <2>4, <2>7, SumAppend
  <2>9. Sum(AddsOne, requests) \in Nat /\ Sum(AddsBytes, requests) \in Nat
        /\ MaxPending \in Nat
    BY <1>1, LimitTypes
  <2> HIDE DEF new
  <2>10. /\ Sum(AddsOne, new) = Sum(AddsOne, requests)
         /\ Sum(AddsBytes, new) = Sum(AddsBytes, requests)
    BY <2>6, <2>8, <2>9
  <2>11. Within(pushed, new)
    BY <2>2, <2>10 DEF Limited, Within
  <2>12. n + 1 <= MaxPending
    BY <1>8, <2>5, <2>9
  <2>13. FewCallers(new)
    <3> SUFFICES ASSUME NEW i \in 1..(n + 1), new[i].recheck = FALSE
                 PROVE  TxSize[new[i].tx] <= config.MaxTxBytes
      BY <2>5, <2>12 DEF FewCallers
    <3>1. CASE i \in 1..n
      BY <2>2, <2>5, <3>1 DEF Limited, FewCallers
    <3>2. CASE i = n + 1
      BY <1>8, <2>3, <2>5, <3>2
    <3> QED
      BY <2>5, <3>1, <3>2
  <2> QED
    BY <1>8, <2>2, <2>11, <2>13 DEF Limited
<1> QED
  BY <1>3, <1>7, <1>8

\* A transaction that is rejected leaves the list as it is.
LEMMA RejectedIsLimited ==
  ASSUME config \in Configs, NEW m, MemOK(m), NEW rs \in Requests,
         Limited(m, rs), NEW i \in DOMAIN rs, NEW new, NoMore(rs, new),
         NEW valid \in BOOLEAN, ~(valid /\ ~isFull(m, rs[i].tx)),
         NEW n, MemOK(n), n = resCbFirstTime(m, rs[i], valid)
  PROVE  Limited(n, new)
<1>1. m \in Mems
  BY DEF MemOK
<1>2. n.txs = m.txs /\ n.txsBytes = m.txsBytes
  BY <1>1 DEF resCbFirstTime, Mems
<1>3. AddsUp(m)
  BY DEF Limited
<1>4. NoLarger(m, n)
  BY <1>2, <1>3, SameIsNoLarger
<1> QED
  BY <1>4, NoLargerIsLimited

\* The test of the callback of a socket, and what follows it at once.
LEMMA AcceptedIsLimited ==
  ASSUME config \in Configs, ~config.Local, NEW m, MemOK(m),
         NEW rs \in Requests, Limited(m, rs), NEW i \in DOMAIN rs,
         rs[i].recheck = FALSE, NEW new, NoMore(rs, new),
         ~isFull(m, rs[i].tx),
         NEW n, MemOK(n), n = resCbFirstTime(m, rs[i], TRUE)
  PROVE  Limited(n, new)
<1> DEFINE tx == rs[i].tx
           a == addTx(m, tx, rs[i].sender)
<1>1. tx \in Txs /\ rs[i].sender \in Nat
  BY RequestIs
<1>2. TxSize[tx] \in Nat
  BY <1>1, MempoolAssumption
<1>3. n = notifyTxsAvailable(a)
  BY DEF resCbFirstTime
<1>4. /\ AddsUp(a) /\ Len(a.txs) = Len(m.txs) + 1
      /\ a.txsBytes = m.txsBytes + TxSize[tx]
  BY <1>1, AddTxAddsUp DEF Limited
<1>5. MemOK(a)
  BY <1>1, AddTxIs
<1>6. ~(Len(m.txs) >= config.Size)
      /\ ~(TxSize[tx] + m.txsBytes > config.MaxTxsBytes)
  BY DEF isFull
<1> HIDE DEF a, tx
<1>7. n.txs = a.txs /\ n.txsBytes = a.txsBytes
  BY <1>3, <1>5 DEF notifyTxsAvailable, Panic, MemOK, Mems
<1>8. Len(n.txs) <= config.Size /\ n.txsBytes <= config.MaxTxsBytes
  <2> DEFINE k == Len(m.txs)  w == m.txsBytes  x == TxSize[tx]
             s == config.Size  l == config.MaxTxsBytes
  <2>1. k \in Nat /\ w \in Int /\ s \in Nat /\ l \in Nat /\ x \in Nat
    BY <1>2, LimitTypes
  <2>2. /\ Len(n.txs) = k + 1 /\ n.txsBytes = w + x
        /\ ~(k >= s) /\ ~(x + w > l)
    BY <1>4, <1>6, <1>7
  <2> HIDE DEF k, w, x, s, l
  <2>3. k + 1 <= s /\ w + x <= l
    BY <2>1, <2>2
  <2> QED
    BY <2>2, <2>3 DEF s, l
<1>9. FewCallers(new)
  <2>1. m.txsBytes \in Int /\ Len(m.txs) \in Nat
    BY LimitTypes
  <2>2. NoLarger(m, m)
    BY <2>1 DEF NoLarger, Limited
  <2>3. Limited(m, new)
    BY <2>2, NoLargerIsLimited
  <2> QED
    BY <2>3 DEF Limited
<1> QED
  BY <1>4, <1>7, <1>8, <1>9 DEF Limited, Within, AddsUp

\* The answer to a recheck removes at most one transaction.
LEMMA RecheckAnswerIsLimited ==
  ASSUME config \in Configs, NEW m, NEW rs, NEW t, Safe(m, rs, t),
         Limited(m, rs), rs # << >>, m.recheckCursor # 0,
         NEW valid \in BOOLEAN
  PROVE  Limited(resCbRecheck(m, Head(rs), valid), Tail(rs))
<1> DEFINE req == Head(rs)
           b == ~config.KeepInvalidTxsInCache
           left == IF valid THEN m ELSE removeTx(m, m.recheckCursor, b)
           next == NextCursor(left, ~valid)
           n == resCbRecheck(m, req, valid)
<1>1. /\ MemOK(m) /\ rs \in Requests /\ m.recheckCursor \in 1..Len(m.txs)
      /\ b \in BOOLEAN /\ AddsUp(m)
  BY DEF Safe, RecheckOK, RechecksFollow, Limited
<1>2. MemOK(n)
  <2>1. Safe(n, Tail(rs), t)
    BY RecheckAnswerIsSafe
  <2> QED
    BY <2>1 DEF Safe
<1>3. m.txs[m.recheckCursor].tx = req.tx
  <2>1. n.panicked = FALSE /\ m \in Mems
    BY <1>1, <1>2 DEF MemOK
  <2> QED
    BY <2>1 DEF resCbRecheck, Panic, Mems
<1>4. n = IF next.recheckCursor = 0 /\ next.txs # << >>
          THEN notifyTxsAvailable(next) ELSE next
  BY <1>3 DEF resCbRecheck
<1>5. MemOK(left) /\ NoLarger(m, left)
  <2>1. CASE valid
    <3>1. m.txsBytes \in Int /\ Len(m.txs) \in Nat
      BY <1>1, LimitTypes
    <3>2. NoLarger(m, m)
      BY <1>1, <3>1 DEF NoLarger
    <3> QED
      BY <1>1, <2>1, <3>2
  <2>2. CASE ~valid
    <3> DEFINE r == removeTx(m, m.recheckCursor, b)
    <3>1. MemOK(r) /\ NoLarger(m, r)
      <4> HIDE DEF b
      <4> QED
        BY <1>1, RemoveTxIs, RemoveTxNoLarger
    <3> QED
      BY <2>2, <3>1
  <2> QED
    BY <2>1, <2>2
<1> HIDE DEF left
<1>6. next.txs = left.txs /\ next.txsBytes = left.txsBytes
  BY <1>5 DEF NextCursor, MemOK, Mems
<1>7. n.txs = left.txs /\ n.txsBytes = left.txsBytes
  <2>1. next = [left EXCEPT !.recheckCursor = 0]
        \/ next = [left EXCEPT !.recheckEnd = @ - 1]
        \/ next = [left EXCEPT !.recheckCursor = @ + 1]
    BY DEF NextCursor
  <2>2. DOMAIN left = {"txs", "txsMap", "txsBytes", "cache", "height",
                       "recheckCursor", "recheckEnd", "notifiedTxsAvailable",
                       "txsAvailable", "panicked"}
    BY <1>5 DEF MemOK, Mems
  <2>3. DOMAIN next = DOMAIN left
    BY <2>1
  <2> HIDE DEF next, n
  <2> QED
    BY <1>4, <1>6, <2>2, <2>3 DEF notifyTxsAvailable, Panic
<1> HIDE DEF n, next
<1>8. NoLarger(m, n)
  BY <1>5, <1>7 DEF NoLarger, AddsUp
<1>9. NoMore(rs, Tail(rs))
  BY <1>1, TailIsNoMore
<1>10. Limited(n, Tail(rs))
  BY <1>1, <1>2, <1>8, <1>9, NoLargerIsLimited
<1> QED
  BY <1>10 DEF n

\* An answer over a socket, or to a recheck.
LEMMA ResponseLimited ==
  ASSUME config \in Configs, Safe(mem, requests, told), MemOK(mem'),
         Limited(mem, requests), NEW valid \in BOOLEAN, Response(valid)
  PROVE  Limited(mem', requests')
<1> DEFINE req == Head(requests)
           after == globalCb(mem, req, valid)
<1>1. /\ requests # << >> /\ requests' = Tail(requests)
      /\ config.Local => req.recheck
      /\ mem' = IF ~req.recheck /\ ~after.panicked
                THEN reqResCb(after, req, valid) ELSE after
  BY DEF Response
<1>2. requests \in Requests /\ MemOK(mem)
  BY DEF Safe
<1>3. req = requests[1] /\ req.recheck \in BOOLEAN /\ 1 \in DOMAIN requests
  <2>1. req = requests[1] /\ 1 \in DOMAIN requests
    BY <1>1, <1>2, TailIs
  <2> QED
    BY <1>2, <2>1, RequestIs
<1>4. CASE mem.recheckCursor # 0
  <2>1. req.recheck = TRUE
    BY <1>1, <1>4, RecheckAnswerIsSafe
  <2>2. Limited(resCbRecheck(mem, req, valid), Tail(requests))
    BY <1>1, <1>4, RecheckAnswerIsLimited
  <2>3. after = resCbRecheck(mem, req, valid)
    BY <1>4 DEF globalCb
  <2> HIDE DEF after
  <2> QED
    BY <1>1, <2>1, <2>2, <2>3
<1>5. CASE mem.recheckCursor = 0
  <2>1. after = mem
    BY <1>5 DEF globalCb
  <2> HIDE DEF after
  <2>2. requests[1].recheck = FALSE /\ ~config.Local
    BY <1>1, <1>3, <1>5 DEF Safe, RecheckOK
  <2>3. NoMore(requests, Tail(requests))
    BY <1>1, <1>2, TailIsNoMore
  <2>4. mem' = resCbFirstTime(mem, requests[1], valid)
    BY <1>1, <1>2, <1>3, <1>5, <2>1, <2>2 DEF reqResCb, MemOK
  <2>5. CASE valid /\ ~isFull(mem, requests[1].tx)
    <3>1. Limited(mem', Tail(requests))
      <4>1. mem' = resCbFirstTime(mem, requests[1], TRUE)
        BY <2>4, <2>5
      <4> QED
        BY <1>2, <1>3, <2>2, <2>3, <2>5, <4>1, AcceptedIsLimited
    <3> QED
      BY <1>1, <3>1
  <2>6. CASE ~(valid /\ ~isFull(mem, requests[1].tx))
    <3>1. Limited(mem', Tail(requests))
      BY <1>2, <1>3, <2>3, <2>4, <2>6, RejectedIsLimited
    <3> QED
      BY <1>1, <3>1
  <2> QED
    BY <2>5, <2>6
<1> QED
  BY <1>4, <1>5

\* The test of a caller of a local application: what the others are about to
\* add is bounded by their number.
LEMMA LocalTestIsLimited ==
  ASSUME config \in Configs, config.Local, NEW m, MemOK(m),
         NEW rs \in Requests, Limited(m, rs), NEW i \in DOMAIN rs,
         rs[i].recheck = FALSE, rs[i].stage = "asked", ~isFull(m, rs[i].tx)
  PROVE  Limited(m, [rs EXCEPT ![i].stage = "adding"])
<1> DEFINE new == [rs EXCEPT ![i].stage = "adding"]
           rest == RemoveAt(rs, i)
           size == TxSize[rs[i].tx]
           R == Asking \cup Rechecking
           n == Len(rs)
           b == config.MaxTxBytes
<1>1. /\ size \in Nat /\ new \in Requests /\ Len(new) = Len(rs)
      /\ \A j \in DOMAIN new :
           new[j].recheck = rs[j].recheck /\ new[j].tx = rs[j].tx
      /\ Sum(AddsOne, new) = Sum(AddsOne, rs) - 0 + 1
      /\ Sum(AddsBytes, new) = Sum(AddsBytes, rs) - 0 + size
  <2>1. "adding" \in Stages
    BY DEF Stages
  <2>2. /\ size \in Nat /\ new \in Requests /\ Len(new) = Len(rs)
        /\ \A j \in DOMAIN new :
             new[j].recheck = rs[j].recheck /\ new[j].tx = rs[j].tx
        /\ Sum(AddsOne, new) = Sum(AddsOne, rs)
             - (IF rs[i].stage = "adding" THEN 1 ELSE 0)
             + (IF "adding" = "adding" THEN 1 ELSE 0)
        /\ Sum(AddsBytes, new) = Sum(AddsBytes, rs)
             - (IF rs[i].stage = "adding" THEN size ELSE 0)
             + (IF "adding" = "adding" THEN size ELSE 0)
    BY <2>1, StageSums
  <2> HIDE DEF new, size
  <2> QED
    BY <2>2
<1>2. /\ rs \in Seq(R) /\ i \in 1..n /\ n \in Nat /\ DOMAIN rs = 1..n
      /\ rs[i] \in R
  BY DEF Requests
<1>3. Weighs(AddsOne, R) /\ Weighs(AddsBytes, R)
  BY WeightsAre
<1>4. AddsOne[rs[i]] = 0 /\ AddsBytes[rs[i]] = 0
  BY <1>2, WeightsAre DEF Adding
<1>5. /\ n <= MaxPending
      /\ \A j \in 1..n : rs[j].recheck = FALSE => TxSize[rs[j].tx] <= b
  BY <1>2 DEF Limited, FewCallers
<1>6. /\ b \in Nat /\ MaxPending \in Nat /\ MaxPending >= 1
      /\ config.Size \in Nat /\ config.MaxTxsBytes \in Nat
      /\ ExcessBytes \in Nat
      /\ Len(m.txs) \in Nat /\ m.txsBytes \in Int
      /\ Sum(AddsOne, rs) \in Nat /\ Sum(AddsBytes, rs) \in Nat
  BY LimitTypes
<1>7. /\ rest \in Seq(R) /\ Len(rest) = n - 1
      /\ \A j \in DOMAIN rest : \E l \in DOMAIN rs \ {i} : rest[j] = rs[l]
  <2>1. rest \in Seq(R) /\ Len(rest) = n - 1
    BY <1>2, RemoveAtElements
  <2> QED
    BY <2>1, ReturnIs
<1>8. \A j \in 1..Len(rest) : AddsOne[rest[j]] <= 1 /\ AddsBytes[rest[j]] <= b
  <2> SUFFICES ASSUME NEW j \in 1..Len(rest)
               PROVE  AddsOne[rest[j]] <= 1 /\ AddsBytes[rest[j]] <= b
    OBVIOUS
  <2>1. j \in DOMAIN rest
    BY <1>7
  <2>2. PICK l \in 1..n : rest[j] = rs[l]
    BY <1>2, <1>7, <2>1
  <2>3. rs[l] \in R
    BY <1>2
  <2>4. /\ AddsOne[rs[l]] = IF Adding(rs[l]) THEN 1 ELSE 0
        /\ AddsBytes[rs[l]] = IF Adding(rs[l]) THEN TxSize[rs[l].tx] ELSE 0
    BY <2>3, WeightsAre
  <2>5. Adding(rs[l]) => TxSize[rs[l].tx] <= b
    BY <1>5 DEF Adding
  <2> HIDE DEF b, rest
  <2> QED
    BY <1>6, <2>2, <2>4, <2>5
<1> HIDE DEF R
<1>9. /\ Sum(AddsOne, rest) <= Len(rest) * 1
      /\ Sum(AddsBytes, rest) <= Len(rest) * b
  <2>1. 1 \in Nat /\ \A j \in 1..Len(rest) : AddsOne[rest[j]] <= 1
    BY <1>8
  <2>2. \A j \in 1..Len(rest) : AddsBytes[rest[j]] <= b
    BY <1>8
  <2> HIDE DEF rest, b
  <2>3. Sum(AddsOne, rest) <= Len(rest) * 1
    BY <1>3, <1>7, <2>1, SumBound
  <2>4. Sum(AddsBytes, rest) <= Len(rest) * b
    BY <1>3, <1>6, <1>7, <2>2, SumBound
  <2> QED
    BY <2>3, <2>4
<1>10. Sum(AddsOne, rest) = Sum(AddsOne, rs) - 0
       /\ Sum(AddsBytes, rest) = Sum(AddsBytes, rs) - 0
  BY <1>2, <1>3, <1>4, SumRemoveAt
<1>11. (n - 1) * b <= ExcessBytes /\ (n - 1) * b \in Int
  <2>1. \A x, y, z \in Nat : x <= y => x * z <= y * z /\ x * z \in Int
    OBVIOUS
  <2>2. n - 1 \in Nat /\ MaxPending - 1 \in Nat /\ n - 1 <= MaxPending - 1
    BY <1>2, <1>5, <1>6
  <2> HIDE DEF n
  <2> QED
    BY <1>6, <2>1, <2>2 DEF ExcessBytes
<1>12. ~(Len(m.txs) >= config.Size) /\ ~(size + m.txsBytes > config.MaxTxsBytes)
  BY DEF isFull
<1> HIDE DEF new, rest, size, n, b
<1>13. Sum(AddsOne, rs) <= n - 1
  BY <1>2, <1>6, <1>7, <1>9, <1>10
<1>14. Sum(AddsBytes, rs) <= ExcessBytes
  <2> DEFINE x == (n - 1) * b
  <2>1. Sum(AddsBytes, rs) <= x /\ x <= ExcessBytes /\ x \in Int
    BY <1>6, <1>7, <1>9, <1>10, <1>11
  <2> HIDE DEF x
  <2> QED
    BY <1>6, <2>1
<1>15. Within(m, new)
  <2>1. Len(m.txs) + Sum(AddsOne, new) <= config.Size + (MaxPending - 1)
    BY <1>1, <1>2, <1>5, <1>6, <1>12, <1>13
  <2>2. m.txsBytes + Sum(AddsBytes, new) <= config.MaxTxsBytes + ExcessBytes
    BY <1>1, <1>6, <1>12, <1>14
  <2> QED
    BY <2>1, <2>2 DEF Within
<1>16. FewCallers(new)
  <2>1. DOMAIN new = DOMAIN rs
    BY <1>1 DEF Requests
  <2> QED
    BY <1>1, <2>1 DEF Limited, FewCallers
<1> QED
  BY <1>15, <1>16 DEF Limited, new

\* What was counted as about to be added is added.
LEMMA LocalAddIsLimited ==
  ASSUME config \in Configs, config.Local, NEW m, MemOK(m),
         NEW rs \in Requests, Limited(m, rs), NEW i \in DOMAIN rs,
         rs[i].recheck = FALSE, rs[i].stage = "adding"
  PROVE  Limited(addTx(m, rs[i].tx, rs[i].sender),
                 [rs EXCEPT ![i].stage = "added"])
<1> DEFINE new == [rs EXCEPT ![i].stage = "added"]
           size == TxSize[rs[i].tx]
           n == addTx(m, rs[i].tx, rs[i].sender)
<1>1. /\ size \in Nat /\ new \in Requests /\ Len(new) = Len(rs)
      /\ \A j \in DOMAIN new :
           new[j].recheck = rs[j].recheck /\ new[j].tx = rs[j].tx
      /\ Sum(AddsOne, new) = Sum(AddsOne, rs) - 1 + 0
      /\ Sum(AddsBytes, new) = Sum(AddsBytes, rs) - size + 0
  <2>1. "added" \in Stages
    BY DEF Stages
  <2>2. /\ size \in Nat /\ new \in Requests /\ Len(new) = Len(rs)
        /\ \A j \in DOMAIN new :
             new[j].recheck = rs[j].recheck /\ new[j].tx = rs[j].tx
        /\ Sum(AddsOne, new) = Sum(AddsOne, rs)
             - (IF rs[i].stage = "adding" THEN 1 ELSE 0)
             + (IF "added" = "adding" THEN 1 ELSE 0)
        /\ Sum(AddsBytes, new) = Sum(AddsBytes, rs)
             - (IF rs[i].stage = "adding" THEN size ELSE 0)
             + (IF "added" = "adding" THEN size ELSE 0)
    BY <2>1, StageSums
  <2> HIDE DEF new, size
  <2> QED
    BY <2>2
<1>2. rs[i].tx \in Txs /\ rs[i].sender \in Nat
  BY RequestIs
<1>3. /\ AddsUp(n) /\ Len(n.txs) = Len(m.txs) + 1
      /\ n.txsBytes = m.txsBytes + size
  BY <1>2, AddTxAddsUp DEF Limited
<1>4. /\ MaxPending \in Nat /\ config.Size \in Nat
      /\ config.MaxTxsBytes \in Nat /\ ExcessBytes \in Nat
      /\ Len(m.txs) \in Nat /\ m.txsBytes \in Int
      /\ Sum(AddsOne, rs) \in Nat /\ Sum(AddsBytes, rs) \in Nat
  BY LimitTypes
<1> HIDE DEF new, size, n
<1>5. Within(n, new)
  <2>1. /\ Len(m.txs) + Sum(AddsOne, rs) <= config.Size + (MaxPending - 1)
        /\ m.txsBytes + Sum(AddsBytes, rs) <= config.MaxTxsBytes + ExcessBytes
    BY DEF Limited, Within
  <2> DEFINE k == Len(m.txs)  w == m.txsBytes
             e == Sum(AddsOne, rs)  f == Sum(AddsBytes, rs)
  <2>2. k \in Nat /\ w \in Int /\ e \in Nat /\ f \in Nat
    BY <1>4
  <2>3. /\ Len(n.txs) = k + 1 /\ n.txsBytes = w + size
        /\ Sum(AddsOne, new) = e - 1 + 0 /\ Sum(AddsBytes, new) = f - size + 0
    BY <1>1, <1>3
  <2> HIDE DEF k, w, e, f
  <2>4. k + 1 + (e - 1 + 0) = k + e /\ w + size + (f - size + 0) = w + f
    BY <1>1, <2>2
  <2>5. /\ Len(n.txs) + Sum(AddsOne, new) = k + e
        /\ n.txsBytes + Sum(AddsBytes, new) = w + f
    BY <2>3, <2>4
  <2> QED
    BY <2>1, <2>5 DEF Within, k, w, e, f
<1>6. FewCallers(new)
  <2>1. DOMAIN new = DOMAIN rs
    BY <1>1 DEF Requests
  <2> QED
    BY <1>1, <2>1 DEF Limited, FewCallers
<1> QED
  BY <1>3, <1>5, <1>6 DEF Limited, new, n

\* A caller of a local application takes its next step.
LEMMA LocalLimited ==
  ASSUME config \in Configs, Safe(mem, requests, told), MemOK(mem'),
         Limited(mem, requests), NEW i \in DOMAIN requests,
         \/ \E valid \in BOOLEAN : LocalAnswer(i, valid)
         \/ LocalAddTx(i) \/ LocalReadNotified(i) \/ LocalNotify(i)
  PROVE  Limited(mem', requests')
<1>1. /\ requests \in Requests /\ MemOK(mem) /\ ~requests[i].recheck
      /\ config.Local /\ AddsUp(mem)
  BY DEF Safe, LocalAnswer, LocalAddTx, LocalReadNotified, LocalNotify,
         LocalCaller, Limited
<1>2. requests[i].recheck = FALSE
  BY <1>1, RequestIs
<1>3. NoMore(requests, RemoveAt(requests, i))
  BY <1>1, ReturnIsNoMore
<1>4. \A st \in {"added", "telling"} :
        NoMore(requests, [requests EXCEPT ![i].stage = st])
  BY <1>1, <1>2, StageIsNoMore
<1>5. ASSUME NEW valid \in BOOLEAN, LocalAnswer(i, valid)
      PROVE  Limited(mem', requests')
  <2>1. requests[i].stage = "asked"
    BY <1>5 DEF LocalAnswer, LocalCaller
  <2>2. CASE valid /\ ~isFull(mem, requests[i].tx)
    <3>1. /\ requests' = [requests EXCEPT ![i].stage = "adding"]
          /\ mem' = mem
      BY <1>5, <2>2 DEF LocalAnswer
    <3>2. Limited(mem, [requests EXCEPT ![i].stage = "adding"])
      BY <1>1, <1>2, <2>1, <2>2, LocalTestIsLimited
    <3> QED
      BY <3>1, <3>2
  <2>3. CASE ~(valid /\ ~isFull(mem, requests[i].tx))
    <3>1. /\ requests' = RemoveAt(requests, i)
          /\ mem' = resCbFirstTime(mem, requests[i], valid)
      BY <1>5, <2>3 DEF LocalAnswer
    <3>2. Limited(mem', RemoveAt(requests, i))
      BY <1>1, <1>3, <2>3, <3>1, RejectedIsLimited
    <3> QED
      BY <3>1, <3>2
  <2> QED
    BY <2>2, <2>3
<1>6. CASE LocalAddTx(i)
  <2>1. /\ requests' = [requests EXCEPT ![i].stage = "added"]
        /\ mem' = addTx(mem, requests[i].tx, requests[i].sender)
        /\ requests[i].stage = "adding"
    BY <1>6 DEF LocalAddTx, LocalCaller
  <2> QED
    BY <1>1, <1>2, <2>1, LocalAddIsLimited
<1>7. CASE LocalReadNotified(i) \/ LocalNotify(i)
  <2>1. NoMore(requests, requests')
    BY <1>3, <1>4, <1>7 DEF LocalReadNotified, LocalNotify
  <2>2. mem'.txs = mem.txs /\ mem'.txsBytes = mem.txsBytes
    BY <1>1, <1>7 DEF LocalReadNotified, LocalNotify, Panic, MemOK, Mems
  <2>3. NoLarger(mem, mem')
    BY <1>1, <2>2, SameIsNoLarger
  <2> QED
    BY <1>1, <2>1, <2>3, NoLargerIsLimited
<1> QED
  BY <1>5, <1>6, <1>7

\* A block is committed when there are no callers.
LEMMA UpdateLimited ==
  ASSUME config \in Configs, Safe(mem, requests, told), MemOK(mem'),
         Limited(mem, requests), NEW block \in Blocks, Update(block)
  PROVE  Limited(mem', requests')
<1> DEFINE begun == [mem EXCEPT !.height = @ + 1,
                                !.notifiedTxsAvailable = FALSE]
           left == UpdateTxs(begun, block)
<1>1. /\ MemOK(mem) /\ requests = << >> /\ block \in Seq(Deliveries)
      /\ AddsUp(mem) /\ requests \in Requests
  BY MempoolAssumption DEF Safe, Update, FlushAppConn, Deliveries, Limited
<1>2. MemOK(begun) /\ begun.txs = mem.txs /\ begun.txsBytes = mem.txsBytes
  <2>1. mem.height + 1 \in Nat
    BY <1>1 DEF MemOK, Mems
  <2> QED
    BY <1>1, <2>1 DEF MemOK, Mems, Mapped
<1>3. /\ mem' = CASE config.Recheck /\ left.txs # << >> -> recheckTxs(left)
                  [] ~(config.Recheck /\ left.txs # << >>)
                       /\ left.txs # << >> -> notifyTxsAvailable(left)
                  [] OTHER -> left
      /\ requests' = IF config.Recheck /\ left.txs # << >>
                     THEN requests \o RecheckRequests(left) ELSE requests
  BY DEF Update
<1> HIDE DEF begun
<1>4. NoLarger(mem, begun) /\ AddsUp(begun)
  <2>1. NoLarger(mem, begun)
    BY <1>1, <1>2, SameIsNoLarger
  <2> QED
    BY <2>1 DEF NoLarger
<1>5. MemOK(left) /\ NoLarger(begun, left)
  BY <1>1, <1>2, <1>4, UpdateTxsKeeps, UpdateTxsNoLarger
<1>6. NoLarger(mem, left)
  BY <1>1, <1>2, <1>4, <1>5, NoLargerTwice
<1> HIDE DEF left
<1>7. mem'.txs = left.txs /\ mem'.txsBytes = left.txsBytes
  <2>1. left \in Mems
    BY <1>5 DEF MemOK
  <2>2. \/ mem' = left \/ mem' = recheckTxs(left)
        \/ mem' = notifyTxsAvailable(left)
    BY <1>3
  <2> QED
    BY <2>1, <2>2 DEF recheckTxs, notifyTxsAvailable, Panic, Mems
<1>8. NoLarger(mem, mem')
  BY <1>6, <1>7 DEF NoLarger, AddsUp
<1>9. Limited(mem', requests)
  BY <1>1, <1>8, SameIsNoMore, NoLargerIsLimited
<1>10. CASE config.Recheck /\ left.txs # << >>
  <2> DEFINE rs == RecheckRequests(left)
             R == Asking \cup Rechecking
  <2>1. rs \in Requests /\ \A i \in DOMAIN rs : rs[i].recheck = TRUE
    BY <1>5, RecheckRequestsIs
  <2> HIDE DEF rs
  <2>2. << >> \o rs = rs
    BY <2>1 DEF Requests
  <2>3. requests' = rs
    BY <1>1, <1>3, <1>10, <2>2 DEF rs
  <2>4. rs \in Seq(R) /\ Len(rs) \in Nat /\ DOMAIN rs = 1..Len(rs)
        /\ \A i \in 1..Len(rs) : rs[i] \in R
    BY <2>1 DEF Requests
  <2>5. \A i \in 1..Len(rs) : AddsOne[rs[i]] <= 0 /\ AddsBytes[rs[i]] <= 0
    BY <2>1, <2>4, WeightsAre DEF Adding
  <2>6. Sum(AddsOne, rs) <= Len(rs) * 0 /\ Sum(AddsBytes, rs) <= Len(rs) * 0
    <3>1. /\ Weighs(AddsOne, R) /\ Weighs(AddsBytes, R) /\ 0 \in Nat
          /\ \A i \in 1..Len(rs) : AddsOne[rs[i]] <= 0
          /\ \A i \in 1..Len(rs) : AddsBytes[rs[i]] <= 0
      BY <2>5, WeightsAre
    <3> HIDE DEF R
    <3>2. Sum(AddsOne, rs) <= Len(rs) * 0
      BY <2>4, <3>1, SumBound
    <3>3. Sum(AddsBytes, rs) <= Len(rs) * 0
      BY <2>4, <3>1, SumBound
    <3> QED
      BY <3>2, <3>3
  <2>7. /\ Sum(AddsOne, rs) \in Nat /\ Sum(AddsBytes, rs) \in Nat
        /\ Sum(AddsOne, requests) \in Nat /\ Sum(AddsBytes, requests) \in Nat
        /\ MaxPending \in Nat /\ ExcessBytes \in Nat
        /\ config.Size \in Nat /\ config.MaxTxsBytes \in Nat
        /\ Len(mem'.txs) \in Nat /\ mem'.txsBytes \in Int
    BY <1>1, <2>1, LimitTypes
  <2>8. Sum(AddsOne, rs) = 0 /\ Sum(AddsBytes, rs) = 0
    BY <2>4, <2>6, <2>7
  <2>9. Within(mem', rs)
    <3> DEFINE k == Len(mem'.txs)  w == mem'.txsBytes
               e == Sum(AddsOne, requests)  f == Sum(AddsBytes, requests)
               x == config.Size + (MaxPending - 1)
               y == config.MaxTxsBytes + ExcessBytes
    <3>1. /\ k \in Nat /\ w \in Int /\ e \in Nat /\ f \in Nat
          /\ x \in Int /\ y \in Int
      BY <2>7
    <3>2. IF config.Local THEN k + e <= x /\ w + f <= y
          ELSE /\ Len(mem'.txs) <= config.Size
               /\ mem'.txsBytes <= config.MaxTxsBytes
      BY <1>9 DEF Limited, Within
    <3> HIDE DEF k, w, e, f, x, y
    <3>3. config.Local => k + 0 <= x /\ w + 0 <= y
      BY <3>1, <3>2
    <3> QED
      BY <2>8, <3>2, <3>3 DEF Within, k, w, x, y
  <2>10. FewCallers(rs)
    BY <2>1 DEF FewCallers
  <2> QED
    BY <1>9, <2>3, <2>9, <2>10 DEF Limited
<1>11. CASE ~(config.Recheck /\ left.txs # << >>)
  BY <1>3, <1>9, <1>11
<1> QED
  BY <1>10, <1>11

-----------------------------------------------------------------------------
(* The limits are kept                                                     *)

LimitInv == Inv /\ Limited(mem, requests)

\* The list is empty at first, and nobody asks.
LEMMA LimitInit == Init => LimitInv
<1> SUFFICES ASSUME Init PROVE LimitInv
  OBVIOUS
<1>1. /\ Inv /\ requests = << >> /\ config \in Configs
      /\ mem.txs = << >> /\ mem.txsBytes = 0
  BY InvInit DEF Init, New
<1>2. mem.txs \in Seq(Elements) /\ requests \in Seq(Asking \cup Rechecking)
  BY <1>1 DEF Inv, Safe, MemOK, Mems, Requests
<1>3. /\ Sum(ElementSize, mem.txs) = 0
      /\ Sum(AddsOne, requests) = 0 /\ Sum(AddsBytes, requests) = 0
  BY <1>1, <1>2, WeightsAre, SumEmpty
<1>4. AddsUp(mem) /\ FewCallers(requests)
  BY <1>1, <1>3 DEF AddsUp, FewCallers
<1>5. /\ config.Size \in Nat /\ config.MaxTxsBytes \in Nat
      /\ MaxPending \in Nat /\ MaxPending >= 1 /\ ExcessBytes \in Nat
  BY <1>1, LimitTypes
<1>6. Len(mem.txs) = 0
  BY <1>1
<1>7. Within(mem, requests)
  BY <1>1, <1>3, <1>5, <1>6 DEF Within
<1> QED
  BY <1>1, <1>4, <1>7 DEF LimitInv, Limited

\* Every action keeps the limits.
LEMMA LimitNext == LimitInv /\ [Next]_vars => LimitInv'
<1> SUFFICES ASSUME LimitInv, [Next]_vars PROVE LimitInv'
  OBVIOUS
<1>1. /\ config \in Configs /\ Safe(mem, requests, told)
      /\ Limited(mem, requests) /\ MemOK(mem) /\ requests \in Requests
      /\ AddsUp(mem)
  BY DEF LimitInv, Inv, Safe, Limited
<1>2. Inv'
  BY InvNext DEF LimitInv
<1>3. MemOK(mem')
  BY <1>2 DEF Inv, Safe
<1>4. config' = config
  BY DEF Next, CheckTx, CheckTxError, Response, LocalAnswer, LocalAddTx,
         LocalReadNotified, LocalNotify, LocalCaller, Update,
         ReceiveTxsAvailable, vars
<1>5. Limited(mem', requests')
  <2>1. CASE \E tx \in Txs, sender \in config.Senders : CheckTx(tx, sender)
    BY <1>1, <1>3, <2>1, CheckTxLimited
  <2>2. CASE \E valid \in BOOLEAN : Response(valid)
    BY <1>1, <1>3, <2>2, ResponseLimited
  <2>3. CASE \E i \in DOMAIN requests :
               \/ \E valid \in BOOLEAN : LocalAnswer(i, valid)
               \/ LocalAddTx(i) \/ LocalReadNotified(i) \/ LocalNotify(i)
    BY <1>1, <1>3, <2>3, LocalLimited
  <2>4. CASE \E block \in Blocks : Update(block)
    BY <1>1, <1>3, <2>4, UpdateLimited
  <2>5. CASE \/ UNCHANGED vars \/ \E tx \in Txs : CheckTxError(tx)
             \/ ReceiveTxsAvailable
    <3>1. /\ mem'.txs = mem.txs /\ mem'.txsBytes = mem.txsBytes
          /\ requests' = requests
      <4>1. mem \in Mems
        BY <1>1 DEF MemOK
      <4> QED
        BY <2>5, <4>1 DEF CheckTxError, ReceiveTxsAvailable, vars, Mems
    <3>2. NoLarger(mem, mem')
      BY <1>1, <1>3, <3>1, SameIsNoLarger
    <3>3. Limited(mem', requests)
      BY <1>1, <1>3, <3>2, SameIsNoMore, NoLargerIsLimited
    <3> QED
      BY <3>1, <3>3
  <2> QED
    BY <2>1, <2>2, <2>3, <2>4, <2>5 DEF Next
<1> QED
  BY <1>2, <1>4, <1>5
     DEF LimitInv, Limited, Within, FewCallers, ExcessBytes, AddsUp

\* The list never has more transactions or bytes than configured over a socket,
\* nor, with an application in the same process, more than one caller less
\* than there are can add; and the total agrees with the list.
THEOREM LimitsAreKept == Spec => []LimitsHold
<1>1. LimitInv => LimitsHold
  <2> SUFFICES ASSUME LimitInv PROVE LimitsHold
    OBVIOUS
  <2>1. /\ config \in Configs /\ MemOK(mem) /\ requests \in Requests
        /\ Limited(mem, requests)
    BY DEF LimitInv, Inv, Safe
  <2>2. mem.txsBytes = Sum(TxSize, ListedTxs)
    <3> DEFINE s == mem.txs
               t == ListedTxs
    <3>1. /\ s \in Seq(Elements) /\ Len(s) \in Nat
          /\ DOMAIN s = 1..Len(s)
      BY <2>1, EmptyIs
    <3>2. \A i \in 1..Len(s) : s[i] \in Elements /\ s[i].tx \in Txs
      <4>1. \A i \in 1..Len(s) : s[i] \in Elements
        BY <3>1
      <4>2. \A e \in Elements : e.tx \in Txs
        BY DEF Elements
      <4> QED
        BY <4>1, <4>2
    <3>3. t = [i \in 1..Len(s) |-> s[i].tx]
      BY <3>1 DEF ListedTxs
    <3>4. /\ t \in Seq(Txs) /\ Len(t) = Len(s)
          /\ \A i \in 1..Len(s) : t[i] = s[i].tx
      <4> HIDE DEF t, s
      <4> QED
        BY <3>1, <3>2, <3>3
    <3>5. \A i \in 1..Len(s) : ElementSize[s[i]] = TxSize[t[i]]
      BY <3>2, <3>4, WeightsAre
    <3>6. Weighs(ElementSize, Elements) /\ Weighs(TxSize, Txs)
      BY WeightsAre
    <3> HIDE DEF t, s
    <3>7. Sum(ElementSize, s) = Sum(TxSize, t)
      BY <3>1, <3>4, <3>5, <3>6, SumSame
    <3> QED
      BY <2>1, <3>7 DEF Limited, AddsUp, s, t
  <2> DEFINE k == Len(mem.txs)  w == mem.txsBytes  e == Sum(AddsOne, requests)
             f == Sum(AddsBytes, requests)
             c == config.Size  d == config.MaxTxsBytes  b == config.MaxTxBytes
  <2>3. /\ k \in Nat /\ w \in Int /\ e \in Nat /\ f \in Nat /\ c \in Nat
        /\ d \in Nat /\ b \in Nat /\ MaxPending \in Nat /\ ExcessBytes \in Nat
    BY <2>1, LimitTypes
  <2>4. IF config.Local
        THEN k + e <= c + (MaxPending - 1) /\ w + f <= d + ExcessBytes
        ELSE k <= c /\ w <= d
    BY <2>1 DEF Limited, Within
  <2>5. ExcessBytes = (MaxPending - 1) * b
    BY DEF ExcessBytes
  <2> HIDE DEF k, w, e, f, c, d, b
  <2>6. CASE config.Local
    <3>1. k <= c + (MaxPending - 1) /\ w <= d + ExcessBytes
      BY <2>3, <2>4, <2>6
    <3>2. k <= c + (MaxPending - 1) /\ w <= d + (MaxPending - 1) * b
      BY <2>5, <3>1
    <3> QED
      BY <2>2, <2>6, <3>2 DEF LimitsHold, k, w, c, d, b
  <2>7. CASE ~config.Local
    <3>1. k <= c + 0 /\ w <= d + 0 * b
      BY <2>3, <2>4, <2>7
    <3> QED
      BY <2>2, <2>7, <3>1 DEF LimitsHold, k, w, c, d, b
  <2> QED
    BY <2>6, <2>7
<1> QED
  BY <1>1, LimitInit, LimitNext, PTL DEF Spec

-----------------------------------------------------------------------------
(* The list as those see it that walk along it                             *)

\* t has some of the elements of s, in the order of s.
Stays(s, t) ==
  \E at \in [DOMAIN t -> DOMAIN s] :
    /\ \A i, j \in DOMAIN t : i < j => at[i] < at[j]
    /\ \A i \in DOMAIN t : t[i] = s[at[i]]

\* What a step of TxList may make of list s.
Changes(s, t) ==
  \/ \E e \in Elements, x \in Nat : e.senders = {x} /\ t = Append(s, e)
  \/ Stays(s, t)
  \/ \E i \in DOMAIN s, x \in Nat :
       t = [s EXCEPT ![i].senders = @ \cup {x}] /\ Len(t) = Len(s)

\* Such a change is a step of TxList.
LEMMA ChangesIsStep ==
  ASSUME MemOK(mem), Changes(mem.txs, mem'.txs)
  PROVE  TxList!Next
<1> DEFINE s == mem.txs
           t == mem'.txs
<1>1. s \in Seq(Elements)
  BY DEF MemOK, Mems
<1>2. ASSUME NEW e \in Elements, NEW x \in Nat, e.senders = {x},
             t = Append(s, e)
      PROVE  TxList!Next
  <2>1. t # << >> /\ t[Len(t)] = e
    BY <1>1, <1>2
  <2>2. Cardinality(e.senders) = 1
    BY <1>2, FS_Singleton
  <2>3. TxList!PushBack(e)
    <3>1. TxList!Cardinality(e.senders) = Cardinality(e.senders)
      BY Zenon DEF TxList!Cardinality, Cardinality
    <3> QED
      BY <1>2, <2>2, <3>1 DEF TxList!PushBack
  <2> QED
    BY <2>1, <2>3 DEF TxList!Next
<1>3. CASE Stays(s, t)
  BY <1>3 DEF Stays, TxList!Next, TxList!Keep
<1>4. ASSUME NEW i \in DOMAIN s, NEW x \in Nat,
             t = [s EXCEPT ![i].senders = @ \cup {x}], Len(t) = Len(s)
      PROVE  TxList!Next
  <2>1. s[i] \in Elements
    BY <1>1
  <2>2. x \in t[i].senders
    BY <1>4, <2>1 DEF Elements
  <2>3. TxList!AddSender(i, x)
    BY <1>4 DEF TxList!AddSender
  <2> QED
    BY <1>4, <2>2, <2>3 DEF TxList!Next
<1> QED
  BY <1>2, <1>3, <1>4 DEF Changes

\* A list stays when nothing is taken.
LEMMA StaysIsReflexive ==
  ASSUME NEW s \in Seq(Elements)
  PROVE  Stays(s, s)
<1> DEFINE at == [i \in DOMAIN s |-> i]
<1>1. at \in [DOMAIN s -> DOMAIN s]
  OBVIOUS
<1>2. \A i \in DOMAIN s : at[i] = i
  OBVIOUS
<1> HIDE DEF at
<1> QED
  BY <1>1, <1>2 DEF Stays

\* What stays of what stayed stays.
LEMMA StaysTwice ==
  ASSUME NEW s, NEW t, NEW u, Stays(s, t), Stays(t, u)
  PROVE  Stays(s, u)
<1>1. PICK at \in [DOMAIN t -> DOMAIN s] :
             /\ \A i, j \in DOMAIN t : i < j => at[i] < at[j]
             /\ \A i \in DOMAIN t : t[i] = s[at[i]]
  BY DEF Stays
<1>2. PICK bt \in [DOMAIN u -> DOMAIN t] :
             /\ \A i, j \in DOMAIN u : i < j => bt[i] < bt[j]
             /\ \A i \in DOMAIN u : u[i] = t[bt[i]]
  BY DEF Stays
<1> DEFINE ct == [i \in DOMAIN u |-> at[bt[i]]]
<1>3. ct \in [DOMAIN u -> DOMAIN s]
  BY <1>1, <1>2
<1>4. \A i \in DOMAIN u : bt[i] \in DOMAIN t /\ ct[i] = at[bt[i]]
  BY <1>2
<1> HIDE DEF ct
<1>5. \A i, j \in DOMAIN u : i < j => ct[i] < ct[j]
  BY <1>1, <1>2, <1>4
<1>6. \A i \in DOMAIN u : u[i] = s[ct[i]]
  BY <1>1, <1>2, <1>4
<1> QED
  BY <1>3, <1>5, <1>6 DEF Stays

\* When one element is removed, the others stay in order.
LEMMA RemoveStays ==
  ASSUME NEW s \in Seq(Elements), NEW p \in 1..Len(s)
  PROVE  Stays(s, RemoveAt(s, p))
<1> DEFINE t == RemoveAt(s, p)
           n == Len(s)
           at == [i \in DOMAIN t |-> IF i < p THEN i ELSE i + 1]
<1>1. /\ t \in Seq(Elements) /\ Len(t) = n - 1
      /\ \A i \in 1..(p - 1) : t[i] = s[i]
      /\ \A i \in p..(n - 1) : t[i] = s[i + 1]
  BY RemoveAtElements
<1>2. n \in Nat /\ p \in Nat /\ p >= 1 /\ p <= n /\ DOMAIN s = 1..n
  OBVIOUS
<1> HIDE DEF t, n
<1>3. DOMAIN t = 1..(n - 1)
  BY <1>1
<1>4. \A i \in 1..(n - 1) : at[i] = (IF i < p THEN i ELSE i + 1)
                            /\ at[i] \in 1..n
  BY <1>2, <1>3
<1>5. at \in [DOMAIN t -> DOMAIN s]
  BY <1>2, <1>3
<1> HIDE DEF at
<1>6. \A i, j \in 1..(n - 1) : i < j => at[i] < at[j]
  BY <1>2, <1>4
<1>7. ASSUME NEW i \in 1..(n - 1) PROVE t[i] = s[at[i]]
  <2>1. CASE i < p
    <3>1. i \in 1..(p - 1) /\ at[i] = i
      BY <1>2, <1>4, <2>1
    <3> QED
      BY <1>1, <3>1
  <2>2. CASE ~(i < p)
    <3>1. i \in p..(n - 1) /\ at[i] = i + 1
      BY <1>2, <1>4, <2>2
    <3> QED
      BY <1>1, <3>1
  <2> QED
    BY <2>1, <2>2
<1> QED
  BY <1>3, <1>5, <1>6, <1>7 DEF Stays, t

\* A list that is left alone.
LEMMA SameChanges ==
  ASSUME NEW s \in Seq(Elements), NEW t, t = s
  PROVE  Changes(s, t)
  BY StaysIsReflexive DEF Changes

\* A sender is added to one element, if the transaction is in the map.
LEMMA RecordSenderChanges ==
  ASSUME NEW m, MemOK(m), NEW tx, NEW sender \in Nat
  PROVE  Changes(m.txs, RecordSender(m, tx, sender).txs)
<1> DEFINE pos == ElementOf(m, tx)
           s == m.txs
           t == [s EXCEPT ![pos].senders = @ \cup {sender}]
<1>1. m \in Mems /\ s \in Seq(Elements)
  BY DEF MemOK, Mems
<1>2. CASE tx \notin m.txsMap
  <2>1. RecordSender(m, tx, sender) = m
    BY <1>2 DEF RecordSender
  <2> QED
    BY <1>1, <2>1, SameChanges
<1>3. CASE tx \in m.txsMap
  <2>1. pos \in 1..Len(s)
    BY <1>3, ElementOfIs
  <2>2. RecordSender(m, tx, sender).txs = t
    BY <1>1, <1>3, <2>1 DEF RecordSender, Mems
  <2> HIDE DEF pos
  <2>3. Len(t) = Len(s) /\ pos \in DOMAIN s
    BY <1>1, <2>1
  <2> QED
    BY <2>2, <2>3 DEF Changes
<1> QED
  BY <1>2, <1>3

\* CheckTx changes the cache, or records a sender.
LEMMA CheckTxChanges ==
  ASSUME config \in Configs, MemOK(mem), NEW tx \in Txs,
         NEW sender \in config.Senders, CheckTx(tx, sender)
  PROVE  Changes(mem.txs, mem'.txs)
<1> DEFINE c == CachePush(mem.cache, tx)
           pushed == [mem EXCEPT !.cache = c]
<1>1. /\ mem.cache \in Seq(Txs) /\ sender \in Nat
      /\ mem.txs \in Seq(Elements) /\ mem \in Mems
  BY ConfigType DEF MemOK, Mems
<1>2. c \in Seq(Txs)
  BY <1>1, CachePushType
<1>3. mem' = RecordSender(pushed, tx, sender) \/ mem' = pushed
  <2>1. pushed = [mem EXCEPT !.cache = CachePush(@, tx)]
    BY <1>1 DEF Mems
  <2> QED
    BY <2>1 DEF CheckTx
<1> HIDE DEF c
<1>4. MemOK(pushed) /\ pushed.txs = mem.txs
  BY <1>2, CacheIs
<1> HIDE DEF pushed
<1>5. Changes(pushed.txs, RecordSender(pushed, tx, sender).txs)
  BY <1>1, <1>4, RecordSenderChanges
<1>6. Changes(mem.txs, pushed.txs)
  BY <1>1, <1>4, SameChanges
<1> QED
  BY <1>3, <1>4, <1>5, <1>6

\* A new transaction comes in at the end.
LEMMA AddTxChanges ==
  ASSUME NEW m, MemOK(m), NEW tx \in Txs, NEW sender \in Nat
  PROVE  Changes(m.txs, addTx(m, tx, sender).txs)
<1> DEFINE e == [tx |-> tx, height |-> m.height, senders |-> {sender}]
<1>1. addTx(m, tx, sender).txs = Append(m.txs, e)
  BY DEF addTx, MemOK, Mems
<1>2. e \in Elements /\ e.senders = {sender}
  BY DEF MemOK, Mems, Elements
<1> HIDE DEF e
<1> QED
  BY <1>1, <1>2 DEF Changes

\* The first answer adds the transaction or leaves the list alone.
LEMMA FirstAnswerChanges ==
  ASSUME config \in Configs, NEW m, MemOK(m), NEW rs \in Requests,
         NEW i \in DOMAIN rs, rs[i].recheck = FALSE, NEW valid \in BOOLEAN
  PROVE  Changes(m.txs, resCbFirstTime(m, rs[i], valid).txs)
<1> DEFINE q == rs[i]
           a == addTx(m, q.tx, q.sender)
           n == resCbFirstTime(m, q, valid)
<1>1. q.tx \in Txs /\ q.sender \in Nat
  BY RequestIs
<1>2. m \in Mems /\ m.txs \in Seq(Elements)
  BY DEF MemOK, Mems
<1> HIDE DEF q
<1>3. CASE valid /\ ~isFull(m, q.tx)
  <2>1. n = notifyTxsAvailable(a)
    BY <1>3 DEF resCbFirstTime
  <2>2. MemOK(a) /\ Len(a.txs) = Len(m.txs) + 1
    BY <1>1, AddTxIs
  <2>3. Changes(m.txs, a.txs)
    BY <1>1, AddTxChanges
  <2> HIDE DEF a
  <2>4. a.txs # << >>
    BY <1>2, <2>2
  <2>5. notifyTxsAvailable(a).txs = a.txs
    BY <2>2, <2>4, NotifyIs
  <2> HIDE DEF n
  <2> QED
    BY <2>1, <2>3, <2>5 DEF n, q
<1>4. CASE ~(valid /\ ~isFull(m, q.tx))
  <2>1. n.txs = m.txs
    BY <1>2, <1>4 DEF resCbFirstTime, Mems
  <2> HIDE DEF n
  <2>2. Changes(m.txs, n.txs)
    BY <1>2, <2>1, SameChanges
  <2> QED
    BY <2>2 DEF n, q
<1> QED
  BY <1>3, <1>4

\* The answer to a recheck takes the element at the cursor, or none.
LEMMA RecheckAnswerChanges ==
  ASSUME config \in Configs, NEW m, NEW rs, NEW t, Safe(m, rs, t),
         rs # << >>, m.recheckCursor # 0, NEW valid \in BOOLEAN
  PROVE  Changes(m.txs, resCbRecheck(m, Head(rs), valid).txs)
<1> DEFINE req == Head(rs)
           b == ~config.KeepInvalidTxsInCache
           left == IF valid THEN m ELSE removeTx(m, m.recheckCursor, b)
           next == NextCursor(left, ~valid)
           n == resCbRecheck(m, req, valid)
<1>1. /\ MemOK(m) /\ m.recheckCursor \in 1..Len(m.txs) /\ b \in BOOLEAN
      /\ m.txs \in Seq(Elements) /\ m \in Mems
  BY DEF Safe, RecheckOK, RechecksFollow, MemOK, Mems
<1>2. m.txs[m.recheckCursor].tx = req.tx
  <2>1. Safe(n, Tail(rs), t)
    BY RecheckAnswerIsSafe
  <2>2. n.panicked = FALSE
    BY <2>1 DEF Safe, MemOK
  <2> QED
    BY <1>1, <2>2 DEF resCbRecheck, Panic, Mems
<1>3. n = IF next.recheckCursor = 0 /\ next.txs # << >>
          THEN notifyTxsAvailable(next) ELSE next
  BY <1>2 DEF resCbRecheck
<1>4. MemOK(left) /\ Changes(m.txs, left.txs)
  <2>1. CASE valid
    BY <1>1, <2>1, SameChanges
  <2>2. CASE ~valid
    <3> DEFINE r == removeTx(m, m.recheckCursor, b)
    <3>1. MemOK(r)
      <4> HIDE DEF b
      <4> QED
        BY <1>1, RemoveTxIs
    <3>2. r.txs = RemoveAt(m.txs, m.recheckCursor)
      BY <1>1 DEF removeTx, Mems
    <3>3. Stays(m.txs, r.txs)
      BY <1>1, <3>2, RemoveStays
    <3> QED
      BY <2>2, <3>1, <3>3 DEF Changes
  <2> QED
    BY <2>1, <2>2
<1> HIDE DEF left
<1>5. next.txs = left.txs
  BY <1>4 DEF NextCursor, MemOK, Mems
<1>6. n.txs = left.txs
  <2>1. next = [left EXCEPT !.recheckCursor = 0]
        \/ next = [left EXCEPT !.recheckEnd = @ - 1]
        \/ next = [left EXCEPT !.recheckCursor = @ + 1]
    BY DEF NextCursor
  <2>2. DOMAIN left = {"txs", "txsMap", "txsBytes", "cache", "height",
                       "recheckCursor", "recheckEnd", "notifiedTxsAvailable",
                       "txsAvailable", "panicked"}
    BY <1>4 DEF MemOK, Mems
  <2>3. DOMAIN next = DOMAIN left
    BY <2>1
  <2> HIDE DEF next, n
  <2> QED
    BY <1>3, <1>5, <2>2, <2>3 DEF notifyTxsAvailable, Panic
<1> HIDE DEF n, next
<1> QED
  BY <1>4, <1>6 DEF n

\* An answer over a socket, or to a recheck.
LEMMA ResponseChanges ==
  ASSUME config \in Configs, Safe(mem, requests, told),
         NEW valid \in BOOLEAN, Response(valid)
  PROVE  Changes(mem.txs, mem'.txs)
<1> DEFINE req == Head(requests)
           after == globalCb(mem, req, valid)
<1>1. /\ requests # << >>
      /\ mem' = IF ~req.recheck /\ ~after.panicked
                THEN reqResCb(after, req, valid) ELSE after
  BY DEF Response
<1>2. requests \in Requests /\ MemOK(mem)
  BY DEF Safe
<1>3. req = requests[1] /\ req.recheck \in BOOLEAN /\ 1 \in DOMAIN requests
  <2>1. req = requests[1] /\ 1 \in DOMAIN requests
    BY <1>1, <1>2, TailIs
  <2> QED
    BY <1>2, <2>1, RequestIs
<1>4. CASE mem.recheckCursor # 0
  <2>1. req.recheck = TRUE
    BY <1>1, <1>4, RecheckAnswerIsSafe
  <2>2. Changes(mem.txs, resCbRecheck(mem, req, valid).txs)
    BY <1>1, <1>4, RecheckAnswerChanges
  <2>3. after = resCbRecheck(mem, req, valid)
    BY <1>4 DEF globalCb
  <2> HIDE DEF after
  <2> QED
    BY <1>1, <2>1, <2>2, <2>3
<1>5. CASE mem.recheckCursor = 0
  <2>1. after = mem
    BY <1>5 DEF globalCb
  <2> HIDE DEF after
  <2>2. requests[1].recheck = FALSE
    BY <1>1, <1>3, <1>5 DEF Safe, RecheckOK
  <2>3. mem' = resCbFirstTime(mem, requests[1], valid)
    BY <1>1, <1>2, <1>3, <1>5, <2>1, <2>2 DEF reqResCb, MemOK
  <2>4. Changes(mem.txs, resCbFirstTime(mem, requests[1], valid).txs)
    BY <1>2, <1>3, <2>2, FirstAnswerChanges
  <2> QED
    BY <2>3, <2>4
<1> QED
  BY <1>4, <1>5

\* The steps of a caller of a local application.
LEMMA LocalChanges ==
  ASSUME config \in Configs, MemOK(mem), requests \in Requests,
         NEW i \in DOMAIN requests,
         \/ \E valid \in BOOLEAN : LocalAnswer(i, valid)
         \/ LocalAddTx(i) \/ LocalReadNotified(i) \/ LocalNotify(i)
  PROVE  Changes(mem.txs, mem'.txs)
<1>1. mem \in Mems /\ mem.txs \in Seq(Elements)
  BY DEF MemOK, Mems
<1>2. requests[i].recheck = FALSE
  <2>1. ~requests[i].recheck
    BY DEF LocalAnswer, LocalAddTx, LocalReadNotified, LocalNotify,
           LocalCaller
  <2>2. requests[i].recheck \in BOOLEAN
    BY RequestIs
  <2> QED
    BY <2>1, <2>2
<1>3. requests[i].tx \in Txs /\ requests[i].sender \in Nat
  BY <1>2, RequestIs
<1>4. ASSUME NEW valid \in BOOLEAN, LocalAnswer(i, valid)
      PROVE  Changes(mem.txs, mem'.txs)
  <2>1. mem' = mem \/ mem' = resCbFirstTime(mem, requests[i], valid)
    BY <1>4 DEF LocalAnswer
  <2>2. Changes(mem.txs, resCbFirstTime(mem, requests[i], valid).txs)
    BY <1>2, FirstAnswerChanges
  <2>3. Changes(mem.txs, mem.txs)
    BY <1>1, SameChanges
  <2> QED
    BY <2>1, <2>2, <2>3
<1>5. CASE LocalAddTx(i)
  <2>1. mem' = addTx(mem, requests[i].tx, requests[i].sender)
    BY <1>5 DEF LocalAddTx
  <2>2. Changes(mem.txs,
                addTx(mem, requests[i].tx, requests[i].sender).txs)
    BY <1>3, AddTxChanges
  <2> QED
    BY <2>1, <2>2
<1>6. CASE LocalReadNotified(i) \/ LocalNotify(i)
  <2>1. mem'.txs = mem.txs
    BY <1>1, <1>6 DEF LocalReadNotified, LocalNotify, Panic, Mems
  <2> QED
    BY <1>1, <2>1, SameChanges
<1> QED
  BY <1>4, <1>5, <1>6

\* A committed transaction takes at most one element ...
LEMMA UpdateTxStays ==
  ASSUME config \in Configs, NEW m, MemOK(m), NEW d \in Deliveries
  PROVE  Stays(m.txs, UpdateTx(m, d).txs)
<1> DEFINE c == CASE d.ok -> CachePush(m.cache, d.tx)
                  [] ~d.ok /\ ~config.KeepInvalidTxsInCache ->
                       CacheRemove(m.cache, d.tx)
                  [] OTHER -> m.cache
           k == [m EXCEPT !.cache = c]
           pos == ElementOf(m, d.tx)
           r == removeTx(k, pos, FALSE)
<1>1. m \in Mems /\ m.txs \in Seq(Elements)
  BY DEF MemOK, Mems
<1>2. UpdateTx(m, d) = IF d.tx \in m.txsMap THEN r ELSE k
  BY DEF UpdateTx
<1> HIDE DEF c
<1>3. k.txs = m.txs
  BY <1>1 DEF Mems
<1>4. "txs" \in DOMAIN k /\ DOMAIN k = DOMAIN m
  BY <1>1 DEF Mems
<1> HIDE DEF k
<1>5. CASE d.tx \in m.txsMap
  <2>1. pos \in 1..Len(m.txs)
    BY <1>5, ElementOfIs
  <2> HIDE DEF pos
  <2>2. r.txs = RemoveAt(m.txs, pos)
    BY <1>1, <1>3, <1>4 DEF removeTx, Mems
  <2>3. Stays(m.txs, RemoveAt(m.txs, pos))
    BY <1>1, <2>1, RemoveStays
  <2> HIDE DEF r
  <2> QED
    BY <1>2, <1>5, <2>2, <2>3
<1>6. CASE d.tx \notin m.txsMap
  BY <1>1, <1>2, <1>3, <1>6, StaysIsReflexive
<1> QED
  BY <1>5, <1>6

\* ... and a block takes one after the other, so that what is left stays.
LEMMA UpdateTxsStays ==
  ASSUME config \in Configs, NEW m, MemOK(m), NEW block \in Seq(Deliveries)
  PROVE  Stays(m.txs, UpdateTxs(m, block).txs)
<1> DEFINE k == Len(block)
<1>1. PICK g : /\ g[0] = m
               /\ \A i \in 1..k : g[i] = UpdateTx(g[i-1], block[i])
               /\ UpdateTxs(m, block) = g[k]
  BY UpdateTxsIs
<1>2. k \in Nat /\ \A i \in 1..k : block[i] \in Deliveries
  OBVIOUS
<1> HIDE DEF k
<1> DEFINE Good(n) == MemOK(n) /\ Stays(m.txs, n.txs)
           Bad == {i \in 0..k : ~Good(g[i])}
<1>3. Bad = {}
  <2> SUFFICES ASSUME Bad # {} PROVE FALSE
    OBVIOUS
  <2>1. Bad \in SUBSET Nat
    BY <1>2
  <2> HIDE DEF Bad
  <2>2. PICK l \in Bad : \A i \in Bad : l <= i
    BY <2>1, LeastExists
  <2> USE DEF Bad
  <2>3. Good(m)
    <3>1. m.txs \in Seq(Elements)
      BY DEF MemOK, Mems
    <3> QED
      BY <3>1, StaysIsReflexive
  <2>4. l \in 0..k /\ ~Good(g[l]) /\ l # 0
    BY <1>1, <2>2, <2>3
  <2>5. l \in 1..k /\ l - 1 \in 0..k /\ ~(l <= l - 1)
    BY <1>2, <2>4
  <2>6. MemOK(g[l-1]) /\ Stays(m.txs, g[l-1].txs)
    BY <2>2, <2>5
  <2>7. /\ MemOK(UpdateTx(g[l-1], block[l]))
        /\ Stays(g[l-1].txs, UpdateTx(g[l-1], block[l]).txs)
    BY <1>2, <2>5, <2>6, UpdateTxIs, UpdateTxStays
  <2>8. MemOK(g[l]) /\ Stays(g[l-1].txs, g[l].txs)
    BY <1>1, <2>5, <2>7
  <2>9. Stays(m.txs, g[l].txs)
    BY <2>6, <2>8, StaysTwice
  <2> QED
    BY <2>4, <2>8, <2>9
<1>4. Good(g[k])
  BY <1>2, <1>3
<1> QED
  BY <1>1, <1>4

\* Update takes what the block has, and leaves the rest alone.
LEMMA UpdateChanges ==
  ASSUME config \in Configs, Safe(mem, requests, told),
         NEW block \in Blocks, Update(block)
  PROVE  Changes(mem.txs, mem'.txs)
<1> DEFINE begun == [mem EXCEPT !.height = @ + 1,
                                !.notifiedTxsAvailable = FALSE]
           left == UpdateTxs(begun, block)
<1>1. MemOK(mem) /\ block \in Seq(Deliveries)
  BY MempoolAssumption DEF Safe, Update, Deliveries
<1>2. MemOK(begun) /\ begun.txs = mem.txs
  <2>1. mem.height + 1 \in Nat
    BY <1>1 DEF MemOK, Mems
  <2> QED
    BY <1>1, <2>1 DEF MemOK, Mems, Mapped
<1>3. mem' = CASE config.Recheck /\ left.txs # << >> -> recheckTxs(left)
               [] ~(config.Recheck /\ left.txs # << >>)
                    /\ left.txs # << >> -> notifyTxsAvailable(left)
               [] OTHER -> left
  BY DEF Update
<1> HIDE DEF begun
<1>4. MemOK(left) /\ Stays(begun.txs, left.txs)
  BY <1>1, <1>2, UpdateTxsKeeps, UpdateTxsStays
<1> HIDE DEF left
<1>5. mem'.txs = left.txs
  <2>1. left \in Mems
    BY <1>4 DEF MemOK
  <2>2. \/ mem' = left \/ mem' = recheckTxs(left)
        \/ mem' = notifyTxsAvailable(left)
    BY <1>3
  <2> QED
    BY <2>1, <2>2 DEF recheckTxs, notifyTxsAvailable, Panic, Mems
<1> QED
  BY <1>2, <1>4, <1>5 DEF Changes

\* Every action changes the list in one of these ways.
LEMMA ListChanges == Inv /\ [Next]_vars => Changes(mem.txs, mem'.txs)
<1> SUFFICES ASSUME Inv, [Next]_vars PROVE Changes(mem.txs, mem'.txs)
  OBVIOUS
<1>1. /\ config \in Configs /\ Safe(mem, requests, told)
      /\ MemOK(mem) /\ requests \in Requests /\ mem \in Mems
      /\ mem.txs \in Seq(Elements)
  BY DEF Inv, Safe, MemOK, Mems
<1>2. CASE \E tx \in Txs, sender \in config.Senders : CheckTx(tx, sender)
  BY <1>1, <1>2, CheckTxChanges
<1>3. CASE \E valid \in BOOLEAN : Response(valid)
  BY <1>1, <1>3, ResponseChanges
<1>4. CASE \E i \in DOMAIN requests :
             \/ \E valid \in BOOLEAN : LocalAnswer(i, valid)
             \/ LocalAddTx(i) \/ LocalReadNotified(i) \/ LocalNotify(i)
  BY <1>1, <1>4, LocalChanges
<1>5. CASE \E block \in Blocks : Update(block)
  BY <1>1, <1>5, UpdateChanges
<1>6. CASE \/ UNCHANGED vars \/ \E tx \in Txs : CheckTxError(tx)
           \/ ReceiveTxsAvailable
  <2>1. mem'.txs = mem.txs
    BY <1>1, <1>6 DEF CheckTxError, ReceiveTxsAvailable, vars, Mems
  <2> QED
    BY <1>1, <2>1, SameChanges
<1> QED
  BY <1>2, <1>3, <1>4, <1>5, <1>6 DEF Next

\* The mempool implements TxList: whatever the callers, the application and the
\* consensus do, those that walk along the list find new transactions at its
\* end only, and the ones that stay in the same order.
THEOREM ListIsKeptForWalkers == Spec => ImplementsTxList
<1>1. Init => TxList!Init
  BY DEF Init, New, TxList!Init
<1>2. Inv /\ [Next]_vars => [TxList!Next]_(mem.txs)
  <2> SUFFICES ASSUME Inv, [Next]_vars PROVE TxList!Next
    OBVIOUS
  <2>1. MemOK(mem)
    BY DEF Inv, Safe
  <2>2. Changes(mem.txs, mem'.txs)
    BY ListChanges
  <2> QED
    BY <2>1, <2>2, ChangesIsStep
<1> QED
  BY <1>1, <1>2, InvInit, InvNext, PTL
     DEF Spec, ImplementsTxList, TxList!Spec

-----------------------------------------------------------------------------
(* What is reaped                                                          *)

\* What the loop starts from.
NoneReaped == [txs |-> << >>, bytes |-> 0, gas |-> 0, done |-> FALSE]

\* g holds what is reaped after each of the first n turns of the loop.
Reaps(g, m, maxBytes, maxGas, n) ==
  g = [i \in 0..n |-> IF i = 0 THEN NoneReaped
                      ELSE ReapTx(g[i-1], m.txs[i].tx, maxBytes, maxGas)]

\* The loop runs to its end.
LEMMA ReapsExist ==
  ASSUME NEW m, NEW maxBytes, NEW maxGas, NEW n \in Nat
  PROVE  \E g : Reaps(g, m, maxBytes, maxGas, n)
<1> DEFINE turn(a, i) == ReapTx(a, m.txs[i].tx, maxBytes, maxGas)
           Runs(g, k) == g = [i \in 0..k |-> IF i = 0 THEN NoneReaped
                                             ELSE turn(g[i-1], i)]
           Bad == {k \in Nat : ~ \E g : Runs(g, k)}
<1> HIDE DEF turn
<1>1. Bad = {}
  <2> SUFFICES ASSUME Bad # {} PROVE FALSE
    OBVIOUS
  <2>1. Bad \in SUBSET Nat
    OBVIOUS
  <2> HIDE DEF Bad
  <2>2. PICK l \in Bad : \A k \in Bad : l <= k
    BY <2>1, LeastExists
  <2>3. l \in Nat
    BY <2>1
  <2> USE DEF Bad
  <2>4. CASE l = 0
    <3> DEFINE h == [i \in 0..0 |-> NoneReaped]
    <3>1. Runs(h, 0)
      OBVIOUS
    <3> HIDE DEF Runs
    <3> QED
      BY <2>2, <2>4, <3>1
  <2>5. CASE l > 0
    <3>1. l - 1 \in Nat /\ l - 1 \notin Bad
      BY <2>2, <2>3, <2>5
    <3>2. PICK g : Runs(g, l - 1)
      BY <3>1
    <3> DEFINE e == turn(g[l-1], l)
               h == [i \in 0..l |-> IF i < l THEN g[i] ELSE e]
    <3>3. ASSUME NEW i \in 0..l
          PROVE  h[i] = IF i = 0 THEN NoneReaped ELSE turn(h[i-1], i)
      <4>1. CASE i < l
        <5>1. i \in 0..(l-1) /\ h[i] = g[i]
          BY <2>3, <4>1
        <5>2. i # 0 => h[i-1] = g[i-1]
          BY <2>3, <4>1
        <5>3. g[i] = IF i = 0 THEN NoneReaped ELSE turn(g[i-1], i)
          BY <3>2, <5>1
        <5> HIDE DEF h
        <5> QED
          BY <5>1, <5>2, <5>3
      <4>2. CASE i = l
        <5>1. h[l-1] = g[l-1] /\ h[l] = e /\ l # 0
          BY <2>3, <2>5
        <5> HIDE DEF h
        <5> QED
          BY <4>2, <5>1
      <4> QED
        BY <2>3, <4>1, <4>2
    <3>4. h = [i \in 0..l |-> h[i]]
      OBVIOUS
    <3> HIDE DEF h
    <3>5. Runs(h, l)
      BY <3>3, <3>4
    <3> HIDE DEF Runs
    <3> QED
      BY <2>2, <3>5
  <2> QED
    BY <2>3, <2>4, <2>5
<1>2. PICK g : Runs(g, n)
  BY <1>1
<1> QED
  BY <1>2 DEF Reaps, turn

\* g holds what is reaped through the loop of ReapMaxBytesMaxGas.
ReapsAll(g, m, maxBytes, maxGas) ==
  /\ ReapMaxBytesMaxGas(m, maxBytes, maxGas) = g[Len(m.txs)].txs
  /\ g[0] = NoneReaped
  /\ \A i \in 1..Len(m.txs) :
       g[i] = ReapTx(g[i-1], m.txs[i].tx, maxBytes, maxGas)

\* What is reaped is what the last turn leaves.
LEMMA ReapIs ==
  ASSUME NEW m, NEW maxBytes, NEW maxGas, Len(m.txs) \in Nat
  PROVE  \E g : ReapsAll(g, m, maxBytes, maxGas)
<1> DEFINE n == Len(m.txs)
           after == CHOOSE g : g = [i \in 0..n |->
                      IF i = 0
                      THEN [txs |-> << >>, bytes |-> 0, gas |-> 0,
                            done |-> FALSE]
                      ELSE ReapTx(g[i-1], m.txs[i].tx, maxBytes, maxGas)]
<1>1. ReapMaxBytesMaxGas(m, maxBytes, maxGas) = after[n].txs
  BY DEF ReapMaxBytesMaxGas
<1>2. PICK g : Reaps(g, m, maxBytes, maxGas, n)
  BY ReapsExist
<1>3. Reaps(after, m, maxBytes, maxGas, n)
  BY <1>2 DEF Reaps, NoneReaped
<1> HIDE DEF after
<1>4. /\ after[0] = NoneReaped
      /\ \A i \in 1..n :
           after[i] = ReapTx(after[i-1], m.txs[i].tx, maxBytes, maxGas)
  BY <1>3 DEF Reaps
<1> QED
  BY <1>1, <1>4 DEF ReapsAll

\* What a block may hold.
Fit(txs, maxBytes, maxGas) ==
  /\ maxBytes > -1 => Sum(TxSize, txs) <= maxBytes
  /\ maxGas > -1 => Sum(GasWanted, txs) <= maxGas

\* The first k transactions are reaped, and no more when the loop has returned.
ReapedTo(acc, all, i, maxBytes, maxGas) ==
  /\ acc = [txs |-> acc.txs, bytes |-> acc.bytes, gas |-> acc.gas,
            done |-> acc.done]
  /\ acc.done \in BOOLEAN
  /\ \E k \in 0..i :
       /\ acc.txs = SubSeq(all, 1, k)
       /\ acc.bytes = Sum(TxSize, SubSeq(all, 1, k))
       /\ acc.gas = Sum(GasWanted, SubSeq(all, 1, k))
       /\ Fit(SubSeq(all, 1, k), maxBytes, maxGas)
       /\ IF acc.done
          THEN k < i /\ ~Fit(SubSeq(all, 1, k + 1), maxBytes, maxGas)
          ELSE k = i

\* Both measures of a transaction are natural numbers.
LEMMA MeasuresAre == Weighs(TxSize, Txs) /\ Weighs(GasWanted, Txs)
  BY MempoolAssumption DEF Weighs

\* One transaction more.
LEMMA SumOfNextPrefix ==
  ASSUME NEW f, Weighs(f, Txs), NEW all \in Seq(Txs), NEW k \in Nat,
         k < Len(all)
  PROVE  /\ Sum(f, SubSeq(all, 1, k)) \in Nat
         /\ f[all[k + 1]] \in Nat
         /\ Sum(f, SubSeq(all, 1, k + 1))
              = Sum(f, SubSeq(all, 1, k)) + f[all[k + 1]]
<1> DEFINE s == SubSeq(all, 1, k)
<1>1. s \in Seq(Txs) /\ all[k + 1] \in Txs
  OBVIOUS
<1>2. SubSeq(all, 1, k + 1) = Append(s, all[k + 1])
  OBVIOUS
<1> HIDE DEF s
<1>3. Sum(f, Append(s, all[k + 1])) = Sum(f, s) + f[all[k + 1]]
  BY <1>1, SumAppend
<1>4. Sum(f, s) \in Nat
  BY <1>1, SumType
<1> QED
  BY <1>1, <1>2, <1>3, <1>4 DEF s, Weighs

\* One turn.
LEMMA ReapTxReaps ==
  ASSUME NEW all \in Seq(Txs), NEW i \in 1..Len(all), NEW maxBytes \in Int,
         NEW maxGas \in Int, NEW acc,
         ReapedTo(acc, all, i - 1, maxBytes, maxGas)
  PROVE  ReapedTo(ReapTx(acc, all[i], maxBytes, maxGas), all, i, maxBytes,
                  maxGas)
<1> DEFINE P(k) == SubSeq(all, 1, k)
           tx == all[i]
           bytes == acc.bytes + TxSize[tx]
           gas == acc.gas + GasWanted[tx]
           over == \/ maxBytes > -1 /\ bytes > maxBytes
                   \/ maxGas > -1 /\ gas > maxGas
           r == ReapTx(acc, tx, maxBytes, maxGas)
<1>1. PICK k \in 0..(i - 1) :
        /\ acc.txs = P(k)
        /\ acc.bytes = Sum(TxSize, P(k))
        /\ acc.gas = Sum(GasWanted, P(k))
        /\ Fit(P(k), maxBytes, maxGas)
        /\ IF acc.done
           THEN k < i - 1 /\ ~Fit(P(k + 1), maxBytes, maxGas)
           ELSE k = i - 1
  BY DEF ReapedTo
<1>2. /\ acc = [txs |-> acc.txs, bytes |-> acc.bytes, gas |-> acc.gas,
                done |-> acc.done]
      /\ acc.done \in BOOLEAN
  BY DEF ReapedTo
<1>3. Len(all) \in Nat /\ k \in Nat /\ k < Len(all) /\ k \in 0..i
  BY <1>1
<1>4. /\ Sum(TxSize, P(k)) \in Nat /\ TxSize[all[k + 1]] \in Nat
      /\ Sum(TxSize, P(k + 1)) = Sum(TxSize, P(k)) + TxSize[all[k + 1]]
  BY <1>3, MeasuresAre, SumOfNextPrefix
<1>5. /\ Sum(GasWanted, P(k)) \in Nat /\ GasWanted[all[k + 1]] \in Nat
      /\ Sum(GasWanted, P(k + 1))
           = Sum(GasWanted, P(k)) + GasWanted[all[k + 1]]
  BY <1>3, MeasuresAre, SumOfNextPrefix
<1>6. CASE acc.done
  <2>1. r = [txs |-> acc.txs, bytes |-> acc.bytes, gas |-> acc.gas,
             done |-> TRUE]
    <3>1. r = [acc EXCEPT !.done = TRUE]
      BY <1>6 DEF ReapTx
    <3> QED
      BY <1>2, <3>1
  <2>2. /\ r.txs = acc.txs /\ r.bytes = acc.bytes /\ r.gas = acc.gas
        /\ r.done = TRUE
        /\ r = [txs |-> r.txs, bytes |-> r.bytes, gas |-> r.gas,
                done |-> r.done]
    BY <2>1
  <2>3. k < i /\ ~Fit(P(k + 1), maxBytes, maxGas)
    BY <1>1, <1>6
  <2> HIDE DEF r, P
  <2> QED
    BY <1>1, <1>3, <2>2, <2>3 DEF ReapedTo, P, r
<1>7. CASE ~acc.done
  <2>1. k = i - 1 /\ k + 1 = i
    BY <1>1, <1>7
  <2>2. bytes = Sum(TxSize, P(i)) /\ gas = Sum(GasWanted, P(i))
    <3>1. bytes = Sum(TxSize, P(k)) + TxSize[tx]
          /\ gas = Sum(GasWanted, P(k)) + GasWanted[tx]
      BY <1>1
    <3> HIDE DEF bytes, gas, P
    <3> QED
      BY <1>4, <1>5, <2>1, <3>1
  <2>3. over <=> ~Fit(P(i), maxBytes, maxGas)
    <3>1. Sum(TxSize, P(i)) \in Nat /\ Sum(GasWanted, P(i)) \in Nat
      BY <1>4, <1>5, <2>1
    <3> HIDE DEF bytes, gas, P
    <3> QED
      BY <2>2, <3>1 DEF Fit
  <2>4. CASE over
    <3>1. r = [txs |-> acc.txs, bytes |-> acc.bytes, gas |-> acc.gas,
               done |-> TRUE]
      <4>1. r = [acc EXCEPT !.done = TRUE]
        BY <2>4 DEF ReapTx
      <4> QED
        BY <1>2, <4>1
    <3>2. /\ r.txs = acc.txs /\ r.bytes = acc.bytes /\ r.gas = acc.gas
          /\ r.done = TRUE
          /\ r = [txs |-> r.txs, bytes |-> r.bytes, gas |-> r.gas,
                  done |-> r.done]
      BY <3>1
    <3>3. k < i /\ ~Fit(P(k + 1), maxBytes, maxGas)
      BY <2>1, <2>3, <2>4
    <3> HIDE DEF r, P
    <3> QED
      BY <1>1, <1>3, <3>2, <3>3 DEF ReapedTo, P, r
  <2>5. CASE ~over
    <3> DEFINE new == Append(acc.txs, tx)
    <3>1. r = [txs |-> new, bytes |-> bytes, gas |-> gas, done |-> acc.done]
      <4>1. r = [acc EXCEPT !.txs = new, !.bytes = bytes, !.gas = gas]
        BY <1>7, <2>5 DEF ReapTx
      <4>2. ASSUME NEW a, NEW x, NEW y, NEW z,
                   a = [txs |-> a.txs, bytes |-> a.bytes, gas |-> a.gas,
                        done |-> a.done]
            PROVE  [a EXCEPT !.txs = x, !.bytes = y, !.gas = z]
                     = [txs |-> x, bytes |-> y, gas |-> z, done |-> a.done]
        <5> DEFINE b == [a EXCEPT !.txs = x]
        <5>1. b = [txs |-> x, bytes |-> a.bytes, gas |-> a.gas,
                   done |-> a.done]
          BY <4>2
        <5> HIDE DEF b
        <5> DEFINE c == [b EXCEPT !.bytes = y]
        <5>2. c = [txs |-> x, bytes |-> y, gas |-> a.gas, done |-> a.done]
          BY <5>1
        <5> HIDE DEF c
        <5>3. [c EXCEPT !.gas = z]
                = [txs |-> x, bytes |-> y, gas |-> z, done |-> a.done]
          BY <5>2
        <5> QED
          BY <5>3 DEF b, c
      <4> HIDE DEF r, new, bytes, gas
      <4> QED
        BY <1>2, <4>1, <4>2
    <3>2. /\ r.txs = new /\ r.bytes = bytes /\ r.gas = gas
          /\ r.done = acc.done
          /\ r = [txs |-> r.txs, bytes |-> r.bytes, gas |-> r.gas,
                  done |-> r.done]
      <4> HIDE DEF r, new, bytes, gas
      <4> QED
        BY <3>1
    <3>3. new = P(i)
      <4>1. Append(P(k), all[k + 1]) = P(k + 1)
        BY <1>3
      <4> QED
        BY <1>1, <2>1, <4>1
    <3>4. Fit(P(i), maxBytes, maxGas) /\ i \in 0..i
      BY <2>3, <2>5
    <3> HIDE DEF r, P, new, bytes, gas
    <3>5. ReapedTo(r, all, i, maxBytes, maxGas)
      BY <1>2, <1>7, <2>2, <3>2, <3>3, <3>4 DEF ReapedTo, P
    <3> QED
      BY <3>5 DEF r
  <2> QED
    BY <2>4, <2>5
<1> QED
  BY <1>2, <1>6, <1>7

\* The list of transactions.
LEMMA ListedAre ==
  ASSUME Inv
  PROVE  /\ ListedTxs \in Seq(Txs) /\ Len(ListedTxs) = Len(mem.txs)
         /\ Len(mem.txs) \in Nat
         /\ \A i \in 1..Len(mem.txs) : ListedTxs[i] = mem.txs[i].tx
<1> DEFINE s == mem.txs
           t == ListedTxs
<1>1. s \in Seq(Elements) /\ Len(s) \in Nat /\ DOMAIN s = 1..Len(s)
  BY EmptyIs DEF Inv, Safe
<1>2. \A i \in 1..Len(s) : s[i] \in Elements /\ s[i].tx \in Txs
  <2>1. \A i \in 1..Len(s) : s[i] \in Elements
    BY <1>1
  <2>2. \A e \in Elements : e.tx \in Txs
    BY DEF Elements
  <2> QED
    BY <2>1, <2>2
<1>3. t = [i \in 1..Len(s) |-> s[i].tx]
  BY <1>1 DEF ListedTxs
<1> HIDE DEF t, s
<1>4. /\ t \in Seq(Txs) /\ Len(t) = Len(s)
      /\ \A i \in 1..Len(s) : t[i] = s[i].tx
  BY <1>1, <1>2, <1>3
<1> QED
  BY <1>1, <1>4 DEF t, s

\* What the consensus reaps.
LEMMA ReapedIsLongest ==
  ASSUME Inv, NEW maxBytes \in Int, NEW maxGas \in Int
  PROVE  LET all == ListedTxs
             reaped == ReapMaxBytesMaxGas(mem, maxBytes, maxGas)
         IN  /\ IsPrefix(reaped, all)
             /\ Fit(reaped, maxBytes, maxGas)
             /\ Len(reaped) < Len(all) =>
                  ~Fit(SubSeq(all, 1, Len(reaped) + 1), maxBytes, maxGas)
<1> DEFINE all == ListedTxs
           n == Len(mem.txs)
           reaped == ReapMaxBytesMaxGas(mem, maxBytes, maxGas)
<1>1. /\ all \in Seq(Txs) /\ Len(all) = n /\ n \in Nat
      /\ \A i \in 1..n : all[i] = mem.txs[i].tx
  BY ListedAre
<1>2. PICK g : ReapsAll(g, mem, maxBytes, maxGas)
  BY <1>1, ReapIs
<1>3. /\ reaped = g[n].txs /\ g[0] = NoneReaped
      /\ \A i \in 1..n :
           g[i] = ReapTx(g[i-1], mem.txs[i].tx, maxBytes, maxGas)
  BY <1>2 DEF ReapsAll
<1> HIDE DEF all, n, reaped
<1>4. ReapedTo(g[0], all, 0, maxBytes, maxGas)
  <2> DEFINE s == SubSeq(all, 1, 0)
  <2>1. s = << >> /\ s \in Seq(Txs)
    BY <1>1
  <2> HIDE DEF s
  <2>2. Sum(TxSize, s) = 0 /\ Sum(GasWanted, s) = 0
    BY <2>1, MeasuresAre, SumOfNone
  <2>3. Fit(s, maxBytes, maxGas)
    BY <2>2 DEF Fit
  <2>4. /\ g[0] = [txs |-> g[0].txs, bytes |-> g[0].bytes, gas |-> g[0].gas,
                   done |-> g[0].done]
        /\ g[0].txs = << >> /\ g[0].bytes = 0 /\ g[0].gas = 0
        /\ g[0].done = FALSE
    BY <1>3 DEF NoneReaped
  <2>5. 0 \in 0..0
    OBVIOUS
  <2> QED
    BY <2>1, <2>2, <2>3, <2>4, <2>5 DEF ReapedTo, s
<1> DEFINE Bad == {i \in 0..n : ~ReapedTo(g[i], all, i, maxBytes, maxGas)}
<1>5. Bad = {}
  <2> SUFFICES ASSUME Bad # {} PROVE FALSE
    OBVIOUS
  <2>1. Bad \in SUBSET Nat
    BY <1>1
  <2> HIDE DEF Bad
  <2>2. PICK l \in Bad : \A k \in Bad : l <= k
    BY <2>1, LeastExists
  <2> USE DEF Bad
  <2>3. /\ l \in 0..n /\ l # 0
        /\ ~ReapedTo(g[l], all, l, maxBytes, maxGas)
    BY <1>4, <2>2
  <2>4. l \in 1..n /\ l \in 1..Len(all) /\ l - 1 \in 0..n /\ ~(l <= l - 1)
    BY <1>1, <2>3
  <2>5. ReapedTo(g[l - 1], all, l - 1, maxBytes, maxGas)
    BY <2>2, <2>4
  <2>6. g[l] = ReapTx(g[l - 1], all[l], maxBytes, maxGas)
    BY <1>1, <1>3, <2>4
  <2> QED
    BY <1>1, <2>3, <2>4, <2>5, <2>6, ReapTxReaps
<1>6. n \in 0..n
  BY <1>1
<1>7. ReapedTo(g[n], all, n, maxBytes, maxGas)
  BY <1>5, <1>6
<1>8. PICK k \in 0..n :
        /\ reaped = SubSeq(all, 1, k)
        /\ Fit(SubSeq(all, 1, k), maxBytes, maxGas)
        /\ k < n => ~Fit(SubSeq(all, 1, k + 1), maxBytes, maxGas)
  <2>1. PICK k \in 0..n :
          /\ g[n].txs = SubSeq(all, 1, k)
          /\ Fit(SubSeq(all, 1, k), maxBytes, maxGas)
          /\ IF g[n].done
             THEN k < n /\ ~Fit(SubSeq(all, 1, k + 1), maxBytes, maxGas)
             ELSE k = n
    BY <1>7 DEF ReapedTo
  <2> QED
    BY <1>1, <1>3, <2>1
<1>9. Len(SubSeq(all, 1, k)) = k /\ IsPrefix(SubSeq(all, 1, k), all)
  BY <1>1, <1>8 DEF IsPrefix
<1>10. /\ IsPrefix(reaped, all)
       /\ Fit(reaped, maxBytes, maxGas)
       /\ Len(reaped) < Len(all) =>
            ~Fit(SubSeq(all, 1, Len(reaped) + 1), maxBytes, maxGas)
  BY <1>1, <1>8, <1>9
<1> QED
  BY <1>10 DEF all, reaped

\* What the RPC shows.
LEMMA ShownIsPrefix ==
  ASSUME Inv, NEW max \in Nat
  PROVE  /\ ReapMaxTxs(mem, -1) = ListedTxs
         /\ IsPrefix(ReapMaxTxs(mem, max), ListedTxs)
         /\ Len(ListedTxs) > max => Len(ReapMaxTxs(mem, max)) = max + 1
<1> DEFINE all == ListedTxs
           n == Len(mem.txs)
<1>1. /\ all \in Seq(Txs) /\ Len(all) = n /\ n \in Nat
      /\ \A i \in 1..n : all[i] = mem.txs[i].tx
  BY ListedAre
<1>2. ASSUME NEW a \in Int
      PROVE  Min({a, n}) = IF a < n THEN a ELSE n
  <2> HIDE DEF n
  <2> DEFINE l == IF a < n THEN a ELSE n
  <2>1. l \in {a, n} /\ \A y \in {a, n} : l <= y
    BY <1>1
  <2>2. \A x \in {a, n} : (\A y \in {a, n} : x <= y) => x = l
    BY <1>1
  <2> QED
    BY <2>1, <2>2 DEF Min
<1>3. ASSUME NEW k \in 0..n
      PROVE  /\ [i \in 1..k |-> mem.txs[i].tx] = SubSeq(all, 1, k)
             /\ Len(SubSeq(all, 1, k)) = k
             /\ IsPrefix(SubSeq(all, 1, k), all)
  <2>1. [i \in 1..k |-> mem.txs[i].tx] = [i \in 1..k |-> all[i]]
    BY <1>1
  <2> HIDE DEF n, all
  <2>2. [i \in 1..k |-> all[i]] = SubSeq(all, 1, k)
    BY <1>1
  <2> QED
    BY <1>1, <2>1, <2>2 DEF IsPrefix
<1>4. ReapMaxTxs(mem, -1) = [i \in 1..Min({n + 1, n}) |-> mem.txs[i].tx]
  BY DEF ReapMaxTxs
<1>5. ReapMaxTxs(mem, max) = [i \in 1..Min({max + 1, n}) |-> mem.txs[i].tx]
  <2>1. ~(max < 0)
    OBVIOUS
  <2> QED
    BY <2>1, Zenon DEF ReapMaxTxs
<1>6. Min({n + 1, n}) = n
  BY <1>1, <1>2
<1>7. ReapMaxTxs(mem, -1) = all
  <2>1. SubSeq(all, 1, n) = all /\ n \in 0..n
    BY <1>1
  <2> QED
    BY <1>3, <1>4, <1>6, <2>1
<1> DEFINE k == IF max + 1 < n THEN max + 1 ELSE n
<1>8. Min({max + 1, n}) = k /\ k \in 0..n /\ (n > max => k = max + 1)
  BY <1>1, <1>2
<1> HIDE DEF k
<1>9. /\ ReapMaxTxs(mem, max) = SubSeq(all, 1, k)
      /\ Len(SubSeq(all, 1, k)) = k
      /\ IsPrefix(SubSeq(all, 1, k), all)
  BY <1>3, <1>5, <1>8
<1> HIDE DEF n, all
<1>10. /\ ReapMaxTxs(mem, -1) = all
       /\ IsPrefix(ReapMaxTxs(mem, max), all)
       /\ Len(all) > max => Len(ReapMaxTxs(mem, max)) = max + 1
  BY <1>1, <1>7, <1>8, <1>9
<1> QED
  BY <1>10 DEF all

\* What the consensus reaps is the longest prefix of the list that fits, and
\* what the RPC shows is a prefix of one transaction more than it asked for,
\* for all limits.
THEOREM LongestPrefixIsReaped == Spec => []ReapIsLongestPrefix
<1>1. Inv => ReapIsLongestPrefix
  <2> SUFFICES ASSUME Inv, NEW limits \in ReapLimits
               PROVE  LET all == ListedTxs
                          reaped == ReapMaxBytesMaxGas(mem, limits.maxBytes,
                                                       limits.maxGas)
                          Fits(txs) ==
                            /\ limits.maxBytes > -1 =>
                                 Sum(TxSize, txs) <= limits.maxBytes
                            /\ limits.maxGas > -1 =>
                                 Sum(GasWanted, txs) <= limits.maxGas
                      IN  /\ IsPrefix(reaped, all)
                          /\ Fits(reaped)
                          /\ Len(reaped) < Len(all) =>
                               ~Fits(SubSeq(all, 1, Len(reaped) + 1))
                          /\ \A max \in 0..config.Size :
                               /\ ReapMaxTxs(mem, -1) = all
                               /\ IsPrefix(ReapMaxTxs(mem, max), all)
                               /\ Len(all) > max =>
                                    Len(ReapMaxTxs(mem, max)) = max + 1
    BY DEF ReapIsLongestPrefix
  <2>1. limits.maxBytes \in Int /\ limits.maxGas \in Int
    BY MempoolAssumption
  <2> DEFINE a == limits.maxBytes
             b == limits.maxGas
             all == ListedTxs
             reaped == ReapMaxBytesMaxGas(mem, a, b)
  <2>2. /\ IsPrefix(reaped, all)
        /\ Fit(reaped, a, b)
        /\ Len(reaped) < Len(all) =>
             ~Fit(SubSeq(all, 1, Len(reaped) + 1), a, b)
    BY <2>1, ReapedIsLongest
  <2>3. \A max \in 0..config.Size :
          /\ ReapMaxTxs(mem, -1) = all
          /\ IsPrefix(ReapMaxTxs(mem, max), all)
          /\ Len(all) > max => Len(ReapMaxTxs(mem, max)) = max + 1
    <3>1. \A max \in 0..config.Size : max \in Nat
      OBVIOUS
    <3> QED
      BY <3>1, ShownIsPrefix
  <2> QED
    BY <2>2, <2>3 DEF Fit
<1> QED
  BY <1>1, InvInit, InvNext, PTL DEF Spec
=============================================================================
