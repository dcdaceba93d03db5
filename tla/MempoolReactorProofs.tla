------------------------ MODULE MempoolReactorProofs ------------------------
(***************************************************************************)
(* For every number of IDs, peers and connections and every way in which   *)
(* peers come, fail, stop and come back, the IDs of the mempool reactor    *)
(* are unambiguous and given back; and until an ID is used again, no       *)
(* pending transaction is skipped.                                         *)
(***************************************************************************)
EXTENDS MempoolReactor, Lemmas, FiniteSetTheorems

Statuses == {"none", "init", "up", "stopped", "removed", "failed", "panicked"}
Places ==
  {"loop", "front", "check", "send", "wait", "next", "returned"}

\* A routine that runs has read the ID of its peer.
NotStarted == [pc : {"none", "start"}]
Started == [pc : Places, next : Nat, id : IDs]

Elements == [tx : Nat, height : Nat, senders : SUBSET IDs]
Removed == [height : Nat, senders : SUBSET IDs, next : Nat]
Submissions == [tx : Nat, from : SUBSET Peers, sender : IDs]

IDTypes ==
  /\ peerMap \in [Peers -> IDs]
  /\ activeIDs \in SUBSET IDs
  /\ reserved \in Nat
  /\ status \in [Conns -> Statuses]
  /\ routine \in [Conns -> NotStarted \cup Started]

ListTypes ==
  /\ list \in Seq(Elements)
  /\ origins \in Seq(SUBSET Peers)
  /\ removed \in [(1..Len(origins)) \ Numbers -> Removed]
  /\ height \in Nat
  /\ subs \in SUBSET Submissions

TypeOK == IDTypes /\ ListTypes

\* The transactions are numbered as they come, pending ones are in the order of
\* their numbers, and no pending transaction is between a removed one and the
\* one it links to.
ListInv ==
  /\ \A i \in DOMAIN list : list[i].tx \in 1..Len(origins)
  /\ \A i, j \in DOMAIN list : i < j => list[i].tx < list[j].tx
  /\ \A tx \in DOMAIN removed :
       LET next == removed[tx].next
       IN  /\ next <= Len(origins)
           /\ next # 0 => \A n \in Numbers : n > tx => n >= next
  /\ \A s \in subs : s.tx <= Len(origins)

\* A routine stands at a transaction that was added, pending or not.
PlaceInv ==
  \A c \in Conns :
    LET r == routine[c]
    IN  r.pc \in Places =>
          /\ r.next <= Len(origins)
          /\ r.pc \in {"check", "send", "wait", "next"} => r.next # 0

\* Two peers have one ID in peerMap only if it is that of unknown peers; an ID
\* in peerMap, also one left by a peer that failed to start, is in use.
PeersInv ==
  /\ UnknownPeerID \in activeIDs
  /\ \A p \in Peers : peerMap[p] \in activeIDs
  /\ \A p, q \in Peers :
       p # q /\ peerMap[p] = peerMap[q] => peerMap[p] = UnknownPeerID

\* A peer has one connection at a time and an ID as long as it has one, and its
\* routine keeps that ID.
ConnsInv ==
  /\ \A c \in Connected : GetForPeer(c) # UnknownPeerID
  /\ \A c, d \in Connected : c # d => PeerOf[c] # PeerOf[d]
  /\ \A c \in Conns :
       status[c] = "up" =>
         /\ routine[c].pc # "none"
         /\ routine[c].pc # "start" => routine[c].id = GetForPeer(c)

-----------------------------------------------------------------------------
(* What the actions leave alone                                            *)


\* The switch changes the status of a connection and the IDs, a routine
\* itself only, and all others neither.
LEMMA StepCases ==
  ASSUME [Next]_vars
  PROVE  \/ \E c \in Conns : \/ InitPeer(c)
                             \/ InitPeerPanics(c)
                             \/ StartFails(c)
                             \/ AddPeer(c)
                             \/ PeerStops(c)
                             \/ RemovePeer(c)
         \/ \E c \in Conns : Step(c) /\ UNCHANGED <<idVars, status>>
         \/ UNCHANGED <<idVars, status, routine>>
  BY Zenon DEF Next, SwitchStep, Step, MempoolStep, vars, subVars, listVars,
         sendVars, PeerCatchesUp, Receive, Submit, CheckTx, RemoveTx,
         NewHeight, StartRoutine, ReturnRoutine, WaitFront, TxsFront,
         CheckPeer, Send, WaitNext, TakeNext

\* A routine that goes on keeps its element and the ID of its peer.
LEMMA GotoKeeps ==
  ASSUME TypeOK, NEW c \in Conns, routine[c] \in Started,
         NEW pc \in Places, Goto(c, pc)
  PROVE  /\ routine' \in [Conns -> NotStarted \cup Started]
         /\ routine'[c] \in Started
         /\ routine'[c].pc = pc
         /\ routine'[c].next = routine[c].next
         /\ routine'[c].id = routine[c].id
         /\ \A d \in Conns \ {c} : routine'[d] = routine[d]
<1> DEFINE r == [routine[c] EXCEPT !.pc = pc]
<1>1. r \in Started /\ r.pc = pc /\ r.next = routine[c].next
      /\ r.id = routine[c].id
  BY DEF Started
<1>2. routine' = [routine EXCEPT ![c] = r]
  BY DEF Goto
<1> HIDE DEF r
<1> QED
  BY <1>1, <1>2 DEF TypeOK, IDTypes, ListTypes

-----------------------------------------------------------------------------
(* The list                                                                *)

\* A pending transaction is found at its only position.
LEMMA PosOfFinds ==
  ASSUME TypeOK, ListInv, NEW tx
  PROVE  /\ tx \notin Numbers => PosOf(tx) = 0
         /\ \A i \in DOMAIN list : list[i].tx = tx => PosOf(tx) = i
<1> DEFINE I == {i \in 1..Len(list) : list[i].tx = tx}
<1>1. PosOf(tx) = IF I # {} THEN Min(I) ELSE 0
  BY DEF PosOf, SelectInSeq
<1>2. DOMAIN list = 1..Len(list)
  BY DEF TypeOK, IDTypes, ListTypes
<1>3. ASSUME tx \notin Numbers PROVE PosOf(tx) = 0
  BY <1>1, <1>2, <1>3 DEF Numbers
<1>4. ASSUME NEW i \in DOMAIN list, list[i].tx = tx PROVE PosOf(tx) = i
  <2>1. ASSUME NEW j \in I PROVE j = i
    <3>1. list[i].tx = list[j].tx /\ list[i].tx \in Nat
      <4>1. list[i] \in Elements
        BY DEF TypeOK, IDTypes, ListTypes
      <4> QED
        BY <1>4, <4>1 DEF Elements
    <3>2. j \in DOMAIN list
      BY <1>2
    <3>3. /\ i < j => list[i].tx < list[j].tx
          /\ j < i => list[j].tx < list[i].tx
      BY <3>2 DEF ListInv
    <3> QED
      BY <1>2, <3>1, <3>2, <3>3
  <2>2. I = {i}
    BY <1>2, <1>4, <2>1
  <2>3. Min({i}) = i
    BY <1>2 DEF Min
  <2> QED
    BY <1>1, <2>2, <2>3
<1> QED
  BY <1>3, <1>4

\* An element, in the list or not, links to an element before which no pending
\* one follows.
LEMMA MemTxLinks ==
  ASSUME TypeOK, ListInv, NEW tx \in 1..Len(origins)
  PROVE  /\ MemTx(tx) \in Removed
         /\ MemTx(tx).next <= Len(origins)
         /\ MemTx(tx).next # 0 =>
              \A n \in Numbers : n > tx => n >= MemTx(tx).next
         /\ \A i \in DOMAIN list :
              list[i].tx = tx => MemTx(tx).senders = list[i].senders
<1>1. CASE tx \notin Numbers
  <2>1. PosOf(tx) = 0 /\ tx \in DOMAIN removed
    BY <1>1, PosOfFinds DEF TypeOK, IDTypes, ListTypes
  <2>2. MemTx(tx) = removed[tx]
    BY <2>1 DEF MemTx
  <2> QED
    BY <1>1, <2>1, <2>2 DEF TypeOK, IDTypes, ListTypes, ListInv, Numbers
<1>2. ASSUME NEW i \in DOMAIN list, list[i].tx = tx
      PROVE  /\ MemTx(tx) \in Removed
             /\ MemTx(tx).next <= Len(origins)
             /\ MemTx(tx).next # 0 =>
                  \A n \in Numbers : n > tx => n >= MemTx(tx).next
             /\ MemTx(tx).senders = list[i].senders
  <2> DEFINE next == IF i < Len(list) THEN list[i + 1].tx ELSE 0
  <2>1. PosOf(tx) = i /\ i \in 1..Len(list) /\ list[i] \in Elements
    BY <1>2, PosOfFinds DEF TypeOK, IDTypes, ListTypes
  <2>2. MemTx(tx) = [height |-> list[i].height, senders |-> list[i].senders,
                     next |-> next]
    BY <2>1 DEF MemTx
  <2>3. i < Len(list) => /\ i + 1 \in DOMAIN list
                         /\ next = list[i + 1].tx
                         /\ list[i + 1] \in Elements
    BY <2>1 DEF TypeOK, IDTypes, ListTypes
  <2>4. next \in Nat /\ next <= Len(origins)
    BY <2>3 DEF ListInv, TypeOK, ListTypes, Elements
  <2>5. ASSUME next # 0, NEW n \in Numbers, n > tx PROVE n >= next
    <3>1. PICK j \in DOMAIN list : n = list[j].tx
      BY DEF Numbers
    <3>2. j \in 1..Len(list) /\ list[j] \in Elements
      BY DEF TypeOK, IDTypes, ListTypes
    <3>3. j > i
      BY <1>2, <2>1, <2>5, <3>1, <3>2 DEF ListInv, Elements
    <3>4. j = i + 1 \/ j > i + 1
      BY <2>1, <3>2, <3>3
    <3> QED
      BY <2>1, <2>3, <3>1, <3>2, <3>4 DEF ListInv, Elements
  <2>6. MemTx(tx) \in Removed
    BY <2>1, <2>2, <2>4 DEF Removed, Elements
  <2> QED
    BY <2>2, <2>4, <2>5, <2>6
<1>3. ASSUME tx \in Numbers
      PROVE  \E i \in DOMAIN list : list[i].tx = tx
  BY <1>3 DEF Numbers
<1> QED
  BY <1>1, <1>2, <1>3 DEF Numbers

\* A new transaction comes in at the end, with the next number.
LEMMA PushBackKeepsList ==
  ASSUME TypeOK, ListInv, NEW e \in Elements, NEW from \in SUBSET Peers,
         e.tx = Len(origins) + 1, list' = Append(list, e),
         origins' = Append(origins, from), UNCHANGED <<removed, height>>,
         subs' \subseteq subs
  PROVE  ListTypes' /\ ListInv'
<1> USE DEF TypeOK, IDTypes, ListTypes
<1>1. /\ list' \in Seq(Elements) /\ Len(list') = Len(list) + 1
      /\ \A i \in DOMAIN list : list'[i] = list[i] /\ i \in DOMAIN list'
      /\ list'[Len(list) + 1] = e
      /\ \A i \in DOMAIN list' : i \in DOMAIN list \/ i = Len(list) + 1
  OBVIOUS
<1>2. /\ origins' \in Seq(SUBSET Peers) /\ Len(origins') = Len(origins) + 1
      /\ Len(origins) \in Nat
  OBVIOUS
<1>3. \A i \in DOMAIN list : list[i].tx \in 1..Len(origins)
  BY DEF ListInv
<1>4. Numbers' = Numbers \cup {e.tx}
  BY <1>1 DEF Numbers
<1>5. (1..Len(origins)) \ Numbers = (1..Len(origins')) \ Numbers'
  <2> HIDE DEF TypeOK, IDTypes, ListTypes
  <2>1. /\ 1..Len(origins') = (1..Len(origins)) \cup {e.tx}
        /\ e.tx \notin 1..Len(origins)
    BY <1>2
  <2> QED
    BY <2>1, <1>4
<1>6. ListTypes'
  BY <1>1, <1>2, <1>5
<1>7. \A i \in DOMAIN list' : list'[i].tx \in 1..Len(origins')
  BY <1>1, <1>2, <1>3
<1>8. \A i, j \in DOMAIN list' : i < j => list'[i].tx < list'[j].tx
  BY <1>1, <1>2, <1>3 DEF ListInv
<1>9. \A tx \in DOMAIN removed : removed[tx].next \in Nat
  BY DEF Removed
<1>10. \A tx \in DOMAIN removed' :
        LET next == removed'[tx].next
        IN  /\ next <= Len(origins')
            /\ next # 0 => \A n \in Numbers' : n > tx => n >= next
  BY <1>2, <1>4, <1>9 DEF ListInv
<1>11. \A s \in subs' : s.tx <= Len(origins')
  BY <1>2 DEF ListInv, Submissions
<1> QED
  BY <1>6, <1>7, <1>8, <1>10, <1>11 DEF ListInv

\* A sender is added to a pending transaction.
LEMMA AddSenderKeepsList ==
  ASSUME TypeOK, ListInv, NEW tx \in Numbers, NEW sender \in IDs,
         NEW from \in SUBSET Peers, L!AddSender(PosOf(tx), sender),
         origins' = [origins EXCEPT ![tx] = @ \cup from],
         UNCHANGED <<removed, height>>, subs' \subseteq subs
  PROVE  /\ ListTypes' /\ ListInv'
         /\ DOMAIN list' = DOMAIN list
         /\ \A i \in DOMAIN list :
              /\ list'[i].tx = list[i].tx
              /\ list'[i].senders =
                   IF list[i].tx = tx THEN list[i].senders \cup {sender}
                   ELSE list[i].senders
<1> USE DEF TypeOK, IDTypes, ListTypes
<1>1. PICK p \in DOMAIN list : list[p].tx = tx
  BY DEF Numbers
<1>2. PosOf(tx) = p
  BY <1>1, PosOfFinds
<1> DEFINE e == [list[p] EXCEPT !.senders = @ \cup {sender}]
<1>3. list' = [list EXCEPT ![p] = e]
  BY <1>2 DEF L!AddSender
<1>4. e \in Elements /\ e.tx = tx /\ e.senders = list[p].senders \cup {sender}
  <2>1. list[p] \in Elements
    OBVIOUS
  <2> QED
    BY <1>1, <2>1 DEF Elements
<1> HIDE DEF e
<1>5. /\ list' \in Seq(Elements) /\ Len(list') = Len(list)
      /\ DOMAIN list' = DOMAIN list
      /\ \A i \in DOMAIN list : list'[i] = IF i = p THEN e ELSE list[i]
  BY <1>3, <1>4
<1>6. \A i \in DOMAIN list : i # p => list[i].tx # tx
  BY <1>1, <1>2, PosOfFinds
<1>7. \A i \in DOMAIN list :
        /\ list'[i].tx = list[i].tx
        /\ list'[i].senders =
             IF list[i].tx = tx THEN list[i].senders \cup {sender}
             ELSE list[i].senders
  BY <1>1, <1>4, <1>5, <1>6
<1>8. Numbers' = Numbers
  BY <1>5, <1>7 DEF Numbers
<1>9. origins' \in Seq(SUBSET Peers) /\ Len(origins') = Len(origins)
  <2>1. tx \in DOMAIN origins
    BY <1>1 DEF ListInv
  <2> QED
    BY <2>1
<1>10. ListTypes'
  BY <1>5, <1>8, <1>9
<1>11. ListInv'
  BY <1>5, <1>7, <1>8, <1>9 DEF ListInv
<1> QED
  BY <1>5, <1>7, <1>10, <1>11

\* A removed transaction keeps its link, and its number is not used again.
LEMMA RemoveKeepsList ==
  ASSUME TypeOK, ListInv, NEW p \in DOMAIN list, RemoveTx(p)
  PROVE  /\ ListTypes' /\ ListInv'
         /\ \A i \in DOMAIN list' : \E j \in DOMAIN list : list'[i] = list[j]
         /\ Numbers' \subseteq Numbers
<1> USE DEF TypeOK, IDTypes, ListTypes
<1> DEFINE tx == list[p].tx
           n == Len(list)
<1>1. UNCHANGED <<origins, height, subs>>
  BY DEF RemoveTx, subVars
<1>2. n \in Nat /\ p \in 1..n /\ DOMAIN list = 1..n
  OBVIOUS
<1>3. /\ list' \in Seq(Elements) /\ Len(list') = n - 1
      /\ \A i \in 1..(p - 1) : list'[i] = list[i]
      /\ \A i \in p..(n - 1) : list'[i] = list[i + 1]
  <2>1. list' = RemoveAt(list, p) /\ list \in Seq(Elements)
    BY Zenon DEF RemoveTx, L!Take, L!RemoveAt, RemoveAt, TypeOK, ListTypes
  <2> HIDE DEF TypeOK, IDTypes, ListTypes
  <2> QED
    BY <1>2, <2>1, RemoveAtElements
<1>4. DOMAIN list' = 1..(n - 1)
  BY <1>3
<1> HIDE DEF n
<1>5. \A i \in DOMAIN list' :
        \E j \in DOMAIN list \ {p} :
          list'[i] = list[j] /\ j = IF i < p THEN i ELSE i + 1
  BY <1>2, <1>3, <1>4
<1>6. \A j \in DOMAIN list \ {p} : \E i \in DOMAIN list' : list'[i] = list[j]
  <2> SUFFICES ASSUME NEW j \in 1..n, j # p
               PROVE  \E i \in DOMAIN list' : list'[i] = list[j]
    BY <1>2
  <2>1. CASE j < p
    <3>1. j \in 1..(p - 1) /\ j \in DOMAIN list'
      BY <2>1, <1>2, <1>4
    <3> QED
      BY <3>1, <1>3
  <2>2. CASE j > p
    <3>1. j - 1 \in p..(n - 1) /\ j - 1 \in DOMAIN list' /\ j - 1 + 1 = j
      BY <2>2, <1>2, <1>4
    <3> QED
      BY <3>1, <1>3
  <2> QED
    BY <2>1, <2>2, <1>2
<1>7. tx \in Numbers /\ \A i \in DOMAIN list : list[i].tx = tx => i = p
  BY <1>2, PosOfFinds DEF Numbers
<1>8. Numbers' = Numbers \ {tx}
  <2>1. Numbers' \subseteq Numbers \ {tx}
    BY <1>5, <1>7 DEF Numbers
  <2>2. Numbers \ {tx} \subseteq Numbers'
    BY <1>6 DEF Numbers
  <2> QED
    BY <2>1, <2>2
<1>9. tx \in 1..Len(origins)
  BY DEF ListInv
<1>10. DOMAIN removed' = (1..Len(origins')) \ Numbers'
  BY <1>1, <1>7, <1>8, <1>9 DEF RemoveTx
<1>11. \A t \in DOMAIN removed' : removed'[t] = MemTx(t)
  BY DEF RemoveTx
<1>12. \A t \in DOMAIN removed' : t \in 1..Len(origins)
  BY <1>1, <1>10
<1>13. \A t \in DOMAIN removed' :
         /\ removed'[t] \in Removed
         /\ removed'[t].next <= Len(origins')
         /\ removed'[t].next # 0 =>
              \A m \in Numbers' : m > t => m >= removed'[t].next
  BY <1>1, <1>8, <1>11, <1>12, MemTxLinks
<1>14. removed' \in [(1..Len(origins')) \ Numbers' -> Removed]
  BY <1>10, <1>13 DEF RemoveTx
<1>15. ListTypes'
  BY <1>1, <1>3, <1>14
<1>16. \A i, j \in DOMAIN list' : i < j => list'[i].tx < list'[j].tx
  <2> SUFFICES ASSUME NEW i \in DOMAIN list', NEW j \in DOMAIN list', i < j
               PROVE  list'[i].tx < list'[j].tx
    OBVIOUS
  <2>1. PICK k \in DOMAIN list : /\ list'[i] = list[k]
                                 /\ k = IF i < p THEN i ELSE i + 1
    BY <1>5
  <2>2. PICK l \in DOMAIN list : /\ list'[j] = list[l]
                                 /\ l = IF j < p THEN j ELSE j + 1
    BY <1>5
  <2>3. k < l
    BY <1>2, <1>4, <2>1, <2>2
  <2> QED
    BY <2>1, <2>2, <2>3 DEF ListInv
<1>17. \A i \in DOMAIN list' : list'[i].tx \in 1..Len(origins')
  BY <1>1, <1>5 DEF ListInv
<1>18. ListInv'
  BY <1>1, <1>13, <1>16, <1>17 DEF ListInv
<1> QED
  BY <1>5, <1>8, <1>15, <1>18

\* The calls of CheckTx on their way and those that answer keep the list in
\* order.
LEMMA CheckTxKeepsList ==
  ASSUME TypeOK, ListInv, NEW s \in subs, CheckTx(s)
  PROVE  ListTypes' /\ ListInv'
<1>1. /\ subs' \subseteq subs /\ UNCHANGED <<removed, height>>
      /\ s \in Submissions /\ height \in Nat
  BY DEF CheckTx, TypeOK, ListTypes
<1>2. s.from \in SUBSET Peers /\ s.sender \in IDs
  BY <1>1 DEF Submissions
<1>3. CASE s.tx = 0
  <2> DEFINE e == [tx |-> Len(origins) + 1, height |-> height,
                   senders |-> {s.sender}]
  <2>1. list' = Append(list, e) /\ origins' = Append(origins, s.from)
    BY <1>3 DEF CheckTx, L!PushBack
  <2>2. e \in Elements /\ e.tx = Len(origins) + 1
    <3>1. Len(origins) \in Nat
      BY DEF TypeOK, ListTypes
    <3> QED
      BY <1>1, <1>2, <3>1 DEF Elements
  <2> HIDE DEF e
  <2> QED
    BY <1>1, <1>2, <2>1, <2>2, PushBackKeepsList
<1>4. CASE s.tx # 0 /\ s.tx \in Numbers
  <2>1. /\ L!AddSender(PosOf(s.tx), s.sender)
        /\ origins' = [origins EXCEPT ![s.tx] = @ \cup s.from]
    BY <1>4 DEF CheckTx
  <2> QED
    BY <1>1, <1>2, <1>4, <2>1, AddSenderKeepsList
<1>5. CASE s.tx # 0 /\ s.tx \notin Numbers
  BY <1>1, <1>5 DEF CheckTx, TypeOK, ListTypes, ListInv, Numbers
<1> QED
  BY <1>3, <1>4, <1>5

\* The actions that change the list or what is on its way to it.
LEMMA ListCases ==
  ASSUME [Next]_vars
  PROVE  \/ \E s \in subs : CheckTx(s)
         \/ \E p \in DOMAIN list : RemoveTx(p)
         \/ NewHeight
         \/ Submit
         \/ \E c \in Conns, tx \in {0} \cup DOMAIN origins : Receive(c, tx)
         \/ UNCHANGED <<listVars, subs>>
  BY Zenon DEF Next, SwitchStep, Step, MempoolStep, vars, subVars, listVars,
         InitPeer, InitPeerPanics, StartFails, AddPeer, PeerStops, RemovePeer,
         PeerCatchesUp, StartRoutine, ReturnRoutine, WaitFront, TxsFront,
         CheckPeer, Send, WaitNext, TakeNext

\* The list stays in order and keeps its links.
LEMMA ListNext ==
  ASSUME TypeOK, ListInv, [Next]_vars
  PROVE  ListTypes' /\ ListInv'
<1>1. ASSUME NewHeight PROVE ListTypes' /\ ListInv'
  BY <1>1 DEF NewHeight, subVars, TypeOK, ListTypes, ListInv, Numbers
<1>2. ASSUME NEW s \in Submissions, s.tx <= Len(origins),
             subs' = subs \cup {s}, UNCHANGED listVars
      PROVE  ListTypes' /\ ListInv'
  BY <1>2 DEF listVars, TypeOK, ListTypes, ListInv, Numbers
<1>3. ASSUME Submit PROVE ListTypes' /\ ListInv'
  <2> DEFINE s == [tx |-> 0, from |-> {}, sender |-> UnknownPeerID]
  <2>1. s \in Submissions /\ s.tx <= Len(origins)
    BY ReactorAssumption
       DEF Submissions, UnknownPeerID, IDs, TypeOK, ListTypes
  <2>2. subs' = subs \cup {s} /\ UNCHANGED listVars
    BY <1>3 DEF Submit
  <2> QED
    BY <2>1, <2>2, <1>2
<1>4. ASSUME NEW c \in Conns, NEW tx \in {0} \cup DOMAIN origins,
             Receive(c, tx)
      PROVE  ListTypes' /\ ListInv'
  <2> DEFINE s == [tx |-> tx, from |-> {PeerOf[c]}, sender |-> GetForPeer(c)]
  <2>1. PeerOf[c] \in Peers /\ GetForPeer(c) \in IDs
    BY ReactorAssumption DEF GetForPeer, TypeOK, IDTypes
  <2>2. tx \in Nat /\ tx <= Len(origins)
    BY DEF TypeOK, ListTypes
  <2>3. s \in Submissions /\ s.tx <= Len(origins)
    BY <2>1, <2>2 DEF Submissions
  <2>4. subs' = subs \cup {s} /\ UNCHANGED listVars
    BY <1>4 DEF Receive
  <2> QED
    BY <2>3, <2>4, <1>2
<1>5. CASE UNCHANGED <<listVars, subs>>
  BY <1>5 DEF listVars, TypeOK, ListTypes, ListInv, Numbers
<1> QED
  BY <1>1, <1>3, <1>4, <1>5, ListCases, CheckTxKeepsList, RemoveKeepsList

-----------------------------------------------------------------------------
(* The routines and the IDs                                                *)

\* A step of the routine of c, which then stands at a transaction.
MovesAlone(c) ==
  /\ routine' \in [Conns -> NotStarted \cup Started]
  /\ \A d \in Conns \ {c} : routine'[d] = routine[d]
  /\ routine'[c] \in Started
  /\ routine'[c].next <= Len(origins)
  /\ routine'[c].pc \in {"check", "send", "wait", "next"} =>
       routine'[c].next # 0

\* What becomes of its ID.
ReadsID(c) == routine[c].pc = "start" /\ routine'[c].id = GetForPeer(c)
KeepsID(c) == routine[c] \in Started /\ routine'[c].id = routine[c].id

\* A routine reads the ID of its peer when it starts, keeps it, and only ever
\* stands at transactions that were added.
LEMMA StepMovesOne ==
  ASSUME TypeOK, ListInv, PlaceInv, NEW c \in Conns, Step(c)
  PROVE  /\ MovesAlone(c)
         /\ ReadsID(c) \/ KeepsID(c)
<1> USE DEF TypeOK, IDTypes, ListTypes, MovesAlone, ReadsID, KeepsID
<1>1. Len(origins) \in Nat
  OBVIOUS
<1>2. routine[c].pc \in Places => routine[c] \in Started
  BY DEF NotStarted, Started, Places
<1>3. routine[c] \in Started => /\ routine[c].pc \in Places
                                /\ routine[c].next \in Nat
                                /\ routine[c].id \in IDs
  BY DEF Started
<1>4. CASE StartRoutine(c)
  <2>1. GetForPeer(c) \in IDs
    BY ReactorAssumption DEF GetForPeer
  <2> DEFINE r == [pc |-> "loop", next |-> 0, id |-> GetForPeer(c)]
  <2>2. /\ r \in Started /\ r.next = 0 /\ r.id = GetForPeer(c)
        /\ r.pc = "loop"
    BY <2>1 DEF Started, Places
  <2>3. routine' = [routine EXCEPT ![c] = r] /\ routine[c].pc = "start"
    BY <1>4 DEF StartRoutine
  <2> HIDE DEF r
  <2> QED
    BY <1>1, <2>2, <2>3
<1>5. ASSUME NEW pc \in Places, Goto(c, pc), routine[c].pc \in Places,
             pc \in {"check", "send", "wait", "next"} => routine[c].next # 0
      PROVE  MovesAlone(c) /\ KeepsID(c)
  BY <1>2, <1>5, GotoKeeps DEF PlaceInv
<1>6. CASE ReturnRoutine(c)
  BY <1>5, <1>6 DEF ReturnRoutine, Places
<1>7. CASE WaitFront(c)
  BY <1>5, <1>7 DEF WaitFront, Places
<1>8. ASSUME NEW pc \in Places, NEW n \in 0..Len(origins),
             routine' = [routine EXCEPT ![c].pc = pc, ![c].next = n],
             routine[c].pc \in Places,
             pc \in {"check", "send", "wait", "next"} => n # 0
      PROVE  MovesAlone(c) /\ KeepsID(c)
  <2> DEFINE r == [routine[c] EXCEPT !.pc = pc, !.next = n]
  <2>1. n \in Nat /\ n <= Len(origins)
    BY <1>1
  <2>2. r \in Started /\ r.pc = pc /\ r.next = n /\ r.id = routine[c].id
    BY <1>2, <1>8, <2>1 DEF Started
  <2>3. routine' = [routine EXCEPT ![c] = r]
    BY <1>8
  <2> HIDE DEF r
  <2> QED
    BY <1>2, <1>8, <2>1, <2>2, <2>3
<1>9. CASE TxsFront(c)
  <2>1. CASE list = << >>
    BY <1>5, <1>9, <2>1 DEF TxsFront, Places
  <2>2. CASE list # << >>
    <3>1. 1 \in DOMAIN list /\ Head(list).tx = list[1].tx
      BY <2>2
    <3>2. Head(list).tx \in 0..Len(origins) /\ Head(list).tx # 0
      BY <3>1, <1>1 DEF ListInv
    <3> QED
      BY <1>8, <1>9, <2>2, <3>2 DEF TxsFront, Places
  <2> QED
    BY <2>1, <2>2
<1>10. CASE CheckPeer(c)
  <2>1. routine[c].next # 0 /\ routine[c].pc \in Places
    BY <1>10 DEF CheckPeer, PlaceInv, Places
  <2>2. \E pc \in {"loop", "wait", "send"} : Goto(c, pc)
    BY <1>10 DEF CheckPeer
  <2> QED
    BY <1>5, <2>1, <2>2 DEF Places
<1>11. ASSUME NEW success \in BOOLEAN, Send(c, success)
       PROVE  /\ routine[c].next # 0 /\ routine[c].pc \in Places
              /\ \E pc \in {"loop", "wait"} : Goto(c, pc)
  BY <1>11 DEF Send, PlaceInv, Places
<1>12. ASSUME NEW success \in BOOLEAN, Send(c, success)
       PROVE  MovesAlone(c) /\ KeepsID(c)
  BY <1>5, <1>11, <1>12 DEF Places
<1>13. CASE WaitNext(c)
  BY <1>5, <1>13 DEF WaitNext, PlaceInv, Places
<1>14. CASE TakeNext(c)
  <2>1. routine[c].pc = "next" /\ routine[c].pc \in Places
    BY <1>14 DEF TakeNext, Places
  <2>2. routine[c].next \in 1..Len(origins)
    BY <1>2, <1>3, <2>1 DEF PlaceInv
  <2>3. MemTx(routine[c].next).next \in 0..Len(origins)
    BY <1>1, <2>2, MemTxLinks DEF Removed
  <2> QED
    BY <1>8, <1>14, <2>1, <2>3 DEF TakeNext, Places
<1> QED
  BY <1>4, <1>6, <1>7, <1>9, <1>10, <1>12, <1>13, <1>14 DEF Step

\* What reserving an ID does to the tables: the ID is not in use and not that
\* of unknown peers, and all others stay.
LEMMA ReserveGivesFreeID ==
  ASSUME IDTypes, PeersInv, NEW p \in Peers, ReserveForPeer(p)
  PROVE  \E id \in IDs :
           /\ FoundNext(id) /\ id \notin activeIDs /\ id # UnknownPeerID
           /\ peerMap' = [peerMap EXCEPT ![p] = id]
           /\ activeIDs' = activeIDs \cup {id}
           /\ nextID' = Plus(id, 1)
  BY Zenon DEF ReserveForPeer, FoundNext, PeersInv

\* The tables of IDs stay in step with each other and with the connections.
LEMMA IDNext ==
  ASSUME TypeOK, ListInv, PlaceInv, PeersInv, ConnsInv, [Next]_vars
  PROVE  IDTypes' /\ PeersInv' /\ ConnsInv'
<1> USE DEF TypeOK, IDTypes, GetForPeer
<1> USE ReactorAssumption
<1>1. ASSUME NEW c \in Conns, InitPeer(c)
      PROVE  IDTypes' /\ PeersInv' /\ ConnsInv'
  <2> DEFINE p == PeerOf[c]
  <2>1. PICK id \in IDs : /\ id \notin activeIDs /\ id # UnknownPeerID
                          /\ peerMap' = [peerMap EXCEPT ![p] = id]
                          /\ activeIDs' = activeIDs \cup {id}
    BY <1>1, ReserveGivesFreeID DEF InitPeer
  <2>2. /\ status' = [status EXCEPT ![c] = "init"] /\ routine' = routine
        /\ reserved' = reserved + 1
        /\ \A d \in Connected : PeerOf[d] # p
    BY <1>1 DEF InitPeer, CanConnect, sendVars
  <2>3. IDTypes'
    BY <2>1, <2>2 DEF Statuses
  <2>4. PeersInv'
    BY <2>1 DEF PeersInv
  <2>5. Connected' = Connected \cup {c}
    BY <2>2 DEF Connected
  <2>6. \A d \in Conns : status'[d] = "up" => d \in Connected /\ d # c
    BY <2>2 DEF Connected
  <2>7. \A d \in Connected : peerMap'[PeerOf[d]] = peerMap[PeerOf[d]]
    BY <2>1, <2>2 DEF Connected
  <2>8. \A d \in Connected' : GetForPeer(d)' # UnknownPeerID
    BY <2>1, <2>5, <2>7 DEF ConnsInv
  <2>9. \A d, e \in Connected' : d # e => PeerOf[d] # PeerOf[e]
    BY <2>2, <2>5 DEF ConnsInv
  <2>10. \A d \in Conns :
           status'[d] = "up" =>
             /\ routine'[d].pc # "none"
             /\ routine'[d].pc # "start" => routine'[d].id = GetForPeer(d)'
    BY <2>2, <2>6, <2>7 DEF ConnsInv
  <2> QED
    BY <2>3, <2>4, <2>8, <2>9, <2>10 DEF ConnsInv
<1>2. ASSUME NEW c \in Conns, RemovePeer(c)
      PROVE  IDTypes' /\ PeersInv' /\ ConnsInv'
  <2> DEFINE p == PeerOf[c]
  <2>1. /\ status[c] = "stopped" /\ routine' = routine
        /\ status' = [status EXCEPT ![c] = "removed"] /\ reserved' = reserved
    BY <1>2 DEF RemovePeer, sendVars
  <2>2. c \in Connected /\ peerMap[p] # UnknownPeerID
    BY <2>1 DEF Connected, ConnsInv
  <2>3. /\ activeIDs' = activeIDs \ {peerMap[p]}
        /\ peerMap' = [peerMap EXCEPT ![p] = UnknownPeerID]
    BY <1>2, <2>2 DEF RemovePeer, Reclaim
  <2>4. IDTypes'
    <3>1. UnknownPeerID \in IDs
      BY DEF IDs, UnknownPeerID
    <3> QED
      BY <2>1, <2>3, <3>1 DEF Statuses
  <2>5. PeersInv'
    BY <2>2, <2>3 DEF PeersInv
  <2>6. Connected' = Connected \ {c}
    BY <2>1 DEF Connected
  <2>7. \A d \in Connected' : peerMap'[PeerOf[d]] = peerMap[PeerOf[d]]
    BY <2>2, <2>3, <2>6 DEF ConnsInv, Connected
  <2>8. \A d \in Conns : status'[d] = "up" => d \in Connected' /\ d # c
    BY <2>1 DEF Connected
  <2>9. ConnsInv'
    BY <2>1, <2>6, <2>7, <2>8 DEF ConnsInv
  <2> QED
    BY <2>4, <2>5, <2>9
<1>3. ASSUME NEW c \in Conns, InitPeerPanics(c) \/ StartFails(c) \/ PeerStops(c)
      PROVE  IDTypes' /\ PeersInv' /\ ConnsInv'
  <2>1. /\ UNCHANGED <<idVars, routine>>
        /\ \E st \in {"panicked", "failed", "stopped"} :
             status' = [status EXCEPT ![c] = st]
        /\ status'[c] = "stopped" => status[c] = "up"
    BY <1>3 DEF InitPeerPanics, StartFails, PeerStops, sendVars
  <2>2. Connected' \subseteq Connected
    BY <2>1 DEF Connected
  <2>3. \A d \in Conns : status'[d] = "up" => status[d] = "up"
    BY <2>1
  <2> QED
    BY <2>1, <2>2, <2>3 DEF idVars, PeersInv, ConnsInv, Statuses
<1>4. ASSUME NEW c \in Conns, AddPeer(c)
      PROVE  IDTypes' /\ PeersInv' /\ ConnsInv'
  <2>1. /\ UNCHANGED idVars /\ status[c] = "init"
        /\ status' = [status EXCEPT ![c] = "up"]
        /\ routine' = [routine EXCEPT ![c] = [pc |-> "start"]]
    BY <1>4 DEF AddPeer
  <2>2. Connected' = Connected
    BY <2>1 DEF Connected
  <2>3. routine' \in [Conns -> NotStarted \cup Started]
    BY <2>1 DEF NotStarted
  <2> QED
    BY <2>1, <2>2, <2>3 DEF idVars, PeersInv, ConnsInv, Statuses
<1>5. ASSUME NEW c \in Conns, Step(c), UNCHANGED <<idVars, status>>
      PROVE  IDTypes' /\ PeersInv' /\ ConnsInv'
  <2>1. MovesAlone(c) /\ (ReadsID(c) \/ KeepsID(c))
    BY <1>5, StepMovesOne
  <2>2. routine'[c].pc # "none"
    BY <2>1 DEF MovesAlone, Started, Places
  <2>3. KeepsID(c) => routine[c].pc # "start"
    BY DEF KeepsID, Started, Places
  <2>4. status'[c] = "up" => routine'[c].id = GetForPeer(c)
    BY <1>5, <2>1, <2>3 DEF ReadsID, KeepsID, ConnsInv
  <2>5. Connected' = Connected
    BY <1>5 DEF Connected
  <2> QED
    BY <1>5, <2>1, <2>2, <2>4, <2>5
       DEF MovesAlone, idVars, PeersInv, ConnsInv
<1>6. CASE UNCHANGED <<idVars, status, routine>>
  BY <1>6 DEF idVars, PeersInv, ConnsInv, Connected
<1> QED
  BY <1>1, <1>2, <1>3, <1>4, <1>5, <1>6, StepCases

\* A routine stands at a transaction that was added, also when more are added.
LEMMA PlaceNext ==
  ASSUME TypeOK, ListInv, PlaceInv, [Next]_vars, ListTypes'
  PROVE  PlaceInv'
<1>1. Len(origins') \in Nat /\ Len(origins') >= Len(origins)
  <2> USE DEF TypeOK, ListTypes
  <2>1. ASSUME NEW s \in subs, CheckTx(s)
        PROVE  \/ \E from : origins' = Append(origins, from)
               \/ \E tx, from : origins' = [origins EXCEPT ![tx] = from]
               \/ origins' = origins
    BY <2>1, Zenon DEF CheckTx
  <2>2. \/ \E from : origins' = Append(origins, from)
        \/ \E tx, from : origins' = [origins EXCEPT ![tx] = from]
        \/ origins' = origins
    BY <2>1, ListCases
       DEF RemoveTx, NewHeight, Submit, Receive, listVars, subVars
  <2> QED
    BY <2>2
<1>2. ASSUME NEW c \in Conns,
             routine'[c] = routine[c] \/ routine'[c].pc \in {"none", "start"}
      PROVE  LET r == routine'[c]
             IN  r.pc \in Places =>
                   /\ r.next <= Len(origins')
                   /\ r.pc \in {"check", "send", "wait", "next"} => r.next # 0
  <2>1. routine[c].pc \in Places => routine[c] \in Started
    BY DEF TypeOK, IDTypes, NotStarted, Started, Places
  <2>2. routine[c] \in Started => routine[c].next \in Nat
    BY DEF Started
  <2>3. Len(origins) \in Nat
    BY DEF TypeOK, ListTypes
  <2> QED
    BY <1>1, <1>2, <2>1, <2>2, <2>3 DEF PlaceInv, Places
<1>3. ASSUME NEW c \in Conns, Step(c) PROVE PlaceInv'
  <2>1. MovesAlone(c)
    BY <1>3, StepMovesOne
  <2>2. routine'[c].next \in Nat /\ Len(origins) \in Nat
    BY <2>1 DEF MovesAlone, Started, TypeOK, ListTypes
  <2>3. LET r == routine'[c]
        IN  r.pc \in Places =>
              /\ r.next <= Len(origins')
              /\ r.pc \in {"check", "send", "wait", "next"} => r.next # 0
    BY <1>1, <2>1, <2>2 DEF MovesAlone
  <2> QED
    BY <1>2, <2>1, <2>3 DEF MovesAlone, PlaceInv
<1>4. ASSUME NEW c \in Conns,
             \/ InitPeer(c) \/ InitPeerPanics(c) \/ StartFails(c)
             \/ AddPeer(c) \/ PeerStops(c) \/ RemovePeer(c)
      PROVE  PlaceInv'
  <2>1. \/ routine' = routine
        \/ routine' = [routine EXCEPT ![c] = [pc |-> "start"]]
    BY <1>4, Zenon DEF InitPeer, InitPeerPanics, StartFails, AddPeer,
                       PeerStops, RemovePeer, sendVars
  <2>2. \A d \in Conns : \/ routine'[d] = routine[d]
                         \/ routine'[d].pc \in {"none", "start"}
    BY <2>1 DEF TypeOK, IDTypes
  <2> QED
    BY <1>2, <2>2 DEF PlaceInv
<1>5. CASE UNCHANGED routine
  BY <1>2, <1>5 DEF PlaceInv
<1> QED
  BY <1>3, <1>4, <1>5, StepCases

\* The empty reactor satisfies the invariants.
LEMMA InvInit == Init => /\ TypeOK /\ ListInv /\ PlaceInv
                         /\ PeersInv /\ ConnsInv
<1> SUFFICES ASSUME Init
             PROVE  TypeOK /\ ListInv /\ PlaceInv /\ PeersInv /\ ConnsInv
  OBVIOUS
<1> USE DEF Init, L!Init
<1>1. UnknownPeerID \in IDs
  BY ReactorAssumption DEF IDs, UnknownPeerID
<1>2. \A c \in Conns : routine[c].pc = "none" /\ status[c] = "none"
  OBVIOUS
<1>3. IDTypes
  BY <1>1, <1>2 DEF IDTypes, Statuses, NotStarted
<1>4. Numbers = {} /\ Len(origins) = 0
  BY DEF Numbers
<1>5. ListTypes
  <2>1. removed = [t \in (1..Len(origins)) \ Numbers |-> removed[t]]
    BY <1>4
  <2> QED
    BY <1>4, <2>1 DEF ListTypes
<1>6. ListInv
  BY DEF ListInv
<1>7. PlaceInv /\ ConnsInv
  BY <1>2 DEF PlaceInv, ConnsInv, Connected, Places
<1>8. PeersInv
  BY DEF PeersInv
<1> QED
  BY <1>3, <1>5, <1>6, <1>7, <1>8 DEF TypeOK

BaseInv == TypeOK /\ ListInv /\ PlaceInv /\ PeersInv /\ ConnsInv

\* Every step keeps them.
LEMMA BaseNext == BaseInv /\ [Next]_vars => BaseInv'
<1> SUFFICES ASSUME BaseInv, [Next]_vars PROVE BaseInv'
  OBVIOUS
<1> USE DEF BaseInv
<1>1. ListTypes' /\ ListInv'
  BY ListNext
<1>2. PlaceInv'
  BY <1>1, PlaceNext
<1>3. IDTypes' /\ PeersInv' /\ ConnsInv'
  BY IDNext
<1> QED
  BY <1>1, <1>2, <1>3 DEF TypeOK

\* What BaseInv says of the connections is what the property asks for.
LEMMA BaseIsUnambiguous == BaseInv => IDsAreUnambiguous
  BY ReactorAssumption DEF BaseInv, TypeOK, IDTypes, PeersInv, ConnsInv,
     IDsAreUnambiguous, GetForPeer, Connected, Running

\* However often peers come, go and fail to start, and however the search for a
\* free ID wraps around, no two connected peers share an ID and the routine of
\* a running peer uses the ID under which Receive notes its senders.
THEOREM UnambiguousIDs == Spec => []IDsAreUnambiguous
  BY InvInit, BaseNext, BaseIsUnambiguous, PTL DEF Spec, BaseInv

-----------------------------------------------------------------------------
(* How many IDs are in use                                                 *)

CountInv == /\ IsFiniteSet(activeIDs)
            /\ IsFiniteSet(Connected) /\ IsFiniteSet(Failed)
            /\ IDsAreGivenBack

\* Reserving takes an ID for a connection, failing turns it into a lost one,
\* and removing gives back the ID of a connection.
LEMMA CountNext ==
  ASSUME BaseInv, CountInv, [Next]_vars
  PROVE  CountInv'
<1> USE DEF BaseInv, TypeOK, IDTypes, CountInv, IDsAreGivenBack, Connected,
            Failed
<1>1. /\ Cardinality(activeIDs) \in Nat /\ Cardinality(Connected) \in Nat
      /\ Cardinality(Failed) \in Nat
  BY FS_CardinalityType
<1>2. ASSUME NEW c \in Conns, InitPeer(c) PROVE CountInv'
  <2>1. /\ status[c] = "none" /\ status' = [status EXCEPT ![c] = "init"]
        /\ ReserveForPeer(PeerOf[c]) /\ PeerOf[c] \in Peers
    BY <1>2, ReactorAssumption DEF InitPeer, CanConnect
  <2>2. PICK id \in IDs :
          id \notin activeIDs /\ activeIDs' = activeIDs \cup {id}
    BY <2>1, ReserveGivesFreeID
  <2>3. Connected' = Connected \cup {c} /\ c \notin Connected
    BY <2>1
  <2>4. Failed' = Failed
    BY <2>1
  <2> HIDE DEF Connected, Failed
  <2>5. /\ IsFiniteSet(activeIDs')
        /\ Cardinality(activeIDs') = Cardinality(activeIDs) + 1
    BY <2>2, FS_AddElement
  <2>6. /\ IsFiniteSet(Connected')
        /\ Cardinality(Connected') = Cardinality(Connected) + 1
    BY <2>3, FS_AddElement
  <2> QED
    BY <1>1, <2>4, <2>5, <2>6
<1>3. ASSUME NEW c \in Conns, StartFails(c) PROVE CountInv'
  <2>1. /\ status[c] = "init" /\ status' = [status EXCEPT ![c] = "failed"]
        /\ activeIDs' = activeIDs
    BY <1>3 DEF StartFails, idVars
  <2>2. Connected' = Connected \ {c} /\ c \in Connected
    BY <2>1
  <2>3. Failed' = Failed \cup {c} /\ c \notin Failed
    BY <2>1
  <2> HIDE DEF Connected, Failed
  <2>4. /\ IsFiniteSet(Connected')
        /\ Cardinality(Connected') = Cardinality(Connected) - 1
    BY <2>2, FS_RemoveElement
  <2>5. /\ IsFiniteSet(Failed')
        /\ Cardinality(Failed') = Cardinality(Failed) + 1
    BY <2>3, FS_AddElement
  <2> QED
    BY <1>1, <2>1, <2>4, <2>5
<1>4. ASSUME NEW c \in Conns, RemovePeer(c) PROVE CountInv'
  <2>1. /\ status[c] = "stopped" /\ status' = [status EXCEPT ![c] = "removed"]
        /\ Reclaim(PeerOf[c]) /\ PeerOf[c] \in Peers
    BY <1>4, ReactorAssumption DEF RemovePeer
  <2>2. Connected' = Connected \ {c} /\ c \in Connected
    BY <2>1
  <2>3. Failed' = Failed
    BY <2>1
  <2>4. /\ peerMap[PeerOf[c]] \in activeIDs
        /\ activeIDs' = activeIDs \ {peerMap[PeerOf[c]]}
    BY <2>1, <2>2 DEF Reclaim, PeersInv, ConnsInv, GetForPeer
  <2> HIDE DEF Connected, Failed
  <2>5. /\ IsFiniteSet(Connected')
        /\ Cardinality(Connected') = Cardinality(Connected) - 1
    BY <2>2, FS_RemoveElement
  <2>6. /\ IsFiniteSet(activeIDs')
        /\ Cardinality(activeIDs') = Cardinality(activeIDs) - 1
    BY <2>4, FS_RemoveElement
  <2> QED
    BY <1>1, <2>3, <2>5, <2>6
<1>5. ASSUME UNCHANGED activeIDs, Connected' = Connected, Failed' = Failed
      PROVE  CountInv'
  <2> HIDE DEF Connected, Failed
  <2> QED
    BY <1>5
<1>6. ASSUME NEW c \in Conns, InitPeerPanics(c) \/ AddPeer(c) \/ PeerStops(c)
      PROVE  CountInv'
  <2>1. /\ UNCHANGED activeIDs
        /\ \/ status[c] = "none" /\ status' = [status EXCEPT ![c] = "panicked"]
           \/ status[c] = "init" /\ status' = [status EXCEPT ![c] = "up"]
           \/ status[c] = "up" /\ status' = [status EXCEPT ![c] = "stopped"]
    BY <1>6
       DEF InitPeerPanics, CanConnect, AddPeer, PeerStops, idVars
  <2>2. Connected' = Connected /\ Failed' = Failed
    BY <2>1
  <2> QED
    BY <1>5, <2>1, <2>2
<1>7. CASE UNCHANGED <<idVars, status>>
  BY <1>5, <1>7 DEF idVars
<1> QED
  BY <1>2, <1>3, <1>4, <1>6, <1>7, StepCases

\* Initially only the ID of unknown peers is in use.
LEMMA CountInit == Init => CountInv
<1> SUFFICES ASSUME Init PROVE CountInv
  OBVIOUS
<1>1. activeIDs = {UnknownPeerID} /\ Connected = {} /\ Failed = {}
  BY DEF Init, Connected, Failed
<1> QED
  <2>1. IsFiniteSet(activeIDs) /\ Cardinality(activeIDs) = 1
    BY <1>1, FS_Singleton
  <2>2. /\ IsFiniteSet(Connected) /\ Cardinality(Connected) = 0
        /\ IsFiniteSet(Failed) /\ Cardinality(Failed) = 0
    BY <1>1, FS_EmptySet
  <2> QED
    BY <2>1, <2>2 DEF CountInv, IDsAreGivenBack

\* Every ID in use, but that of unknown peers, belongs to a connection or was
\* lost by one that failed to start: none leaks when peers come and go.
THEOREM NoIDLeaks == Spec => []IDsAreGivenBack
<1>1. BaseInv /\ CountInv /\ [Next]_vars => CountInv'
  BY CountNext
<1>2. CountInv => IDsAreGivenBack
  BY DEF CountInv
<1>3. Init => BaseInv
  BY InvInit DEF BaseInv
<1> QED
  BY <1>1, <1>2, <1>3, BaseNext, CountInit, PTL DEF Spec

-----------------------------------------------------------------------------
(* Until an ID is used again                                               *)

\* No more IDs than MaxUint were reserved: the next one is one that nobody had.
FreshInv ==
  /\ reserved < MaxUint => nextID = reserved + 1
  /\ activeIDs \subseteq 0..reserved
  /\ \A s \in subs : s.sender \in 0..reserved
  /\ \A i \in DOMAIN list : list[i].senders \subseteq 0..reserved

\* A sender with the ID of a peer is that peer.
SendersInv ==
  \A p \in Peers :
    peerMap[p] # UnknownPeerID =>
      /\ \A s \in subs : s.sender = peerMap[p] => p \in s.from
      /\ \A i \in DOMAIN list :
           peerMap[p] \in list[i].senders => p \in origins[list[i].tx]

\* What a routine has passed was sent, or came from its peer.
WalkInv ==
  \A c \in Conns :
    status[c] = "up" => \A tx \in Passed(c) :
      tx \in delivered[c] \/ PeerOf[c] \in origins[tx]

SkipInv == /\ DOMAIN delivered = Conns
           /\ NoIDReused => FreshInv /\ SendersInv /\ WalkInv

\* As long as no ID is used again, the next ID is one more than the last.
LEMMA NextIDIsFresh ==
  ASSUME BaseInv, FreshInv, NEW p \in Peers, ReserveForPeer(p),
         reserved' = reserved + 1, NoIDReused'
  PROVE  /\ NoIDReused
         /\ peerMap' = [peerMap EXCEPT ![p] = reserved + 1]
         /\ activeIDs' = activeIDs \cup {reserved + 1}
         /\ reserved' < MaxUint => nextID' = reserved' + 1
<1> USE DEF BaseInv, TypeOK, IDTypes, NoIDReused
<1>1. reserved \in Nat /\ MaxUint \in Nat /\ reserved + 1 <= MaxUint
  BY ReactorAssumption
<1>2. PICK id \in IDs : /\ FoundNext(id) /\ id \notin activeIDs
                        /\ peerMap' = [peerMap EXCEPT ![p] = id]
                        /\ activeIDs' = activeIDs \cup {id}
                        /\ nextID' = Plus(id, 1)
  BY ReserveGivesFreeID
<1>3. nextID = reserved + 1
  BY <1>1 DEF FreshInv
<1>4. Plus(nextID, 0) = reserved + 1
  <2>1. reserved + 1 \in 0..MaxUint /\ reserved + 1 + 0 = reserved + 1
    BY <1>1
  <2>2. \A x \in 0..MaxUint : x % (MaxUint + 1) = x
    BY <1>1
  <2> QED
    BY <1>3, <2>1, <2>2 DEF Plus
<1>5. reserved + 1 \notin activeIDs
  BY <1>1 DEF FreshInv
<1>6. id = reserved + 1
  <2>1. PICK n \in 0..MaxUint :
          /\ id = Plus(nextID, n)
          /\ \A m \in 0..(n - 1) : Plus(nextID, m) \in activeIDs
    BY <1>2 DEF FoundNext
  <2>2. n = 0
    BY <1>1, <1>4, <1>5, <2>1
  <2> QED
    BY <1>4, <2>1, <2>2
<1>7. reserved' < MaxUint => Plus(reserved + 1, 1) = reserved' + 1
  <2> SUFFICES ASSUME reserved' < MaxUint
               PROVE  Plus(reserved + 1, 1) = reserved' + 1
    OBVIOUS
  <2>1. reserved + 1 + 1 \in 0..MaxUint
    BY <1>1
  <2>2. \A x \in 0..MaxUint : x % (MaxUint + 1) = x
    BY <1>1
  <2> QED
    BY <2>1, <2>2 DEF Plus
<1> QED
  BY <1>1, <1>2, <1>6, <1>7

\* The actions that change the IDs, the list, or what is on its way to it.
LEMMA SkipCases ==
  ASSUME [Next]_vars
  PROVE  \/ \E c \in Conns : InitPeer(c)
         \/ \E c \in Conns : RemovePeer(c)
         \/ \E s \in subs : CheckTx(s)
         \/ \E p \in DOMAIN list : RemoveTx(p)
         \/ Submit
         \/ \E c \in Conns, tx \in {0} \cup DOMAIN origins : Receive(c, tx)
         \/ UNCHANGED <<idVars, list, origins, subs>>
  BY Zenon DEF Next, SwitchStep, Step, MempoolStep, vars, subVars, listVars,
         InitPeerPanics, StartFails, AddPeer, PeerStops, PeerCatchesUp,
         NewHeight, StartRoutine, ReturnRoutine, WaitFront, TxsFront,
         CheckPeer, Send, WaitNext, TakeNext

\* What CheckTx does to the list and the origins.
LEMMA CheckTxAdds ==
  ASSUME BaseInv, NEW s \in subs, CheckTx(s)
  PROVE  /\ \A tx \in 1..Len(origins) :
              /\ tx \in 1..Len(origins')
              /\ origins[tx] \subseteq origins'[tx]
         /\ Numbers' \subseteq Numbers \cup {Len(origins) + 1}
         /\ \A i \in DOMAIN list' :
              \/ /\ i \in DOMAIN list
                 /\ list'[i].tx = list[i].tx
                 /\ list'[i].senders = list[i].senders
              \/ /\ list'[i].senders = {s.sender}
                 /\ origins'[list'[i].tx] = s.from
              \/ /\ i \in DOMAIN list
                 /\ list'[i].tx = list[i].tx
                 /\ list'[i].senders = list[i].senders \cup {s.sender}
                 /\ s.from \subseteq origins'[list'[i].tx]
<1> USE DEF BaseInv, TypeOK, ListTypes
<1>1. s \in Submissions /\ Len(origins) \in Nat
  OBVIOUS
<1>2. CASE s.tx = 0
  <2> DEFINE e == [tx |-> Len(origins) + 1, height |-> height,
                   senders |-> {s.sender}]
  <2>1. list' = Append(list, e) /\ origins' = Append(origins, s.from)
    BY <1>2 DEF CheckTx, L!PushBack
  <2>2. e.tx = Len(origins) + 1 /\ e.senders = {s.sender}
    OBVIOUS
  <2> HIDE DEF e
  <2>3. /\ \A i \in DOMAIN list' :
             (i \in DOMAIN list /\ list'[i] = list[i]) \/ list'[i] = e
        /\ \A tx \in 1..Len(origins) : origins'[tx] = origins[tx]
        /\ Len(origins') = Len(origins) + 1
        /\ origins'[Len(origins) + 1] = s.from
    BY <2>1
  <2>4. Numbers' \subseteq Numbers \cup {Len(origins) + 1}
    BY <2>2, <2>3 DEF Numbers
  <2> QED
    BY <1>1, <2>2, <2>3, <2>4
<1>3. CASE s.tx # 0 /\ s.tx \in Numbers
  <2>1. /\ L!AddSender(PosOf(s.tx), s.sender)
        /\ origins' = [origins EXCEPT ![s.tx] = @ \cup s.from]
        /\ UNCHANGED <<removed, height>> /\ subs' \subseteq subs
    BY <1>3 DEF CheckTx
  <2>2. s.sender \in IDs /\ s.from \in SUBSET Peers
    BY <1>1 DEF Submissions
  <2>3. /\ DOMAIN list' = DOMAIN list
        /\ \A i \in DOMAIN list :
             /\ list'[i].tx = list[i].tx
             /\ list'[i].senders =
                  IF list[i].tx = s.tx THEN list[i].senders \cup {s.sender}
                  ELSE list[i].senders
    BY <1>3, <2>1, <2>2, AddSenderKeepsList
  <2>4. s.tx \in 1..Len(origins)
    BY <1>3 DEF Numbers, ListInv
  <2>5. /\ Len(origins') = Len(origins)
        /\ \A tx \in 1..Len(origins) : origins[tx] \subseteq origins'[tx]
        /\ s.from \subseteq origins'[s.tx]
    BY <2>1, <2>4
  <2>6. Numbers' = Numbers
    BY <2>3 DEF Numbers
  <2> QED
    BY <2>3, <2>5, <2>6
<1>4. CASE s.tx # 0 /\ s.tx \notin Numbers
  BY <1>4 DEF CheckTx, Numbers
<1> QED
  BY <1>2, <1>3, <1>4

\* IDs stay fresh and senders stay known as long as no ID is used again.
LEMMA SendersNext ==
  ASSUME BaseInv, [Next]_vars, NoIDReused',
         NoIDReused => FreshInv /\ SendersInv
  PROVE  NoIDReused /\ FreshInv' /\ SendersInv'
<1> USE DEF BaseInv, TypeOK, IDTypes, ListTypes
<1>1. UnknownPeerID = 0 /\ reserved \in Nat
  BY DEF UnknownPeerID
<1>2. ASSUME NEW c \in Conns, InitPeer(c)
      PROVE  NoIDReused /\ FreshInv' /\ SendersInv'
  <2> DEFINE p == PeerOf[c]
  <2>1. /\ ReserveForPeer(p) /\ reserved' = reserved + 1 /\ p \in Peers
        /\ list' = list /\ origins' = origins /\ subs' = subs
    BY <1>2, ReactorAssumption DEF InitPeer, listVars, subVars
  <2>2. NoIDReused /\ FreshInv /\ SendersInv
    BY <1>1, <2>1, ReactorAssumption DEF NoIDReused
  <2>3. /\ peerMap' = [peerMap EXCEPT ![p] = reserved + 1]
        /\ activeIDs' = activeIDs \cup {reserved + 1}
        /\ reserved' < MaxUint => nextID' = reserved' + 1
    BY <2>1, <2>2, NextIDIsFresh
  <2>4. 0..reserved \subseteq 0..reserved' /\ reserved + 1 \in 0..reserved'
        /\ reserved + 1 \notin 0..reserved
    BY <1>1, <2>1
  <2>5. FreshInv'
    BY <2>1, <2>2, <2>3, <2>4 DEF FreshInv
  <2>6. SendersInv'
    BY <2>1, <2>2, <2>3, <2>4 DEF FreshInv, SendersInv
  <2> QED
    BY <2>2, <2>5, <2>6
<1>3. ASSUME NEW c \in Conns, RemovePeer(c)
      PROVE  NoIDReused /\ FreshInv' /\ SendersInv'
  <2>1. /\ UNCHANGED <<reserved, nextID, list, origins, subs>>
        /\ peerMap' = [peerMap EXCEPT ![PeerOf[c]] = UnknownPeerID]
        /\ activeIDs' \subseteq activeIDs
    BY <1>3 DEF RemovePeer, Reclaim, listVars, subVars
  <2> QED
    BY <2>1 DEF NoIDReused, FreshInv, SendersInv
<1>4. ASSUME UNCHANGED idVars
      PROVE  NoIDReused /\ FreshInv /\ SendersInv
  BY <1>4 DEF NoIDReused, idVars
<1>5. ASSUME NEW s \in subs, CheckTx(s)
      PROVE  NoIDReused /\ FreshInv' /\ SendersInv'
  <2>1. UNCHANGED idVars /\ subs' \subseteq subs
    BY <1>5 DEF CheckTx
  <2>2. NoIDReused /\ FreshInv /\ SendersInv
    BY <1>4, <2>1
  <2>3. FreshInv'
    BY <1>5, <2>1, <2>2, CheckTxAdds DEF FreshInv, idVars
  <2>4. \A i \in DOMAIN list : list[i].tx \in 1..Len(origins)
    BY DEF ListInv
  <2>5. SendersInv'
    BY <1>5, <2>1, <2>2, <2>4, CheckTxAdds DEF SendersInv, idVars
  <2> QED
    BY <2>2, <2>3, <2>5
<1>6. ASSUME NEW pos \in DOMAIN list, RemoveTx(pos)
      PROVE  NoIDReused /\ FreshInv' /\ SendersInv'
  <2>1. UNCHANGED <<idVars, subs, origins>>
    BY <1>6 DEF RemoveTx, subVars
  <2>2. NoIDReused /\ FreshInv /\ SendersInv
    BY <1>4, <2>1
  <2>3. \A i \in DOMAIN list' : \E j \in DOMAIN list : list'[i] = list[j]
    BY <1>6, RemoveKeepsList
  <2> QED
    BY <2>1, <2>2, <2>3 DEF FreshInv, SendersInv, idVars
<1>7. ASSUME NEW s, s.sender \in 0..reserved, subs' = subs \cup {s},
             \A p \in Peers :
               peerMap[p] # UnknownPeerID /\ s.sender = peerMap[p]
                 => p \in s.from,
             UNCHANGED <<idVars, list, origins>>
      PROVE  NoIDReused /\ FreshInv' /\ SendersInv'
  <2>1. NoIDReused /\ FreshInv /\ SendersInv
    BY <1>4, <1>7
  <2> QED
    BY <1>7, <2>1 DEF FreshInv, SendersInv, idVars
<1>8. ASSUME Submit PROVE NoIDReused /\ FreshInv' /\ SendersInv'
  <2> DEFINE s == [tx |-> 0, from |-> {}, sender |-> UnknownPeerID]
  <2>1. s.sender = UnknownPeerID /\ s.sender \in 0..reserved
    BY <1>1
  <2>2. subs' = subs \cup {s} /\ UNCHANGED <<idVars, list, origins>>
    BY <1>8 DEF Submit, listVars
  <2> HIDE DEF s
  <2> QED
    BY <1>7, <2>1, <2>2
<1>9. ASSUME NEW c \in Conns, NEW tx \in {0} \cup DOMAIN origins,
             Receive(c, tx)
      PROVE  NoIDReused /\ FreshInv' /\ SendersInv'
  <2> DEFINE s == [tx |-> tx, from |-> {PeerOf[c]}, sender |-> GetForPeer(c)]
  <2>1. subs' = subs \cup {s} /\ UNCHANGED <<idVars, list, origins>>
    BY <1>9 DEF Receive, listVars
  <2>2. NoIDReused /\ FreshInv /\ SendersInv
    BY <1>4, <2>1
  <2>3. s.sender = peerMap[PeerOf[c]] /\ s.from = {PeerOf[c]}
        /\ PeerOf[c] \in Peers
    BY ReactorAssumption DEF GetForPeer
  <2> HIDE DEF s
  <2>4. s.sender \in 0..reserved
    BY <2>2, <2>3 DEF PeersInv, FreshInv
  <2>5. \A p \in Peers : peerMap[p] # UnknownPeerID /\ s.sender = peerMap[p]
                         => p \in s.from
    BY <2>3 DEF PeersInv
  <2> QED
    BY <1>7, <2>1, <2>4, <2>5
<1>10. CASE UNCHANGED <<idVars, list, origins, subs>>
  <2>1. NoIDReused /\ FreshInv /\ SendersInv
    BY <1>4, <1>10
  <2> QED
    BY <1>10, <2>1 DEF FreshInv, SendersInv, idVars
<1> QED
  BY <1>2, <1>3, <1>5, <1>6, <1>8, <1>9, <1>10, SkipCases

\* What a routine has passed at each of its places.
LEMMA PassedAt ==
  ASSUME NEW c \in Conns
  PROVE  /\ routine[c].pc \in {"none", "start"} => Passed(c) = {}
         /\ routine[c].pc \in {"wait", "next"} =>
              Passed(c) = {tx \in Numbers : tx <= routine[c].next}
         /\ routine[c].pc \in Places \ {"wait", "next"} =>
              Passed(c) = {tx \in Numbers : tx < routine[c].next}
         /\ routine'[c].pc \in {"none", "start"} => Passed(c)' = {}
         /\ routine'[c].pc \in {"wait", "next"} =>
              Passed(c)' = {tx \in Numbers' : tx <= routine'[c].next}
         /\ routine'[c].pc \in Places \ {"wait", "next"} =>
              Passed(c)' = {tx \in Numbers' : tx < routine'[c].next}
  BY DEF Passed, Places

\* A routine that goes on has passed no more than before, but for the
\* transaction it stands at, and that only when it was sent or came from the
\* peer of the routine.
LEMMA StepPassesNone ==
  ASSUME BaseInv, SendersInv, DOMAIN delivered = Conns,
         NEW c \in Conns, Step(c), status[c] = "up"
  PROVE  \A tx \in Passed(c)' :
           \/ tx \in Passed(c)
           \/ tx \in delivered'[c]
           \/ PeerOf[c] \in origins'[tx]
<1> USE DEF BaseInv, TypeOK, IDTypes, ListTypes
<1> SUFFICES ASSUME NEW tx \in Passed(c)'
             PROVE  \/ tx \in Passed(c)
                    \/ tx \in delivered'[c]
                    \/ PeerOf[c] \in origins'[tx]
  OBVIOUS
<1> DEFINE r == routine[c]
           n == routine[c].next
<1>1. \A m \in Numbers : m \in 1..Len(origins) /\ m \in Nat
  BY DEF Numbers, ListInv
<1>2. r.pc \in Places => r \in Started /\ n \in 0..Len(origins)
  BY DEF NotStarted, Started, Places, PlaceInv
<1>3. list' = list /\ origins' = origins /\ Numbers' = Numbers
  <2>1. UNCHANGED listVars
    BY Zenon DEF Step, StartRoutine, ReturnRoutine, WaitFront, TxsFront,
       CheckPeer, Send, WaitNext, TakeNext
  <2> QED
    BY <2>1 DEF listVars, Numbers
<1>4. ASSUME NEW pc \in Places, Goto(c, pc), r.pc \in Places
      PROVE  /\ routine'[c].pc = pc /\ routine'[c].next = n
             /\ pc \in {"wait", "next"} => tx \in Numbers /\ tx <= n
             /\ pc \notin {"wait", "next"} => tx \in Numbers /\ tx < n
  <2>1. routine'[c].pc = pc /\ routine'[c].next = n
    BY <1>2, <1>4, GotoKeeps
  <2> QED
    BY <1>3, <2>1, PassedAt
<1>5. CASE StartRoutine(c)
  <2>1. routine'[c] = [pc |-> "loop", next |-> 0, id |-> GetForPeer(c)]
    BY <1>5 DEF StartRoutine
  <2>2. tx < 0 /\ tx \in Numbers
    BY <1>3, <2>1, PassedAt DEF Places
  <2> QED
    BY <1>1, <2>2
<1>6. CASE ReturnRoutine(c) \/ WaitFront(c)
  <2>1. /\ r.pc \in {"loop", "wait"}
        /\ \E pc \in {"returned", "front"} : Goto(c, pc)
    BY <1>6 DEF ReturnRoutine, WaitFront
  <2>2. tx \in Numbers /\ tx < n
    BY <1>4, <2>1 DEF Places
  <2> QED
    BY <1>1, <1>2, <2>1, <2>2, PassedAt DEF Places
<1>7. CASE TxsFront(c)
  <2>1. r.pc = "front"
    BY <1>7 DEF TxsFront
  <2>2. CASE list = << >>
    BY <1>3, <1>7, <2>1, <2>2, <1>4, PassedAt DEF TxsFront, Places
  <2>3. CASE list # << >>
    <3>1. 1 \in DOMAIN list /\ Head(list) = list[1]
      BY <2>3
    <3>2. routine' = [routine EXCEPT ![c] = [routine[c] EXCEPT
                        !.pc = "check", !.next = list[1].tx]]
      BY <1>7, <2>3, <3>1 DEF TxsFront
    <3>3. routine'[c].pc = "check" /\ routine'[c].next = list[1].tx
      BY <1>2, <2>1, <3>2 DEF Started, Places
    <3>4. tx \in Numbers /\ tx < list[1].tx
      BY <1>3, <3>3, PassedAt DEF Places
    <3>5. PICK i \in DOMAIN list : tx = list[i].tx
      BY <3>4 DEF Numbers
    <3>6. i = 1 \/ 1 < i
      OBVIOUS
    <3>7. list[1].tx \in Nat
      BY <3>1, <1>1 DEF Numbers
    <3> QED
      BY <1>1, <3>1, <3>4, <3>5, <3>6, <3>7 DEF ListInv
  <2> QED
    BY <2>2, <2>3
<1>8. CASE CheckPeer(c)
  <2>1. r.pc \in {"check", "loop"} /\ n # 0 /\ r \in Started
    BY <1>2, <1>8 DEF CheckPeer, PlaceInv, Places
  <2>2. Passed(c) = {m \in Numbers : m < n}
    BY <2>1, PassedAt DEF Places
  <2>3. PICK pc \in {"loop", "wait", "send"} :
          /\ Goto(c, pc)
          /\ pc = "wait" => r.id \in MemTx(n).senders
    BY <1>8 DEF CheckPeer
  <2>4. CASE pc # "wait"
    BY <1>4, <2>1, <2>2, <2>3, <2>4 DEF Places
  <2>5. CASE pc = "wait"
    <3>1. tx \in Numbers /\ tx <= n
      BY <1>4, <2>1, <2>3, <2>5 DEF Places
    <3>2. CASE tx < n
      BY <2>2, <3>1, <3>2
    <3>3. CASE tx = n
      <4>1. PICK i \in DOMAIN list : list[i].tx = n
        BY <3>1, <3>3 DEF Numbers
      <4>2. r.id \in list[i].senders
        <5>1. n \in 1..Len(origins)
          BY <1>1, <3>1, <3>3
        <5>2. MemTx(n).senders = list[i].senders
          BY <4>1, <5>1, MemTxLinks
        <5> QED
          BY <2>3, <2>5, <5>2
      <4>3. r.id = peerMap[PeerOf[c]] /\ r.id # UnknownPeerID
        BY <2>1 DEF ConnsInv, Connected, GetForPeer
      <4>4. PeerOf[c] \in Peers
        BY ReactorAssumption
      <4> QED
        BY <1>3, <3>3, <4>1, <4>2, <4>3, <4>4 DEF SendersInv
    <3> QED
      BY <1>1, <1>2, <2>1, <3>1, <3>2, <3>3 DEF Places
  <2> QED
    BY <2>4, <2>5
<1>9. ASSUME NEW success \in BOOLEAN, Send(c, success)
      PROVE  tx \in Passed(c) \/ tx \in delivered'[c]
  <2>1. r.pc = "send"
    BY <1>9 DEF Send
  <2>2. Passed(c) = {m \in Numbers : m < n}
    BY <2>1, PassedAt DEF Places
  <2>3. CASE success
    <3>1. tx \in Numbers /\ tx <= n
      BY <1>4, <1>9, <2>1, <2>3 DEF Send, Places
    <3>2. n \in delivered'[c]
      BY <1>9, <2>3 DEF Send
    <3> QED
      BY <1>1, <1>2, <2>1, <2>2, <3>1, <3>2 DEF Places
  <2>4. CASE ~success
    BY <1>4, <1>9, <2>1, <2>2, <2>4 DEF Send, Places
  <2> QED
    BY <2>3, <2>4
<1>10. CASE WaitNext(c)
  <2>1. r.pc = "wait" /\ Goto(c, "next")
    BY <1>10 DEF WaitNext
  <2> QED
    BY <1>4, <2>1, PassedAt DEF Places
<1>11. CASE TakeNext(c)
  <2> DEFINE next == MemTx(n).next
  <2>1. r.pc = "next" /\ n \in 1..Len(origins) /\ r \in Started
    BY <1>2, <1>11 DEF TakeNext, PlaceInv, Places
  <2>2. routine' = [routine EXCEPT ![c] = [routine[c] EXCEPT
                      !.pc = "loop", !.next = next]]
    BY <1>11 DEF TakeNext
  <2>3. routine'[c].pc = "loop" /\ routine'[c].next = next
    BY <2>1, <2>2 DEF Started
  <2>4. tx \in Numbers /\ tx < next
    BY <1>3, <2>3, PassedAt DEF Places
  <2>5. next \in Nat /\ (next # 0 => \A m \in Numbers : m > n => m >= next)
    BY <2>1, MemTxLinks DEF Removed
  <2>6. tx <= n
    BY <1>1, <2>1, <2>4, <2>5
  <2> QED
    BY <2>1, <2>4, <2>6, PassedAt
<1> QED
  BY <1>5, <1>6, <1>7, <1>8, <1>9, <1>10, <1>11 DEF Step

\* What was sent and where a transaction came from is not forgotten, and what
\* comes in has a new number.
LEMMA HistoryGrows ==
  ASSUME BaseInv, DOMAIN delivered = Conns, [Next]_vars
  PROVE  /\ DOMAIN delivered' = Conns
         /\ \A c \in Conns : delivered[c] \subseteq delivered'[c]
         /\ \A tx \in 1..Len(origins) : origins[tx] \subseteq origins'[tx]
         /\ Numbers' \subseteq Numbers \cup {Len(origins) + 1}
<1>1. \/ UNCHANGED delivered
      \/ \E c \in Conns : \E tx :
           delivered' = [delivered EXCEPT ![c] = @ \cup {tx}]
  BY Zenon DEF Next, SwitchStep, Step, MempoolStep, vars, sendVars,
     InitPeer, InitPeerPanics, StartFails, AddPeer, PeerStops, RemovePeer,
     PeerCatchesUp, Receive, Submit, CheckTx, RemoveTx, NewHeight,
     StartRoutine, ReturnRoutine, WaitFront, TxsFront, CheckPeer, Send,
     WaitNext, TakeNext
<1>2. /\ DOMAIN delivered' = Conns
      /\ \A c \in Conns : delivered[c] \subseteq delivered'[c]
  BY <1>1
<1>3. ASSUME NEW p \in DOMAIN list, RemoveTx(p)
      PROVE  origins' = origins /\ Numbers' \subseteq Numbers
  BY <1>3, RemoveKeepsList DEF RemoveTx, BaseInv
<1>4. ASSUME list' = list, origins' = origins
      PROVE  /\ \A tx \in 1..Len(origins) : origins[tx] \subseteq origins'[tx]
             /\ Numbers' \subseteq Numbers \cup {Len(origins) + 1}
  BY <1>4 DEF Numbers
<1>5. /\ \A tx \in 1..Len(origins) : origins[tx] \subseteq origins'[tx]
      /\ Numbers' \subseteq Numbers \cup {Len(origins) + 1}
  BY <1>3, <1>4, CheckTxAdds, SkipCases
     DEF InitPeer, RemovePeer, Submit, Receive, listVars
<1> QED
  BY <1>2, <1>5

\* A step that is not the routine's own does not make it pass anything.
LEMMA OthersPassNone ==
  ASSUME BaseInv, DOMAIN delivered = Conns, [Next]_vars,
         NEW c \in Conns,
         routine'[c] = routine[c] \/ routine'[c].pc \in {"none", "start"}
  PROVE  Passed(c)' \subseteq Passed(c)
<1> USE DEF BaseInv, TypeOK, IDTypes, ListTypes
<1>1. Numbers' \subseteq Numbers \cup {Len(origins) + 1}
      /\ Len(origins) \in Nat
  BY HistoryGrows
<1>2. CASE routine'[c].pc \in {"none", "start"}
  BY <1>2, PassedAt
<1>3. CASE routine'[c] = routine[c] /\ routine[c] \in Started
  <2>1. routine[c].next \in 0..Len(origins) /\ routine[c].pc \in Places
    BY <1>1, <1>3 DEF Started, PlaceInv
  <2>2. CASE routine[c].pc \in {"wait", "next"}
    BY <1>1, <1>3, <2>1, <2>2, PassedAt
  <2>3. CASE routine[c].pc \notin {"wait", "next"}
    BY <1>1, <1>3, <2>1, <2>3, PassedAt
  <2> QED
    BY <2>2, <2>3
<1> QED
  BY <1>2, <1>3 DEF NotStarted

\* No routine passes what it does not have to.
LEMMA WalkNext ==
  ASSUME BaseInv, DOMAIN delivered = Conns, SendersInv, WalkInv, [Next]_vars
  PROVE  WalkInv'
<1> USE DEF BaseInv, TypeOK, IDTypes, ListTypes
<1> SUFFICES ASSUME NEW c \in Conns, status'[c] = "up", NEW tx \in Passed(c)'
             PROVE  tx \in delivered'[c] \/ PeerOf[c] \in origins'[tx]
  BY DEF WalkInv
<1>1. ASSUME tx \in Passed(c), status[c] = "up"
      PROVE  tx \in delivered'[c] \/ PeerOf[c] \in origins'[tx]
  <2>1. tx \in 1..Len(origins)
    <3>1. tx \in Numbers
      BY <1>1 DEF Passed
    <3> QED
      BY <3>1 DEF Numbers, ListInv
  <2> QED
    BY <1>1, <2>1, HistoryGrows DEF WalkInv
<1>2. CASE status[c] # "up"
  <2>1. AddPeer(c)
    BY <1>2, StepCases DEF InitPeer, InitPeerPanics, StartFails, AddPeer,
                           PeerStops, RemovePeer
  <2>2. routine'[c].pc = "start"
    BY <2>1 DEF AddPeer
  <2> QED
    BY <2>2, PassedAt
<1>3. CASE status[c] = "up" /\ Step(c)
  BY <1>1, <1>3, StepPassesNone
<1>4. CASE status[c] = "up" /\ ~Step(c)
  <2>1. routine'[c] = routine[c] \/ routine'[c].pc \in {"none", "start"}
    <3>1. ASSUME NEW d \in Conns, Step(d) PROVE routine'[c] = routine[c]
      <4>1. MovesAlone(d) /\ d # c
        BY <1>4, <3>1, StepMovesOne
      <4> QED
        BY <4>1 DEF MovesAlone
    <3>2. ASSUME NEW d \in Conns,
                 \/ InitPeer(d) \/ InitPeerPanics(d) \/ StartFails(d)
                 \/ AddPeer(d) \/ PeerStops(d) \/ RemovePeer(d)
          PROVE  routine'[c] = routine[c] \/ routine'[c].pc = "start"
      BY <3>2 DEF InitPeer, InitPeerPanics, StartFails, AddPeer, PeerStops,
                  RemovePeer, sendVars
    <3> QED
      BY <3>1, <3>2, StepCases
  <2> QED
    BY <1>1, <1>4, <2>1, OthersPassNone
<1> QED
  BY <1>2, <1>3, <1>4

\* Initially no ID is used and nothing is passed.
LEMMA SkipInit == Init => SkipInv
<1> SUFFICES ASSUME Init PROVE SkipInv
  OBVIOUS
<1> USE DEF Init, L!Init
<1>1. FreshInv
  BY DEF FreshInv, UnknownPeerID
<1>2. SendersInv
  BY DEF SendersInv
<1>3. WalkInv
  BY DEF WalkInv
<1> QED
  BY <1>1, <1>2, <1>3 DEF SkipInv

\* Every step keeps the invariant.
LEMMA SkipNext == BaseInv /\ SkipInv /\ [Next]_vars => SkipInv'
<1> SUFFICES ASSUME BaseInv, SkipInv, [Next]_vars PROVE SkipInv'
  OBVIOUS
<1>1. DOMAIN delivered' = Conns
  BY HistoryGrows DEF SkipInv
<1>2. NoIDReused' => FreshInv' /\ SendersInv' /\ WalkInv'
  BY SendersNext, WalkNext DEF SkipInv
<1> QED
  BY <1>1, <1>2 DEF SkipInv

\* Until an ID is used again, whatever is removed from the list or added to it
\* while a routine stands at an element, sleeps or fails to send, each pending
\* transaction that it has passed was sent to its peer or came from it.
THEOREM NoTxIsSkipped == Spec => []NothingIsSkipped
<1>1. Init => BaseInv
  BY InvInit DEF BaseInv
<1>2. SkipInv => NothingIsSkipped
  BY DEF SkipInv, WalkInv, NothingIsSkipped, Running
<1> QED
  BY <1>1, <1>2, BaseNext, SkipInit, SkipNext, PTL DEF Spec
=============================================================================
