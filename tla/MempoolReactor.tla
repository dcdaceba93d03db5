--------------------------- MODULE MempoolReactor ---------------------------
(***************************************************************************)
(* The mempool reactor (tendermint/mempool/reactor.go): the numbers it     *)
(* gives to peers, what it receives from them, and the routine that walks  *)
(* along the mempool's list and sends it to one peer.                      *)
(*                                                                         *)
(* The list is that of TxList, which the mempool implements; an element    *)
(* that is removed keeps the link to the one that followed it, as in       *)
(* Tendermint's clist.  The switch is external: it calls InitPeer, starts  *)
(* the peer, which may fail, calls AddPeer, and when the peer has stopped  *)
(* RemovePeer, for one connection of a peer at a time.  That the reactor   *)
(* itself is stopped has the effect of all its peers being stopped.        *)
(***************************************************************************)
EXTENDS Integers, Sequences, FiniteSets, SequencesExt

CONSTANTS
  Conns,        \* connections, each used once
  Peers,        \* the p2p.IDs
  PeerOf,       \* the peer of each connection
  MaxUint,      \* the largest peer ID; in the code that of a uint16
  Configs       \* what happens: records of
                \*   conns: the connections that are made
                \*   fragile: those that may stop, or fail to start
                \*   maxTxs: bound: transactions that are ever added
                \*   maxSubs: bound: submissions, repeated ones included
                \*   maxHeight: bound: the last height

IDs == 0..MaxUint
UnknownPeerID == 0

ASSUME ReactorAssumption ==
  /\ PeerOf \in [Conns -> Peers]
  /\ MaxUint \in Nat

VARIABLES
  config,       \* the configuration, chosen once
  peerMap,      \* the ID reserved for each peer, 0 for none
  activeIDs,    \* the IDs in use
  nextID,       \* where the search for the next ID starts
  reserved,     \* history: how many IDs were reserved
  status,       \* each connection at the switch
  list,         \* the transactions of the mempool, numbered as they come
  removed,      \* the removed transactions, which keep what they held and
                \* the link to the next one, 0 for nil
  origins,      \* history: the peers each transaction came from
  height,       \* the height of the mempool
  peerHeight,   \* the height of the PeerState of each connection, -1 if unset
  subs,         \* calls of Receive and of the RPC on their way to CheckTx
  nsubs,        \* how many of them there were
  routine,      \* the broadcastTxRoutine of each connection
  delivered     \* the transactions sent to each connection

idVars == <<peerMap, activeIDs, nextID, reserved>>
listVars == <<list, removed, origins, height>>
subVars == <<subs, nsubs>>
sendVars == <<peerHeight, routine, delivered>>
vars == <<config, idVars, status, listVars, subVars, sendVars>>

L == INSTANCE TxList

Connected == {c \in Conns : status[c] \in {"init", "up", "stopped"}}
Failed == {c \in Conns : status[c] = "failed"}

\* A panic ends the process.
Crashed == \E c \in Conns : status[c] = "panicked"

Running(c) == status[c] = "up" /\ ~Crashed

Init ==
  /\ config \in Configs
  /\ peerMap = [p \in Peers |-> UnknownPeerID]
  /\ activeIDs = {UnknownPeerID}
  /\ nextID = 1
  /\ reserved = 0
  /\ status = [c \in Conns |-> "none"]
  /\ L!Init
  /\ removed = << >>
  /\ origins = << >>
  /\ height = 0
  /\ peerHeight = [c \in Conns |-> -1]
  /\ subs = {}
  /\ nsubs = 0
  /\ routine = [c \in Conns |-> [pc |-> "none"]]
  /\ delivered = [c \in Conns |-> {}]

-----------------------------------------------------------------------------
(* The IDs of peers                                                        *)

\* uint16 addition wraps around.
Plus(id, n) == (id + n) % (MaxUint + 1)

\* Mutant: the search does not go on when the ID is in use.
FoundAtOnce(id) == id = nextID

\* id is what the search of nextPeerID finds.
FoundNext(id) ==
  \E n \in 0..MaxUint :
    /\ id = Plus(nextID, n)
    /\ id \notin activeIDs
    /\ \A m \in 0..(n-1) : Plus(nextID, m) \in activeIDs

TooManyIDs == Cardinality(activeIDs) = MaxUint

\* The switch is about to add the connection: its peer has no other one.
CanConnect(c) ==
  /\ c \in config.conns
  /\ status[c] = "none"
  /\ \A d \in Connected : PeerOf[d] # PeerOf[c]

ReserveForPeer(p) ==
  \E id \in IDs :
    /\ FoundNext(id)
    /\ peerMap' = [peerMap EXCEPT ![p] = id]
    /\ activeIDs' = activeIDs \cup {id}
    /\ nextID' = Plus(id, 1)

InitPeer(c) ==
  /\ CanConnect(c)
  /\ ~TooManyIDs
  /\ ReserveForPeer(PeerOf[c])
  /\ reserved' = reserved + 1
  /\ status' = [status EXCEPT ![c] = "init"]
  /\ UNCHANGED <<config, listVars, subVars, sendVars>>

InitPeerPanics(c) ==
  /\ CanConnect(c)
  /\ TooManyIDs
  /\ status' = [status EXCEPT ![c] = "panicked"]
  /\ UNCHANGED <<config, idVars, listVars, subVars, sendVars>>

\* The peer cannot be started: nobody reclaims its ID.
StartFails(c) ==
  /\ c \in config.fragile
  /\ status[c] = "init"
  /\ status' = [status EXCEPT ![c] = "failed"]
  /\ UNCHANGED <<config, idVars, listVars, subVars, sendVars>>

AddPeer(c) ==
  /\ status[c] = "init"
  /\ status' = [status EXCEPT ![c] = "up"]
  /\ routine' = [routine EXCEPT ![c] = [pc |-> "start"]]
  /\ UNCHANGED <<config, idVars, listVars, subVars, peerHeight, delivered>>

\* By itself, or by StopPeerForError when a message cannot be decoded.
PeerStops(c) ==
  /\ c \in config.fragile
  /\ status[c] = "up"
  /\ status' = [status EXCEPT ![c] = "stopped"]
  /\ UNCHANGED <<config, idVars, listVars, subVars, sendVars>>

\* Mutant: the ID is deleted from peerMap only.
ReclaimKeepsID(p) ==
  /\ UNCHANGED activeIDs
  /\ peerMap' = [peerMap EXCEPT ![p] = UnknownPeerID]

\* An unknown peer has no ID to give back.
Reclaim(p) ==
  /\ activeIDs' = IF peerMap[p] = UnknownPeerID THEN activeIDs
                  ELSE activeIDs \ {peerMap[p]}
  /\ peerMap' = [peerMap EXCEPT ![p] = UnknownPeerID]

RemovePeer(c) ==
  /\ status[c] = "stopped"
  /\ status' = [status EXCEPT ![c] = "removed"]
  /\ Reclaim(PeerOf[c])
  /\ UNCHANGED <<config, nextID, reserved, listVars, subVars, sendVars>>

GetForPeer(c) == peerMap[PeerOf[c]]

-----------------------------------------------------------------------------
(* The mempool                                                             *)

Numbers == {list[i].tx : i \in DOMAIN list}
PosOf(tx) == SelectInSeq(list, LAMBDA e : e.tx = tx)

\* Receive of a new transaction (tx = 0) or of one that was added before; its
\* sender is looked up now and used by CheckTx later.
Receive(c, tx) ==
  /\ status[c] \notin {"none", "failed"}
  /\ nsubs < config.maxSubs
  /\ subs' = subs \cup {[tx |-> tx, from |-> {PeerOf[c]},
                         sender |-> GetForPeer(c)]}
  /\ nsubs' = nsubs + 1
  /\ UNCHANGED <<config, idVars, status, listVars, sendVars>>

\* The RPC submits a transaction: it comes from no peer.
Submit ==
  /\ nsubs < config.maxSubs
  /\ subs' = subs \cup {[tx |-> 0, from |-> {}, sender |-> UnknownPeerID]}
  /\ nsubs' = nsubs + 1
  /\ UNCHANGED <<config, idVars, status, listVars, sendVars>>

\* CheckTx and the answer of the application: a new transaction is added; to
\* one that is still there its sender is added.
CheckTx(s) ==
  /\ s \in subs
  /\ subs' = subs \ {s}
  /\ IF s.tx = 0
     THEN /\ Len(origins) < config.maxTxs
          /\ L!PushBack([tx |-> Len(origins) + 1, height |-> height,
                         senders |-> {s.sender}])
          /\ origins' = Append(origins, s.from)
     ELSE IF s.tx \in Numbers
     THEN /\ L!AddSender(PosOf(s.tx), s.sender)
          /\ origins' = [origins EXCEPT ![s.tx] = @ \cup s.from]
     ELSE UNCHANGED <<list, origins>>
  /\ UNCHANGED <<config, idVars, status, removed, height, nsubs, sendVars>>

\* The element of a transaction, in the list or not any more, with the one
\* that follows it.
MemTx(tx) ==
  LET pos == PosOf(tx)
      next == IF pos < Len(list) THEN list[pos + 1].tx ELSE 0
  IN  IF pos = 0 THEN removed[tx]
      ELSE [height |-> list[pos].height, senders |-> list[pos].senders,
            next |-> next]

\* A committed or invalid transaction is removed.
RemoveTx(pos) ==
  /\ L!Take(pos)
  /\ removed' = [tx \in {list[pos].tx} \cup DOMAIN removed |-> MemTx(tx)]
  /\ UNCHANGED <<config, idVars, status, origins, height, subVars, sendVars>>

NewHeight ==
  /\ height < config.maxHeight
  /\ height' = height + 1
  /\ UNCHANGED <<config, idVars, status, list, removed, origins, subVars,
                 sendVars>>

-----------------------------------------------------------------------------
(* broadcastTxRoutine                                                      *)

\* The routine of c goes on at pc.
Goto(c, pc) == routine' = [routine EXCEPT ![c].pc = pc]

\* The goroutine reads the ID of its peer once, at its start.
StartRoutine(c) ==
  /\ routine[c].pc = "start"
  /\ routine' = [routine EXCEPT ![c] = [pc |-> "loop", next |-> 0,
                                          id |-> GetForPeer(c)]]
  /\ UNCHANGED <<config, idVars, status, listVars, subVars, peerHeight,
                 delivered>>

\* Mutant: it does not listen to Quit while it waits.
ReturnAtHeadOnly(c) ==
  /\ routine[c].pc = "loop"
  /\ ~Running(c)
  /\ Goto(c, "returned")
  /\ UNCHANGED <<config, idVars, status, listVars, subVars, peerHeight,
                 delivered>>

\* At the head of the loop and wherever it waits, it returns when the peer has
\* stopped.
ReturnRoutine(c) ==
  /\ routine[c].pc \in {"loop", "wait"}
  /\ ~Running(c)
  /\ Goto(c, "returned")
  /\ UNCHANGED <<config, idVars, status, listVars, subVars, peerHeight,
                 delivered>>

\* TxsWaitChan is closed ...
WaitFront(c) ==
  /\ routine[c].pc = "loop"
  /\ routine[c].next = 0
  /\ list # << >>
  /\ Goto(c, "front")
  /\ UNCHANGED <<config, idVars, status, listVars, subVars, peerHeight,
                 delivered>>

\* ... but TxsFront may have become nil again.
TxsFront(c) ==
  /\ routine[c].pc = "front"
  /\ IF list = << >>
     THEN Goto(c, "loop")
     ELSE routine' = [routine EXCEPT ![c].pc = "check",
                                     ![c].next = Head(list).tx]
  /\ UNCHANGED <<config, idVars, status, listVars, subVars, peerHeight,
                 delivered>>

\* The peer has a state and lags by a block at most.
Ready(c, memTx) ==
  /\ peerHeight[c] # -1
  /\ peerHeight[c] >= memTx.height - 1

\* A transaction is sent to the peer unless it is one of those it came from;
\* when the peer is not ready the routine sleeps and starts again.
CheckPeer(c) ==
  LET memTx == MemTx(routine[c].next)
  IN  /\ \/ routine[c].pc = "check"
         \/ routine[c].pc = "loop" /\ routine[c].next # 0 /\ Running(c)
      /\ Goto(c, IF ~Ready(c, memTx) THEN "loop"
                 ELSE IF routine[c].id \in memTx.senders THEN "wait"
                 ELSE "send")
      /\ UNCHANGED <<config, idVars, status, listVars, subVars, peerHeight,
                     delivered>>

\* Mutant: the routine goes on when Send has failed.
SendAndGoOn(c, success) ==
  /\ routine[c].pc = "send"
  /\ success => Running(c)
  /\ ~success => c \in config.fragile
  /\ delivered' = IF success
                  THEN [delivered EXCEPT ![c] = @ \cup {routine[c].next}]
                  ELSE delivered
  /\ Goto(c, "wait")
  /\ UNCHANGED <<config, idVars, status, listVars, subVars, peerHeight>>

\* Send fails when the peer has stopped or its queue stays full.
Send(c, success) ==
  /\ routine[c].pc = "send"
  /\ success => Running(c)
  /\ ~success => c \in config.fragile
  /\ delivered' = IF success
                  THEN [delivered EXCEPT ![c] = @ \cup {routine[c].next}]
                  ELSE delivered
  /\ Goto(c, IF success THEN "wait" ELSE "loop")
  /\ UNCHANGED <<config, idVars, status, listVars, subVars, peerHeight>>

\* Mutant: the removal of the element does not wake those that wait at it.
WaitNextOnly(c) ==
  /\ routine[c].pc = "wait"
  /\ MemTx(routine[c].next).next # 0
  /\ Goto(c, "next")
  /\ UNCHANGED <<config, idVars, status, listVars, subVars, peerHeight,
                 delivered>>

\* NextWaitChan is closed when another element follows or this one is removed.
WaitNext(c) ==
  /\ routine[c].pc = "wait"
  /\ PosOf(routine[c].next) = 0 \/ MemTx(routine[c].next).next # 0
  /\ Goto(c, "next")
  /\ UNCHANGED <<config, idVars, status, listVars, subVars, peerHeight,
                 delivered>>

\* By now the one that followed may be gone.
TakeNext(c) ==
  /\ routine[c].pc = "next"
  /\ routine' = [routine EXCEPT ![c].pc = "loop",
                                ![c].next = MemTx(routine[c].next).next]
  /\ UNCHANGED <<config, idVars, status, listVars, subVars, peerHeight,
                 delivered>>

\* The consensus reactor sets and updates the state of the peer.
PeerCatchesUp(c) ==
  /\ status[c] = "up"
  /\ peerHeight[c] < height
  /\ peerHeight' = [peerHeight EXCEPT ![c] = @ + 1]
  /\ UNCHANGED <<config, idVars, status, listVars, subVars, routine, delivered>>

Step(c) ==
  \/ StartRoutine(c)
  \/ ReturnRoutine(c)
  \/ WaitFront(c)
  \/ TxsFront(c)
  \/ CheckPeer(c)
  \/ \E success \in BOOLEAN : Send(c, success)
  \/ WaitNext(c)
  \/ TakeNext(c)

\* What the switch and the peer of a connection do.
SwitchStep(c) ==
  \/ InitPeer(c)
  \/ InitPeerPanics(c)
  \/ StartFails(c)
  \/ AddPeer(c)
  \/ PeerStops(c)
  \/ RemovePeer(c)
  \/ PeerCatchesUp(c)
  \/ \E tx \in {0} \cup DOMAIN origins : Receive(c, tx)

MempoolStep ==
  \/ Submit
  \/ \E s \in subs : CheckTx(s)
  \/ \E pos \in DOMAIN list : RemoveTx(pos)
  \/ NewHeight

Next ==
  \/ \E c \in Conns : ~Crashed /\ SwitchStep(c)
  \/ \E c \in Conns : ~Crashed /\ Step(c)
  \/ ~Crashed /\ MempoolStep

Spec == Init /\ [][Next]_vars

\* Goroutines are scheduled, the peers follow the chain, and a Send that is
\* tried again and again on a running connection succeeds.
FairSpec ==
  /\ Spec
  /\ \A c \in Conns :
       /\ WF_vars(~Crashed /\ Step(c))
       /\ SF_vars(~Crashed /\ Send(c, TRUE))
       /\ WF_vars(~Crashed /\ PeerCatchesUp(c))

-----------------------------------------------------------------------------
(* Properties                                                              *)

\* The peers of two connections never share an ID, none has the ID of unknown
\* peers, and the routine of a running peer uses the ID that Receive uses,
\* although IDs wrap around, are given back, and are lost when a peer fails to
\* start (reactor.go:50-94).
IDsAreUnambiguous ==
  \A c \in Connected :
    /\ GetForPeer(c) \in activeIDs \ {UnknownPeerID}
    /\ \A d \in Connected \ {c} : GetForPeer(c) # GetForPeer(d)
    /\ Running(c) /\ routine[c].pc # "start" => routine[c].id = GetForPeer(c)

\* No ID was given to two peers so far.
NoIDReused == reserved <= MaxUint

\* The transactions the routine of c is done with.
Passed(c) ==
  LET r == routine[c]
  IN  CASE r.pc \in {"none", "start"} -> {}
        [] r.pc \in {"wait", "next"} -> {tx \in Numbers : tx <= r.next}
        [] OTHER -> {tx \in Numbers : tx < r.next}

\* "It starts a broadcast routine ensuring all txs are forwarded to the given
\* peer" (reactor.go:155): none is skipped, although the element the routine
\* stands at and those after it are removed while it waits.  Each pending
\* transaction it has passed was sent to the peer, as long as that is running,
\* or came from it.
NothingIsSkipped ==
  NoIDReused =>
    \A c \in Conns : Running(c) => \A tx \in Passed(c) :
      tx \in delivered[c] \/ PeerOf[c] \in origins[tx]

\* Every ID in use belongs to a connection, or to one that failed to start:
\* however often peers come and go, the others do not use IDs up until
\* nextPeerID panics (reactor.go:62-86).
IDsAreGivenBack ==
  Cardinality(activeIDs) = 1 + Cardinality(Connected) + Cardinality(Failed)

\* Every running peer gets every pending transaction it has not sent itself
\* (reactor.go:198-272): when no more come in, a time comes after which nothing
\* is left to be sent.
EveryPeerGetsTx ==
  <>[](NoIDReused => \A c \in Conns : Running(c) =>
         \A tx \in Numbers : tx \in delivered[c] \/ PeerOf[c] \in origins[tx])

\* "broadcast routine checks if peer is gone and returns" (reactor.go:165):
\* also when it waits for a transaction that never comes.
RoutineReturns ==
  <>[](Crashed \/ \A c \in Conns :
                    status[c] = "removed" => routine[c].pc = "returned")
=============================================================================
