------------------------------ MODULE PeerManager ------------------------------
(***************************************************************************)
(* One BRPeerManager (BRPeerManager.c) with the threads of its peers       *)
(* (BRPeer.c), the application's threads that call it, and the part of     *)
(* the wallet manager in Java that answers syncStopped.  Handlers hold     *)
(* manager->lock, so each is one step; what the code does after unlocking  *)
(* (callbacks into Java, reconnecting) is a later step.                    *)
(*                                                                         *)
(* The chain is a height: HeaderChain models the blocks.  A peer is an     *)
(* address; a connection to it is the record peer[p].                      *)
(***************************************************************************)
EXTENDS Naturals, Sequences, FiniteSets

CONSTANTS Peers,          \* addresses of nodes
          NoPeer,         \* downloadPeer == NULL
          LastBlock,      \* LastBlock[p]: the height p reports in its version message
          StartHeight,    \* the height of the tip when the manager is created
          MaxConnections, \* maxConnectCount
          MaxFailures,    \* MAX_CONNECT_FAILURES
          SyncSlack,      \* a node this far behind our tip "isn't synced"
          SyncMaxRetry,   \* SYNC_MAX_RETRY of the wallet manager in Java
          Txs,            \* transactions of the wallet
          Sent,           \* those that spend the wallet's coins
          Upsets,         \* what else may happen: a part of UpsetKinds
          MaxConnects,    \* bound: calls of Connect by the application on its own
          MaxUpsets,      \* bound: upsets, of all kinds together
          MaxCalls,       \* bound: calls of BRPeerManagerConnect in progress
          MaxNotices,     \* bound: calls of syncStopped in progress
          MaxPings        \* bound: pongs that a peer owes

ASSUME PeerAssumption ==
    /\ NoPeer \notin Peers
    /\ LastBlock \in [Peers -> Nat]
    /\ StartHeight \in Nat
    /\ MaxConnections \in Nat \ {0}
    /\ MaxFailures \in Nat \ {0}
    /\ SyncSlack \in Nat
    /\ SyncMaxRetry \in Nat
    /\ Sent \subseteq Txs
    /\ MaxCalls \in Nat \ {0}
    /\ MaxNotices \in Nat \ {0}
    /\ MaxPings \in Nat \ {0}

UpsetKinds == {"disconnect", "rescan", "network", "protocol"}
ASSUME BoundsAssumption == Upsets \subseteq UpsetKinds /\ MaxConnects \in Nat /\ MaxUpsets \in Nat

VARIABLES
    height,        \* lastBlock->height
    estimated,     \* estimatedHeight
    syncing,       \* syncStartHeight > 0
    failures,      \* connectFailureCount
    isConnected,
    downloadPeer,
    known,         \* manager->peers
    peer,          \* connectedPeers and each one's thread
    publishedTx,   \* publishedTx[t]: "none", "pending" (callback set) or "listed"
    answers,       \* answers[t]: how often t's publish callback was called
    object,        \* whose object t's entry points to: "own", "wallet" or "freed"
    wallet,        \* transactions of the wallet, all unconfirmed
    relays,        \* txRelays
    requests,      \* txRequests
    calls,         \* calls of BRPeerManagerConnect by their place in it
    notices,       \* calls of syncStopped still to be made, by error
    app,           \* the wallet manager: its retries, and whether it waits in Disconnect
    reachable,     \* networkIsReachable
    budget         \* what is left of MaxConnects and of MaxUpsets

manager   == <<height, estimated, syncing, failures, isConnected, downloadPeer, known>>
published == <<publishedTx, object, answers, wallet, relays, requests>>
outside   == <<calls, notices, app, reachable, budget>>
vars      == <<manager, peer, published, outside>>

-----------------------------------------------------------------------------
(* A connection.  status "none" is an address that is not in               *)
(* connectedPeers, "waiting" one without a thread (waitingForNetwork),     *)
(* "starting" a thread that has no socket yet, "ended" a thread that has   *)
(* left its loop.  sock "last" is a socket closed by another thread while  *)
(* this one may have a message in hand.                                    *)

Callbacks == {"filterLoaded", "mempoolDone", "publishDone", "unrelayedDone"}
Errors    == {"none", "protocol", "timeout", "network"}

Connection ==
    [status : {"none", "waiting", "starting", "connecting", "connected", "ended"},
     sock   : {"open", "last", "closed"},
     timer  : BOOLEAN,              \* disconnectTime is set
     error  : Errors,               \* what ended the thread's loop
     pings  : Seq(Callbacks),       \* pongCallback
     waits  : BOOLEAN,              \* mempoolCallback # NULL
     sent   : BOOLEAN,              \* sentMempool
     synced : BOOLEAN]              \* PEER_FLAG_SYNCED

NoConnection == [status |-> "none", sock |-> "closed", timer |-> FALSE, error |-> "none",
                 pings |-> <<>>, waits |-> FALSE, sent |-> FALSE, synced |-> FALSE]

InArray(pp)   == {p \in Peers : pp[p].status # "none"}
Connected(pp) == {p \in Peers : pp[p].status = "connected"}

Schedule(r)   == [r EXCEPT !.timer = TRUE]
Unschedule(r) == [r EXCEPT !.timer = FALSE]
Ping(r, c)    == [r EXCEPT !.pings = Append(@, c)]
LoadFilter(r) == [r EXCEPT !.sent = FALSE]
Close(r)      == [r EXCEPT !.sock = IF @ = "open" THEN "last" ELSE @]
CloseOwn(r)   == [r EXCEPT !.sock = "closed"]

\* mempoolDone(0), when a request is already out, only logs
\* wrong on purpose: the callback of a second request is dropped with the first's
SendMempoolOnce(r) == [r EXCEPT !.sent = TRUE]
SendMempool(r) == [r EXCEPT !.sent = TRUE, !.waits = @ \/ ~r.sent]

\* waiting for network reachability, or a thread
StartPeer == [NoConnection EXCEPT !.status = IF reachable THEN "starting" ELSE "waiting",
                                  !.timer  = reachable]

\* The peer's thread handles one message: its loop is running, and the
\* socket is open or was closed when the message had been read.
Handles(p) == peer[p].status = "connected" /\ peer[p].sock # "closed"
Handled(r) == [r EXCEPT !.sock = IF @ = "last" THEN "closed" ELSE @]

-----------------------------------------------------------------------------
AnyPending(pub) == \E t \in Txs : pub[t] = "pending"

\* _BRPeerManagerPublishPendingTx
PublishPending(r, pub) == IF AnyPending(pub) THEN Schedule(r) ELSE r

\* _BRPeerManagerSyncStopped, on the peers: d is downloadPeer
StopTimer(pp, d, pub) ==
    IF d # NoPeer /\ ~AnyPending(pub) THEN [pp EXCEPT ![d] = Unschedule(@)] ELSE pp

\* _BRPeerManagerLoadMempools; degraded: the download peer's filter is too
FilterThenMempool(r) == Ping(PublishPending(LoadFilter(r), publishedTx), "filterLoaded")
LoadMempools(pp, d, degraded) ==
    [p \in Peers |-> IF p \notin Connected(pp) THEN pp[p]
                     ELSE IF p # d \/ degraded   THEN FilterThenMempool(pp[p])
                                                 ELSE SendMempool(pp[p])]

\* _BRPeerManagerRequestUnrelayedTx
Unrelayed(p) == {t \in wallet : p \notin relays[t] /\ p \notin requests[t]}
\* on p's connection r; d is the download peer if the sync has just stopped
RequestUnrelayed(p, r, d) ==
    LET asked == IF Unrelayed(p) = {} THEN [r EXCEPT !.synced = TRUE]
                 ELSE IF r.synced     THEN r
                                      ELSE Ping(r, "unrelayedDone")
    IN  /\ requests' = [t \in Txs |-> requests[t] \cup IF t \in Unrelayed(p) THEN {p} ELSE {}]
        /\ peer' = StopTimer([peer EXCEPT ![p] = asked], d, publishedTx)

Notify(e)    == /\ notices["ok"] + notices["error"] < MaxNotices
                /\ notices' = [notices EXCEPT ![e] = @ + 1]
Places       == {"begin", "notify", "started", "found"}
CallConnect  == calls' = [calls EXCEPT !["begin"] = @ + 1]
MayPing      == \A p \in Peers : Len(peer[p].pings) < MaxPings
MayCall      == calls["begin"] + calls["notify"] + calls["started"] + calls["found"] < MaxCalls
Spend(d)     == budget[d] > 0 /\ budget' = [budget EXCEPT ![d] = @ - 1]
Upset(u)     == u \in Upsets /\ Spend("upsets")

TypeOK ==
    /\ height \in Nat /\ estimated \in Nat /\ failures \in Nat
    /\ syncing \in BOOLEAN /\ isConnected \in BOOLEAN /\ reachable \in BOOLEAN
    /\ downloadPeer \in Peers \cup {NoPeer}
    /\ known \subseteq Peers
    /\ peer \in [Peers -> Connection]
    /\ \A p \in Peers : peer[p].status = "none" => peer[p] = NoConnection
    /\ publishedTx \in [Txs -> {"none", "pending", "listed"}]
    /\ answers \in [Txs -> Nat]
    /\ object \in [Txs -> {"own", "wallet", "freed"}]
    /\ wallet \subseteq Txs
    /\ relays \in [Txs -> SUBSET Peers] /\ requests \in [Txs -> SUBSET Peers]
    /\ calls \in [Places -> Nat]
    /\ notices \in [{"ok", "error"} -> Nat]
    /\ app \in [retries : Nat, disconnecting : BOOLEAN]
    /\ budget \in [{"connects", "upsets"} -> Nat]

Init ==
    /\ height = StartHeight /\ estimated = 0
    /\ syncing = FALSE /\ failures = 0
    /\ isConnected = FALSE /\ downloadPeer = NoPeer
    /\ known \in SUBSET Peers
    /\ peer = [p \in Peers |-> NoConnection]
    /\ publishedTx = [t \in Txs |-> "none"]
    /\ answers = [t \in Txs |-> 0]
    /\ object = [t \in Txs |-> "own"]
    /\ wallet \in SUBSET Txs
    /\ relays = [t \in Txs |-> {}] /\ requests = [t \in Txs |-> {}]
    /\ calls = [place \in Places |-> 0]
    /\ notices = [ok |-> 0, error |-> 0]
    /\ app = [retries |-> 0, disconnecting |-> FALSE]
    /\ reachable = TRUE
    /\ budget = [connects |-> MaxConnects, upsets |-> MaxUpsets]

-----------------------------------------------------------------------------
(* Publishing.  When the wallet has freed a transaction that is still       *)
(* listed, the next look at the list is undefined behaviour: the model     *)
(* does not take it.                                                       *)
Intact == \A t \in Txs : object[t] # "freed"

\* _requestUnrelayedTxGetdataDone: pp are the connections
DropUnrelayed(pp) ==
    LET all == /\ \A p \in InArray(pp) : pp[p].synced
               /\ Cardinality(Connected(pp)) >= MaxConnections
        gone == {t \in wallet : /\ all /\ publishedTx[t] # "pending"
                                /\ relays[t] = {} /\ requests[t] = {}}
    IN  /\ Intact
        /\ wallet' = wallet \ gone
        /\ object' = [t \in Txs |-> IF t \in gone /\ object[t] = "wallet" THEN "freed" ELSE object[t]]

\* a peer shows that it has t, or asks for it: the callback is due
Answered(t) ==
    IF publishedTx[t] # "pending" THEN UNCHANGED <<publishedTx, answers>>
    ELSE /\ publishedTx' = [publishedTx EXCEPT ![t] = "listed"]
         /\ answers' = [answers EXCEPT ![t] = @ + 1]

\* "cancel tx publish timeout if no publish callbacks are pending, and
\* syncing is done or this is not downloadPeer"
MayCancel(p, t) == (syncing => p # downloadPeer) /\ \A u \in Txs \ {t} : publishedTx[u] # "pending"
AfterAnswer(p, t, r) == IF MayCancel(p, t) THEN Unschedule(r) ELSE r
KeepSyncing(p, r) == IF syncing /\ p = downloadPeer THEN Schedule(r) ELSE r

-----------------------------------------------------------------------------
(* BRPeerManagerConnect, by the application or by a peer's thread.         *)

\* up to the unlock around syncStarted
ConnectBegin ==
    /\ calls["begin"] > 0
    /\ failures' = IF failures >= MaxFailures THEN 0 ELSE failures
    /\ LET starts == ~syncing /\ (downloadPeer = NoPeer \/ height < estimated) IN
        /\ syncing' = (syncing \/ starts)
        /\ calls' = [calls EXCEPT !["begin"] = @ - 1,
                                  ![IF starts THEN "notify" ELSE "started"] = @ + 1]
    /\ UNCHANGED <<height, estimated, isConnected, downloadPeer, known, peer, published,
                   notices, app, reachable, budget>>

SyncStarted ==
    /\ calls["notify"] > 0
    /\ calls' = [calls EXCEPT !["notify"] = @ - 1, !["started"] = @ + 1]
    /\ UNCHANGED <<manager, peer, published, notices, app, reachable, budget>>

Room == Cardinality(InArray(peer)) < MaxConnections
Retried == [p \in Peers |-> IF peer[p].status = "waiting" THEN StartPeer ELSE peer[p]]

\* the peers to connect to: as many of the known ones as there is room for
Choices ==
    LET new  == known \ InArray(peer)
        free == IF Room THEN MaxConnections - Cardinality(InArray(peer)) ELSE 0
    IN  {C \in SUBSET new : Cardinality(C) = IF Cardinality(new) < free THEN Cardinality(new)
                                             ELSE free}

\* the tail of the call: new connections, and the end of the sync if there are none
ConnectPeers(place, pp) ==
    \E C \in Choices :
        LET pp2 == [p \in Peers |-> IF p \in C THEN StartPeer ELSE pp[p]] IN
        /\ peer' = pp2
        /\ calls' = [calls EXCEPT ![place] = @ - 1]
        /\ IF InArray(pp2) = {} THEN syncing' = FALSE /\ Notify("error")
                                ELSE UNCHANGED <<syncing, notices>>
        /\ UNCHANGED known

\* _BRPeerManagerFindPeers, which drops the lock; D is what the DNS seeds answer
FindPeers(place, D) ==
    /\ known' = known \cup D
    /\ peer' = Retried
    /\ calls' = [calls EXCEPT ![place] = @ - 1, !["found"] = @ + 1]
    /\ UNCHANGED <<syncing, notices>>

ConnectLocked ==
    /\ calls["started"] > 0
    /\ \/ Room /\ \E D \in SUBSET Peers : FindPeers("started", D)
       \/ (Room => Cardinality(known) >= MaxConnections) /\ ConnectPeers("started", Retried)
    /\ UNCHANGED <<height, estimated, failures, isConnected, downloadPeer, published,
                   app, reachable, budget>>

ConnectFound ==
    /\ calls["found"] > 0
    /\ ConnectPeers("found", peer)
    /\ UNCHANGED <<height, estimated, failures, isConnected, downloadPeer, published,
                   app, reachable, budget>>

-----------------------------------------------------------------------------
(* A peer's thread.                                                        *)

\* _BRPeerOpenSocket creates the socket: from here BRPeerDisconnect has an effect
OpenSocket(p) ==
    /\ peer[p].status = "starting"
    /\ peer' = [peer EXCEPT ![p].status = "connecting", ![p].sock = "open"]
    /\ UNCHANGED <<manager, published, outside>>

\* The thread leaves its loop: a timeout, an error of the network or of the
\* protocol, or a socket that another thread closed.
EndLoop(p, e) ==
    /\ peer[p].status \in {"connecting", "connected"}
    /\ \/ e = "timeout" /\ peer[p].timer /\ UNCHANGED budget
       \/ e = "none" /\ peer[p].sock # "open" /\ UNCHANGED budget
       \/ e = "network" /\ UNCHANGED budget
       \/ e = "protocol" /\ peer[p].sock # "closed" /\ Upset("protocol")
    /\ peer' = [peer EXCEPT ![p].status = "ended", ![p].sock = "closed", ![p].error = e]
    /\ UNCHANGED <<manager, published, calls, notices, app, reachable>>

\* _loadBloomFilterDone(0): for the download peer it ends the sync
AbandonPing(p) ==
    /\ peer[p].status = "ended" /\ peer[p].pings # <<>>
    /\ LET done == Head(peer[p].pings)
           rest == [peer[p] EXCEPT !.pings = Tail(@)]
       IN  \/ /\ done = "filterLoaded" /\ p = downloadPeer
              /\ syncing' = FALSE /\ Notify("ok")
              /\ peer' = StopTimer([peer EXCEPT ![p] = rest], p, publishedTx)
              /\ UNCHANGED <<wallet, object, requests>>
           \/ /\ done = "publishDone" /\ RequestUnrelayed(p, rest, NoPeer)
              /\ UNCHANGED <<syncing, notices, wallet, object>>
           \/ /\ done = "unrelayedDone" /\ DropUnrelayed([peer EXCEPT ![p] = rest])
              /\ peer' = [peer EXCEPT ![p] = rest]
              /\ UNCHANGED <<syncing, notices, requests>>
           \/ /\ done = "mempoolDone" \/ (done = "filterLoaded" /\ p # downloadPeer)
              /\ peer' = [peer EXCEPT ![p] = rest]
              /\ UNCHANGED <<syncing, notices, wallet, object, requests>>
    /\ UNCHANGED <<height, estimated, failures, isConnected, downloadPeer, known, publishedTx,
                   answers, relays, calls, app, reachable, budget>>

\* wrong on purpose: the pointer to the download peer survives it
KeepDownload(p) == downloadPeer
NextDownload(p) == IF p = downloadPeer THEN NoPeer ELSE downloadPeer
\* wrong on purpose: the count may step over the limit
Uncapped(p, n)  == n
Capped(p, n)    == IF p = downloadPeer /\ n > MaxFailures THEN MaxFailures ELSE n
GaveUp(p, n)    == NextDownload(p) = NoPeer /\ n = MaxFailures
\* wrong on purpose: relays outlive the connection
KeepRelays(p)   == relays
ForgetRelays(p) == [t \in Txs |-> relays[t] \ {p}]
\* wrong on purpose: a removed peer keeps what its thread left behind
ForgetStatus(p) == [peer EXCEPT ![p].status = "none"]
Forget(p)       == [peer EXCEPT ![p] = NoConnection]

\* txError: the callbacks that wait get it
\* wrong on purpose: the callbacks are not cleared
CancelAgain(cancels) ==
    /\ UNCHANGED publishedTx
    /\ answers' = [t \in Txs |-> answers[t] + IF cancels /\ publishedTx[t] = "pending" THEN 1 ELSE 0]
Cancel(cancels) ==
    /\ publishedTx' = [t \in Txs |-> IF cancels /\ publishedTx[t] = "pending" THEN "listed"
                                                                        ELSE publishedTx[t]]
    /\ answers' = [t \in Txs |-> IF cancels /\ publishedTx[t] = "pending" THEN answers[t] + 1
                                                                    ELSE answers[t]]

\* The rest of the thread: mempoolCallback(0) only logs; then
\* _peerDisconnected, which forgets the peer and decides what that means for
\* the sync, for the transactions being published and for reconnecting.
Disconnected(p) ==
    /\ peer[p].status = "ended" /\ peer[p].pings = <<>>
    /\ LET e        == peer[p].error
           fails    == Capped(p, failures + IF e \in {"timeout", "network"} THEN 1 ELSE 0)
           gaveUp   == GaveUp(p, fails)
           again    == ~gaveUp /\ fails < MaxFailures
           timedOut == e = "timeout" /\ (p # downloadPeer \/ ~syncing \/ InArray(peer) = {p})
       IN  /\ failures' = fails
           /\ downloadPeer' = NextDownload(p)
           /\ isConnected' = (isConnected /\ p # downloadPeer)
           /\ known' \in IF gaveUp              THEN {{}}
                         ELSE IF e = "none"     THEN {known}
                         ELSE IF e = "protocol" THEN {known \ {p}, {}}
                                                ELSE {known \ {p}}
           /\ relays' = ForgetRelays(p)
           /\ Cancel(gaveUp \/ timedOut)
           /\ peer' = Forget(p)
           /\ syncing' = (syncing /\ ~gaveUp)
           /\ IF gaveUp THEN Notify(IF e = "none" THEN "ok" ELSE "error") ELSE UNCHANGED notices
           /\ IF again THEN MayCall /\ CallConnect ELSE UNCHANGED calls
    /\ UNCHANGED <<height, estimated, object, wallet, requests, app, reachable, budget>>

\* _peerConnected, when the handshake is done
PeerConnected(p) ==
    /\ peer[p].status = "connecting" /\ peer[p].sock # "closed"
    /\ MayPing
    /\ LET r   == [Handled(peer[p]) EXCEPT !.status = "connected", !.timer = FALSE]
           pp  == [peer EXCEPT ![p] = r]
           old == downloadPeer
           behind == LastBlock[p] + SyncSlack < height
           stick  == old # NoPeer /\ (LastBlock[old] >= LastBlock[p] \/ height >= LastBlock[p])
       IN  \/ /\ behind            \* "node isn't synced"
              /\ peer' = [pp EXCEPT ![p] = CloseOwn(@)]
              /\ UNCHANGED <<failures, downloadPeer, isConnected, estimated>>
           \/ /\ ~behind /\ stick
              /\ IF height >= LastBlock[p]
                 THEN /\ failures' = 0
                      /\ peer' = [pp EXCEPT ![p] = FilterThenMempool(@)]
                 ELSE peer' = pp /\ UNCHANGED failures
              /\ UNCHANGED <<downloadPeer, isConnected, estimated>>
           \/ /\ ~behind /\ ~stick
              /\ \E q \in Connected(pp) :
                    \* p, or a peer with a higher block, or as high and nearer
                    /\ LastBlock[q] >= LastBlock[p]
                    /\ LET pp1 == IF old # NoPeer THEN [pp EXCEPT ![old] = Close(@)] ELSE pp
                           pp2 == [pp1 EXCEPT ![q] = PublishPending(LoadFilter(@), publishedTx)]
                       IN  /\ downloadPeer' = q /\ isConnected' = TRUE
                           /\ estimated' = LastBlock[q]
                           /\ IF height < LastBlock[q]
                              THEN /\ peer' = [pp2 EXCEPT ![q] = Schedule(@)]
                                   /\ UNCHANGED failures
                              ELSE /\ peer' = LoadMempools(pp2, q, FALSE)
                                   /\ failures' = 0
    /\ UNCHANGED <<height, syncing, known, published, outside>>

\* _peerRelayedBlock, when the block extends the chain
RelayedBlock(p) ==
    /\ Handles(p) /\ height < LastBlock[p]
    /\ MayPing
    /\ height' = height + 1
    /\ estimated' = IF height' > estimated THEN height' ELSE estimated
    /\ LET pp  == [peer EXCEPT ![p] = Handled(@)]
           more == height' < estimated /\ p = downloadPeer
           pp1 == IF more THEN [pp EXCEPT ![p] = Schedule(@)] ELSE pp
       IN  /\ failures' = IF more THEN 0 ELSE failures
           /\ \E degraded \in BOOLEAN :
                 peer' = IF height' = estimated THEN LoadMempools(pp1, downloadPeer, degraded) ELSE pp1
    /\ UNCHANGED <<syncing, isConnected, downloadPeer, known, published, outside>>

\* mempoolTime has passed, or the inventory that answers the request has come
MempoolAnswered(p) ==
    /\ Handles(p) /\ peer[p].waits /\ Len(peer[p].pings) < MaxPings
    /\ peer' = [peer EXCEPT ![p] = Ping([@ EXCEPT !.waits = FALSE], "mempoolDone")]
    /\ UNCHANGED <<manager, published, outside>>

\* a pong: the callback that has waited longest
Pong(p) ==
    /\ Handles(p) /\ peer[p].pings # <<>>
    /\ LET done == Head(peer[p].pings)
           r    == Handled([peer[p] EXCEPT !.pings = Tail(@)])
       IN  \/ /\ done = "filterLoaded"
              /\ peer' = [peer EXCEPT ![p] = SendMempool(r)]
              /\ UNCHANGED <<syncing, notices, wallet, object, requests>>
           \/ /\ done = "mempoolDone"
              /\ syncing' = FALSE
              /\ IF syncing THEN Notify("ok") ELSE UNCHANGED notices
              /\ RequestUnrelayed(p, r, IF syncing THEN downloadPeer ELSE NoPeer)
              /\ UNCHANGED <<wallet, object>>
           \/ /\ done = "publishDone"
              /\ RequestUnrelayed(p, r, NoPeer)
              /\ UNCHANGED <<syncing, notices, wallet, object>>
           \/ /\ done = "unrelayedDone"
              /\ LET pp == [peer EXCEPT ![p] = [r EXCEPT !.synced = TRUE]] IN
                  peer' = pp /\ DropUnrelayed(pp)
              /\ UNCHANGED <<syncing, notices, requests>>
    /\ UNCHANGED <<height, estimated, failures, isConnected, downloadPeer, known, publishedTx,
                   answers, relays, calls, app, reachable, budget>>

-----------------------------------------------------------------------------
(* Transactions, on a peer's thread.                                       *)

\* _peerRelayedTx
RelayedTx(p, t) ==
    /\ Handles(p) /\ Intact
    /\ LET registers == ~syncing \/ t \in wallet
           lists     == registers /\ t \in Sent /\ publishedTx[t] = "none"
           counted   == publishedTx[t] # "none" \/ (registers /\ ~syncing)
           r         == AfterAnswer(p, t, Handled(peer[p]))
       IN  /\ wallet' = IF registers THEN wallet \cup {t} ELSE wallet
           /\ relays' = [relays EXCEPT ![t] = IF counted THEN @ \cup {p} ELSE @]
           /\ requests' = [requests EXCEPT ![t] = IF registers THEN @ \ {p} ELSE @]
           /\ peer' = [peer EXCEPT ![p] = IF registers THEN KeepSyncing(p, r) ELSE r]
           /\ IF lists THEN /\ publishedTx' = [publishedTx EXCEPT ![t] = "listed"]
                            /\ object' = [object EXCEPT ![t] = "wallet"]
                            /\ UNCHANGED answers
                       ELSE Answered(t) /\ UNCHANGED object
    /\ UNCHANGED <<manager, outside>>

\* _peerHasTx: an inventory with a transaction that this peer is known to have
HasTx(p, t) ==
    /\ Handles(p) /\ Intact
    /\ Answered(t)
    /\ LET here   == t \in wallet \/ publishedTx[t] # "none"
           counted == publishedTx[t] # "none" \/ (here /\ ~syncing)
           r       == AfterAnswer(p, t, Handled(peer[p]))
       IN  /\ relays' = [relays EXCEPT ![t] = IF counted THEN @ \cup {p} ELSE @]
           /\ requests' = [requests EXCEPT ![t] = IF here THEN @ \ {p} ELSE @]
           /\ peer' = [peer EXCEPT ![p] = IF here THEN KeepSyncing(p, r) ELSE r]
           /\ wallet' = IF here THEN wallet \cup {t} ELSE wallet
           /\ object' = [object EXCEPT ![t] = IF here /\ t \notin wallet THEN "wallet" ELSE @]
    /\ UNCHANGED <<manager, outside>>

\* _peerRequestedTx: a getdata that publishing asks for
RequestedTx(p, t) ==
    /\ Handles(p) /\ Intact
    /\ Answered(t)
    /\ LET listed == publishedTx[t] # "none" IN
       /\ wallet' = IF listed THEN wallet \cup {t} ELSE wallet
       /\ object' = [object EXCEPT ![t] = IF listed /\ t \notin wallet THEN "wallet" ELSE @]
    /\ relays' = [relays EXCEPT ![t] = @ \cup {p}]
    /\ peer' = [peer EXCEPT ![p] = AfterAnswer(p, t, Handled(@))]
    /\ UNCHANGED <<requests, manager, outside>>

\* _peerRejectedTx; the peer misbehaves if it is not for a double spend
\* and the inputs are confirmed
RejectedTx(p, t) ==
    /\ Handles(p) /\ Upset("protocol")
    /\ requests' = [requests EXCEPT ![t] = @ \ {p}]
    /\ relays' = [relays EXCEPT ![t] = IF t \in wallet THEN @ \ {p} ELSE @]
    /\ \/ /\ peer' = [peer EXCEPT ![p] = Handled(@)]
          /\ UNCHANGED known
       \/ /\ t \in wallet \cap Sent
          /\ peer' = [peer EXCEPT ![p] = CloseOwn(@)]
          /\ known' \in {known \ {p}, {}}
    /\ UNCHANGED <<height, estimated, syncing, failures, isConnected, downloadPeer, publishedTx,
                   object, answers, wallet, calls, notices, app, reachable>>

\* _peerDataNotfound
NotFound(p, t) ==
    /\ Handles(p) /\ p \in requests[t] \cup relays[t]
    /\ requests' = [requests EXCEPT ![t] = @ \ {p}]
    /\ relays' = [relays EXCEPT ![t] = @ \ {p}]
    /\ peer' = [peer EXCEPT ![p] = Handled(@)]
    /\ UNCHANGED <<manager, publishedTx, object, answers, wallet, outside>>

-----------------------------------------------------------------------------
(* The application.                                                        *)

AppConnect == /\ Spend("connects") /\ MayCall /\ CallConnect
              /\ UNCHANGED <<manager, peer, published, notices, app, reachable>>

\* the system's broadcast; the wallet manager reconnects
NetworkChanges == /\ Upset("network") /\ MayCall /\ CallConnect
                  /\ reachable' = ~reachable
                  /\ UNCHANGED <<manager, peer, published, notices, app>>

\* BRPeerManagerDisconnect, up to its wait, and its return
Disconnect ==
    /\ Upset("disconnect") /\ ~app.disconnecting
    /\ failures' = IF InArray(peer) = {} THEN failures ELSE MaxFailures
    /\ peer' = [p \in Peers |-> Close(peer[p])]
    /\ app' = [app EXCEPT !.disconnecting = TRUE]
    /\ UNCHANGED <<height, estimated, syncing, isConnected, downloadPeer, known, published,
                   calls, notices, reachable>>

DisconnectReturns ==
    /\ app.disconnecting /\ InArray(peer) = {}
    /\ app' = [app EXCEPT !.disconnecting = FALSE]
    /\ UNCHANGED <<manager, peer, published, calls, notices, reachable, budget>>

\* BRPeerManagerRescan and its variants, to a lower block
Rescan(h) ==
    /\ Upset("rescan") /\ MayCall /\ isConnected
    /\ height' = h
    /\ known' = known \ {downloadPeer}
    /\ peer' = IF downloadPeer = NoPeer THEN peer ELSE [peer EXCEPT ![downloadPeer] = Close(@)]
    /\ syncing' = FALSE
    /\ CallConnect
    /\ UNCHANGED <<estimated, failures, isConnected, downloadPeer, published, notices, app, reachable>>

\* BRPeerManagerPublishTx, of a transaction that was just signed
PublishTx(t) ==
    /\ publishedTx[t] = "none" /\ t \in Sent \ wallet /\ answers[t] = 0 /\ Intact
    /\ MayPing
    /\ LET refused == ~isConnected /\ (failures >= MaxFailures \/ ~reachable)
           pub     == [publishedTx EXCEPT ![t] = "pending"]
           all     == Connected(peer)
           to      == {p \in all : p # downloadPeer \/ Cardinality(all) = 1}
       IN  IF refused
           THEN /\ answers' = [answers EXCEPT ![t] = 1]
                /\ UNCHANGED <<publishedTx, peer>>
           ELSE /\ publishedTx' = pub
                /\ peer' = [p \in Peers |-> IF p \in to THEN Ping(Schedule(peer[p]), "publishDone")
                                                       ELSE peer[p]]
                /\ UNCHANGED answers
    /\ UNCHANGED <<manager, object, wallet, relays, requests, outside>>

\* syncStopped reaches the wallet manager, which retries a failed sync
SyncStopped(e) ==
    /\ notices[e] > 0
    /\ notices' = [notices EXCEPT ![e] = @ - 1]
    /\ LET retries == e = "error" /\ app.retries < SyncMaxRetry IN
       /\ app' = [app EXCEPT !.retries = IF retries THEN @ + 1 ELSE IF e = "error" THEN 0 ELSE @]
       /\ IF retries THEN MayCall /\ CallConnect ELSE UNCHANGED calls
    /\ UNCHANGED <<manager, peer, published, reachable, budget>>

-----------------------------------------------------------------------------
PeerStep(p) ==
    \/ OpenSocket(p) \/ PeerConnected(p) \/ RelayedBlock(p) \/ MempoolAnswered(p) \/ Pong(p)
    \/ \E e \in Errors : EndLoop(p, e)
    \/ AbandonPing(p) \/ Disconnected(p)
    \/ \E t \in Txs : RelayedTx(p, t) \/ HasTx(p, t) \/ RequestedTx(p, t) \/ RejectedTx(p, t)
                        \/ NotFound(p, t)

Next ==
    \/ ConnectBegin \/ SyncStarted \/ ConnectLocked \/ ConnectFound
    \/ \E p \in Peers : PeerStep(p)
    \/ AppConnect \/ NetworkChanges \/ Disconnect \/ DisconnectReturns
    \/ \E h \in 0 .. height : Rescan(h)
    \/ \E t \in Txs : PublishTx(t)
    \/ \E e \in {"ok", "error"} : SyncStopped(e)

Spec == Init /\ [][Next]_vars

(* Threads get on; a timer that stays set fires; a connected node answers   *)
(* pings, and its answer to the mempool request or mempoolTime ends that    *)
(* wait.  Nothing makes a node send blocks, or keep its connection.        *)
Fairness ==
    /\ WF_vars(ConnectBegin) /\ WF_vars(SyncStarted) /\ WF_vars(ConnectLocked)
    /\ WF_vars(ConnectFound)
    /\ \A p \in Peers :
          /\ WF_vars(OpenSocket(p)) /\ WF_vars(EndLoop(p, "timeout")) /\ WF_vars(EndLoop(p, "none"))
          /\ WF_vars(AbandonPing(p)) /\ WF_vars(Disconnected(p))
          /\ WF_vars(Pong(p)) /\ WF_vars(MempoolAnswered(p))
    /\ \A e \in {"ok", "error"} : WF_vars(SyncStopped(e))

FairSpec == Spec /\ Fairness

-----------------------------------------------------------------------------
\* What the application is promised of a publication's callback (PublishOnce): at
\* most one call, after BRPeerManagerPublishTx, whichever of the peers' threads
\* gets there first -- a getdata, an inventory, a timeout or the end of a connection.
publication == [t \in Txs |-> IF answers[t] = 0 THEN IF publishedTx[t] = "pending" THEN "waiting" ELSE "no"
                             ELSE IF answers[t] = 1 /\ publishedTx[t] # "pending" THEN "answered"
                                                                                ELSE "twice"]
Once == INSTANCE PublishOnce
PublishedOnce == Once!Spec

\* txRelays is what BRPeerManagerRelayCount counts, "the number of connected peers
\* that have relayed the transaction": it names no peer whose connection has ended.
RelaysAreConnected == \A t \in Txs : relays[t] \subseteq InArray(peer)

\* downloadPeer points into connectedPeers, to a peer that has connected, as long
\* as isConnected says so; no handler of another thread meets a freed peer there.
DownloadPeerAlive ==
    /\ isConnected = (downloadPeer # NoPeer)
    /\ downloadPeer # NoPeer => peer[downloadPeer].status \in {"connected", "ended"}

\* Unless the application disconnects, a sync that is under way has a peer, or a
\* call of BRPeerManagerConnect that will find one or stop it.
NoOrphanSync == syncing => InArray(peer) # {} \/ \E place \in Places : calls[place] > 0

\* Every sync ends and syncStopped is called, when the network at last breaks no
\* more connections: unless it is unreachable, or the download peer was lost and
\* every node that is known is connected already (nothing then selects another).
Stranded == downloadPeer = NoPeer /\ known \subseteq InArray(peer)
Settled  == <>[][\A p \in Peers : ~EndLoop(p, "network")]_vars
SyncEnds == Settled => (syncing ~> (~syncing \/ ~reachable \/ Stranded))

\* syncStopped reports success only when the chain has reached the height that
\* the download peer reported: _mempoolDone logs "sync succeeded" of a mempool that
\* is only asked for "after syncing".
CaughtUp == [][notices'["ok"] > notices["ok"] => height >= estimated]_vars
================================================================================
