--------------------------- MODULE PeerManagerProofs ---------------------------
(* Proofs about PeerManager: its types, that relays and the download peer name *)
(* connections that exist, that a sync is never left without anybody to go on  *)
(* with it, and that a publication's callback is called at most once.          *)
EXTENDS PeerManager, FiniteSetTheorems, SequenceTheorems, TLAPS

-----------------------------------------------------------------------------
(* Connections.                                                             *)

\* Every address has a connection, an empty one if it is not in connectedPeers.
GoodPeers(pp) ==
    /\ pp \in [Peers -> Connection]
    /\ \A p \in Peers : pp[p].status = "none" => pp[p] = NoConnection

\* What is done to one connection keeps its place in connectedPeers.
Same(r, s) == s \in Connection /\ s.status = r.status

\* The same of all connections, the empty ones staying empty.
SamePeers(pp, qq) == GoodPeers(qq) /\ \A p \in Peers : qq[p].status = pp[p].status

LEMMA NoConnectionType == NoConnection \in Connection
BY EmptySeq DEF NoConnection, Connection, Errors

LEMMA PingSame == ASSUME NEW r \in Connection, NEW c \in Callbacks PROVE Same(r, Ping(r, c))
<1>1. Append(r.pings, c) \in Seq(Callbacks)
  BY AppendProperties DEF Connection
<1> QED BY <1>1 DEF Same, Ping, Connection

LEMMA TailSame ==
    ASSUME NEW r \in Connection, r.pings # <<>>
    PROVE  Same(r, [r EXCEPT !.pings = Tail(@)]) /\ Head(r.pings) \in Callbacks
<1>1. r.pings \in Seq(Callbacks)
  BY DEF Connection
<1>2. Tail(r.pings) \in Seq(Callbacks) /\ Head(r.pings) \in Callbacks
  BY <1>1, HeadTailProperties
<1> QED BY <1>2 DEF Same, Connection

LEMMA OneSame ==
    ASSUME NEW r \in Connection
    PROVE  /\ Same(r, r) /\ Same(r, Schedule(r)) /\ Same(r, Unschedule(r)) /\ Same(r, LoadFilter(r))
           /\ Same(r, Close(r)) /\ Same(r, CloseOwn(r)) /\ Same(r, SendMempool(r)) /\ Same(r, Handled(r))
           /\ \A pub : Same(r, PublishPending(r, pub))
<1>1. Same(r, r) /\ Same(r, Schedule(r)) /\ Same(r, Unschedule(r)) /\ Same(r, LoadFilter(r))
  BY DEF Same, Schedule, Unschedule, LoadFilter, Connection
<1>2. Same(r, Close(r)) /\ Same(r, CloseOwn(r)) /\ Same(r, Handled(r))
  BY DEF Same, Close, CloseOwn, Handled, Connection
<1>3. Same(r, SendMempool(r))
  BY DEF Same, SendMempool, Connection
<1>4. \A pub : Same(r, PublishPending(r, pub))
  BY <1>1 DEF PublishPending
<1> QED BY <1>1, <1>2, <1>3, <1>4

LEMMA FilterSame == ASSUME NEW r \in Connection PROVE Same(r, FilterThenMempool(r))
<1>1. LoadFilter(r) \in Connection /\ LoadFilter(r).status = r.status
  BY OneSame DEF Same
<1>2. Same(LoadFilter(r), PublishPending(LoadFilter(r), publishedTx))
  BY <1>1, OneSame
<1>3. Same(PublishPending(LoadFilter(r), publishedTx), FilterThenMempool(r))
  BY <1>2, PingSame DEF FilterThenMempool, Same, Callbacks
<1> QED BY <1>1, <1>2, <1>3 DEF Same

\* Nothing changes in a connection that has no timer, or no open socket.
LEMMA IdleSame ==
    ASSUME NEW r \in Connection
    PROVE  (r.timer = FALSE => Unschedule(r) = r) /\ (r.sock = "closed" => Close(r) = r)
BY DEF Unschedule, Close, Connection

LEMMA EmptySame == Unschedule(NoConnection) = NoConnection /\ Close(NoConnection) = NoConnection
<1>1. NoConnection.timer = FALSE /\ NoConnection.sock = "closed"
  BY DEF NoConnection
<1> QED BY <1>1, NoConnectionType, IdleSame

\* One connection is changed, and none appears or disappears.
LEMMA ChangeOne ==
    ASSUME NEW pp, GoodPeers(pp), NEW p \in Peers, NEW r, Same(pp[p], r),
           pp[p].status # "none" \/ r = NoConnection
    PROVE  SamePeers(pp, [pp EXCEPT ![p] = r])
BY DEF GoodPeers, Same, SamePeers

LEMMA SameTrans ==
    ASSUME NEW pp, NEW qq, NEW rr, SamePeers(pp, qq), SamePeers(qq, rr)
    PROVE  SamePeers(pp, rr)
BY DEF SamePeers

LEMMA SameAll ==
    ASSUME NEW pp, GoodPeers(pp)
    PROVE  /\ SamePeers(pp, pp)
           /\ \A p \in Peers : pp[p] \in Connection
BY DEF SamePeers, GoodPeers

LEMMA ChangeSame ==
    ASSUME NEW pp, GoodPeers(pp), NEW q \in Peers, pp[q].status # "none"
    PROVE  /\ SamePeers(pp, [pp EXCEPT ![q] = Handled(@)])
           /\ SamePeers(pp, [pp EXCEPT ![q] = CloseOwn(@)])
           /\ SamePeers(pp, [pp EXCEPT ![q] = Close(@)])
           /\ SamePeers(pp, [pp EXCEPT ![q] = Schedule(@)])
           /\ SamePeers(pp, [pp EXCEPT ![q] = FilterThenMempool(@)])
           /\ SamePeers(pp, [pp EXCEPT ![q] = PublishPending(LoadFilter(@), publishedTx)])
<1>1. pp[q] \in Connection
  BY DEF GoodPeers
<1>2. Same(pp[q], PublishPending(LoadFilter(pp[q]), publishedTx))
  <2> DEFINE l == LoadFilter(pp[q])
  <2>1. Same(pp[q], l)
    BY <1>1, OneSame
  <2>2. Same(l, PublishPending(l, publishedTx))
    BY <2>1, OneSame DEF Same
  <2> QED BY <2>1, <2>2 DEF Same
<1>3. /\ Same(pp[q], Handled(pp[q])) /\ Same(pp[q], CloseOwn(pp[q])) /\ Same(pp[q], Close(pp[q]))
      /\ Same(pp[q], Schedule(pp[q])) /\ Same(pp[q], FilterThenMempool(pp[q]))
  BY <1>1, OneSame, FilterSame
<1>4. \A s : Same(pp[q], s) => SamePeers(pp, [pp EXCEPT ![q] = s])
  BY ChangeOne
<1> QED BY <1>2, <1>3, <1>4

LEMMA StopTimerSame ==
    ASSUME NEW pp, GoodPeers(pp), NEW d \in Peers \cup {NoPeer}, NEW pub
    PROVE  SamePeers(pp, StopTimer(pp, d, pub))
<1>1. CASE StopTimer(pp, d, pub) = pp
  BY <1>1, SameAll
<1>2. CASE d \in Peers /\ StopTimer(pp, d, pub) = [pp EXCEPT ![d] = Unschedule(@)]
  <2>1. pp[d] \in Connection /\ StopTimer(pp, d, pub) = [pp EXCEPT ![d] = Unschedule(pp[d])]
    BY <1>2 DEF GoodPeers
  <2>2. pp[d].status = "none" => Unschedule(pp[d]) = NoConnection
    BY <1>2, EmptySame DEF GoodPeers
  <2>3. Same(pp[d], Unschedule(pp[d]))
    BY <2>1, OneSame
  <2>4. SamePeers(pp, [pp EXCEPT ![d] = Unschedule(pp[d])])
    BY <1>2, <2>2, <2>3, ChangeOne
  <2> QED BY <2>1, <2>4
<1> QED BY <1>1, <1>2 DEF StopTimer

LEMMA LoadMempoolsSame ==
    ASSUME NEW pp, GoodPeers(pp), NEW d, NEW degraded \in BOOLEAN
    PROVE  SamePeers(pp, LoadMempools(pp, d, degraded))
<1> DEFINE qq == LoadMempools(pp, d, degraded)
<1>1. ASSUME NEW p \in Peers PROVE Same(pp[p], qq[p]) /\ (pp[p].status = "none" => qq[p] = pp[p])
  <2>1. pp[p] \in Connection
    BY DEF GoodPeers
  <2>2. Same(pp[p], pp[p]) /\ Same(pp[p], FilterThenMempool(pp[p])) /\ Same(pp[p], SendMempool(pp[p]))
    BY <2>1, FilterSame, OneSame
  <2>3. qq[p] \in {pp[p], FilterThenMempool(pp[p]), SendMempool(pp[p])}
        /\ (pp[p].status = "none" => qq[p] = pp[p])
    BY DEF LoadMempools, Connected
  <2> QED BY <2>2, <2>3
<1>2. qq \in [Peers -> Connection]
  BY <1>1 DEF Same, LoadMempools
<1> QED BY <1>1, <1>2 DEF SamePeers, GoodPeers, Same

\* What every handler but _peerDisconnected may do to the connections: none leaves
\* connectedPeers, and one that has connected does not begin anew.
Live == {"connected", "ended"}
Keeps(pp, qq) ==
    /\ GoodPeers(qq)
    /\ \A p \in Peers : /\ pp[p].status # "none" => qq[p].status # "none"
                        /\ pp[p].status \in Live => qq[p].status \in Live

LEMMA SameKeeps == ASSUME NEW pp, NEW qq, SamePeers(pp, qq) PROVE Keeps(pp, qq)
BY DEF SamePeers, Keeps

LEMMA KeepsTrans ==
    ASSUME NEW pp, NEW qq, NEW rr, Keeps(pp, qq), Keeps(qq, rr)
    PROVE  Keeps(pp, rr)
BY DEF Keeps

\* One connection moves on.
LEMMA MoveOne ==
    ASSUME NEW pp, GoodPeers(pp), NEW p \in Peers, NEW r \in Connection, r.status # "none",
           pp[p].status \in Live => r.status \in Live
    PROVE  Keeps(pp, [pp EXCEPT ![p] = r])
BY DEF GoodPeers, Keeps

LEMMA StartPeerType ==
    ASSUME reachable \in BOOLEAN
    PROVE  StartPeer \in Connection /\ StartPeer.status # "none" /\ StartPeer.status \notin Live
<1>1. ASSUME NEW r \in Connection, NEW status \in {"starting", "waiting"}, NEW b \in BOOLEAN
      PROVE  [r EXCEPT !.status = status, !.timer = b] \in Connection
             /\ [r EXCEPT !.status = status, !.timer = b].status = status
  BY DEF Connection
<1>2. NoConnection \in Connection
  BY NoConnectionType
<1>3. CASE reachable
  BY <1>1, <1>2, <1>3 DEF StartPeer, Live
<1>4. CASE ~reachable
  BY <1>1, <1>2, <1>4 DEF StartPeer, Live
<1> QED BY <1>3, <1>4

\* New connections, to addresses that had none, and those that waited for the network.
LEMMA NewConnections ==
    ASSUME NEW pp, GoodPeers(pp), reachable \in BOOLEAN,
           NEW C \in SUBSET {p \in Peers : pp[p].status \in {"none", "waiting"}}
    PROVE  Keeps(pp, [p \in Peers |-> IF p \in C THEN StartPeer ELSE pp[p]])
<1>1. StartPeer \in Connection /\ StartPeer.status # "none" /\ StartPeer.status \notin Live
  BY StartPeerType
<1> QED BY <1>1 DEF GoodPeers, Keeps, Live

LEMMA RequestUnrelayedKeeps ==
    ASSUME TypeOK, NEW p \in Peers, NEW r, Same(peer[p], r), peer[p].status # "none",
           NEW d \in Peers \cup {NoPeer}, RequestUnrelayed(p, r, d)
    PROVE  SamePeers(peer, peer') /\ requests' \in [Txs -> SUBSET Peers]
<1> DEFINE asked == IF Unrelayed(p) = {} THEN [r EXCEPT !.synced = TRUE]
                    ELSE IF r.synced     THEN r
                                         ELSE Ping(r, "unrelayedDone")
<1>1. GoodPeers(peer)
  BY DEF TypeOK, GoodPeers
<1>2. r \in Connection /\ r.status = peer[p].status
  BY DEF Same
<1>3. Same(r, [r EXCEPT !.synced = TRUE]) /\ Same(r, r) /\ Same(r, Ping(r, "unrelayedDone"))
  <2>1. Same(r, [r EXCEPT !.synced = TRUE]) /\ Same(r, r)
    BY <1>2 DEF Same, Connection
  <2> QED BY <1>2, <2>1, PingSame DEF Callbacks
<1>4. Same(peer[p], asked)
  BY <1>2, <1>3 DEF Same
<1>5. SamePeers(peer, [peer EXCEPT ![p] = asked])
  BY <1>1, <1>4, ChangeOne
<1>6. SamePeers([peer EXCEPT ![p] = asked], peer')
  <2>1. peer' = StopTimer([peer EXCEPT ![p] = asked], d, publishedTx)
    BY DEF RequestUnrelayed
  <2>2. GoodPeers([peer EXCEPT ![p] = asked])
    BY <1>5 DEF SamePeers
  <2> QED BY <2>1, <2>2, StopTimerSame
<1>7. requests' \in [Txs -> SUBSET Peers]
  BY DEF RequestUnrelayed, TypeOK
<1> QED BY <1>5, <1>6, <1>7, SameTrans

\* The types of a state, part by part.
ManagerOK ==
    /\ height \in Nat /\ estimated \in Nat /\ failures \in Nat
    /\ syncing \in BOOLEAN /\ isConnected \in BOOLEAN
    /\ downloadPeer \in Peers \cup {NoPeer}
    /\ known \subseteq Peers
PublishedOK ==
    /\ publishedTx \in [Txs -> {"none", "pending", "listed"}]
    /\ answers \in [Txs -> Nat]
    /\ object \in [Txs -> {"own", "wallet", "freed"}]
    /\ wallet \subseteq Txs
    /\ relays \in [Txs -> SUBSET Peers] /\ requests \in [Txs -> SUBSET Peers]
OutsideOK ==
    /\ calls \in [Places -> Nat]
    /\ notices \in [{"ok", "error"} -> Nat]
    /\ app \in [retries : Nat, disconnecting : BOOLEAN]
    /\ reachable \in BOOLEAN
    /\ budget \in [{"connects", "upsets"} -> Nat]

LEMMA TypeParts == TypeOK <=> ManagerOK /\ GoodPeers(peer) /\ PublishedOK /\ OutsideOK
BY DEF TypeOK, ManagerOK, GoodPeers, PublishedOK, OutsideOK

-----------------------------------------------------------------------------
(* The connections.  _peerDisconnected alone takes a peer out of            *)
(* connectedPeers.                                                          *)

LEMMA ConnectKeeps == ASSUME TypeOK, ConnectLocked \/ ConnectFound PROVE Keeps(peer, peer')
<1>1. GoodPeers(peer) /\ reachable \in BOOLEAN
  BY TypeParts DEF OutsideOK
<1>2. Keeps(peer, peer)
  BY <1>1, SameAll, SameKeeps
<1>3. Keeps(peer, Retried)
  <2>1. Retried = [p \in Peers |-> IF p \in {q \in Peers : peer[q].status = "waiting"}
                                   THEN StartPeer ELSE peer[p]]
    BY DEF Retried
  <2> QED BY <1>1, <2>1, NewConnections
<1>4. ASSUME NEW place, NEW pp \in {peer, Retried}, ConnectPeers(place, pp) PROVE Keeps(peer, peer')
  <2>1. PICK C \in Choices : peer' = [p \in Peers |-> IF p \in C THEN StartPeer ELSE pp[p]]
    BY <1>4 DEF ConnectPeers
  <2>2. C \subseteq {p \in Peers : peer[p].status = "none"}
    BY <1>1, TypeParts DEF Choices, InArray, ManagerOK
  <2>3. \A p \in C : pp[p].status = "none"
    BY <2>2 DEF Retried
  <2>4. Keeps(pp, peer')
    BY <1>1, <1>3, <2>1, <2>2, <2>3, NewConnections DEF Keeps
  <2> QED BY <1>2, <1>3, <2>4, KeepsTrans
<1> QED BY <1>3, <1>4 DEF ConnectLocked, ConnectFound, FindPeers

LEMMA PeerConnectedKeeps ==
    ASSUME TypeOK, DownloadPeerAlive, NEW p \in Peers, PeerConnected(p)
    PROVE  Keeps(peer, peer') /\ (downloadPeer' = downloadPeer \/ downloadPeer' \in Connected(peer'))
<1> DEFINE r   == [Handled(peer[p]) EXCEPT !.status = "connected", !.timer = FALSE]
           pp  == [peer EXCEPT ![p] = r]
           pp1 == IF downloadPeer # NoPeer THEN [pp EXCEPT ![downloadPeer] = Close(@)] ELSE pp
<1>1. GoodPeers(peer) /\ peer[p] \in Connection /\ downloadPeer \in Peers \cup {NoPeer}
  BY TypeParts DEF GoodPeers, ManagerOK
<1>2. r \in Connection /\ r.status = "connected"
  <2>1. Handled(peer[p]) \in Connection
    BY <1>1, OneSame DEF Same
  <2> QED BY <2>1 DEF Connection
<1>3. Keeps(peer, pp) /\ GoodPeers(pp) /\ pp[p] = r
  BY <1>1, <1>2, MoveOne DEF Live, Keeps, GoodPeers
<1> HIDE DEF r, pp
<1>5. SamePeers(pp, pp) /\ SamePeers(pp, pp1)
  <2>1. downloadPeer # NoPeer => downloadPeer \in Peers /\ pp[downloadPeer].status # "none"
    BY <1>1, <1>3 DEF DownloadPeerAlive, Keeps
  <2> QED BY <1>3, <2>1, ChangeSame, SameAll
<1>6. CASE peer' \in {pp, [pp EXCEPT ![p] = CloseOwn(@)], [pp EXCEPT ![p] = FilterThenMempool(@)]}
           /\ downloadPeer' = downloadPeer
  <2>1. SamePeers(pp, [pp EXCEPT ![p] = CloseOwn(@)]) /\ SamePeers(pp, [pp EXCEPT ![p] = FilterThenMempool(@)])
    BY <1>2, <1>3, ChangeSame
  <2>2. SamePeers(pp, peer')
    BY <1>5, <1>6, <2>1
  <2> QED BY <1>3, <1>6, <2>2, SameKeeps, KeepsTrans
<1>7. ASSUME NEW q \in Connected(pp), downloadPeer' = q,
             LET pp2 == [pp1 EXCEPT ![q] = PublishPending(LoadFilter(@), publishedTx)]
             IN  peer' = [pp2 EXCEPT ![q] = Schedule(@)] \/ peer' = LoadMempools(pp2, q, FALSE)
      PROVE  Keeps(peer, peer') /\ downloadPeer' \in Connected(peer')
  <2> DEFINE pp2 == [pp1 EXCEPT ![q] = PublishPending(LoadFilter(@), publishedTx)]
  <2>1. q \in Peers /\ pp[q].status = "connected" /\ pp1[q].status = "connected" /\ GoodPeers(pp1)
    BY <1>5 DEF Connected, SamePeers
  <2> HIDE DEF pp1
  <2>2. SamePeers(pp1, pp2)
    BY <2>1, ChangeSame
  <2>3. GoodPeers(pp2) /\ pp2[q].status = "connected"
    BY <2>1, <2>2 DEF SamePeers
  <2>4. SamePeers(pp2, [pp2 EXCEPT ![q] = Schedule(@)]) /\ SamePeers(pp2, LoadMempools(pp2, q, FALSE))
    BY <2>1, <2>3, ChangeSame, LoadMempoolsSame
  <2>5. SamePeers(pp2, peer')
    BY <1>7, <2>4
  <2>6. SamePeers(pp, peer')
    BY <1>5, <2>2, <2>5, SameTrans
  <2>7. Keeps(peer, peer')
    BY <1>3, <2>6, SameKeeps, KeepsTrans
  <2> QED BY <1>7, <2>1, <2>6, <2>7 DEF SamePeers, Connected
<1> QED BY <1>6, <1>7 DEF PeerConnected, r, pp

LEMMA RelayedBlockKeeps ==
    ASSUME TypeOK, NEW p \in Peers, RelayedBlock(p)
    PROVE  Keeps(peer, peer')
<1> DEFINE pp == [peer EXCEPT ![p] = Handled(@)]
<1>1. GoodPeers(peer) /\ peer[p].status # "none"
  BY TypeParts DEF RelayedBlock, Handles
<1>2. SamePeers(peer, pp)
  BY <1>1, ChangeSame
<1>3. GoodPeers(pp) /\ pp[p].status # "none"
  BY <1>1, <1>2 DEF SamePeers
<1>4. PICK pp1 \in {pp, [pp EXCEPT ![p] = Schedule(@)]}, degraded \in BOOLEAN :
        peer' \in {pp1, LoadMempools(pp1, downloadPeer, degraded)}
  BY DEF RelayedBlock
<1> HIDE DEF pp
<1>5. SamePeers(pp, pp1)
  <2>1. SamePeers(pp, pp) /\ SamePeers(pp, [pp EXCEPT ![p] = Schedule(@)])
    BY <1>3, ChangeSame, SameAll
  <2> QED BY <1>4, <2>1
<1>6. SamePeers(pp1, peer')
  <2>1. GoodPeers(pp1)
    BY <1>5 DEF SamePeers
  <2> QED BY <1>4, <2>1, SameAll, LoadMempoolsSame
<1> QED BY <1>2, <1>5, <1>6, SameTrans, SameKeeps

\* The connection p changes as its thread handles a pong, or abandons a ping.
LEMMA PongKeeps ==
    ASSUME TypeOK, NEW p \in Peers, Pong(p) \/ AbandonPing(p)
    PROVE  Keeps(peer, peer') /\ requests' \in [Txs -> SUBSET Peers]
<1> DEFINE rest == [peer[p] EXCEPT !.pings = Tail(@)]
<1>1. GoodPeers(peer) /\ peer[p] \in Connection /\ peer[p].status # "none" /\ peer[p].pings # <<>>
  BY TypeParts DEF Pong, AbandonPing, Handles, GoodPeers
<1>2. downloadPeer \in Peers \cup {NoPeer} /\ requests \in [Txs -> SUBSET Peers]
  BY TypeParts DEF ManagerOK, PublishedOK
<1>3. rest \in Connection /\ Same(peer[p], rest)
  BY <1>1, TailSame DEF Same
<1> HIDE DEF rest
<1>4. /\ Same(peer[p], Handled(rest)) /\ Same(peer[p], SendMempool(Handled(rest)))
      /\ Same(peer[p], [Handled(rest) EXCEPT !.synced = TRUE])
  <2>1. Same(rest, Handled(rest)) /\ Handled(rest) \in Connection
    BY <1>3, OneSame DEF Same
  <2>2. Same(Handled(rest), SendMempool(Handled(rest)))
    BY <2>1, OneSame
  <2>3. Same(Handled(rest), [Handled(rest) EXCEPT !.synced = TRUE])
    BY <2>1 DEF Same, Connection
  <2> QED BY <1>3, <2>1, <2>2, <2>3 DEF Same
<1>5. \A s : Same(peer[p], s) => SamePeers(peer, [peer EXCEPT ![p] = s])
  BY <1>1, ChangeOne
<1>6. \A s, d : Same(peer[p], s) /\ d \in Peers \cup {NoPeer} /\ RequestUnrelayed(p, s, d)
               => SamePeers(peer, peer') /\ requests' \in [Txs -> SUBSET Peers]
  BY <1>1, RequestUnrelayedKeeps
<1>7. SamePeers(peer, StopTimer([peer EXCEPT ![p] = rest], p, publishedTx))
  <2>1. SamePeers(peer, [peer EXCEPT ![p] = rest])
    BY <1>3, <1>5
  <2> DEFINE pp == [peer EXCEPT ![p] = rest]
  <2>2. GoodPeers(pp)
    BY <2>1 DEF SamePeers
  <2> HIDE DEF pp
  <2>3. SamePeers(pp, StopTimer(pp, p, publishedTx))
    BY <2>2, StopTimerSame
  <2> QED BY <2>1, <2>3, SameTrans DEF pp
<1>8. CASE Pong(p)
  <2>1. \/ peer' = [peer EXCEPT ![p] = SendMempool(Handled(rest))] /\ UNCHANGED requests
        \/ RequestUnrelayed(p, Handled(rest), downloadPeer)
        \/ RequestUnrelayed(p, Handled(rest), NoPeer)
        \/ peer' = [peer EXCEPT ![p] = [Handled(rest) EXCEPT !.synced = TRUE]] /\ UNCHANGED requests
    BY <1>8, Zenon DEF Pong, rest
  <2> QED BY <1>2, <1>4, <1>5, <1>6, <2>1, SameKeeps
<1>9. CASE AbandonPing(p)
  <2>1. \/ peer' = StopTimer([peer EXCEPT ![p] = rest], p, publishedTx) /\ UNCHANGED requests
        \/ RequestUnrelayed(p, rest, NoPeer)
        \/ peer' = [peer EXCEPT ![p] = rest] /\ UNCHANGED requests
    BY <1>9, Zenon DEF AbandonPing, rest
  <2> QED BY <1>2, <1>3, <1>5, <1>6, <1>7, <2>1, SameKeeps
<1> QED BY <1>8, <1>9

\* Messages about transactions, and pings that are due, come to a connection that stays.
LEMMA MessageKeeps ==
    ASSUME TypeOK, NEW p \in Peers,
           \/ MempoolAnswered(p)
           \/ \E t \in Txs : RelayedTx(p, t) \/ HasTx(p, t) \/ RequestedTx(p, t) \/ RejectedTx(p, t)
                               \/ NotFound(p, t)
    PROVE  Keeps(peer, peer')
<1> DEFINE h == Handled(peer[p])
           m == [peer[p] EXCEPT !.waits = FALSE]
<1>1. GoodPeers(peer) /\ peer[p] \in Connection /\ peer[p].status # "none"
  BY TypeParts DEF MempoolAnswered, RelayedTx, HasTx, RequestedTx, RejectedTx, NotFound, Handles, GoodPeers
<1>2. \A s : Same(peer[p], s) => Keeps(peer, [peer EXCEPT ![p] = s])
  BY <1>1, ChangeOne, SameKeeps
<1>3. Same(peer[p], h) /\ Same(h, h) /\ Same(h, Schedule(h)) /\ Same(h, Unschedule(h))
      /\ Same(h, Schedule(Unschedule(h))) /\ Same(peer[p], CloseOwn(peer[p]))
  <2>1. Same(peer[p], h) /\ Same(peer[p], CloseOwn(peer[p]))
    BY <1>1, OneSame
  <2>2. Same(h, h) /\ Same(h, Schedule(h)) /\ Same(h, Unschedule(h))
    BY <2>1, OneSame DEF Same
  <2>3. Same(Unschedule(h), Schedule(Unschedule(h)))
    BY <2>2, OneSame DEF Same
  <2> QED BY <2>1, <2>2, <2>3 DEF Same
<1>4. Same(peer[p], Ping(m, "mempoolDone"))
  <2>1. Same(peer[p], m)
    BY <1>1 DEF Same, Connection
  <2>2. Same(m, Ping(m, "mempoolDone"))
    BY <2>1, PingSame DEF Same, Callbacks
  <2> QED BY <2>1, <2>2 DEF Same
<1>5. PICK s \in {h, Schedule(h), Unschedule(h), Schedule(Unschedule(h)), CloseOwn(peer[p]), Ping(m, "mempoolDone")} :
        peer' = [peer EXCEPT ![p] = s]
  BY DEF MempoolAnswered, RelayedTx, HasTx, RequestedTx, RejectedTx, NotFound, AfterAnswer, KeepSyncing
<1>6. Same(peer[p], s)
  BY <1>3, <1>4 DEF Same
<1> QED BY <1>2, <1>5, <1>6

\* The application's calls.
LEMMA ApplicationKeeps ==
    ASSUME TypeOK, Disconnect \/ (\E h \in 0 .. height : Rescan(h)) \/ (\E t \in Txs : PublishTx(t))
    PROVE  Keeps(peer, peer')
<1>1. GoodPeers(peer) /\ downloadPeer \in Peers \cup {NoPeer}
  BY TypeParts DEF ManagerOK
<1>2. ASSUME NEW p \in Peers
      PROVE  /\ Same(peer[p], peer[p]) /\ Same(peer[p], Close(peer[p]))
             /\ Same(peer[p], Ping(Schedule(peer[p]), "publishDone"))
  <2>1. Same(peer[p], peer[p]) /\ Same(peer[p], Close(peer[p])) /\ Same(peer[p], Schedule(peer[p]))
    BY <1>1, OneSame DEF GoodPeers
  <2>2. Same(Schedule(peer[p]), Ping(Schedule(peer[p]), "publishDone"))
    BY <2>1, PingSame DEF Same, Callbacks
  <2> QED BY <2>1, <2>2 DEF Same
<1>3. ASSUME NEW p \in Peers PROVE peer[p].status = "none" => Close(peer[p]) = peer[p]
  BY <1>1, EmptySame DEF GoodPeers
<1>4. CASE Disconnect
  BY <1>1, <1>2, <1>3, <1>4 DEF Disconnect, Keeps, GoodPeers, Same
<1>5. ASSUME NEW h \in 0 .. height, Rescan(h) PROVE Keeps(peer, peer')
  <2>1. CASE peer' = peer
    BY <1>1, <2>1, SameAll, SameKeeps
  <2>2. CASE downloadPeer \in Peers /\ peer' = [peer EXCEPT ![downloadPeer] = Close(@)]
    BY <1>1, <1>2, <1>3, <2>2, ChangeOne, SameKeeps DEF GoodPeers
  <2> QED BY <1>1, <1>5, <2>1, <2>2 DEF Rescan
<1>6. ASSUME NEW t \in Txs, PublishTx(t) PROVE Keeps(peer, peer')
  <2>1. CASE peer' = peer
    BY <1>1, <2>1, SameAll, SameKeeps
  <2>2. ASSUME NEW to \in SUBSET Connected(peer),
               peer' = [p \in Peers |-> IF p \in to THEN Ping(Schedule(peer[p]), "publishDone") ELSE peer[p]]
        PROVE  Keeps(peer, peer')
    <3>1. \A p \in to : peer[p].status # "none"
      BY DEF Connected
    <3> QED BY <1>1, <1>2, <2>2, <3>1 DEF Keeps, GoodPeers, Same
  <2>3. \/ peer' = peer
        \/ \E to \in SUBSET Connected(peer) :
              peer' = [p \in Peers |-> IF p \in to THEN Ping(Schedule(peer[p]), "publishDone") ELSE peer[p]]
    BY <1>6 DEF PublishTx
  <2> QED BY <2>1, <2>2, <2>3
<1> QED BY <1>4, <1>5, <1>6

LEMMA ThreadKeeps ==
    ASSUME TypeOK, NEW p \in Peers, OpenSocket(p) \/ \E e \in Errors : EndLoop(p, e)
    PROVE  Keeps(peer, peer')
<1>1. GoodPeers(peer) /\ peer[p] \in Connection
  BY TypeParts DEF GoodPeers
<1>2. CASE OpenSocket(p)
  <2> DEFINE r == [peer[p] EXCEPT !.status = "connecting", !.sock = "open"]
  <2>1. peer' = [peer EXCEPT ![p] = r] /\ peer[p].status \notin Live
    BY <1>2 DEF OpenSocket, Live
  <2>2. r \in Connection /\ r.status = "connecting"
    BY <1>1 DEF Connection
  <2> HIDE DEF r
  <2> QED BY <1>1, <2>1, <2>2, MoveOne
<1>3. ASSUME NEW e \in Errors, EndLoop(p, e) PROVE Keeps(peer, peer')
  <2> DEFINE r == [peer[p] EXCEPT !.status = "ended", !.sock = "closed", !.error = e]
  <2>1. peer' = [peer EXCEPT ![p] = r]
    BY <1>3 DEF EndLoop
  <2>2. r \in Connection /\ r.status = "ended"
    BY <1>1 DEF Connection
  <2> HIDE DEF r
  <2> QED BY <1>1, <2>1, <2>2, MoveOne DEF Live
<1> QED BY <1>2, <1>3

LEMMA StepKeeps ==
    ASSUME TypeOK, DownloadPeerAlive, [Next]_vars
    PROVE  Keeps(peer, peer') \/ \E p \in Peers : Disconnected(p)
<1>1. CASE UNCHANGED peer
  <2>1. Keeps(peer, peer)
    BY TypeParts, SameAll, SameKeeps
  <2> QED BY <1>1, <2>1
<1>2. ASSUME NEW p \in Peers, PeerStep(p) PROVE Keeps(peer, peer') \/ Disconnected(p)
  BY <1>2, ThreadKeeps, PeerConnectedKeeps, RelayedBlockKeeps, MessageKeeps, PongKeeps DEF PeerStep
<1>3. CASE ConnectBegin \/ SyncStarted \/ AppConnect \/ NetworkChanges \/ DisconnectReturns
           \/ (\E e \in {"ok", "error"} : SyncStopped(e)) \/ UNCHANGED vars
  <2>1. UNCHANGED peer
    BY <1>3 DEF ConnectBegin, SyncStarted, AppConnect, NetworkChanges, DisconnectReturns, SyncStopped, vars
  <2> QED BY <1>1, <2>1
<1> QED BY <1>2, <1>3, ConnectKeeps, ApplicationKeeps DEF Next

\* What _peerDisconnected leaves: an empty connection, that the download peer is not.
LEMMA DisconnectedForgets ==
    ASSUME TypeOK, NEW p \in Peers, Disconnected(p)
    PROVE  /\ GoodPeers(peer')
           /\ peer'[p] = NoConnection /\ \A q \in Peers \ {p} : peer'[q] = peer[q]
           /\ downloadPeer' = IF p = downloadPeer THEN NoPeer ELSE downloadPeer
           /\ isConnected' = (isConnected /\ p # downloadPeer)
           /\ relays' = [t \in Txs |-> relays[t] \ {p}]
<1>1. GoodPeers(peer) /\ peer' = [peer EXCEPT ![p] = NoConnection]
  BY TypeParts DEF Disconnected, Forget
<1>2. GoodPeers(peer')
  BY <1>1, NoConnectionType DEF GoodPeers
<1> QED BY <1>1, <1>2 DEF Disconnected, GoodPeers, NextDownload, ForgetRelays

-----------------------------------------------------------------------------
(* The other parts of the state.                                            *)

\* Calls of BRPeerManagerConnect, of syncStopped, and the bounds.
LEMMA NotifyType ==
    ASSUME OutsideOK, NEW e \in {"ok", "error"}, Notify(e)
    PROVE  notices' \in [{"ok", "error"} -> Nat]
BY DEF OutsideOK, Notify

LEMMA SpendType ==
    ASSUME OutsideOK, NEW d \in {"connects", "upsets"}, Spend(d)
    PROVE  budget' \in [{"connects", "upsets"} -> Nat]
BY DEF OutsideOK, Spend

LEMMA CallConnectType == ASSUME OutsideOK, CallConnect PROVE calls' \in [Places -> Nat]
BY DEF OutsideOK, CallConnect, Places

LEMMA MoveCallType ==
    ASSUME OutsideOK, NEW a \in Places, NEW b \in Places, a # b, calls[a] > 0
    PROVE  /\ [calls EXCEPT ![a] = @ - 1] \in [Places -> Nat]
           /\ [calls EXCEPT ![a] = @ - 1, ![b] = @ + 1] \in [Places -> Nat]
           /\ [calls EXCEPT ![a] = @ - 1, ![b] = @ + 1][b] > 0
BY DEF OutsideOK

LEMMA OutsideStep ==
    ASSUME OutsideOK, [Next]_vars
    PROVE  OutsideOK'
<1> USE DEF OutsideOK
<1>1. CASE UNCHANGED outside
  BY <1>1 DEF outside
<1>2. CASE ConnectBegin \/ SyncStarted
  BY <1>2, MoveCallType DEF ConnectBegin, SyncStarted, Places
<1>3. CASE ConnectLocked \/ ConnectFound
  <2>1. PICK place \in {"started", "found"} :
          /\ calls[place] > 0
          /\ calls' \in {[calls EXCEPT ![place] = @ - 1], [calls EXCEPT !["started"] = @ - 1, !["found"] = @ + 1]}
          /\ Notify("error") \/ UNCHANGED notices
          /\ place = "found" => calls' = [calls EXCEPT ![place] = @ - 1]
          /\ UNCHANGED <<app, reachable, budget>>
    BY <1>3 DEF ConnectLocked, ConnectFound, ConnectPeers, FindPeers
  <2>2. calls' \in [Places -> Nat]
    BY <2>1, MoveCallType DEF Places
  <2>3. notices' \in [{"ok", "error"} -> Nat]
    BY <2>1, NotifyType
  <2> QED BY <2>1, <2>2, <2>3
<1>4. ASSUME NEW p \in Peers, PeerStep(p) PROVE OutsideOK'
  <2>1. CASE OpenSocket(p) \/ PeerConnected(p) \/ RelayedBlock(p) \/ MempoolAnswered(p)
             \/ \E t \in Txs : RelayedTx(p, t) \/ HasTx(p, t) \/ RequestedTx(p, t) \/ NotFound(p, t)
    BY <1>1, <2>1 DEF OpenSocket, PeerConnected, RelayedBlock, MempoolAnswered, RelayedTx, HasTx,
                      RequestedTx, NotFound
  <2>2. CASE (\E e \in Errors : EndLoop(p, e)) \/ (\E t \in Txs : RejectedTx(p, t))
    <3>1. UNCHANGED <<calls, notices, app, reachable>> /\ (UNCHANGED budget \/ Spend("upsets"))
      BY <2>2 DEF EndLoop, RejectedTx, Upset
    <3> QED BY <3>1, SpendType
  <2>3. CASE Pong(p) \/ AbandonPing(p)
    <3>1. UNCHANGED <<calls, app, reachable, budget>> /\ (UNCHANGED notices \/ Notify("ok"))
      BY <2>3 DEF Pong, AbandonPing
    <3> QED BY <3>1, NotifyType
  <2>4. CASE Disconnected(p)
    <3>1. /\ UNCHANGED <<app, reachable, budget>>
          /\ UNCHANGED notices \/ \E e \in {"ok", "error"} : Notify(e)
          /\ UNCHANGED calls \/ CallConnect
      BY <2>4 DEF Disconnected
    <3> QED BY <3>1, NotifyType, CallConnectType
  <2> QED BY <1>4, <2>1, <2>2, <2>3, <2>4 DEF PeerStep
<1>5. CASE AppConnect \/ NetworkChanges \/ (\E h \in 0 .. height : Rescan(h))
  <2>1. /\ UNCHANGED <<notices, app>> /\ CallConnect /\ (Spend("connects") \/ Spend("upsets"))
        /\ reachable' \in {reachable, ~reachable}
    BY <1>5 DEF AppConnect, NetworkChanges, Rescan, Upset
  <2> QED BY <2>1, SpendType, CallConnectType
<1>6. CASE Disconnect \/ DisconnectReturns
  <2>1. /\ UNCHANGED <<calls, notices, reachable>> /\ (Spend("upsets") \/ UNCHANGED budget)
        /\ app' \in {[app EXCEPT !.disconnecting = TRUE], [app EXCEPT !.disconnecting = FALSE]}
    BY <1>6 DEF Disconnect, DisconnectReturns, Upset
  <2> QED BY <2>1, SpendType
<1>7. CASE \E t \in Txs : PublishTx(t)
  BY <1>1, <1>7 DEF PublishTx
<1>8. ASSUME NEW e \in {"ok", "error"}, SyncStopped(e) PROVE OutsideOK'
  <2>1. UNCHANGED calls \/ CallConnect
    BY <1>8 DEF SyncStopped
  <2> DEFINE n == IF e = "error" /\ app.retries < SyncMaxRetry THEN app.retries + 1
                  ELSE IF e = "error" THEN 0 ELSE app.retries
  <2>2. n \in Nat /\ app' = [app EXCEPT !.retries = n]
    BY <1>8 DEF SyncStopped
  <2> HIDE DEF n
  <2>3. app' \in [retries : Nat, disconnecting : BOOLEAN]
    BY <2>2
  <2>4. notices' \in [{"ok", "error"} -> Nat]
    BY <1>8 DEF SyncStopped
  <2> QED BY <1>8, <2>1, <2>3, <2>4, CallConnectType DEF SyncStopped
<1> QED BY <1>1, <1>2, <1>3, <1>4, <1>5, <1>6, <1>7, <1>8 DEF Next, vars

LEMMA ManagerStep ==
    ASSUME TypeOK, DownloadPeerAlive, [Next]_vars
    PROVE  ManagerOK'
<1> USE DEF ManagerOK
<1>0. ManagerOK /\ PeerAssumption
  BY TypeParts, PeerAssumption
<1>1. CASE UNCHANGED manager
  BY <1>0, <1>1 DEF manager
<1>2. CASE ConnectBegin
  BY <1>0, <1>2 DEF ConnectBegin
<1>3. CASE ConnectLocked \/ ConnectFound
  BY <1>0, <1>3 DEF ConnectLocked, ConnectFound, ConnectPeers, FindPeers
<1>4. ASSUME NEW p \in Peers, PeerStep(p) PROVE ManagerOK'
  <2>1. CASE OpenSocket(p) \/ MempoolAnswered(p) \/ (\E e \in Errors : EndLoop(p, e))
             \/ \E t \in Txs : RelayedTx(p, t) \/ HasTx(p, t) \/ RequestedTx(p, t) \/ NotFound(p, t)
    BY <1>1, <2>1 DEF OpenSocket, MempoolAnswered, EndLoop, RelayedTx, HasTx, RequestedTx, NotFound
  <2>2. CASE PeerConnected(p)
    <3>1. UNCHANGED <<height, syncing, known>> /\ failures' \in {failures, 0}
          /\ estimated' \in {estimated} \cup {LastBlock[q] : q \in Peers}
      BY <2>2 DEF PeerConnected, Connected
    <3>2. downloadPeer' \in Peers \cup {NoPeer}
      BY <1>0, <2>2, PeerConnectedKeeps DEF Connected
    <3>3. estimated' \in Nat
      BY <1>0, <3>1 DEF PeerAssumption
    <3>4. isConnected' \in BOOLEAN
      BY <1>0, <2>2 DEF PeerConnected
    <3> QED BY <1>0, <3>1, <3>2, <3>3, <3>4
  <2>3. CASE RelayedBlock(p)
    BY <1>0, <2>3 DEF RelayedBlock
  <2>4. CASE Pong(p) \/ AbandonPing(p)
    <3>1. UNCHANGED <<height, estimated, failures, isConnected, downloadPeer, known>>
          /\ syncing' \in {syncing, FALSE}
      BY <2>4 DEF Pong, AbandonPing
    <3> QED BY <1>0, <3>1
  <2>5. CASE Disconnected(p)
    <3>1. UNCHANGED <<height, estimated>> /\ known' \subseteq Peers
          /\ downloadPeer' \in Peers \cup {NoPeer}
          /\ isConnected' \in BOOLEAN /\ syncing' \in BOOLEAN
      BY <1>0, <2>5 DEF Disconnected, NextDownload
    <3>2. failures' \in Nat
      BY <1>0, <2>5 DEF Disconnected, Capped, PeerAssumption
    <3> QED BY <3>1, <3>2, <1>0
  <2>6. CASE \E t \in Txs : RejectedTx(p, t)
    BY <1>0, <2>6 DEF RejectedTx
  <2> QED BY <1>4, <2>1, <2>2, <2>3, <2>4, <2>5, <2>6 DEF PeerStep
<1>5. CASE SyncStarted \/ AppConnect \/ NetworkChanges \/ DisconnectReturns
           \/ (\E t \in Txs : PublishTx(t)) \/ (\E e \in {"ok", "error"} : SyncStopped(e))
  BY <1>1, <1>5 DEF SyncStarted, AppConnect, NetworkChanges, DisconnectReturns, PublishTx, SyncStopped
<1>6. CASE Disconnect
  BY <1>0, <1>6 DEF Disconnect, PeerAssumption
<1>7. ASSUME NEW h \in 0 .. height, Rescan(h) PROVE ManagerOK'
  <2>1. h \in Nat
    BY <1>0
  <2> QED BY <1>0, <1>7, <2>1 DEF Rescan
<1> QED BY <1>1, <1>2, <1>3, <1>4, <1>5, <1>6, <1>7 DEF Next, vars

\* A publication's callback is called once at most: it is not waiting when it has been.
AnsweredOnce == \A t \in Txs : answers[t] \in {0, 1} /\ (publishedTx[t] = "pending" => answers[t] = 0)

\* The lists of transactions.  relays grow by peers that are connected.
RelaysFrom == \A t \in Txs : relays'[t] \subseteq relays[t] \cup Connected(peer)

LEMMA AnsweredType ==
    ASSUME PublishedOK, AnsweredOnce, NEW t \in Txs, Answered(t)
    PROVE  publishedTx' \in [Txs -> {"none", "pending", "listed"}] /\ answers' \in [Txs -> Nat] /\ AnsweredOnce'
BY DEF PublishedOK, AnsweredOnce, Answered

LEMMA PublishedStep ==
    ASSUME TypeOK, AnsweredOnce, [Next]_vars
    PROVE  PublishedOK' /\ AnsweredOnce' /\ RelaysFrom
<1> USE DEF RelaysFrom
<1>0. PublishedOK
  BY TypeParts
<1>1. CASE UNCHANGED published
  BY <1>0, <1>1 DEF published, PublishedOK, AnsweredOnce
<1>2. ASSUME NEW p \in Peers, PeerStep(p) PROVE PublishedOK' /\ AnsweredOnce' /\ RelaysFrom
  <2>1. CASE OpenSocket(p) \/ PeerConnected(p) \/ RelayedBlock(p) \/ MempoolAnswered(p)
             \/ \E e \in Errors : EndLoop(p, e)
    BY <1>1, <2>1 DEF OpenSocket, PeerConnected, RelayedBlock, MempoolAnswered, EndLoop
  <2>2. CASE Pong(p) \/ AbandonPing(p)
    <3>1. requests' \in [Txs -> SUBSET Peers]
      BY <2>2, PongKeeps
    <3>2. UNCHANGED <<publishedTx, answers, relays>>
      BY <2>2 DEF Pong, AbandonPing
    <3>3. wallet' \subseteq wallet /\ object' \in [Txs -> {"own", "wallet", "freed"}]
      BY <1>0, <2>2 DEF Pong, AbandonPing, DropUnrelayed, PublishedOK
    <3> QED BY <1>0, <3>1, <3>2, <3>3 DEF PublishedOK, AnsweredOnce
  <2>3. CASE Disconnected(p)
    <3>1. PICK cancels \in BOOLEAN : Cancel(cancels)
      BY <2>3 DEF Disconnected
    <3>2. publishedTx' \in [Txs -> {"none", "pending", "listed"}] /\ answers' \in [Txs -> Nat] /\ AnsweredOnce'
      BY <1>0, <3>1 DEF Cancel, PublishedOK, AnsweredOnce
    <3>3. relays' = [t \in Txs |-> relays[t] \ {p}]
      BY <2>3, DisconnectedForgets
    <3>4. UNCHANGED <<object, wallet, requests>>
      BY <2>3 DEF Disconnected
    <3> QED BY <1>0, <3>2, <3>3, <3>4 DEF PublishedOK
  <2>4. ASSUME NEW t \in Txs, RelayedTx(p, t) \/ HasTx(p, t) \/ RequestedTx(p, t)
        PROVE  PublishedOK' /\ AnsweredOnce' /\ RelaysFrom
    <3>1. /\ wallet' \subseteq wallet \cup {t}
          /\ object' \in {object, [object EXCEPT ![t] = "wallet"], [object EXCEPT ![t] = object[t]]}
          /\ relays' \in {[relays EXCEPT ![t] = @ \cup {p}], [relays EXCEPT ![t] = @]}
          /\ requests' \in {requests, [requests EXCEPT ![t] = @ \ {p}], [requests EXCEPT ![t] = @]}
      BY <2>4 DEF RelayedTx, HasTx, RequestedTx
    <3>2. \/ Answered(t)
          \/ publishedTx[t] = "none" /\ publishedTx' = [publishedTx EXCEPT ![t] = "listed"] /\ UNCHANGED answers
      BY <2>4 DEF RelayedTx, HasTx, RequestedTx
    <3>3. publishedTx' \in [Txs -> {"none", "pending", "listed"}] /\ answers' \in [Txs -> Nat] /\ AnsweredOnce'
      BY <1>0, <3>2, AnsweredType DEF PublishedOK, AnsweredOnce
    <3>4. p \in Connected(peer)
      BY <2>4 DEF RelayedTx, HasTx, RequestedTx, Handles, Connected
    <3> QED BY <1>0, <3>1, <3>3, <3>4 DEF PublishedOK
  <2>5. ASSUME NEW t \in Txs, RejectedTx(p, t) \/ NotFound(p, t)
        PROVE  PublishedOK' /\ AnsweredOnce' /\ RelaysFrom
    <3>1. UNCHANGED <<publishedTx, object, answers, wallet>>
          /\ requests' = [requests EXCEPT ![t] = @ \ {p}]
          /\ relays' \in {[relays EXCEPT ![t] = @ \ {p}], [relays EXCEPT ![t] = @]}
      BY <2>5 DEF RejectedTx, NotFound
    <3> QED BY <1>0, <3>1 DEF PublishedOK, AnsweredOnce
  <2> QED BY <1>2, <2>1, <2>2, <2>3, <2>4, <2>5 DEF PeerStep
<1>3. CASE ConnectBegin \/ SyncStarted \/ ConnectLocked \/ ConnectFound \/ AppConnect \/ NetworkChanges
           \/ Disconnect \/ DisconnectReturns \/ (\E h \in 0 .. height : Rescan(h))
           \/ (\E e \in {"ok", "error"} : SyncStopped(e))
  BY <1>1, <1>3 DEF ConnectBegin, SyncStarted, ConnectLocked, ConnectFound, AppConnect, NetworkChanges,
                    Disconnect, DisconnectReturns, Rescan, SyncStopped
<1>4. ASSUME NEW t \in Txs, PublishTx(t) PROVE PublishedOK' /\ AnsweredOnce' /\ RelaysFrom
  BY <1>0, <1>4 DEF PublishTx, PublishedOK, AnsweredOnce
<1> QED BY <1>1, <1>2, <1>3, <1>4 DEF Next, vars

-----------------------------------------------------------------------------
(* The invariant.                                                           *)

Inv == TypeOK /\ RelaysAreConnected /\ DownloadPeerAlive /\ AnsweredOnce

LEMMA InitInv == Init => Inv
<1> SUFFICES ASSUME Init PROVE Inv
  OBVIOUS
<1>1. ManagerOK
  BY PeerAssumption DEF Init, ManagerOK, PeerAssumption
<1>2. GoodPeers(peer)
  BY NoConnectionType DEF Init, GoodPeers
<1>3. PublishedOK
  BY DEF Init, PublishedOK
<1>4. OutsideOK
  BY BoundsAssumption DEF Init, OutsideOK, BoundsAssumption
<1>5. RelaysAreConnected /\ DownloadPeerAlive /\ AnsweredOnce
  BY DEF Init, RelaysAreConnected, DownloadPeerAlive, AnsweredOnce
<1> QED BY <1>1, <1>2, <1>3, <1>4, <1>5, TypeParts DEF Inv

LEMMA RelaysStep ==
    ASSUME Inv, [Next]_vars
    PROVE  RelaysAreConnected'
<1>1. RelaysFrom /\ relays' \in [Txs -> SUBSET Peers] /\ TypeOK /\ relays \in [Txs -> SUBSET Peers]
  BY PublishedStep, TypeParts DEF Inv, PublishedOK
<1>2. CASE Keeps(peer, peer')
  BY <1>1, <1>2 DEF Inv, RelaysAreConnected, RelaysFrom, InArray, Connected, Keeps
<1>3. ASSUME NEW p \in Peers, Disconnected(p) PROVE RelaysAreConnected'
  <2>1. /\ relays' = [t \in Txs |-> relays[t] \ {p}]
        /\ \A q \in Peers \ {p} : peer'[q] = peer[q]
    BY <1>1, <1>3, DisconnectedForgets
  <2> QED BY <1>1, <2>1 DEF Inv, RelaysAreConnected, InArray
<1> QED BY <1>2, <1>3, StepKeeps DEF Inv

LEMMA DownloadPeerStep ==
    ASSUME Inv, [Next]_vars
    PROVE  DownloadPeerAlive'
<1>0. TypeOK /\ DownloadPeerAlive /\ ManagerOK /\ NoPeer \notin Peers
  BY TypeParts, PeerAssumption DEF Inv, PeerAssumption
<1>1. CASE Keeps(peer, peer') /\ UNCHANGED <<isConnected, downloadPeer>>
  BY <1>0, <1>1 DEF DownloadPeerAlive, Keeps, Live, ManagerOK
<1>2. ASSUME NEW p \in Peers, Disconnected(p) PROVE DownloadPeerAlive'
  <2>1. /\ \A q \in Peers \ {p} : peer'[q] = peer[q]
        /\ downloadPeer' = IF p = downloadPeer THEN NoPeer ELSE downloadPeer
        /\ isConnected' = (isConnected /\ p # downloadPeer)
    BY <1>0, <1>2, DisconnectedForgets
  <2> QED BY <1>0, <2>1 DEF DownloadPeerAlive, ManagerOK
<1>3. ASSUME NEW p \in Peers, PeerConnected(p) PROVE DownloadPeerAlive'
  <2>1. Keeps(peer, peer') /\ (downloadPeer' = downloadPeer \/ downloadPeer' \in Connected(peer'))
    BY <1>0, <1>3, PeerConnectedKeeps
  <2>2. \/ UNCHANGED <<isConnected, downloadPeer>>
        \/ isConnected' = TRUE /\ downloadPeer' \in Peers /\ downloadPeer' \in Connected(peer')
    <3>1. UNCHANGED <<isConnected, downloadPeer>> \/ (isConnected' = TRUE /\ downloadPeer' \in Peers)
      BY <1>3 DEF PeerConnected, Connected
    <3>2. CASE isConnected' = TRUE /\ downloadPeer' = downloadPeer /\ downloadPeer' \in Peers
      BY <1>0, <3>2 DEF DownloadPeerAlive
    <3> QED BY <2>1, <3>1, <3>2
  <2> QED BY <1>0, <1>1, <2>1, <2>2 DEF DownloadPeerAlive, Connected
<1>4. \/ UNCHANGED <<isConnected, downloadPeer>>
      \/ \E p \in Peers : PeerConnected(p) \/ Disconnected(p)
  <2>1. CASE UNCHANGED manager
    BY <2>1 DEF manager
  <2>2. ASSUME NEW p \in Peers, PeerStep(p)
        PROVE  UNCHANGED <<isConnected, downloadPeer>> \/ PeerConnected(p) \/ Disconnected(p)
    <3>1. CASE OpenSocket(p) \/ MempoolAnswered(p) \/ (\E e \in Errors : EndLoop(p, e))
               \/ \E t \in Txs : RelayedTx(p, t) \/ HasTx(p, t) \/ RequestedTx(p, t) \/ NotFound(p, t)
      BY <3>1 DEF OpenSocket, MempoolAnswered, EndLoop, RelayedTx, HasTx, RequestedTx, NotFound, manager
    <3>2. CASE RelayedBlock(p) \/ Pong(p) \/ AbandonPing(p) \/ \E t \in Txs : RejectedTx(p, t)
      BY <3>2 DEF RelayedBlock, Pong, AbandonPing, RejectedTx
    <3> QED BY <2>2, <3>1, <3>2 DEF PeerStep
  <2>3. CASE ConnectBegin \/ SyncStarted \/ ConnectLocked \/ ConnectFound \/ AppConnect \/ NetworkChanges
             \/ Disconnect \/ DisconnectReturns \/ (\E h \in 0 .. height : Rescan(h))
             \/ (\E t \in Txs : PublishTx(t)) \/ (\E e \in {"ok", "error"} : SyncStopped(e))
    BY <2>1, <2>3 DEF ConnectBegin, SyncStarted, ConnectLocked, ConnectFound, AppConnect,
              NetworkChanges, Disconnect, DisconnectReturns, Rescan, PublishTx, SyncStopped
  <2> QED BY <2>1, <2>2, <2>3 DEF Next, vars
<1>5. Keeps(peer, peer') \/ \E p \in Peers : Disconnected(p)
  BY <1>0, StepKeeps
<1> QED BY <1>1, <1>2, <1>3, <1>4, <1>5

LEMMA InvStep == ASSUME Inv, [Next]_vars PROVE Inv'
<1>1. ManagerOK'
  BY ManagerStep DEF Inv
<1>2. PublishedOK' /\ AnsweredOnce'
  BY PublishedStep DEF Inv
<1>3. OutsideOK'
  BY OutsideStep, TypeParts DEF Inv
<1>4. GoodPeers(peer)'
  <2>1. ASSUME NEW p \in Peers, Disconnected(p) PROVE GoodPeers(peer')
    BY <2>1, DisconnectedForgets DEF Inv
  <2>2. GoodPeers(peer')
    BY <2>1, StepKeeps DEF Inv, Keeps
  <2> QED BY <2>2 DEF GoodPeers
<1>5. TypeOK'
  BY <1>1, <1>2, <1>3, <1>4 DEF TypeOK, ManagerOK, GoodPeers, PublishedOK, OutsideOK
<1> QED BY <1>2, <1>5, RelaysStep, DownloadPeerStep DEF Inv

LEMMA InvAlways == Spec => []Inv
<1>1. Inv /\ [Next]_vars => Inv'
  BY InvStep
<1> QED BY <1>1, InitInv, PTL DEF Spec

\* A manager's state has its types, for any nodes, transactions and bounds: an address
\* that left connectedPeers keeps nothing of its thread.
THEOREM ManagerTypeCorrect == Spec => []TypeOK
<1>1. Inv => TypeOK
  BY DEF Inv
<1> QED BY <1>1, InvAlways, PTL

\* BRPeerManagerRelayCount counts connected peers only.
THEOREM RelaysConnected == Spec => []RelaysAreConnected
<1>1. Inv => RelaysAreConnected
  BY DEF Inv
<1> QED BY <1>1, InvAlways, PTL

\* downloadPeer never points to a peer that was freed, and isConnected tells whether
\* there is one.
THEOREM DownloadPeerIsAlive == Spec => []DownloadPeerAlive
<1>1. Inv => DownloadPeerAlive
  BY DEF Inv
<1> QED BY <1>1, InvAlways, PTL

-----------------------------------------------------------------------------
(* The callback of a publication.                                           *)

\* What a step that answers the publications in T means to the application.
LEMMA AnswerPublication ==
    ASSUME Inv, NEW T \in SUBSET Txs,
           \A t \in T : publishedTx[t] = "pending" /\ publishedTx'[t] = "listed" /\ answers'[t] = answers[t] + 1,
           \A t \in Txs \ T : /\ answers'[t] = answers[t]
                             /\ (publishedTx'[t] = "pending") = (publishedTx[t] = "pending")
    PROVE  Once!Answer(T)
<1>1. \A t \in T : answers[t] = 0
  BY DEF Inv, AnsweredOnce
<1>2. \A t \in T : publication[t] = "waiting"
  BY <1>1 DEF publication
<1>3. \A t \in Txs : publication'[t] = IF t \in T THEN "answered" ELSE publication[t]
  BY <1>1 DEF publication
<1>4. publication' = [t \in Txs |-> IF t \in T THEN "answered" ELSE publication[t]]
  BY <1>3 DEF publication
<1> QED BY <1>2, <1>4 DEF Once!Answer

LEMMA PublicationStep ==
    ASSUME Inv, [Next]_vars
    PROVE  Once!Next \/ UNCHANGED publication
<1>0. TypeOK /\ AnsweredOnce /\ PublishedOK
  BY TypeParts DEF Inv
<1>1. CASE UNCHANGED <<publishedTx, answers>>
  BY <1>1 DEF publication
<1>2. ASSUME NEW t \in Txs, Answered(t) PROVE Once!Next \/ UNCHANGED publication
  <2>1. CASE publishedTx[t] = "pending"
    <3>1. Once!Answer({t})
      BY <1>0, <1>2, <2>1, AnswerPublication DEF Answered, PublishedOK
    <3> QED BY <3>1 DEF Once!Next
  <2>2. CASE publishedTx[t] # "pending"
    BY <1>1, <1>2, <2>2 DEF Answered
  <2> QED BY <2>1, <2>2
<1>3. ASSUME NEW p \in Peers, PeerStep(p) PROVE Once!Next \/ UNCHANGED publication
  <2>1. CASE OpenSocket(p) \/ PeerConnected(p) \/ RelayedBlock(p) \/ MempoolAnswered(p)
             \/ \E e \in Errors : EndLoop(p, e)
    BY <1>1, <2>1 DEF OpenSocket, PeerConnected, RelayedBlock, MempoolAnswered, EndLoop, published
  <2>2. CASE Pong(p) \/ AbandonPing(p) \/ \E t \in Txs : RejectedTx(p, t) \/ NotFound(p, t)
    BY <1>1, <2>2 DEF Pong, AbandonPing, RejectedTx, NotFound
  <2>3. CASE Disconnected(p)
    <3>1. PICK cancels \in BOOLEAN : Cancel(cancels)
      BY <2>3 DEF Disconnected
    <3> DEFINE T == {t \in Txs : cancels /\ publishedTx[t] = "pending"}
    <3>2. Once!Answer(T)
      <4>1. \A t \in T : publishedTx[t] = "pending" /\ publishedTx'[t] = "listed" /\ answers'[t] = answers[t] + 1
        BY <3>1 DEF Cancel
      <4>2. \A t \in Txs \ T : answers'[t] = answers[t] /\ publishedTx'[t] = publishedTx[t]
        BY <3>1 DEF Cancel
      <4>3. T \in SUBSET Txs
        OBVIOUS
      <4> HIDE DEF T
      <4> QED BY <4>1, <4>2, <4>3, AnswerPublication
    <3> QED BY <3>2 DEF Once!Next
  <2>4. ASSUME NEW t \in Txs, RelayedTx(p, t) \/ HasTx(p, t) \/ RequestedTx(p, t)
        PROVE  Once!Next \/ UNCHANGED publication
    <3>1. \/ Answered(t)
          \/ publishedTx[t] = "none" /\ publishedTx' = [publishedTx EXCEPT ![t] = "listed"] /\ UNCHANGED answers
      BY <2>4 DEF RelayedTx, HasTx, RequestedTx
    <3>2. CASE publishedTx[t] = "none" /\ publishedTx' = [publishedTx EXCEPT ![t] = "listed"] /\ UNCHANGED answers
      <4>1. \A u \in Txs : publication'[u] = publication[u]
        BY <1>0, <3>2 DEF publication, PublishedOK
      <4> QED BY <4>1 DEF publication
    <3> QED BY <1>2, <3>1, <3>2
  <2> QED BY <1>3, <2>1, <2>2, <2>3, <2>4 DEF PeerStep
<1>4. ASSUME NEW t \in Txs, PublishTx(t) PROVE Once!Next \/ UNCHANGED publication
  <2>1. publication[t] = "no"
    BY <1>4 DEF PublishTx, publication
  <2>2. PICK outcome \in {"waiting", "answered"} : \A u \in Txs :
          publication'[u] = IF u = t THEN outcome ELSE publication[u]
    <3>1. CASE answers' = [answers EXCEPT ![t] = 1] /\ UNCHANGED publishedTx
      <4>1. \A u \in Txs : publication'[u] = IF u = t THEN "answered" ELSE publication[u]
        BY <1>0, <1>4, <3>1 DEF PublishTx, publication, PublishedOK
      <4> QED BY <4>1
    <3>2. CASE publishedTx' = [publishedTx EXCEPT ![t] = "pending"] /\ UNCHANGED answers
      <4>1. \A u \in Txs : publication'[u] = IF u = t THEN "waiting" ELSE publication[u]
        BY <1>0, <1>4, <3>2 DEF PublishTx, publication, PublishedOK
      <4> QED BY <4>1
    <3> QED BY <1>4, <3>1, <3>2 DEF PublishTx
  <2>3. publication' = [publication EXCEPT ![t] = outcome]
    BY <2>2 DEF publication
  <2> QED BY <2>1, <2>3 DEF Once!Next, Once!Publish
<1>5. CASE ConnectBegin \/ SyncStarted \/ ConnectLocked \/ ConnectFound \/ AppConnect \/ NetworkChanges
           \/ Disconnect \/ DisconnectReturns \/ (\E h \in 0 .. height : Rescan(h))
           \/ (\E e \in {"ok", "error"} : SyncStopped(e)) \/ UNCHANGED vars
  BY <1>1, <1>5 DEF ConnectBegin, SyncStarted, ConnectLocked, ConnectFound, AppConnect, NetworkChanges,
                    Disconnect, DisconnectReturns, Rescan, SyncStopped, published, vars
<1> QED BY <1>3, <1>4, <1>5 DEF Next

\* BRPeerManagerPublishTx calls its callback at most once, for any number of nodes and
\* transactions and however getdata, inventories, relayed copies, timeouts and lost
\* connections interleave.
THEOREM ManagerPublishesOnce == Spec => PublishedOnce
<1>1. Init => Once!Init
  BY DEF Init, Once!Init, publication
<1>2. Inv /\ [Next]_vars => [Once!Next]_publication
  BY PublicationStep
<1> QED BY <1>1, <1>2, InvAlways, PTL DEF Spec, PublishedOnce, Once!Spec

-----------------------------------------------------------------------------
(* A sync goes on.  Disconnect alone sets connectFailureCount to its limit  *)
(* while a sync without a download peer is under way; otherwise the count   *)
(* that reaches the limit ends the sync, or is the download peer's.         *)

FailuresBelow == syncing /\ downloadPeer = NoPeer => failures < MaxFailures

\* A step that is neither Connect's first nor the end of a connection.
LEMMA CalmStep ==
    ASSUME Inv, [Next]_vars, "disconnect" \notin Upsets
    PROVE  \/ ConnectBegin \/ \E p \in Peers : Disconnected(p)
           \/ /\ (syncing' => syncing)
              /\ failures' \in {failures, 0}
              /\ downloadPeer' = downloadPeer \/ downloadPeer' \in Peers
              /\ Keeps(peer, peer')
              /\ \/ UNCHANGED calls
                 \/ \E place \in Places : calls'[place] > 0
                 \/ ~ syncing'
                 \/ InArray(peer') # {}
<1> DEFINE Calm == /\ (syncing' => syncing)
                   /\ failures' \in {failures, 0}
                   /\ downloadPeer' = downloadPeer \/ downloadPeer' \in Peers
           Called == \/ UNCHANGED calls
                     \/ \E place \in Places : calls'[place] > 0
                     \/ ~ syncing'
                     \/ InArray(peer') # {}
<1>0. TypeOK /\ OutsideOK /\ ManagerOK
  BY TypeParts DEF Inv
<1>1. ASSUME NEW p \in Peers, PeerStep(p) PROVE (Calm /\ UNCHANGED calls) \/ Disconnected(p)
  <2>1. CASE OpenSocket(p) \/ MempoolAnswered(p) \/ (\E e \in Errors : EndLoop(p, e))
             \/ \E t \in Txs : RelayedTx(p, t) \/ HasTx(p, t) \/ RequestedTx(p, t) \/ NotFound(p, t)
    BY <2>1 DEF OpenSocket, MempoolAnswered, EndLoop, RelayedTx, HasTx, RequestedTx, NotFound, manager, outside
  <2>2. CASE RelayedBlock(p) \/ Pong(p) \/ AbandonPing(p) \/ \E t \in Txs : RejectedTx(p, t)
    BY <2>2 DEF RelayedBlock, Pong, AbandonPing, RejectedTx, outside
  <2>3. CASE PeerConnected(p)
    BY <2>3 DEF PeerConnected, outside, Connected
  <2> QED BY <1>1, <2>1, <2>2, <2>3 DEF PeerStep
<1>2. ASSUME SyncStarted \/ DisconnectReturns \/ (\E t \in Txs : PublishTx(t)) \/ UNCHANGED vars
      PROVE  Calm /\ Called
  <2>1. UNCHANGED manager
    BY <1>2 DEF SyncStarted, DisconnectReturns, PublishTx, vars
  <2>2. Calm
    BY <2>1 DEF manager
  <2>3. UNCHANGED calls \/ SyncStarted
    BY <1>2 DEF DisconnectReturns, PublishTx, outside, vars
  <2>4. SyncStarted => calls'["started"] > 0 /\ "started" \in Places
    BY <1>0 DEF SyncStarted, OutsideOK, Places
  <2> QED BY <2>2, <2>3, <2>4
<1>3. ASSUME \/ AppConnect \/ NetworkChanges \/ (\E h \in 0 .. height : Rescan(h))
             \/ (\E e \in {"ok", "error"} : SyncStopped(e))
      PROVE  Calm /\ Called
  <2>1. Calm
    BY <1>3 DEF AppConnect, NetworkChanges, Rescan, SyncStopped, manager
  <2>2. UNCHANGED calls \/ CallConnect
    BY <1>3 DEF AppConnect, NetworkChanges, Rescan, SyncStopped
  <2>3. CallConnect => calls'["begin"] > 0 /\ "begin" \in Places
    BY <1>0 DEF CallConnect, OutsideOK, Places
  <2> QED BY <2>1, <2>2, <2>3
<1>4. ASSUME ConnectLocked \/ ConnectFound PROVE Calm /\ Called
  <2>1. Calm
    BY <1>4 DEF ConnectLocked, ConnectFound, ConnectPeers, FindPeers
  <2>2. ASSUME NEW D, FindPeers("started", D) PROVE Called
    BY <1>0, <2>2 DEF FindPeers, OutsideOK, Places
  <2>3. ASSUME NEW place, NEW pp, ConnectPeers(place, pp) PROVE Called
    BY <2>3 DEF ConnectPeers
  <2> QED BY <1>4, <2>1, <2>2, <2>3 DEF ConnectLocked, ConnectFound
<1>5. ~ Disconnect
  BY DEF Disconnect, Upset
<1>6. Keeps(peer, peer') \/ \E p \in Peers : Disconnected(p)
  BY <1>0, StepKeeps DEF Inv
<1> QED BY <1>1, <1>2, <1>3, <1>4, <1>5, <1>6 DEF Next

LEMMA DisconnectedFails ==
    ASSUME Inv, FailuresBelow, NEW p \in Peers, Disconnected(p), syncing'
    PROVE  /\ FailuresBelow'
           /\ downloadPeer' = NoPeer => \E place \in Places : calls'[place] > 0
<1> DEFINE fails == Capped(p, failures + IF peer[p].error \in {"timeout", "network"} THEN 1 ELSE 0)
<1>0. /\ ManagerOK /\ OutsideOK /\ downloadPeer' = NextDownload(p)
      /\ NoPeer \notin Peers /\ MaxFailures \in Nat \ {0}
  BY TypeParts, PeerAssumption DEF Inv, Disconnected, PeerAssumption
<1>1. failures' = fails /\ syncing /\ ~GaveUp(p, fails)
  BY DEF Disconnected
<1>2. ~GaveUp(p, fails) /\ fails < MaxFailures => CallConnect
  BY DEF Disconnected
<1>3. downloadPeer' = NoPeer => fails \in Nat /\ fails <= MaxFailures
  BY <1>0, <1>1 DEF FailuresBelow, NextDownload, Capped, ManagerOK
<1> HIDE DEF fails
<1>4. downloadPeer' = NoPeer => fails # MaxFailures
  BY <1>0, <1>1 DEF GaveUp
<1>5. downloadPeer' = NoPeer => fails < MaxFailures
  BY <1>0, <1>3, <1>4
<1>6. CallConnect => "begin" \in Places /\ calls'["begin"] > 0
  BY <1>0 DEF CallConnect, OutsideOK, Places
<1> QED BY <1>1, <1>2, <1>5, <1>6 DEF FailuresBelow

LEMMA FailuresStep ==
    ASSUME Inv, FailuresBelow, [Next]_vars, "disconnect" \notin Upsets
    PROVE  FailuresBelow'
<1>0. ManagerOK /\ NoPeer \notin Peers /\ MaxFailures \in Nat \ {0}
  BY TypeParts, PeerAssumption DEF Inv, PeerAssumption
<1>1. CASE ConnectBegin
  BY <1>0, <1>1 DEF ConnectBegin, FailuresBelow, ManagerOK
<1>2. ASSUME NEW p \in Peers, Disconnected(p) PROVE FailuresBelow'
  BY <1>2, DisconnectedFails DEF FailuresBelow
<1>3. CASE (syncing' => syncing) /\ failures' \in {failures, 0}
           /\ (downloadPeer' = downloadPeer \/ downloadPeer' \in Peers)
  BY <1>0, <1>3 DEF FailuresBelow
<1> QED BY <1>1, <1>2, <1>3, CalmStep

LEMMA OrphanStep ==
    ASSUME Inv, FailuresBelow, NoOrphanSync, [Next]_vars, "disconnect" \notin Upsets
    PROVE  NoOrphanSync'
<1>0. OutsideOK /\ ManagerOK /\ DownloadPeerAlive'
  BY TypeParts, InvStep DEF Inv
<1>1. CASE ConnectBegin
  <2>1. calls'["notify"] > 0 \/ calls'["started"] > 0
    BY <1>0, <1>1 DEF ConnectBegin, OutsideOK, Places
  <2> QED BY <2>1 DEF NoOrphanSync, Places
<1>2. ASSUME NEW p \in Peers, Disconnected(p) PROVE NoOrphanSync'
  <2>1. CASE ~ syncing'
    BY <2>1 DEF NoOrphanSync
  <2>2. CASE syncing' /\ downloadPeer' = NoPeer
    BY <1>2, <2>2, DisconnectedFails DEF NoOrphanSync
  <2>3. CASE syncing' /\ downloadPeer' # NoPeer
    <3>1. downloadPeer' \in Peers /\ peer'[downloadPeer'].status # "none"
      <4>1. downloadPeer' \in Peers
        BY <1>0, <1>2, <2>3, ManagerStep DEF Inv, ManagerOK
      <4> QED BY <1>0, <2>3, <4>1 DEF DownloadPeerAlive
    <3> QED BY <3>1 DEF NoOrphanSync, InArray
  <2> QED BY <2>1, <2>2, <2>3
<1>3. CASE /\ (syncing' => syncing) /\ Keeps(peer, peer')
           /\ \/ UNCHANGED calls
              \/ \E place \in Places : calls'[place] > 0
              \/ ~ syncing'
              \/ InArray(peer') # {}
  <2>1. InArray(peer) # {} => InArray(peer') # {}
    BY <1>3 DEF Keeps, InArray
  <2> QED BY <1>3, <2>1 DEF NoOrphanSync
<1> QED BY <1>1, <1>2, <1>3, CalmStep

\* Unless the application disconnects, a sync under way always has a connected peer or a
\* call of BRPeerManagerConnect in progress: whatever the number of nodes and the limit
\* of failures, no order of lost connections, retries and reselections orphans it.
THEOREM SyncNotOrphaned == ASSUME "disconnect" \notin Upsets PROVE Spec => []NoOrphanSync
<1> DEFINE SyncInv == Inv /\ FailuresBelow /\ NoOrphanSync
<1>1. Init => SyncInv
  BY InitInv DEF Init, FailuresBelow, NoOrphanSync
<1>2. SyncInv /\ [Next]_vars => SyncInv'
  BY InvStep, FailuresStep, OrphanStep
<1>3. SyncInv => NoOrphanSync
  OBVIOUS
<1> HIDE DEF SyncInv
<1> QED BY <1>1, <1>2, <1>3, PTL DEF Spec

=============================================================================
