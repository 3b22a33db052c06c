----------------------------- MODULE HeaderChain -----------------------------
(***************************************************************************)
(* The block chain kept by one BRPeerManager (BRPeerManager.c): the set of *)
(* known blocks, the tip lastBlock, the orphans, the wallet's view of the  *)
(* confirmations that the chain gives, the blocks written to the database  *)
(* and the reconstruction of the chain from them after a restart.          *)
(*                                                                         *)
(* Every peer has a thread of its own.  A handler runs under manager->lock *)
(* and is one atomic action here; what _peerRelayedBlock does after it has *)
(* unlocked (copy the blocks to save, write them, handle the orphan that   *)
(* was waiting for this block) is done by later steps of the same thread,  *)
(* which interleave with every other thread (variable work).               *)
(*                                                                         *)
(* A block is a name: the network's blocks, their links and heights are    *)
(* constants.  What the code can get wrong is which of them it stores, in  *)
(* which order, and what it still points to.                               *)
(***************************************************************************)
EXTENDS Integers, FiniteSets

CONSTANTS
    Hash,           \* every block hash that can occur
    NoBlock,        \* the NULL block, also the zero prevBlock
    Freed,          \* a pointer to a block that BRMerkleBlockFree has released
    Prev,           \* Prev[b]: the prevBlock of block b
    Height,         \* Height[b]: the height of b in its chain
    Chain,          \* Chain[b]: b and all its ancestors
    TxIn,           \* TxIn[b]: the wallet transactions mined in b
    Checkpoints,    \* the hard-coded checkpoints of BRChainParams
    Reparsed,       \* Reparsed[c]: hash of the serialized stub of checkpoint c
    BeforeKeyTime,  \* blocks more than a week older than earliestKeyTime
    BadTarget,      \* blocks whose difficulty target is wrong
    Txs,            \* the wallet's transactions
    Peers, NoPeer,
    PeerLast,       \* PeerLast[p]: the last block height in p's version message
    TX_UNCONFIRMED, \* the height of unconfirmed transactions, INT32_MAX
    Interval,       \* BLOCK_DIFFICULTY_INTERVAL
    SyncSlack,      \* blocks a peer may be behind (10 in the code)
    RebuildLag,     \* blocks to go that make a filter rebuild worth it (500)
    Rescans,        \* the rescan calls that the application makes
    RescanNumbers,  \* the block numbers it rescans from
    CanCrash        \* whether the process may die

UNREGISTERED == -1
RescanKinds == {"keyTime", "checkpoint", "number"}

ASSUME ConstantsAssumption ==
    /\ IsFiniteSet(Hash) /\ NoBlock \notin Hash /\ Freed \notin Hash \cup {NoBlock}
    /\ Interval \in Nat /\ Interval > 1 /\ SyncSlack \in Nat /\ RebuildLag \in Nat
    /\ TX_UNCONFIRMED \in Nat /\ Height \in [Hash -> 0 .. TX_UNCONFIRMED - 1]
    /\ Prev \in [Hash -> Hash \cup {NoBlock}]
    /\ Chain \in [Hash -> SUBSET Hash] /\ TxIn \in [Hash -> SUBSET Txs]
    /\ Checkpoints \subseteq Hash /\ Checkpoints # {}
    /\ BeforeKeyTime \subseteq Hash /\ BadTarget \subseteq Hash
    /\ Reparsed \in [Checkpoints -> Hash]
    /\ \A c \in Checkpoints : Height[Reparsed[c]] = Height[c]
    /\ NoPeer \notin Peers /\ PeerLast \in [Peers -> Nat]
    /\ Rescans \subseteq RescanKinds /\ RescanNumbers \subseteq Nat /\ CanCrash \in BOOLEAN

\* a block is one higher than the block it links to, its chain is that of its
\* predecessor and itself, and heights only grow along a chain
ASSUME ChainAssumption ==
    \A b \in Hash :
        /\ Prev[b] \in Hash => Height[b] = Height[Prev[b]] + 1
        /\ Chain[b] = {b} \cup (IF Prev[b] \in Hash THEN Chain[Prev[b]] ELSE {})
        /\ \A a \in Chain[b] : a # b => Height[a] < Height[b]
        /\ \A a, c \in Chain[b] : Height[a] = Height[c] => a = c

\* BRChainParams.h: checkpoints are difficulty transitions of one chain
ASSUME CheckpointAssumption ==
    \A c \in Checkpoints :
        /\ Height[c] % Interval = 0
        /\ \A d \in Checkpoints : Height[c] <= Height[d] => c \in Chain[d]

VARIABLES
    blocks,         \* manager->blocks, by hash
    stub,           \* the checkpoints still stored as made from BRChainParams
    matched,        \* matched[b]: the tx hashes of the stored block b
    lastBlock,      \* manager->lastBlock
    orphans,        \* manager->orphans, at most one for each prevBlock
    lastOrphan,     \* manager->lastOrphan
    bloomFilter,    \* manager->bloomFilter # NULL
    filterSent,     \* the peers that have been sent a filterload message
    filterUpdate,   \* PEER_FLAG_NEEDSUPDATE and the pong it waits for
    estimatedHeight,
    downloadPeer,   \* NoPeer is also isConnected = 0
    status,         \* BRPeerConnectStatus of each peer
    freedCheckpoints, \* entries of manager->checkpoints that have been freed
    txHeight,       \* blockHeight of each wallet tx, kept in the database too
    work,           \* work[p]: what p's thread has left to do after unlocking
    saved,          \* rows of the merkle block table
    fault           \* the first use of a freed or NULL block, or "none"

chainVars == <<blocks, stub, matched, lastBlock, freedCheckpoints>>
orphanVars == <<orphans, lastOrphan>>
filterVars == <<bloomFilter, filterSent>>
peerVars == <<downloadPeer, status>>
vars == <<chainVars, orphanVars, filterVars, filterUpdate, estimatedHeight,
          peerVars, txHeight, work, saved, fault>>

-----------------------------------------------------------------------------
(* State kept after the lock is released                                    *)

Orphan == [hash : Hash, txs : SUBSET Txs, known : BOOLEAN]
Row == [hash : Hash, txs : SUBSET Txs]
Work == [pc : {"idle", "copy", "delete", "put", "next"}, save : SUBSET Row,
         replace : BOOLEAN, freed : BOOLEAN, next : SUBSET Orphan]
NoWork == [pc |-> "idle", save |-> {}, replace |-> FALSE, freed |-> FALSE, next |-> {}]

TypeOK ==
    /\ blocks \subseteq Hash /\ stub \subseteq Checkpoints \cap blocks
    /\ matched \in [Hash -> SUBSET Txs]
    /\ lastBlock \in Hash
    /\ orphans \subseteq Orphan
    /\ lastOrphan \in Hash \cup {NoBlock, Freed}
    /\ bloomFilter \in BOOLEAN
    /\ filterSent \subseteq Peers
    /\ filterUpdate \in [Peers -> {"none", "ping", "load", "lost"}]
    /\ estimatedHeight \in Nat
    /\ downloadPeer \in Peers \cup {NoPeer}
    /\ status \in [Peers -> {"none", "connected", "closing"}]
    /\ freedCheckpoints \subseteq Checkpoints
    /\ txHeight \in [Txs -> Nat \cup {UNREGISTERED}]
    /\ work \in [Peers -> Work]
    /\ saved \subseteq Row
    /\ fault \in {"none", "lastBlockFreed", "checkpointFreed", "nullBlock", "savedBlockFreed"}

-----------------------------------------------------------------------------
(* Walks along prevBlock                                                    *)

\* Every block the code meets when it follows prevBlock from b, which need not
\* be stored itself, through the blocks in S; a checkpoint stub has no prevBlock
Run(b, S, stubs) ==
    {a \in Chain[b] : \A c \in Chain[b] :
        /\ Height[c] >= Height[a] /\ c # b => c \in S
        /\ Height[c] > Height[a] => c \notin stubs}

MainChain == Run(lastBlock, blocks, stub)
RunOf(b) == Run(b, blocks, stub \ {b})
Tip(S) == CHOOSE b \in S : \A a \in S : Height[a] <= Height[b]

LastCheckpoint == Tip(Checkpoints)
OldCheckpoints == Checkpoints \cap BeforeKeyTime
FirstCheckpoint == CHOOSE c \in Checkpoints : \A d \in Checkpoints : Height[c] <= Height[d]

\* the newest checkpoint a week older than the key time, or else the first one
StartCheckpoint == IF OldCheckpoints = {} THEN FirstCheckpoint ELSE Tip(OldCheckpoints)

\* _BRPeerManagerVerifyBlock, first half: the previous difficulty transition
\* must be found, and older blocks that are not transitions are freed
AtTransition(b) == Height[b] % Interval = 0
TransitionFound(b) == \E a \in RunOf(b) : Height[a] = Height[b] - Interval

\* wrong on purpose: frees from the block itself, not from the previous transition
PrunedFromBlock(b) ==
    IF AtTransition(b) /\ TransitionFound(b)
    THEN {a \in RunOf(b) : Height[a] < Height[b] /\ ~AtTransition(a)} ELSE {}

Pruned(b) ==
    IF AtTransition(b) /\ TransitionFound(b)
    THEN {a \in RunOf(b) : Height[a] < Height[b] - Interval /\ ~AtTransition(a)}
    ELSE {}

\* second half: the difficulty target and the checkpoint at this height
ChecksTarget(b) == AtTransition(b) => TransitionFound(b)
ChecksCheckpoint(b) == ChecksTarget(b) /\ b \notin BadTarget
Verified(b) ==
    /\ ChecksCheckpoint(b)
    /\ \A c \in Checkpoints : Height[c] = Height[b] => c = b

\* objects released by this step that another thread is about to copy
MarkFreed(W, F) ==
    [q \in Peers |->
        [W[q] EXCEPT !.freed = @ \/ /\ W[q].pc = "copy"
                                    /\ \E r \in W[q].save : r.hash \in F
                                           \cup {Reparsed[c] : c \in F \cap Checkpoints}]]

-----------------------------------------------------------------------------
(* Calls made from several handlers                                         *)

\* _BRPeerManagerLoadBloomFilter for each of ps: a new filter, the orphans are dropped
LoadBloomFilter(ps) ==
    /\ bloomFilter' = TRUE /\ filterSent' = filterSent \cup ps
    /\ orphans' = {} /\ lastOrphan' = NoBlock

\* _BRPeerManagerUpdateFilter: ask the download peer for a pong first
UpdateFilter(fu) ==
    IF downloadPeer # NoPeer /\ fu[downloadPeer] = "none"
    THEN [fu EXCEPT ![downloadPeer] = "ping"] ELSE fu

\* _BRPeerManagerLoadMempools, called when b completes the chain, reloads the
\* filter on every connected peer but the download peer, and on that one too when
\* its false positive rate is too high
ConnectedIn(st) == {q \in Peers : st[q] = "connected"}
MempoolReloads(b, st) ==
    IF Height[b] # estimatedHeight \/ ConnectedIn(st) = {} THEN {{}}
    ELSE {ConnectedIn(st), ConnectedIn(st) \ {downloadPeer}}

\* BRPeerDisconnect shuts the socket down, the thread ends later
Disconnect(st, p) == IF st[p] = "connected" THEN [st EXCEPT ![p] = "closing"] ELSE st

\* BRWalletUpdateTransactions: only registered transactions have a height
Confirm(th, txs, h) == [t \in Txs |-> IF t \in txs /\ th[t] # UNREGISTERED THEN h ELSE th[t]]

\* wrong on purpose: misses the block just above the join point
UnconfirmAfterNext(th, h) == [t \in Txs |-> IF th[t] > h + 1 THEN TX_UNCONFIRMED ELSE th[t]]

\* BRWalletSetTxUnconfirmedAfter
UnconfirmAfter(th, h) == [t \in Txs |-> IF th[t] > h THEN TX_UNCONFIRMED ELSE th[t]]

-----------------------------------------------------------------------------
(* The end of _peerRelayedBlock                                             *)

SavedRow(a, txs, stubs) == [hash |-> IF a \in stubs THEN Reparsed[a] ELSE a, txs |-> txs]

\* wrong on purpose: cuts off the transition block as well
SaveSetAboveTransition(b, n, S, stubs) ==
    LET newest == {a \in Run(b, S, stubs) : Height[a] > Height[b] - n}
    IN  {a \in newest : \E t \in newest : AtTransition(t) /\ Height[t] < Height[a]}

\* the n newest blocks of the chain of b, cut so that the oldest of them is a
\* difficulty transition
SaveSet(b, n, S, stubs) ==
    LET newest == {a \in Run(b, S, stubs) : Height[a] > Height[b] - n}
    IN  {a \in newest : \E t \in newest : AtTransition(t) /\ Height[t] <= Height[a]}

CompleteCount(b) == (Height[b] % Interval) + Interval + 1
SaveCount(b, extends) ==
    IF Height[b] = estimatedHeight THEN CompleteCount(b)
    ELSE IF extends /\ AtTransition(b) THEN 1 ELSE 0

Deferred(save, next) ==
    [pc |-> IF save # {} THEN "copy" ELSE IF next # {} THEN "next" ELSE "idle",
     save |-> save, replace |-> Cardinality(save) > 1, freed |-> FALSE, next |-> next]

\* the block has been kept: raise the estimate, take the orphan that waited for it
Finish(p, b, orph, save, F) ==
    LET next == {o \in orph : Prev[o.hash] = b}
    IN  /\ estimatedHeight' = IF Height[b] > estimatedHeight THEN Height[b] ELSE estimatedHeight
        /\ orphans' = orph \ next
        /\ work' = [MarkFreed(work, F) EXCEPT ![p] = Deferred(save, next)]

\* the block has been freed; own tells that it came out of manager->orphans
InFlight(b) == \E q \in Peers : \E o \in work[q].next : o.hash = b
Release(p, b, own, F) ==
    /\ lastOrphan' = IF (own /\ lastOrphan = b) \/ lastOrphan \in F THEN Freed ELSE lastOrphan
    /\ work' = [MarkFreed(work, F) EXCEPT ![p] = NoWork]
    /\ UNCHANGED <<orphans, estimatedHeight>>

Fault(kind) ==
    /\ fault' = kind
    /\ UNCHANGED <<chainVars, orphanVars, filterVars, estimatedHeight, txHeight, work>>

-----------------------------------------------------------------------------
(* The branches of _peerRelayedBlock for the block x.hash with the matched  *)
(* transactions x.txs, in the order in which the code tries them            *)

Ignored(p, x, own) ==
    /\ Release(p, x.hash, own, {})
    /\ UNCHANGED <<chainVars, filterVars, txHeight, fault>>

\* no stored predecessor: an orphan, unless it is more than a week old
\* (its timestamp is the network's choice)
AddOrphan(x) == {o \in orphans : Prev[o.hash] # Prev[x.hash]} \cup {x}
KeepOrphan(p, x) ==
    /\ lastOrphan' = x.hash
    /\ IF x.known THEN Finish(p, x.hash, AddOrphan(x), {}, {})
           ELSE /\ orphans' = AddOrphan(x)
                /\ work' = [work EXCEPT ![p] = NoWork]
                /\ UNCHANGED estimatedHeight
    /\ UNCHANGED <<chainVars, filterVars, txHeight, fault>>

OrphanBlock(p, x, own) == KeepOrphan(p, x) \/ Ignored(p, x, own)

\* F is what VerifyBlock has freed, whatever its verdict
Cleared(m, F) == [a \in Hash |-> IF a \in F THEN {} ELSE m[a]]
OrphanAfter(F) == IF lastOrphan \in F THEN Freed ELSE lastOrphan

ReleaseBlock(p, x, own, F) ==
    /\ blocks' = blocks \ F /\ matched' = Cleared(matched, F)
    /\ Release(p, x.hash, own, F)
    /\ UNCHANGED <<stub, lastBlock, freedCheckpoints, filterVars, txHeight, fault>>

\* the rows of the blocks to save; the new block's own txs are not in matched yet
Rows(b, x, n, S, stubs) ==
    {SavedRow(a, IF a = b THEN x.txs ELSE matched[a], stubs) : a \in SaveSet(b, n, S, stubs)}

\* when chain download is complete, _BRPeerManagerLoadMempools; then Finish
Complete(p, x, st, extends, S, stubs, F) ==
    \E reloaded \in MempoolReloads(x.hash, st) :
        /\ bloomFilter' = (bloomFilter \/ reloaded # {})
        /\ filterSent' = filterSent \cup reloaded
        /\ lastOrphan' = IF reloaded # {} THEN NoBlock ELSE OrphanAfter(F)
        /\ Finish(p, x.hash, IF reloaded # {} THEN {} ELSE orphans,
                  Rows(x.hash, x, SaveCount(x.hash, extends), S, stubs), F)

ExtendMainChain(p, x, st, F) ==
    LET b == x.hash IN
    /\ blocks' = (blocks \ F) \cup {b} /\ stub' = stub \ {b}
    /\ matched' = [Cleared(matched, F) EXCEPT ![b] = x.txs]
    /\ lastBlock' = b
    /\ txHeight' = Confirm(txHeight, x.txs, Height[b])
    /\ Complete(p, x, st, TRUE, blocks', stub', F)
    /\ UNCHANGED <<freedCheckpoints, fault>>

\* the block is already stored: the new copy replaces the old one, which is freed
ReplaceBlock(p, x, own, F) ==
    LET b == x.hash
        main == Run(lastBlock, blocks \ F, stub)
    IN  IF Height[b] < Height[lastBlock] /\ ~\E a \in main : Height[a] = Height[b]
        THEN Fault("nullBlock")
        ELSE /\ blocks' = blocks \ F /\ stub' = stub \ {b}
             /\ matched' = [Cleared(matched, F) EXCEPT ![b] = x.txs]
             /\ freedCheckpoints' = freedCheckpoints \cup (stub \cap {b})
             /\ txHeight' = IF b \in main THEN Confirm(txHeight, x.txs, Height[b]) ELSE txHeight
             /\ lastOrphan' = IF lastOrphan = b /\ ~own /\ ~InFlight(b) THEN NoBlock
                              ELSE OrphanAfter(F)
             /\ Finish(p, b, orphans, {}, F \cup {b})
             /\ UNCHANGED <<lastBlock, filterVars, fault>>

\* a block mined during a rescan waits among the orphans, its height is known
PostponeBlock(p, x, F) ==
    /\ blocks' = blocks \ F /\ matched' = Cleared(matched, F)
    /\ lastOrphan' = x.hash
    /\ Finish(p, x.hash, AddOrphan([x EXCEPT !.known = TRUE]), {}, F)
    /\ UNCHANGED <<stub, lastBlock, freedCheckpoints, filterVars, txHeight, fault>>

\* a fork no higher than the main chain is only stored
AddFork(p, x, F) ==
    LET b == x.hash IN
    /\ blocks' = (blocks \ F) \cup {b}
    /\ matched' = [Cleared(matched, F) EXCEPT ![b] = x.txs]
    /\ lastOrphan' = OrphanAfter(F)
    /\ Finish(p, b, orphans, {}, F)
    /\ UNCHANGED <<stub, lastBlock, freedCheckpoints, filterVars, txHeight, fault>>

\* wrong on purpose: starts at the predecessor of the new block
JoiningBlocksBelow(fork, join) == {a \in fork : Height[a] > join /\ a # Tip(fork)}

\* set the heights of the transactions in the blocks of the new main chain
JoiningBlocks(fork, join) == {a \in fork : Height[a] > join}
ConfirmFork(th, fork, txsOf) ==
    [t \in Txs |->
        LET in == {a \in fork : t \in txsOf[a]}
        IN  IF in = {} \/ th[t] = UNREGISTERED THEN th[t]
            ELSE Height[CHOOSE a \in in : \A c \in in : Height[a] <= Height[c]]]

\* a higher fork becomes the main chain: the code walks both chains back to
\* the block where they join; if a walk runs out of stored blocks first, the
\* join point is NULL (the fork's walk) or nothing is confirmed (the old chain's)
Reorganize(p, x, st, F) ==
    LET b == x.hash
        fork == Run(b, blocks \ F, stub)
        main == Run(lastBlock, blocks \ F, stub)
        lowest(S) == CHOOSE h \in {Height[a] : a \in S} : \A a \in S : h <= Height[a]
        joined == fork \cap main # {}
        join == IF joined THEN Height[Tip(fork \cap main)] ELSE lowest(main) - 1
        txsOf == [matched EXCEPT ![b] = x.txs]
    IN  IF ~joined /\ lowest(main) <= lowest(fork)
        THEN Fault("nullBlock")
        ELSE /\ blocks' = (blocks \ F) \cup {b}
             /\ matched' = [Cleared(matched, F) EXCEPT ![b] = x.txs]
             /\ lastBlock' = b
             /\ txHeight' = ConfirmFork(UnconfirmAfter(txHeight, join),
                                IF joined THEN JoiningBlocks(fork, join) ELSE {}, txsOf)
             /\ Complete(p, x, st, FALSE, blocks', stub, F)
             /\ UNCHANGED <<stub, freedCheckpoints, fault>>

\* _peerRelayedBlock once the block is known to link to a stored one
UsesFreedCheckpoint(b) ==
    ChecksCheckpoint(b) /\ \E c \in freedCheckpoints : Height[c] = Height[b]
Postponed(p, b) ==
    Height[lastBlock] < PeerLast[p] /\ Height[b] > Height[lastBlock] + 1

\* wrong on purpose: a fork of the same height already takes over
IsLower(b) == Height[b] < Height[lastBlock]

IsNoHigher(b) == Height[b] <= Height[lastBlock]

StoreBlock(p, x, own, st, F) ==
    LET b == x.hash IN
    IF Prev[b] = lastBlock THEN ExtendMainChain(p, x, st, F)
    ELSE IF b \in blocks THEN ReplaceBlock(p, x, own, F)
    ELSE IF Postponed(p, b) THEN PostponeBlock(p, x, F)
    ELSE IF Height[b] <= Height[LastCheckpoint] THEN ReleaseBlock(p, x, own, F)
    ELSE IF IsNoHigher(b) THEN AddFork(p, x, F)
    ELSE Reorganize(p, x, st, F)

PlaceBlock(p, x, own, st) ==
    LET b == x.hash
        F == Pruned(b)
    IN  \/ lastBlock \in F /\ Fault("lastBlockFreed") /\ status' = st
        \/ lastBlock \notin F /\ UsesFreedCheckpoint(b) /\ Fault("checkpointFreed") /\ status' = st
        \/ /\ lastBlock \notin F /\ ~UsesFreedCheckpoint(b)
           /\ IF Verified(b)
              THEN StoreBlock(p, x, own, st, F) /\ status' = st
              ELSE ReleaseBlock(p, x, own, F) /\ status' = Disconnect(st, p)

\* a header that is too new, or any block while the filter is being replaced
Refused(x, header) == (header /\ x.hash \notin BeforeKeyTime) \/ ~bloomFilter

\* the false positive check of the download peer's blocks: it may be dropped,
\* or the filter rebuilt; the measured rate is not modelled
When(condition, outcome) == IF condition THEN {outcome} ELSE {}
FalsePositiveChecks(p, header) ==
    LET checked == p = downloadPeer /\ ~header IN
    {<<status, filterUpdate>>}
    \cup When(checked, <<Disconnect(status, p), filterUpdate>>)
    \cup When(checked /\ Height[lastBlock] + RebuildLag < PeerLast[p],
              <<status, UpdateFilter(filterUpdate)>>)

\* _peerRelayedBlock
HandleBlock(p, x, header, own) ==
    \E check \in FalsePositiveChecks(p, header) :
        /\ \/ Refused(x, header) /\ Ignored(p, x, own) /\ status' = check[1]
           \/ ~Refused(x, header) /\ Prev[x.hash] \notin blocks
                /\ OrphanBlock(p, x, own) /\ status' = check[1]
           \/ ~Refused(x, header) /\ Prev[x.hash] \in blocks /\ PlaceBlock(p, x, own, check[1])
        /\ filterUpdate' = check[2]
        /\ UNCHANGED <<downloadPeer, saved>>

-----------------------------------------------------------------------------
(* The actions of a peer's thread                                           *)

Network == Hash \ {Reparsed[c] : c \in Checkpoints}
Idle(p) == fault = "none" /\ status[p] # "none" /\ work[p].pc = "idle"

\* BRPeer hands a merkleblock over only after the transactions it matched, so
\* those that are wallet transactions are registered
Registered == {t \in Txs : txHeight[t] # UNREGISTERED}
RelayBlock(p) ==
    /\ Idle(p) /\ p \in filterSent
    /\ \E b \in Network, header \in BOOLEAN :
       \E txs \in SUBSET (TxIn[b] \cap Registered) :
           /\ header => txs = {}
           /\ HandleBlock(p, [hash |-> b, txs |-> txs, known |-> FALSE], header, FALSE)

\* the recursive call for the orphan that waited for the block just handled
HandleNext(p) ==
    /\ fault = "none" /\ work[p].pc = "next"
    /\ \E x \in work[p].next : HandleBlock(p, x, FALSE, TRUE)

\* saveBlocks copies the blocks it is given after the lock has been released
CopyBlocks(p) ==
    /\ fault = "none" /\ work[p].pc = "copy"
    /\ IF work[p].freed
       THEN fault' = "savedBlockFreed" /\ UNCHANGED work
       ELSE /\ work' = [work EXCEPT ![p].pc = IF work[p].replace THEN "delete" ELSE "put"]
            /\ UNCHANGED fault
    /\ UNCHANGED <<chainVars, orphanVars, filterVars, filterUpdate, estimatedHeight,
                   peerVars, txHeight, saved>>

\* MerkleBlockDataSource: deleteAllBlocks and putMerkleBlocks are two transactions
DeleteRows(p) ==
    /\ fault = "none" /\ work[p].pc = "delete"
    /\ saved' = {}
    /\ work' = [work EXCEPT ![p].pc = "put"]
    /\ UNCHANGED <<chainVars, orphanVars, filterVars, filterUpdate, estimatedHeight,
                   peerVars, txHeight, fault>>

PutRows(p) ==
    /\ fault = "none" /\ work[p].pc = "put"
    /\ saved' = saved \cup work[p].save
    /\ work' = [work EXCEPT ![p] = Deferred({}, work[p].next)]
    /\ UNCHANGED <<chainVars, orphanVars, filterVars, filterUpdate, estimatedHeight,
                   peerVars, txHeight, fault>>

\* _peerRelayedTx: the transaction is registered; when it used the last watched
\* addresses the filter is discarded and an update asked for
RelayTx(p) ==
    /\ Idle(p) /\ p \in filterSent
    /\ \E t \in Txs, beyondFilter \in BOOLEAN :
        /\ txHeight' = [txHeight EXCEPT ![t] = IF @ = UNREGISTERED THEN TX_UNCONFIRMED ELSE @]
        /\ IF bloomFilter /\ beyondFilter
           THEN bloomFilter' = FALSE /\ filterUpdate' = UpdateFilter(filterUpdate)
           ELSE UNCHANGED <<bloomFilter, filterUpdate>>
    /\ UNCHANGED <<chainVars, orphanVars, filterSent, estimatedHeight, peerVars, work, saved, fault>>

\* wrong on purpose: does not ask whether there is a download peer
FilterPeersUnchecked ==
    IF Height[lastBlock] < estimatedHeight THEN {downloadPeer} ELSE ConnectedIn(status)

\* _updateFilterPingDone: while syncing only the download peer gets the new
\* filter, afterwards every connected peer does; a peer that no longer is one of
\* them keeps PEER_FLAG_NEEDSUPDATE for good
FilterPeers ==
    IF Height[lastBlock] < estimatedHeight THEN {downloadPeer} \ {NoPeer}
    ELSE ConnectedIn(status)

UpdateFilterPingDone(p) ==
    /\ Idle(p) /\ filterUpdate[p] = "ping"
    /\ filterUpdate' = [filterUpdate EXCEPT ![p] = IF p \in FilterPeers THEN "load" ELSE "lost"]
    /\ IF FilterPeers # {} THEN LoadBloomFilter(FilterPeers)
       ELSE bloomFilter' = FALSE /\ UNCHANGED <<orphanVars, filterSent>>
    /\ UNCHANGED <<chainVars, estimatedHeight, peerVars, txHeight, work, saved, fault>>

\* _updateFilterLoadDone clears PEER_FLAG_NEEDSUPDATE
UpdateFilterLoadDone(p) ==
    /\ Idle(p) /\ filterUpdate[p] = "load"
    /\ filterUpdate' = [filterUpdate EXCEPT ![p] = "none"]
    /\ UNCHANGED <<chainVars, orphanVars, filterVars, estimatedHeight, peerVars,
                   txHeight, work, saved, fault>>

\* _peerConnected: a peer that is unfit (wrong services) or too far behind is
\* dropped; else the download peer is kept, or the best connected peer replaces it
UnfitPeer(p) ==
    /\ status' = [status EXCEPT ![p] = "closing"]
    /\ UNCHANGED <<chainVars, orphanVars, filterVars, estimatedHeight, downloadPeer>>

IsBehind(p) == PeerLast[p] + SyncSlack < Height[lastBlock]
KeepsDownloadPeer(p) ==
    /\ downloadPeer # NoPeer
    /\ \/ PeerLast[downloadPeer] >= PeerLast[p]
       \/ Height[lastBlock] >= PeerLast[p]

KeepDownloadPeer(p) ==
    /\ status' = [status EXCEPT ![p] = "connected"]
    /\ IF Height[lastBlock] >= PeerLast[p] THEN LoadBloomFilter({p})
       ELSE UNCHANGED <<orphanVars, filterVars>>
    /\ UNCHANGED <<chainVars, estimatedHeight, downloadPeer>>

SelectDownloadPeer(p) ==
    LET connected == ConnectedIn(status) \cup {p}
        st == [status EXCEPT ![p] = "connected"]
    IN  \E q \in connected :
            /\ \A r \in connected : PeerLast[r] <= PeerLast[q]
            /\ downloadPeer' = q
            /\ status' = IF downloadPeer = NoPeer THEN st ELSE Disconnect(st, downloadPeer)
            /\ estimatedHeight' = PeerLast[q]
            /\ LoadBloomFilter(IF Height[lastBlock] < PeerLast[q] THEN {q}
                               ELSE {q} \cup ConnectedIn(status'))
            /\ UNCHANGED chainVars

PeerConnected(p) ==
    /\ fault = "none" /\ status[p] = "none"
    /\ \/ UnfitPeer(p)
       \/ ~IsBehind(p) /\ KeepsDownloadPeer(p) /\ KeepDownloadPeer(p)
       \/ ~IsBehind(p) /\ ~KeepsDownloadPeer(p) /\ SelectDownloadPeer(p)
    /\ UNCHANGED <<filterUpdate, txHeight, work, saved, fault>>

\* _peerDisconnected: the thread of a closing peer, or of one that failed, ends
PeerDisconnected(p) ==
    /\ Idle(p)
    /\ status' = [status EXCEPT ![p] = "none"]
    /\ downloadPeer' = IF downloadPeer = p THEN NoPeer ELSE downloadPeer
    /\ filterUpdate' = [filterUpdate EXCEPT ![p] = "none"]
    /\ filterSent' = filterSent \ {p}
    /\ UNCHANGED <<chainVars, orphanVars, bloomFilter, estimatedHeight, txHeight,
                   work, saved, fault>>

-----------------------------------------------------------------------------
(* The application's thread: rescans and restarts                           *)

\* the block from which each kind of rescan starts
BlockAt(n) ==
    LET inChain == {a \in MainChain : Height[a] = n}
        older == {c \in Checkpoints : Height[c] < n}
    IN  IF inChain # {} THEN Tip(inChain)
        ELSE IF \E c \in Checkpoints : Height[c] = n
             THEN CHOOSE c \in Checkpoints : Height[c] = n
        ELSE IF older = {} THEN FirstCheckpoint ELSE Tip(older)

RescanStarts ==
    UNION {CASE kind = "keyTime" -> {StartCheckpoint}
             [] kind = "checkpoint" -> {LastCheckpoint}
             [] kind = "number" -> {BlockAt(n) : n \in RescanNumbers} : kind \in Rescans}

\* BRPeerManagerRescan, ...FromLastHardcodedCheckpoint, ...FromBlockNumber
Rescan ==
    /\ fault = "none" /\ downloadPeer # NoPeer
    /\ lastBlock' \in RescanStarts \cap blocks
    /\ status' = Disconnect(status, downloadPeer)
    /\ UNCHANGED <<blocks, stub, matched, freedCheckpoints, orphanVars, filterVars,
                   filterUpdate, estimatedHeight, downloadPeer, txHeight, work, saved, fault>>

\* The manager made by BRPeerManagerNew from the rows of the database.  Rows
\* with the same prevBlock replace one another in the table of orphans; the
\* chain is rebuilt from the highest saved transition block
Tables(rows) ==
    LET clash == {r \in rows : \E s \in rows : s # r /\ Prev[s.hash] = Prev[r.hash]}
    IN  {(rows \ clash) \cup T : T \in
            {T \in SUBSET clash :
                /\ \A r, s \in T : Prev[r.hash] = Prev[s.hash] => r = s
                /\ \A r \in clash : \E s \in T : Prev[r.hash] = Prev[s.hash]}}

\* wrong on purpose: starts from the highest row of all
HighestRows(rows) == {r \in rows : \A s \in rows : Height[s.hash] <= Height[r.hash]}

TransitionRows(rows) ==
    {r \in rows : AtTransition(r.hash) /\ \A s \in rows :
                      AtTransition(s.hash) => Height[s.hash] <= Height[r.hash]}

\* the rows reached from start by looking up each block's successor
Reached(start, T) ==
    {start} \cup {r \in T : /\ start.hash \in Chain[r.hash]
                            /\ \A c \in Chain[r.hash] : Height[c] > Height[start.hash]
                                    => \E s \in T : s.hash = c}

NewManager(restored, T) ==
    LET hashes == {r.hash : r \in restored} IN
    /\ blocks' = Checkpoints \cup hashes
    /\ stub' = Checkpoints \ hashes
    /\ matched' = [a \in Hash |-> UNION {r.txs : r \in {r \in restored : r.hash = a}}]
    /\ lastBlock' = IF hashes = {} THEN StartCheckpoint ELSE Tip(hashes)
    /\ orphans' = {[hash |-> r.hash, txs |-> r.txs, known |-> TRUE] :
                     r \in {r \in T : \A s \in restored : Prev[s.hash] # Prev[r.hash]}}

\* the process dies, in any state of its threads, and is started again; the
\* wallet's transactions come back from the database with their heights
Restart ==
    /\ CanCrash
    /\ \E T \in Tables(saved) :
        \/ TransitionRows(saved) = {} /\ NewManager({}, T)
        \/ \E start \in TransitionRows(saved) : NewManager(Reached(start, T), T)
    /\ lastOrphan' = NoBlock /\ bloomFilter' = FALSE /\ filterSent' = {} /\ estimatedHeight' = 0
    /\ filterUpdate' = [p \in Peers |-> "none"]
    /\ downloadPeer' = NoPeer /\ status' = [p \in Peers |-> "none"]
    /\ freedCheckpoints' = {} /\ work' = [p \in Peers |-> NoWork] /\ fault' = "none"
    /\ UNCHANGED <<txHeight, saved>>

-----------------------------------------------------------------------------

\* BRPeerManagerNew with an empty database
Init ==
    /\ blocks = Checkpoints /\ stub = Checkpoints
    /\ matched = [a \in Hash |-> {}]
    /\ lastBlock = StartCheckpoint
    /\ orphans = {} /\ lastOrphan = NoBlock
    /\ bloomFilter = FALSE /\ filterSent = {} /\ filterUpdate = [p \in Peers |-> "none"]
    /\ estimatedHeight = 0
    /\ downloadPeer = NoPeer /\ status = [p \in Peers |-> "none"]
    /\ freedCheckpoints = {}
    /\ txHeight = [t \in Txs |-> UNREGISTERED]
    /\ work = [p \in Peers |-> NoWork]
    /\ saved = {} /\ fault = "none"

PeerStep(p) ==
    \/ PeerConnected(p) \/ PeerDisconnected(p)
    \/ RelayBlock(p) \/ HandleNext(p) \/ RelayTx(p)
    \/ CopyBlocks(p) \/ DeleteRows(p) \/ PutRows(p)
    \/ UpdateFilterPingDone(p) \/ UpdateFilterLoadDone(p)

Next == Rescan \/ Restart \/ \E p \in Peers : PeerStep(p)

Spec == Init /\ [][Next]_vars

-----------------------------------------------------------------------------
(* Properties                                                               *)

\* The tip is one of the stored blocks: VerifyBlock never frees the block
\* that lastBlock points to, nor anything else takes it out of the set.
LastBlockStored == fault # "lastBlockFreed" /\ lastBlock \in blocks

\* The next difficulty transition can be verified ("blockSet must have last
\* 2016 blocks", BRChainParams.h:44): from the tip back to the last transition
\* no block is missing, however blocks were freed, forked, saved and restored.
TransitionReachable ==
    \E a \in MainChain : AtTransition(a) /\ Height[a] > Height[lastBlock] - Interval

\* A confirmed transaction is mined, at that height, in the chain of the tip,
\* through any sequence of forks and reorganizations.
Confirmed(t) == txHeight[t] \notin {UNREGISTERED, TX_UNCONFIRMED}
ConfirmationsOnMainChain ==
    \A t \in Txs : Confirmed(t) =>
        \E a \in Chain[lastBlock] : Height[a] = txHeight[t] /\ t \in TxIn[a]

\* No confirmation is missed: a transaction matched by one of the newest stored
\* blocks of the main chain has the height of that block.  (An older block that is
\* relayed once more, after VerifyBlock has freed it, is stored like a block of a
\* fork, and its transactions keep the height they have.)
MatchedAreConfirmed ==
    \A a \in MainChain : Height[a] > Height[lastBlock] - Interval =>
        \A t \in matched[a] : txHeight[t] = Height[a]

\* What the network is relied on for where the proofs need it: no reorganization
\* replaces Interval blocks or more, and no chain mines a transaction twice.
ChainBlocks == Checkpoints \cup Network
ShortForks ==
    \A a, b \in ChainBlocks : Height[b] = Height[a] + 1 =>
        \E d \in Chain[a] \cap Chain[b] : Height[d] > Height[a] - Interval
MinedOnce == \A b \in Hash : \A a, c \in Chain[b] : TxIn[a] \cap TxIn[c] # {} => a = c

\* The rows written by any interleaving of saves, and left by a crash between
\* deleteAllBlocks and putMerkleBlocks, never lack a transition block to restore
\* from ("make sure the set of blocks to be saved starts at a difficulty
\* interval", BRPeerManager.c:1350).
SavedHasTransition == saved # {} => TransitionRows(saved) # {}

\* A reorganization never leaves behind a checkpoint that the chain had passed.
KeepsCheckpoints ==
    [][lastBlock' # lastBlock /\ ~Rescan /\ ~Restart =>
        /\ Height[lastBlock'] > Height[lastBlock]
        /\ Checkpoints \cap Chain[lastBlock] \subseteq Chain[lastBlock']]_vars
=============================================================================
