-------------------------- MODULE HeaderChainProofs --------------------------
(* Proofs about HeaderChain: its types; that the tip stays stored and that    *)
(* transitions are found, without rescans; that checkpoints are kept, without *)
(* crashes; that a restart finds a transition block; that confirmations match *)
(* the main chain, without either.                                            *)
EXTENDS HeaderChain, SequenceTheorems, WellFoundedInduction, TLAPS

-----------------------------------------------------------------------------
(* Sets of numbers                                                          *)

\* A set of numbers has a least element.
LEMMA LeastExists ==
    ASSUME NEW T \in SUBSET Nat, T # {}
    PROVE  \E x \in T : \A y \in T : x <= y
<1>1. PICK x \in T : \A y \in T : ~ (<<y, x>> \in OpToRel(<, Nat))
  BY NatLessThanWellFounded, WFMin
<1>2. ASSUME NEW y \in T, y < x PROVE FALSE
  <2>1. <<y, x>> \in Nat \X Nat /\ <<y, x>>[1] < <<y, x>>[2]
    BY <1>2
  <2>2. <<y, x>> \in OpToRel(<, Nat)
    BY <2>1 DEF OpToRel
  <2> QED BY <1>1, <2>2
<1> QED BY <1>2

-----------------------------------------------------------------------------
(* Heights                                                                  *)

\* Among some blocks one is lowest.
LEMMA LowestExists ==
    ASSUME NEW S \in SUBSET Hash, S # {}
    PROVE  \E b \in S : \A a \in S : Height[b] <= Height[a]
<1> DEFINE T == {Height[b] : b \in S}
<1>1. T \in SUBSET Nat /\ T # {}
  BY ConstantsAssumption
<1>2. \E x \in T : \A y \in T : x <= y
  BY <1>1, LeastExists
<1> QED
  BY <1>2

\* Among some blocks one is highest: heights are bounded by TX_UNCONFIRMED.
LEMMA HighestExists ==
    ASSUME NEW S \in SUBSET Hash, S # {}
    PROVE  \E b \in S : \A a \in S : Height[a] <= Height[b]
<1> DEFINE T == {TX_UNCONFIRMED - Height[b] : b \in S}
<1>1. T \in SUBSET Nat /\ T # {}
  BY ConstantsAssumption
<1>2. PICK x \in T : \A y \in T : x <= y
  BY <1>1, LeastExists
<1>3. PICK b \in S : x = TX_UNCONFIRMED - Height[b]
  BY <1>2
<1>4. ASSUME NEW a \in S PROVE Height[a] <= Height[b]
  <2>1. TX_UNCONFIRMED - Height[b] <= TX_UNCONFIRMED - Height[a]
    BY <1>2, <1>3
  <2> QED BY <2>1, ConstantsAssumption
<1> QED
  BY <1>4

LEMMA TipIn ==
    ASSUME NEW S \in SUBSET Hash, S # {}
    PROVE  Tip(S) \in S /\ \A a \in S : Height[a] <= Height[Tip(S)]
BY HighestExists DEF Tip

LEMMA FirstCheckpointIn == FirstCheckpoint \in Checkpoints
BY LowestExists, ConstantsAssumption DEF FirstCheckpoint

LEMMA StartCheckpointIn == StartCheckpoint \in Checkpoints
BY TipIn, FirstCheckpointIn, ConstantsAssumption DEF StartCheckpoint, OldCheckpoints

LEMMA RunIn ==
    ASSUME NEW b \in Hash, NEW S, NEW stubs
    PROVE  Run(b, S, stubs) \subseteq Hash
BY ConstantsAssumption DEF Run

\* VerifyBlock frees no transition block, so no checkpoint.
LEMMA PrunedIn ==
    ASSUME NEW b \in Hash
    PROVE  Pruned(b) \in SUBSET (Hash \ Checkpoints)
BY RunIn, CheckpointAssumption DEF Pruned, RunOf, AtTransition

-----------------------------------------------------------------------------
(* Types                                                                    *)

\* What the branches of _peerRelayedBlock change.
BlockTypes ==
    /\ blocks \subseteq Hash /\ stub \subseteq Checkpoints \cap blocks
    /\ matched \in [Hash -> SUBSET Txs]
    /\ lastBlock \in Hash
    /\ orphans \subseteq Orphan
    /\ lastOrphan \in Hash \cup {NoBlock, Freed}
    /\ bloomFilter \in BOOLEAN
    /\ filterSent \subseteq Peers
    /\ estimatedHeight \in Nat
    /\ freedCheckpoints \subseteq Checkpoints
    /\ txHeight \in [Txs -> Nat \cup {UNREGISTERED}]
    /\ work \in [Peers -> Work]
    /\ fault \in {"none", "lastBlockFreed", "checkpointFreed", "nullBlock", "savedBlockFreed"}

\* What they leave alone, or get from the false positive check.
PeerTypes ==
    /\ filterUpdate \in [Peers -> {"none", "ping", "load", "lost"}]
    /\ downloadPeer \in Peers \cup {NoPeer}
    /\ status \in [Peers -> {"none", "connected", "closing"}]
    /\ saved \subseteq Row

LEMMA TypeOKParts == TypeOK <=> BlockTypes /\ PeerTypes
BY DEF TypeOK, BlockTypes, PeerTypes

LEMMA NoWorkType == NoWork \in Work
BY DEF NoWork, Work

LEMMA DeferredType ==
    ASSUME NEW save \in SUBSET Row, NEW next \in SUBSET Orphan
    PROVE  Deferred(save, next) \in Work
BY DEF Deferred, Work

LEMMA MarkFreedType ==
    ASSUME NEW W \in [Peers -> Work], NEW F
    PROVE  MarkFreed(W, F) \in [Peers -> Work]
<1>1. ASSUME NEW q \in Peers, NEW c \in BOOLEAN
      PROVE  [W[q] EXCEPT !.freed = @ \/ c] \in Work
  <2>1. W[q] \in Work
    OBVIOUS
  <2>2. (W[q].freed \/ c) \in BOOLEAN
    BY <2>1 DEF Work
  <2> QED BY <2>1, <2>2 DEF Work
<1> QED
  BY <1>1 DEF MarkFreed

LEMMA FinishType ==
    ASSUME BlockTypes, NEW p \in Peers, NEW b \in Hash, NEW orph \in SUBSET Orphan,
           NEW save \in SUBSET Row, NEW F, Finish(p, b, orph, save, F)
    PROVE  /\ estimatedHeight' \in Nat /\ orphans' \subseteq Orphan
           /\ work' \in [Peers -> Work]
<1> DEFINE next == {o \in orph : Prev[o.hash] = b}
<1>1. Deferred(save, next) \in Work
  BY DeferredType
<1>2. MarkFreed(work, F) \in [Peers -> Work]
  BY MarkFreedType DEF BlockTypes
<1>3. /\ estimatedHeight' = IF Height[b] > estimatedHeight THEN Height[b] ELSE estimatedHeight
      /\ orphans' = orph \ next
      /\ work' = [MarkFreed(work, F) EXCEPT ![p] = Deferred(save, next)]
  BY DEF Finish
<1>4. work' \in [Peers -> Work]
  BY <1>1, <1>2, <1>3
<1> QED
  BY <1>3, <1>4, ConstantsAssumption DEF BlockTypes

LEMMA ReleaseType ==
    ASSUME BlockTypes, NEW p \in Peers, NEW b \in Hash, NEW own, NEW F, Release(p, b, own, F)
    PROVE  /\ lastOrphan' \in Hash \cup {NoBlock, Freed}
           /\ orphans' \subseteq Orphan /\ estimatedHeight' \in Nat
           /\ work' \in [Peers -> Work]
<1>1. MarkFreed(work, F) \in [Peers -> Work]
  BY MarkFreedType DEF BlockTypes
<1>2. work' \in [Peers -> Work]
  BY <1>1, NoWorkType DEF Release
<1> QED
  BY <1>2 DEF Release, BlockTypes

LEMMA ConfirmType ==
    ASSUME NEW th \in [Txs -> Nat \cup {UNREGISTERED}], NEW txs, NEW b \in Hash
    PROVE  Confirm(th, txs, Height[b]) \in [Txs -> Nat \cup {UNREGISTERED}]
BY ConstantsAssumption DEF Confirm

LEMMA ClearedType ==
    ASSUME NEW m \in [Hash -> SUBSET Txs], NEW F
    PROVE  Cleared(m, F) \in [Hash -> SUBSET Txs]
BY DEF Cleared

LEMMA RowsType ==
    ASSUME BlockTypes, NEW x \in Orphan, NEW b \in Hash, NEW n, NEW S, NEW stubs \in SUBSET Checkpoints
    PROVE  Rows(b, x, n, S, stubs) \in SUBSET Row
<1>1. SaveSet(b, n, S, stubs) \subseteq Hash
  BY RunIn DEF SaveSet
<1>2. ASSUME NEW a \in Hash, NEW txs \in SUBSET Txs PROVE SavedRow(a, txs, stubs) \in Row
  BY ConstantsAssumption DEF SavedRow, Row
<1>3. ASSUME NEW a \in Hash PROVE (IF a = b THEN x.txs ELSE matched[a]) \in SUBSET Txs
  BY DEF BlockTypes, Orphan
<1> QED
  BY <1>1, <1>2, <1>3 DEF Rows

LEMMA OrphanAfterType ==
    ASSUME BlockTypes, NEW F PROVE OrphanAfter(F) \in Hash \cup {NoBlock, Freed}
BY DEF OrphanAfter, BlockTypes

LEMMA CompleteType ==
    ASSUME BlockTypes, NEW p \in Peers, NEW x \in Orphan, NEW st, NEW extends, NEW S,
           NEW stubs \in SUBSET Checkpoints, NEW F, Complete(p, x, st, extends, S, stubs, F)
    PROVE  /\ bloomFilter' \in BOOLEAN /\ filterSent' \subseteq Peers
           /\ lastOrphan' \in Hash \cup {NoBlock, Freed}
           /\ estimatedHeight' \in Nat /\ orphans' \subseteq Orphan
           /\ work' \in [Peers -> Work]
<1>1. x.hash \in Hash
  BY DEF Orphan
<1>2. PICK reloaded \in MempoolReloads(x.hash, st) :
        /\ bloomFilter' = (bloomFilter \/ reloaded # {})
        /\ filterSent' = filterSent \cup reloaded
        /\ lastOrphan' = IF reloaded # {} THEN NoBlock ELSE OrphanAfter(F)
        /\ Finish(p, x.hash, IF reloaded # {} THEN {} ELSE orphans,
                  Rows(x.hash, x, SaveCount(x.hash, extends), S, stubs), F)
  BY DEF Complete
<1>3. reloaded \subseteq Peers
  BY <1>2 DEF MempoolReloads, ConnectedIn
<1>4. Rows(x.hash, x, SaveCount(x.hash, extends), S, stubs) \in SUBSET Row
  BY <1>1, RowsType
<1>5. (IF reloaded # {} THEN {} ELSE orphans) \in SUBSET Orphan
  BY DEF BlockTypes
<1>6. estimatedHeight' \in Nat /\ orphans' \subseteq Orphan /\ work' \in [Peers -> Work]
  BY <1>1, <1>2, <1>4, <1>5, FinishType
<1>7. bloomFilter' \in BOOLEAN /\ filterSent' \subseteq Peers
  BY <1>2, <1>3 DEF BlockTypes
<1>8. lastOrphan' \in Hash \cup {NoBlock, Freed}
  BY <1>2, OrphanAfterType
<1> QED
  BY <1>6, <1>7, <1>8

\* The branches of _peerRelayedBlock one by one.
LEMMA FaultType ==
    ASSUME BlockTypes, NEW kind \in {"lastBlockFreed", "checkpointFreed", "nullBlock"}, Fault(kind)
    PROVE  BlockTypes'
BY DEF Fault, BlockTypes, chainVars, orphanVars, filterVars

LEMMA IgnoredType ==
    ASSUME BlockTypes, NEW p \in Peers, NEW x \in Orphan, NEW own, Ignored(p, x, own)
    PROVE  BlockTypes'
<1>1. Release(p, x.hash, own, {}) /\ x.hash \in Hash
  BY DEF Ignored, Orphan
<1> QED
  BY <1>1, ReleaseType DEF Ignored, BlockTypes, chainVars, filterVars

LEMMA AddOrphanType ==
    ASSUME BlockTypes, NEW x \in Orphan PROVE AddOrphan(x) \in SUBSET Orphan
BY DEF AddOrphan, BlockTypes

LEMMA KeepOrphanType ==
    ASSUME BlockTypes, NEW p \in Peers, NEW x \in Orphan, KeepOrphan(p, x)
    PROVE  BlockTypes'
<1>1. x.hash \in Hash
  BY DEF Orphan
<1>2. estimatedHeight' \in Nat /\ orphans' \subseteq Orphan /\ work' \in [Peers -> Work]
  <2>1. CASE x.known
    <3>1. Finish(p, x.hash, AddOrphan(x), {}, {}) /\ {} \in SUBSET Row
      BY <2>1 DEF KeepOrphan
    <3> QED BY <1>1, <3>1, AddOrphanType, FinishType
  <2>2. CASE ~x.known
    <3>1. /\ orphans' = AddOrphan(x) /\ estimatedHeight' = estimatedHeight
          /\ work' = [work EXCEPT ![p] = NoWork]
      BY <2>2 DEF KeepOrphan
    <3> QED BY <3>1, AddOrphanType, NoWorkType DEF BlockTypes
  <2> QED BY <2>1, <2>2
<1> QED
  BY <1>1, <1>2 DEF KeepOrphan, BlockTypes, chainVars, filterVars

LEMMA ReleaseBlockType ==
    ASSUME BlockTypes, NEW p \in Peers, NEW x \in Orphan, NEW own,
           NEW F \in SUBSET (Hash \ Checkpoints), ReleaseBlock(p, x, own, F)
    PROVE  BlockTypes'
<1>1. Release(p, x.hash, own, F) /\ x.hash \in Hash
  BY DEF ReleaseBlock, Orphan
<1>2. matched' \in [Hash -> SUBSET Txs]
  BY ClearedType DEF ReleaseBlock, BlockTypes
<1> QED
  BY <1>1, <1>2, ReleaseType DEF ReleaseBlock, BlockTypes, filterVars

LEMMA MatchedType ==
    ASSUME BlockTypes, NEW x \in Orphan, NEW F
    PROVE  [Cleared(matched, F) EXCEPT ![x.hash] = x.txs] \in [Hash -> SUBSET Txs]
<1>1. x.hash \in Hash /\ x.txs \in SUBSET Txs
  BY DEF Orphan
<1>2. Cleared(matched, F) \in [Hash -> SUBSET Txs]
  BY ClearedType DEF BlockTypes
<1> QED BY <1>1, <1>2


LEMMA ExtendMainChainType ==
    ASSUME BlockTypes, NEW p \in Peers, NEW x \in Orphan, NEW st,
           NEW F \in SUBSET (Hash \ Checkpoints), ExtendMainChain(p, x, st, F)
    PROVE  BlockTypes'
<1>1. x.hash \in Hash /\ x.txs \in SUBSET Txs
  BY DEF Orphan
<1>2. blocks' \subseteq Hash /\ stub' \subseteq Checkpoints \cap blocks'
  BY <1>1 DEF ExtendMainChain, BlockTypes
<1>3. txHeight' \in [Txs -> Nat \cup {UNREGISTERED}]
  BY <1>1, ConfirmType DEF ExtendMainChain, BlockTypes
<1>4. stub' \in SUBSET Checkpoints /\ Complete(p, x, st, TRUE, blocks', stub', F)
  BY <1>2 DEF ExtendMainChain
<1>5. /\ bloomFilter' \in BOOLEAN /\ filterSent' \subseteq Peers
      /\ lastOrphan' \in Hash \cup {NoBlock, Freed}
      /\ estimatedHeight' \in Nat /\ orphans' \subseteq Orphan
      /\ work' \in [Peers -> Work]
  BY <1>4, CompleteType
<1>6. matched' \in [Hash -> SUBSET Txs]
  BY MatchedType DEF ExtendMainChain
<1> QED
  BY <1>1, <1>2, <1>3, <1>5, <1>6 DEF ExtendMainChain, BlockTypes

LEMMA ReplaceBlockType ==
    ASSUME BlockTypes, NEW p \in Peers, NEW x \in Orphan, NEW own,
           NEW F \in SUBSET (Hash \ Checkpoints), x.hash \in blocks, ReplaceBlock(p, x, own, F)
    PROVE  BlockTypes'
<1> DEFINE b == x.hash
           main == Run(lastBlock, blocks \ F, stub)
<1>1. CASE Fault("nullBlock")
  BY <1>1, FaultType
<1>2. CASE /\ blocks' = blocks \ F /\ stub' = stub \ {b}
           /\ matched' = [Cleared(matched, F) EXCEPT ![b] = x.txs]
           /\ freedCheckpoints' = freedCheckpoints \cup (stub \cap {b})
           /\ txHeight' = IF b \in main THEN Confirm(txHeight, x.txs, Height[b]) ELSE txHeight
           /\ lastOrphan' = IF lastOrphan = b /\ ~own /\ ~InFlight(b) THEN NoBlock
                            ELSE OrphanAfter(F)
           /\ Finish(p, b, orphans, {}, F \cup {b})
           /\ UNCHANGED <<lastBlock, filterVars, fault>>
  <2>1. b \in Hash
    BY DEF Orphan
  <2>2. estimatedHeight' \in Nat /\ orphans' \subseteq Orphan /\ work' \in [Peers -> Work]
    <3>1. orphans \in SUBSET Orphan /\ {} \in SUBSET Row
      BY DEF BlockTypes
    <3> QED BY <1>2, <2>1, <3>1, FinishType
  <2>3. txHeight' \in [Txs -> Nat \cup {UNREGISTERED}]
    BY <1>2, <2>1, ConfirmType DEF BlockTypes
  <2>4. matched' \in [Hash -> SUBSET Txs]
    BY <1>2, MatchedType
  <2>5. lastOrphan' \in Hash \cup {NoBlock, Freed}
    BY <1>2, OrphanAfterType
  <2> QED
    BY <1>2, <2>2, <2>3, <2>4, <2>5 DEF BlockTypes, filterVars
<1> QED
  BY <1>1, <1>2 DEF ReplaceBlock

LEMMA PostponeBlockType ==
    ASSUME BlockTypes, NEW p \in Peers, NEW x \in Orphan,
           NEW F \in SUBSET (Hash \ Checkpoints), PostponeBlock(p, x, F)
    PROVE  BlockTypes'
<1>1. x.hash \in Hash /\ [x EXCEPT !.known = TRUE] \in Orphan /\ {} \in SUBSET Row
  BY DEF Orphan
<1>2. AddOrphan([x EXCEPT !.known = TRUE]) \in SUBSET Orphan
  BY <1>1, AddOrphanType
<1>3. estimatedHeight' \in Nat /\ orphans' \subseteq Orphan /\ work' \in [Peers -> Work]
  BY <1>1, <1>2, FinishType DEF PostponeBlock
<1>4. matched' \in [Hash -> SUBSET Txs]
  BY ClearedType DEF PostponeBlock, BlockTypes
<1> QED
  BY <1>1, <1>3, <1>4 DEF PostponeBlock, BlockTypes, filterVars

LEMMA AddForkType ==
    ASSUME BlockTypes, NEW p \in Peers, NEW x \in Orphan,
           NEW F \in SUBSET (Hash \ Checkpoints), AddFork(p, x, F)
    PROVE  BlockTypes'
<1>1. x.hash \in Hash /\ orphans \in SUBSET Orphan /\ {} \in SUBSET Row
  BY DEF Orphan, BlockTypes
<1>2. estimatedHeight' \in Nat /\ orphans' \subseteq Orphan /\ work' \in [Peers -> Work]
  BY <1>1, FinishType DEF AddFork
<1>3. matched' \in [Hash -> SUBSET Txs]
  BY MatchedType DEF AddFork
<1>4. lastOrphan' \in Hash \cup {NoBlock, Freed}
  BY OrphanAfterType DEF AddFork
<1> QED
  BY <1>1, <1>2, <1>3, <1>4 DEF AddFork, BlockTypes, filterVars

LEMMA ConfirmForkType ==
    ASSUME NEW th \in [Txs -> Nat \cup {UNREGISTERED}], NEW fork \in SUBSET Hash, NEW txsOf
    PROVE  ConfirmFork(th, fork, txsOf) \in [Txs -> Nat \cup {UNREGISTERED}]
<1>1. ASSUME NEW t \in Txs, {a \in fork : t \in txsOf[a]} # {}
      PROVE  (CHOOSE a \in {b \in fork : t \in txsOf[b]} :
                 \A c \in {b \in fork : t \in txsOf[b]} : Height[a] <= Height[c]) \in Hash
  <2>1. {a \in fork : t \in txsOf[a]} \in SUBSET Hash
    OBVIOUS
  <2> QED BY <1>1, <2>1, LowestExists
<1>2. \A b \in Hash : Height[b] \in Nat
  BY ConstantsAssumption
<1> QED
  BY <1>1, <1>2 DEF ConfirmFork

LEMMA UnconfirmAfterType ==
    ASSUME NEW th \in [Txs -> Nat \cup {UNREGISTERED}], NEW h
    PROVE  UnconfirmAfter(th, h) \in [Txs -> Nat \cup {UNREGISTERED}]
BY ConstantsAssumption DEF UnconfirmAfter

LEMMA ReorganizeType ==
    ASSUME BlockTypes, NEW p \in Peers, NEW x \in Orphan, NEW st,
           NEW F \in SUBSET (Hash \ Checkpoints), Reorganize(p, x, st, F)
    PROVE  BlockTypes'
<1> DEFINE b == x.hash
           fork == Run(b, blocks \ F, stub)
           main == Run(lastBlock, blocks \ F, stub)
           lowest(S) == CHOOSE h \in {Height[a] : a \in S} : \A a \in S : h <= Height[a]
           joined == fork \cap main # {}
           join == IF joined THEN Height[Tip(fork \cap main)] ELSE lowest(main) - 1
           txsOf == [matched EXCEPT ![b] = x.txs]
           D == IF joined THEN JoiningBlocks(fork, join) ELSE {}
<1>1. CASE Fault("nullBlock")
  BY <1>1, FaultType
<1>2. CASE /\ blocks' = (blocks \ F) \cup {b}
           /\ matched' = [Cleared(matched, F) EXCEPT ![b] = x.txs]
           /\ lastBlock' = b
           /\ txHeight' = ConfirmFork(UnconfirmAfter(txHeight, join), D, txsOf)
           /\ Complete(p, x, st, FALSE, blocks', stub, F)
           /\ UNCHANGED <<stub, freedCheckpoints, fault>>
  <2>1. b \in Hash /\ stub \in SUBSET Checkpoints
    BY DEF Orphan, BlockTypes
  <2>2. D \in SUBSET Hash
    BY <2>1, RunIn DEF JoiningBlocks
  <2>3. txHeight' \in [Txs -> Nat \cup {UNREGISTERED}]
    <3>1. UnconfirmAfter(txHeight, join) \in [Txs -> Nat \cup {UNREGISTERED}]
      BY UnconfirmAfterType DEF BlockTypes
    <3> HIDE DEF D, txsOf, join
    <3> QED BY <1>2, <2>2, <3>1, ConfirmForkType
  <2>4. /\ bloomFilter' \in BOOLEAN /\ filterSent' \subseteq Peers
        /\ lastOrphan' \in Hash \cup {NoBlock, Freed}
        /\ estimatedHeight' \in Nat /\ orphans' \subseteq Orphan
        /\ work' \in [Peers -> Work]
    BY <1>2, <2>1, CompleteType
  <2>5. matched' \in [Hash -> SUBSET Txs]
    BY <1>2, MatchedType
  <2> QED
    BY <1>2, <2>1, <2>3, <2>4, <2>5 DEF BlockTypes
<1> QED
  BY <1>1, <1>2 DEF Reorganize

LEMMA StoreBlockType ==
    ASSUME BlockTypes, NEW p \in Peers, NEW x \in Orphan, NEW own, NEW st,
           NEW F \in SUBSET (Hash \ Checkpoints), StoreBlock(p, x, own, st, F)
    PROVE  BlockTypes'
<1> USE DEF StoreBlock
<1>1. CASE ExtendMainChain(p, x, st, F)
  BY <1>1, ExtendMainChainType
<1>2. CASE x.hash \in blocks /\ ReplaceBlock(p, x, own, F)
  BY <1>2, ReplaceBlockType
<1>3. CASE PostponeBlock(p, x, F)
  BY <1>3, PostponeBlockType
<1>4. CASE ReleaseBlock(p, x, own, F)
  BY <1>4, ReleaseBlockType
<1>5. CASE AddFork(p, x, F)
  BY <1>5, AddForkType
<1>6. CASE Reorganize(p, x, st, F)
  BY <1>6, ReorganizeType
<1> QED
  BY <1>1, <1>2, <1>3, <1>4, <1>5, <1>6

StatusType == [Peers -> {"none", "connected", "closing"}]

LEMMA DisconnectType ==
    ASSUME NEW st \in StatusType, NEW p PROVE Disconnect(st, p) \in StatusType
BY DEF Disconnect, StatusType

LEMMA PlaceBlockType ==
    ASSUME BlockTypes, NEW p \in Peers, NEW x \in Orphan, NEW own, NEW st \in StatusType,
           PlaceBlock(p, x, own, st)
    PROVE  BlockTypes' /\ status' \in StatusType
<1> DEFINE b == x.hash
           F == Pruned(b)
<1>1. F \in SUBSET (Hash \ Checkpoints)
  BY PrunedIn DEF Orphan
<1>2. CASE \E kind \in {"lastBlockFreed", "checkpointFreed"} : Fault(kind) /\ status' = st
  BY <1>2, FaultType
<1>3. CASE StoreBlock(p, x, own, st, F) /\ status' = st
  BY <1>1, <1>3, StoreBlockType
<1>4. CASE ReleaseBlock(p, x, own, F) /\ status' = Disconnect(st, p)
  BY <1>1, <1>4, ReleaseBlockType, DisconnectType
<1> QED
  BY <1>2, <1>3, <1>4 DEF PlaceBlock

LEMMA UpdateFilterType ==
    ASSUME NEW fu \in [Peers -> {"none", "ping", "load", "lost"}]
    PROVE  UpdateFilter(fu) \in [Peers -> {"none", "ping", "load", "lost"}]
BY DEF UpdateFilter

LEMMA HandleBlockType ==
    ASSUME TypeOK, NEW p \in Peers, NEW x \in Orphan, NEW header, NEW own,
           HandleBlock(p, x, header, own)
    PROVE  TypeOK'
<1>1. BlockTypes /\ PeerTypes
  BY TypeOKParts
<1>2. PICK check \in FalsePositiveChecks(p, header) :
        /\ \/ Refused(x, header) /\ Ignored(p, x, own) /\ status' = check[1]
           \/ ~Refused(x, header) /\ Prev[x.hash] \notin blocks
                /\ OrphanBlock(p, x, own) /\ status' = check[1]
           \/ ~Refused(x, header) /\ Prev[x.hash] \in blocks /\ PlaceBlock(p, x, own, check[1])
        /\ filterUpdate' = check[2]
        /\ UNCHANGED <<downloadPeer, saved>>
  BY DEF HandleBlock
<1>3. /\ check[1] \in StatusType
      /\ check[2] \in [Peers -> {"none", "ping", "load", "lost"}]
  BY <1>1, DisconnectType, UpdateFilterType DEF FalsePositiveChecks, When, PeerTypes, StatusType
<1>4. BlockTypes' /\ status' \in StatusType
  <2>1. CASE Ignored(p, x, own) /\ status' = check[1]
    BY <1>1, <1>3, <2>1, IgnoredType
  <2>2. CASE OrphanBlock(p, x, own) /\ status' = check[1]
    BY <1>1, <1>3, <2>2, IgnoredType, KeepOrphanType DEF OrphanBlock
  <2>3. CASE PlaceBlock(p, x, own, check[1])
    BY <1>1, <1>3, <2>3, PlaceBlockType
  <2> QED BY <1>2, <2>1, <2>2, <2>3
<1>5. PeerTypes'
  BY <1>1, <1>2, <1>3, <1>4 DEF PeerTypes, StatusType
<1> QED
  BY <1>4, <1>5 DEF TypeOK, BlockTypes, PeerTypes

\* The actions of a peer's thread.
LEMMA RelayBlockType ==
    ASSUME TypeOK, NEW p \in Peers, RelayBlock(p) PROVE TypeOK'
<1>1. PICK b \in Network, header \in BOOLEAN : \E txs \in SUBSET (TxIn[b] \cap Registered) :
        HandleBlock(p, [hash |-> b, txs |-> txs, known |-> FALSE], header, FALSE)
  BY DEF RelayBlock
<1>2. PICK txs \in SUBSET (TxIn[b] \cap Registered) :
        HandleBlock(p, [hash |-> b, txs |-> txs, known |-> FALSE], header, FALSE)
  BY <1>1
<1>3. [hash |-> b, txs |-> txs, known |-> FALSE] \in Orphan
  BY DEF Network, Orphan, Registered
<1> QED
  BY <1>2, <1>3, HandleBlockType

LEMMA HandleNextType ==
    ASSUME TypeOK, NEW p \in Peers, HandleNext(p) PROVE TypeOK'
<1>1. PICK x \in work[p].next : HandleBlock(p, x, FALSE, TRUE)
  BY DEF HandleNext
<1>2. x \in Orphan
  BY <1>1 DEF TypeOK, Work
<1> QED
  BY <1>1, <1>2, HandleBlockType

LEMMA SavingType ==
    ASSUME TypeOK, NEW p \in Peers, CopyBlocks(p) \/ DeleteRows(p) \/ PutRows(p)
    PROVE  TypeOK'
<1> USE DEF TypeOK, chainVars, orphanVars, filterVars, peerVars
<1>1. work[p] \in Work
  OBVIOUS
<1>2. CASE CopyBlocks(p)
  <2>1. [work[p] EXCEPT !.pc = IF work[p].replace THEN "delete" ELSE "put"] \in Work
    BY <1>1 DEF Work
  <2> QED BY <1>2, <2>1 DEF CopyBlocks
<1>3. CASE DeleteRows(p)
  <2>1. [work[p] EXCEPT !.pc = "put"] \in Work
    BY <1>1 DEF Work
  <2> QED BY <1>3, <2>1 DEF DeleteRows
<1>4. CASE PutRows(p)
  <2>1. work[p].save \in SUBSET Row /\ work[p].next \in SUBSET Orphan
    BY <1>1 DEF Work
  <2>2. Deferred({}, work[p].next) \in Work
    BY <2>1, DeferredType
  <2> QED BY <1>4, <2>1, <2>2 DEF PutRows
<1> QED
  BY <1>2, <1>3, <1>4

LEMMA RelayTxType ==
    ASSUME TypeOK, NEW p \in Peers, RelayTx(p) PROVE TypeOK'
<1> USE DEF TypeOK, chainVars, orphanVars, peerVars
<1>1. PICK t \in Txs, beyondFilter \in BOOLEAN :
        /\ txHeight' = [txHeight EXCEPT ![t] = IF @ = UNREGISTERED THEN TX_UNCONFIRMED ELSE @]
        /\ IF bloomFilter /\ beyondFilter
           THEN bloomFilter' = FALSE /\ filterUpdate' = UpdateFilter(filterUpdate)
           ELSE UNCHANGED <<bloomFilter, filterUpdate>>
  BY DEF RelayTx
<1>2. txHeight' \in [Txs -> Nat \cup {UNREGISTERED}]
  BY <1>1, ConstantsAssumption
<1>3. filterUpdate' \in [Peers -> {"none", "ping", "load", "lost"}] /\ bloomFilter' \in BOOLEAN
  BY <1>1, UpdateFilterType
<1> QED
  BY <1>2, <1>3 DEF RelayTx

LEMMA FilterPeersIn == ASSUME TypeOK PROVE FilterPeers \subseteq Peers
BY DEF TypeOK, FilterPeers, ConnectedIn

LEMMA UpdateFilterDoneType ==
    ASSUME TypeOK, NEW p \in Peers, UpdateFilterPingDone(p) \/ UpdateFilterLoadDone(p)
    PROVE  TypeOK'
<1> USE DEF TypeOK, chainVars, orphanVars, filterVars, peerVars
<1>1. CASE UpdateFilterPingDone(p)
  BY <1>1, FilterPeersIn DEF UpdateFilterPingDone, LoadBloomFilter
<1>2. CASE UpdateFilterLoadDone(p)
  BY <1>2 DEF UpdateFilterLoadDone
<1> QED
  BY <1>1, <1>2

LEMMA SelectDownloadPeerType ==
    ASSUME TypeOK, NEW p \in Peers, SelectDownloadPeer(p)
    PROVE  /\ status' \in StatusType /\ downloadPeer' \in Peers /\ estimatedHeight' \in Nat
           /\ bloomFilter' = TRUE /\ filterSent' \subseteq Peers
           /\ orphans' = {} /\ lastOrphan' = NoBlock /\ UNCHANGED chainVars
<1> DEFINE connected == ConnectedIn(status) \cup {p}
           st == [status EXCEPT ![p] = "connected"]
<1>1. PICK q \in connected :
        /\ downloadPeer' = q
        /\ status' = IF downloadPeer = NoPeer THEN st ELSE Disconnect(st, downloadPeer)
        /\ estimatedHeight' = PeerLast[q]
        /\ LoadBloomFilter(IF Height[lastBlock] < PeerLast[q] THEN {q}
                           ELSE {q} \cup ConnectedIn(status'))
        /\ UNCHANGED chainVars
  BY DEF SelectDownloadPeer
<1>2. q \in Peers
  BY DEF ConnectedIn
<1>3. st \in StatusType
  BY DEF TypeOK, StatusType
<1>4. status' \in StatusType
  BY <1>1, <1>3, DisconnectType
<1> QED
  BY <1>1, <1>2, <1>4, ConstantsAssumption DEF LoadBloomFilter, ConnectedIn, TypeOK

LEMMA PeerConnectedType ==
    ASSUME TypeOK, NEW p \in Peers, PeerConnected(p) PROVE TypeOK'
<1> USE DEF TypeOK, chainVars, orphanVars, filterVars, PeerConnected
<1>1. CASE UnfitPeer(p)
  BY <1>1 DEF UnfitPeer
<1>2. CASE KeepDownloadPeer(p)
  BY <1>2 DEF KeepDownloadPeer, LoadBloomFilter
<1>3. CASE SelectDownloadPeer(p)
  BY <1>3, SelectDownloadPeerType DEF StatusType
<1> QED
  BY <1>1, <1>2, <1>3

LEMMA PeerDisconnectedType ==
    ASSUME TypeOK, NEW p \in Peers, PeerDisconnected(p) PROVE TypeOK'
BY DEF TypeOK, PeerDisconnected, chainVars, orphanVars

\* The application's thread.
LEMMA RescanType ==
    ASSUME TypeOK, Rescan PROVE TypeOK'
<1>1. lastBlock' \in Hash
  BY DEF Rescan, TypeOK
<1>2. status' \in StatusType
  BY DisconnectType DEF Rescan, TypeOK, StatusType
<1> QED
  BY <1>1, <1>2 DEF TypeOK, Rescan, orphanVars, filterVars, StatusType

LEMMA NewManagerType ==
    ASSUME TypeOK, NEW restored \in SUBSET Row, NEW T \in SUBSET Row, NewManager(restored, T)
    PROVE  /\ blocks' \subseteq Hash /\ stub' \subseteq Checkpoints \cap blocks'
           /\ matched' \in [Hash -> SUBSET Txs] /\ lastBlock' \in Hash
           /\ orphans' \subseteq Orphan
<1> DEFINE hashes == {r.hash : r \in restored}
<1>1. hashes \in SUBSET Hash
  BY DEF Row
<1>2. lastBlock' \in Hash
  BY <1>1, TipIn, StartCheckpointIn, ConstantsAssumption DEF NewManager
<1>3. orphans' \subseteq Orphan
  <2>1. \A r \in T : [hash |-> r.hash, txs |-> r.txs, known |-> TRUE] \in Orphan
    BY DEF Row, Orphan
  <2>2. orphans' \subseteq {[hash |-> r.hash, txs |-> r.txs, known |-> TRUE] : r \in T}
    BY DEF NewManager
  <2> QED BY <2>1, <2>2
<1>4. matched' \in [Hash -> SUBSET Txs]
  BY DEF NewManager, Row
<1> QED
  BY <1>1, <1>2, <1>3, <1>4, ConstantsAssumption DEF NewManager

LEMMA TablesIn ==
    ASSUME NEW rows \in SUBSET Row, NEW T \in Tables(rows) PROVE T \in SUBSET Row
BY DEF Tables

LEMMA RestartType ==
    ASSUME TypeOK, Restart PROVE TypeOK'
<1>1. PICK T \in Tables(saved) :
        \/ TransitionRows(saved) = {} /\ NewManager({}, T)
        \/ \E start \in TransitionRows(saved) : NewManager(Reached(start, T), T)
  BY DEF Restart
<1>2. T \in SUBSET Row
  BY <1>1, TablesIn DEF TypeOK
<1>3. \A start \in TransitionRows(saved) : Reached(start, T) \in SUBSET Row
  BY <1>2 DEF TransitionRows, Reached, TypeOK
<1>4. \E restored \in SUBSET Row : NewManager(restored, T)
  BY <1>1, <1>3
<1>5. /\ blocks' \subseteq Hash /\ stub' \subseteq Checkpoints \cap blocks'
      /\ matched' \in [Hash -> SUBSET Txs] /\ lastBlock' \in Hash /\ orphans' \subseteq Orphan
  BY <1>2, <1>4, NewManagerType
<1> QED
  BY <1>5, NoWorkType DEF Restart, TypeOK

LEMMA InitType == Init => TypeOK
<1> SUFFICES ASSUME Init PROVE TypeOK
  OBVIOUS
<1>1. StartCheckpoint \in Hash
  BY StartCheckpointIn, ConstantsAssumption
<1> QED
  BY <1>1, NoWorkType, ConstantsAssumption DEF Init, TypeOK

LEMMA NextType == TypeOK /\ [Next]_vars => TypeOK'
<1> SUFFICES ASSUME TypeOK, [Next]_vars PROVE TypeOK'
  OBVIOUS
<1>1. CASE Rescan
  BY <1>1, RescanType
<1>2. CASE Restart
  BY <1>2, RestartType
<1>3. ASSUME NEW p \in Peers, PeerStep(p) PROVE TypeOK'
  BY <1>3, PeerConnectedType, PeerDisconnectedType, RelayBlockType, HandleNextType,
     RelayTxType, SavingType, UpdateFilterDoneType DEF PeerStep
<1>4. CASE UNCHANGED vars
  BY <1>4 DEF vars, chainVars, orphanVars, filterVars, peerVars, TypeOK
<1> QED
  BY <1>1, <1>2, <1>3, <1>4 DEF Next

\* Every variable keeps its type, in every step of every thread.
THEOREM TypeCorrect == Spec => []TypeOK
BY InitType, NextType, PTL DEF Spec

-----------------------------------------------------------------------------
(* The tip stays stored as long as nobody rescans                           *)

\* Without rescans a stored block above the tip can only be a checkpoint.
TipInv ==
    /\ lastBlock \in blocks /\ fault # "lastBlockFreed"
    /\ \A b \in blocks : Height[b] > Height[lastBlock] => b \in Checkpoints

\* Two neighbouring heights are not both transitions.
LEMMA NotBothTransitions ==
    ASSUME NEW h \in Nat, h % Interval = 0, (h + 1) % Interval = 0 PROVE FALSE
<1>1. Interval \in Nat /\ Interval > 1
  BY ConstantsAssumption
<1> QED
  BY <1>1

\* What VerifyBlock frees for b lies more than an interval below b.  The
\* predecessor of b is stored and no checkpoint, so it is at most as high as the
\* tip, which is therefore not freed.
LEMMA TipNotPruned ==
    ASSUME TypeOK, TipInv, NEW b \in Hash, Prev[b] \in blocks
    PROVE  lastBlock \notin Pruned(b)
<1> SUFFICES ASSUME lastBlock \in Pruned(b) PROVE FALSE
  OBVIOUS
<1>1. Prev[b] \in Hash /\ lastBlock \in Hash
  BY DEF TypeOK
<1>2. Height[b] % Interval = 0 /\ Height[lastBlock] < Height[b] - Interval
  BY DEF Pruned, AtTransition
<1>3. Height[b] = Height[Prev[b]] + 1
  BY <1>1, ChainAssumption
<1>4. /\ Height[b] \in Nat /\ Height[Prev[b]] \in Nat /\ Height[lastBlock] \in Nat
      /\ Interval \in Nat /\ Interval > 1
  BY <1>1, ConstantsAssumption
<1>5. Height[Prev[b]] > Height[lastBlock]
  BY <1>2, <1>3, <1>4
<1>6. Height[Prev[b]] % Interval = 0
  BY <1>5, CheckpointAssumption DEF TipInv
<1> QED
  BY <1>2, <1>3, <1>4, <1>6, NotBothTransitions

\* A block whose predecessor is stored, and no higher than the tip's successor.
LEMMA ExtendMainChainTip ==
    ASSUME TypeOK, TipInv, NEW p \in Peers, NEW x \in Orphan, NEW st, NEW F,
           Prev[x.hash] = lastBlock, ExtendMainChain(p, x, st, F)
    PROVE  TipInv'
<1>1. x.hash \in Hash /\ lastBlock \in Hash /\ blocks \subseteq Hash
  BY DEF Orphan, TypeOK
<1>2. Height[x.hash] = Height[lastBlock] + 1
  BY <1>1, ChainAssumption
<1>3. \A a \in Hash : Height[a] \in Nat
  BY ConstantsAssumption
<1>4. /\ blocks' = (blocks \ F) \cup {x.hash} /\ lastBlock' = x.hash /\ fault' = fault
  BY DEF ExtendMainChain
<1> QED
  BY <1>1, <1>2, <1>3, <1>4 DEF TipInv

\* Steps that leave the tip where it is and store nothing above it.
LEMMA TipUnchanged ==
    ASSUME TypeOK, TipInv, NEW F, lastBlock \notin F, NEW b \in Hash, Height[b] <= Height[lastBlock],
           blocks' \subseteq (blocks \ F) \cup {b}, blocks \ F \subseteq blocks',
           lastBlock' = lastBlock, fault' # "lastBlockFreed"
    PROVE  TipInv'
<1>1. \A a \in Hash : Height[a] \in Nat
  BY ConstantsAssumption
<1> QED
  BY <1>1 DEF TipInv, TypeOK

LEMMA ReorganizeTip ==
    ASSUME TypeOK, TipInv, NEW p \in Peers, NEW x \in Orphan, NEW st, NEW F, lastBlock \notin F,
           ~IsNoHigher(x.hash), Reorganize(p, x, st, F)
    PROVE  TipInv'
<1>1. x.hash \in Hash /\ lastBlock \in Hash /\ blocks \subseteq Hash
  BY DEF Orphan, TypeOK
<1>2. \A a \in Hash : Height[a] \in Nat
  BY ConstantsAssumption
<1>3. Height[x.hash] > Height[lastBlock]
  BY <1>1, <1>2 DEF IsNoHigher
<1>4. CASE Fault("nullBlock")
  BY <1>4 DEF Fault, chainVars, TipInv
<1>5. CASE blocks' = (blocks \ F) \cup {x.hash} /\ lastBlock' = x.hash /\ fault' = fault
  BY <1>1, <1>2, <1>3, <1>5 DEF TipInv
<1> QED
  BY <1>4, <1>5 DEF Reorganize

LEMMA StoreBlockTip ==
    ASSUME TypeOK, TipInv, NEW p \in Peers, NEW x \in Orphan, NEW own, NEW st,
           NEW F, lastBlock \notin F, StoreBlock(p, x, own, st, F)
    PROVE  TipInv'
<1> DEFINE b == x.hash
<1>1. b \in Hash /\ lastBlock \in Hash
  BY DEF Orphan, TypeOK
<1>2. \A a \in Hash : Height[a] \in Nat
  BY ConstantsAssumption
<1>3. CASE Prev[b] = lastBlock /\ ExtendMainChain(p, x, st, F)
  BY <1>3, ExtendMainChainTip
<1>4. CASE ReplaceBlock(p, x, own, F)
  <2>1. CASE Fault("nullBlock")
    BY <2>1 DEF Fault, chainVars, TipInv
  <2>2. CASE blocks' = blocks \ F /\ UNCHANGED <<lastBlock, filterVars, fault>>
    BY <2>2, <1>1, <1>2, TipUnchanged DEF TipInv
  <2> QED BY <1>4, <2>1, <2>2 DEF ReplaceBlock
<1>5. CASE PostponeBlock(p, x, F)
  BY <1>1, <1>2, <1>5, TipUnchanged DEF PostponeBlock, TipInv
<1>6. CASE ReleaseBlock(p, x, own, F)
  BY <1>1, <1>2, <1>6, TipUnchanged DEF ReleaseBlock, TipInv
<1>7. CASE IsNoHigher(b) /\ AddFork(p, x, F)
  BY <1>1, <1>7, TipUnchanged DEF AddFork, TipInv, IsNoHigher
<1>8. CASE ~IsNoHigher(b) /\ Reorganize(p, x, st, F)
  BY <1>8, ReorganizeTip
<1> QED
  BY <1>3, <1>4, <1>5, <1>6, <1>7, <1>8 DEF StoreBlock

LEMMA HandleBlockTip ==
    ASSUME TypeOK, TipInv, NEW p \in Peers, NEW x \in Orphan, NEW header, NEW own,
           HandleBlock(p, x, header, own)
    PROVE  TipInv'
<1>1. CASE Ignored(p, x, own) \/ KeepOrphan(p, x)
  BY <1>1 DEF Ignored, KeepOrphan, chainVars, TipInv
<1>2. ASSUME Prev[x.hash] \in blocks, NEW st, PlaceBlock(p, x, own, st) PROVE TipInv'
  <2> DEFINE F == Pruned(x.hash)
  <2>1. x.hash \in Hash /\ lastBlock \in Hash
    BY DEF Orphan, TypeOK
  <2>2. lastBlock \notin F
    BY <1>2, <2>1, TipNotPruned
  <2>3. CASE Fault("checkpointFreed")
    BY <2>3 DEF Fault, chainVars, TipInv
  <2>4. CASE StoreBlock(p, x, own, st, F)
    BY <2>2, <2>4, StoreBlockTip
  <2>5. CASE ReleaseBlock(p, x, own, F)
    BY <2>1, <2>2, <2>5, TipUnchanged, ConstantsAssumption DEF ReleaseBlock, TipInv
  <2> QED
    BY <1>2, <2>2, <2>3, <2>4, <2>5 DEF PlaceBlock
<1> QED
  BY <1>1, <1>2 DEF HandleBlock, OrphanBlock

LEMMA PeerStepTip ==
    ASSUME TypeOK, TipInv, NEW p \in Peers, PeerStep(p)
    PROVE  TipInv'
<1>1. CASE RelayBlock(p)
  <2>1. PICK b \in Network, header \in BOOLEAN : \E txs \in SUBSET (TxIn[b] \cap Registered) :
          HandleBlock(p, [hash |-> b, txs |-> txs, known |-> FALSE], header, FALSE)
    BY <1>1 DEF RelayBlock
  <2>2. PICK txs \in SUBSET (TxIn[b] \cap Registered) :
          HandleBlock(p, [hash |-> b, txs |-> txs, known |-> FALSE], header, FALSE)
    BY <2>1
  <2>3. [hash |-> b, txs |-> txs, known |-> FALSE] \in Orphan
    BY DEF Network, Orphan, Registered
  <2> QED BY <2>2, <2>3, HandleBlockTip
<1>2. CASE HandleNext(p)
  <2>1. PICK x \in work[p].next : HandleBlock(p, x, FALSE, TRUE)
    BY <1>2 DEF HandleNext
  <2>2. x \in Orphan
    BY <2>1 DEF TypeOK, Work
  <2> QED BY <2>1, <2>2, HandleBlockTip
<1>3. CASE CopyBlocks(p)
  BY <1>3 DEF CopyBlocks, chainVars, TipInv
<1>4. CASE DeleteRows(p) \/ PutRows(p)
  BY <1>4 DEF DeleteRows, PutRows, chainVars, TipInv
<1>5. CASE RelayTx(p)
  BY <1>5 DEF RelayTx, chainVars, TipInv
<1>6. CASE UpdateFilterPingDone(p) \/ UpdateFilterLoadDone(p)
  BY <1>6 DEF UpdateFilterPingDone, UpdateFilterLoadDone, chainVars, TipInv
<1>7. CASE PeerConnected(p)
  BY <1>7 DEF PeerConnected, UnfitPeer, KeepDownloadPeer, SelectDownloadPeer, chainVars, TipInv
<1>8. CASE PeerDisconnected(p)
  BY <1>8 DEF PeerDisconnected, chainVars, TipInv
<1> QED
  BY <1>1, <1>2, <1>3, <1>4, <1>5, <1>6, <1>7, <1>8 DEF PeerStep

\* After a restart the tip is the highest restored block, or a checkpoint.
LEMMA RestartTip ==
    ASSUME TypeOK, Restart PROVE TipInv'
<1>1. PICK T \in Tables(saved) :
        \/ TransitionRows(saved) = {} /\ NewManager({}, T)
        \/ \E start \in TransitionRows(saved) : NewManager(Reached(start, T), T)
  BY DEF Restart
<1>2. \A start \in TransitionRows(saved) : Reached(start, T) \in SUBSET Row
  BY <1>1, TablesIn DEF TransitionRows, Reached, TypeOK
<1>3. PICK restored \in SUBSET Row : NewManager(restored, T)
  BY <1>1, <1>2
<1> DEFINE hashes == {r.hash : r \in restored}
<1>4. hashes \in SUBSET Hash
  BY DEF Row
<1>5. fault' = "none"
  BY DEF Restart
<1>6. blocks' = Checkpoints \cup hashes
      /\ lastBlock' = IF hashes = {} THEN StartCheckpoint ELSE Tip(hashes)
  BY <1>3 DEF NewManager
<1>7. CASE hashes = {}
  BY <1>5, <1>6, <1>7, StartCheckpointIn DEF TipInv
<1>8. CASE hashes # {}
  <2>1. Tip(hashes) \in hashes /\ \A a \in hashes : Height[a] <= Height[Tip(hashes)]
    BY <1>4, <1>8, TipIn
  <2>2. lastBlock' = Tip(hashes)
    BY <1>6, <1>8
  <2> HIDE DEF hashes
  <2>3. \A a \in hashes : ~(Height[a] > Height[lastBlock'])
    BY <1>4, <2>1, <2>2, ConstantsAssumption
  <2> QED BY <1>5, <1>6, <2>1, <2>2, <2>3 DEF TipInv
<1> QED
  BY <1>7, <1>8

LEMMA InitTip == Init => TipInv
BY StartCheckpointIn DEF Init, TipInv

\* A wallet that never rescans never frees its tip, in any interleaving of peers,
\* forks, reorganizations and restarts.  With rescans the statement is false: a
\* rescan leaves stored blocks above the tip that are no checkpoints.
THEOREM TipStored == ASSUME Rescans = {} PROVE Spec => []LastBlockStored
<1>1. Rescans = {} /\ TypeOK /\ TipInv /\ [Next]_vars => TipInv'
  <2> SUFFICES ASSUME Rescans = {}, TypeOK, TipInv, [Next]_vars PROVE TipInv'
    OBVIOUS
  <2>1. CASE Rescan
    BY <2>1 DEF Rescan, RescanStarts
  <2>2. CASE Restart
    BY <2>2, RestartTip
  <2>3. CASE \E p \in Peers : PeerStep(p)
    BY <2>3, PeerStepTip
  <2>4. CASE UNCHANGED vars
    BY <2>4 DEF vars, chainVars, TipInv
  <2> QED BY <2>1, <2>2, <2>3, <2>4 DEF Next
<1>2. TipInv => LastBlockStored
  BY DEF TipInv, LastBlockStored
<1> QED
  BY <1>1, <1>2, InitTip, TypeCorrect, PTL DEF Spec

-----------------------------------------------------------------------------
(* Checkpoints                                                              *)

\* A stored block has every checkpoint that is not above it in its chain.
CheckpointInv ==
    \A a \in blocks, c \in Checkpoints : Height[c] <= Height[a] => c \in Chain[a]

\* The step from a stored block to a verified successor.
LEMMA VerifiedKeepsCheckpoints ==
    ASSUME TypeOK, CheckpointInv, NEW b \in Hash, Prev[b] \in blocks, Verified(b),
           NEW c \in Checkpoints, Height[c] <= Height[b]
    PROVE  c \in Chain[b]
<1>1. Prev[b] \in Hash /\ c \in Hash
  BY ConstantsAssumption DEF TypeOK
<1>2. /\ Height[b] = Height[Prev[b]] + 1 /\ Chain[b] = {b} \cup Chain[Prev[b]]
  BY <1>1, ChainAssumption
<1>3. Height[b] \in Nat /\ Height[c] \in Nat /\ Height[Prev[b]] \in Nat
  BY <1>1, ConstantsAssumption
<1>4. CASE Height[c] = Height[b]
  BY <1>2, <1>4 DEF Verified
<1>5. CASE Height[c] # Height[b]
  <2>1. Height[c] <= Height[Prev[b]]
    BY <1>2, <1>3, <1>5
  <2> QED BY <1>2, <2>1 DEF CheckpointInv
<1> QED
  BY <1>4, <1>5

\* What every step of a peer's thread does to the tip and the stored blocks:
\* the tip moves up, to a verified block whose predecessor is stored, or not at all.
AddsVerified ==
    \/ blocks' \subseteq blocks /\ lastBlock' = lastBlock
    \/ \E b \in Hash :
        /\ Prev[b] \in blocks /\ Verified(b)
        /\ blocks' \subseteq blocks \cup {b} /\ b \in blocks'
        /\ lastBlock' # lastBlock => lastBlock' = b /\ Height[b] > Height[lastBlock]

LEMMA StoreBlockAdds ==
    ASSUME TypeOK, NEW p \in Peers, NEW x \in Orphan, NEW own, NEW st, NEW F,
           Prev[x.hash] \in blocks, Verified(x.hash), StoreBlock(p, x, own, st, F)
    PROVE  AddsVerified
<1> DEFINE b == x.hash
<1>1. b \in Hash /\ lastBlock \in Hash
  BY DEF Orphan, TypeOK
<1>2. \A a \in Hash : Height[a] \in Nat
  BY ConstantsAssumption
<1>3. CASE Prev[b] = lastBlock /\ ExtendMainChain(p, x, st, F)
  <2>1. Height[b] = Height[lastBlock] + 1
    BY <1>1, <1>3, ChainAssumption
  <2>2. Height[b] > Height[lastBlock]
    BY <1>1, <1>2, <2>1
  <2> QED BY <1>1, <1>3, <2>2 DEF ExtendMainChain, AddsVerified
<1>4. CASE ReplaceBlock(p, x, own, F)
  BY <1>4 DEF ReplaceBlock, Fault, chainVars, AddsVerified
<1>5. CASE PostponeBlock(p, x, F) \/ ReleaseBlock(p, x, own, F)
  BY <1>5 DEF PostponeBlock, ReleaseBlock, AddsVerified
<1>6. CASE AddFork(p, x, F)
  BY <1>1, <1>6 DEF AddFork, AddsVerified
<1>7. CASE ~IsNoHigher(b) /\ Reorganize(p, x, st, F)
  <2>1. Height[b] > Height[lastBlock]
    BY <1>1, <1>2, <1>7 DEF IsNoHigher
  <2>2. CASE Fault("nullBlock")
    BY <2>2 DEF Fault, chainVars, AddsVerified
  <2>3. CASE blocks' = (blocks \ F) \cup {b} /\ lastBlock' = b
    BY <1>1, <2>1, <2>3 DEF AddsVerified
  <2> QED BY <1>7, <2>2, <2>3 DEF Reorganize
<1> QED
  BY <1>3, <1>4, <1>5, <1>6, <1>7 DEF StoreBlock

LEMMA HandleBlockAdds ==
    ASSUME TypeOK, NEW p \in Peers, NEW x \in Orphan, NEW header, NEW own,
           HandleBlock(p, x, header, own)
    PROVE  AddsVerified
<1>1. CASE Ignored(p, x, own) \/ KeepOrphan(p, x)
  BY <1>1 DEF Ignored, KeepOrphan, chainVars, AddsVerified
<1>2. ASSUME Prev[x.hash] \in blocks, NEW st, PlaceBlock(p, x, own, st) PROVE AddsVerified
  <2> DEFINE F == Pruned(x.hash)
  <2>1. CASE \E kind : Fault(kind)
    BY <2>1 DEF Fault, chainVars, AddsVerified
  <2>2. CASE Verified(x.hash) /\ StoreBlock(p, x, own, st, F)
    BY <1>2, <2>2, StoreBlockAdds
  <2>3. CASE ReleaseBlock(p, x, own, F)
    BY <2>3 DEF ReleaseBlock, AddsVerified
  <2> QED BY <1>2, <2>1, <2>2, <2>3 DEF PlaceBlock
<1> QED
  BY <1>1, <1>2 DEF HandleBlock, OrphanBlock

LEMMA PeerStepAdds ==
    ASSUME TypeOK, NEW p \in Peers, PeerStep(p) PROVE AddsVerified
<1>1. CASE RelayBlock(p)
  <2>1. PICK b \in Network, header \in BOOLEAN : \E txs \in SUBSET (TxIn[b] \cap Registered) :
          HandleBlock(p, [hash |-> b, txs |-> txs, known |-> FALSE], header, FALSE)
    BY <1>1 DEF RelayBlock
  <2>2. PICK txs \in SUBSET (TxIn[b] \cap Registered) :
          HandleBlock(p, [hash |-> b, txs |-> txs, known |-> FALSE], header, FALSE)
    BY <2>1
  <2>3. [hash |-> b, txs |-> txs, known |-> FALSE] \in Orphan
    BY DEF Network, Orphan, Registered
  <2> QED BY <2>2, <2>3, HandleBlockAdds
<1>2. CASE HandleNext(p)
  <2>1. PICK x \in work[p].next : HandleBlock(p, x, FALSE, TRUE)
    BY <1>2 DEF HandleNext
  <2>2. x \in Orphan
    BY <2>1 DEF TypeOK, Work
  <2> QED BY <2>1, <2>2, HandleBlockAdds
<1>3. CASE UNCHANGED chainVars
  BY <1>3 DEF chainVars, AddsVerified
<1>4. ASSUME ~RelayBlock(p), ~HandleNext(p) PROVE UNCHANGED chainVars
  BY <1>4 DEF PeerStep, CopyBlocks, DeleteRows, PutRows, RelayTx, UpdateFilterPingDone,
     UpdateFilterLoadDone, PeerConnected, UnfitPeer, KeepDownloadPeer, SelectDownloadPeer,
     PeerDisconnected
<1> QED
  BY <1>1, <1>2, <1>3, <1>4

LEMMA AddsKeepsCheckpoints ==
    ASSUME TypeOK, TypeOK', CheckpointInv, AddsVerified PROVE CheckpointInv'
<1>1. CASE blocks' \subseteq blocks /\ lastBlock' = lastBlock
  BY <1>1 DEF CheckpointInv
<1>2. ASSUME NEW b \in Hash, Prev[b] \in blocks, Verified(b), blocks' \subseteq blocks \cup {b}
      PROVE  CheckpointInv'
  BY <1>2, VerifiedKeepsCheckpoints DEF CheckpointInv
<1> QED
  BY <1>1, <1>2 DEF AddsVerified

\* The chain never leaves a checkpoint behind and the tip never moves down, except
\* by a rescan: whatever the peers send, in whatever order their threads run.
\* (Restarts are excluded: the stub of a checkpoint comes back with another hash.)
THEOREM CheckpointsKept == ASSUME CanCrash = FALSE PROVE Spec => KeepsCheckpoints
<1>1. Init => CheckpointInv
  BY CheckpointAssumption DEF Init, CheckpointInv
<1>2. CanCrash = FALSE /\ TypeOK /\ TypeOK' /\ CheckpointInv /\ [Next]_vars => CheckpointInv'
  <2> SUFFICES ASSUME CanCrash = FALSE, TypeOK, TypeOK', CheckpointInv, [Next]_vars
               PROVE CheckpointInv'
    OBVIOUS
  <2>1. CASE Rescan
    BY <2>1 DEF Rescan, CheckpointInv
  <2>2. CASE \E p \in Peers : PeerStep(p)
    BY <2>2, PeerStepAdds, AddsKeepsCheckpoints
  <2>3. CASE UNCHANGED vars
    BY <2>3 DEF vars, chainVars, CheckpointInv
  <2> QED BY <2>1, <2>2, <2>3 DEF Next, Restart
<1>3. TypeOK /\ TypeOK' /\ CheckpointInv /\ CheckpointInv' /\ [Next]_vars =>
        [lastBlock' # lastBlock /\ ~Rescan /\ ~Restart =>
            /\ Height[lastBlock'] > Height[lastBlock]
            /\ Checkpoints \cap Chain[lastBlock] \subseteq Chain[lastBlock']]_vars
  <2> SUFFICES ASSUME TypeOK, TypeOK', CheckpointInv, CheckpointInv', Next,
                      lastBlock' # lastBlock, ~Rescan, ~Restart
               PROVE  /\ Height[lastBlock'] > Height[lastBlock]
                      /\ Checkpoints \cap Chain[lastBlock] \subseteq Chain[lastBlock']
    BY DEF vars, chainVars
  <2>1. AddsVerified
    BY PeerStepAdds DEF Next
  <2>2. Height[lastBlock'] > Height[lastBlock] /\ lastBlock' \in blocks'
    BY <2>1 DEF AddsVerified
  <2>3. ASSUME NEW c \in Checkpoints, c \in Chain[lastBlock] PROVE c \in Chain[lastBlock']
    <3>1. c \in Hash /\ lastBlock \in Hash /\ lastBlock' \in Hash
      BY ConstantsAssumption DEF TypeOK
    <3>2. Height[c] \in Nat /\ Height[lastBlock] \in Nat /\ Height[lastBlock'] \in Nat
      BY <3>1, ConstantsAssumption
    <3>3. c # lastBlock => Height[c] < Height[lastBlock]
      BY <2>3, <3>1, ChainAssumption
    <3>4. Height[c] <= Height[lastBlock']
      BY <2>2, <3>2, <3>3
    <3> QED BY <2>2, <3>4 DEF CheckpointInv
  <2> QED BY <2>2, <2>3
<1> QED
  BY <1>1, <1>2, <1>3, TypeCorrect, PTL DEF Spec, KeepsCheckpoints

-----------------------------------------------------------------------------
(* Rows to restore from                                                     *)

HasTransition(rows) == \E r \in rows : AtTransition(r.hash)

\* Every thread holds only rows that start at a difficulty transition.
SaveInv ==
    /\ saved # {} => HasTransition(saved)
    /\ \A p \in Peers : work[p].save # {} => HasTransition(work[p].save)

\* The blocks to save are cut at the lowest transition among them.
LEMMA RowsHaveTransition ==
    ASSUME NEW b \in Hash, NEW x, NEW n, NEW S, NEW stubs \in SUBSET Checkpoints,
           Rows(b, x, n, S, stubs) # {}
    PROVE  HasTransition(Rows(b, x, n, S, stubs))
<1>1. PICK a \in SaveSet(b, n, S, stubs) : TRUE
  BY DEF Rows
<1>2. PICK t \in {c \in Run(b, S, stubs) : Height[c] > Height[b] - n} :
        AtTransition(t) /\ Height[t] <= Height[a]
  BY <1>1 DEF SaveSet
<1>3. t \in Hash
  BY <1>2, RunIn
<1>4. t \in SaveSet(b, n, S, stubs)
  <2>1. Height[t] <= Height[t]
    BY <1>3, ConstantsAssumption
  <2> QED BY <1>2, <2>1 DEF SaveSet
<1> DEFINE r == SavedRow(t, IF t = b THEN x.txs ELSE matched[t], stubs)
<1>5. r \in Rows(b, x, n, S, stubs)
  BY <1>4 DEF Rows
<1>6. AtTransition(r.hash)
  <2>1. CASE t \in stubs
    <3>1. r.hash = Reparsed[t] /\ Height[Reparsed[t]] = Height[t]
      BY <2>1, ConstantsAssumption DEF SavedRow
    <3> QED BY <1>2, <3>1 DEF AtTransition
  <2>2. CASE t \notin stubs
    BY <1>2, <2>2 DEF SavedRow
  <2> QED BY <2>1, <2>2
<1> QED
  BY <1>5, <1>6 DEF HasTransition

\* What a step does to the rows in hand: a thread keeps its rows, drops them, or
\* takes those of a chain.
RowsKept ==
    \A q \in Peers : work'[q].save \in {work[q].save, {}} \/ HasTransition(work'[q].save)

LEMMA SaveStep ==
    ASSUME SaveInv, RowsKept, saved' = saved PROVE SaveInv'
BY DEF SaveInv, RowsKept

LEMMA MarkFreedKeeps ==
    ASSUME TypeOK, NEW F, NEW p \in Peers, NEW w \in Work, work' = [MarkFreed(work, F) EXCEPT ![p] = w],
           w.save = {} \/ HasTransition(w.save)
    PROVE  RowsKept
<1>1. ASSUME NEW q \in Peers, q # p PROVE work'[q].save = work[q].save
  <2>1. work[q] \in Work /\ MarkFreed(work, F) \in [Peers -> Work]
    BY MarkFreedType DEF TypeOK
  <2>2. work'[q] = MarkFreed(work, F)[q]
    BY <1>1, <2>1
  <2> DEFINE v == work[q]  c == v.pc = "copy" /\ \E r \in v.save : r.hash \in F \cup {Reparsed[e] : e \in F \cap Checkpoints}
  <2>3. MarkFreed(work, F)[q] = [v EXCEPT !.freed = @ \/ c]
    BY DEF MarkFreed
  <2> HIDE DEF v, c
  <2>4. v \in Work
    BY <2>1 DEF v
  <2>5. [v EXCEPT !.freed = @ \/ c].save = v.save
    BY <2>4 DEF Work
  <2> QED BY <2>2, <2>3, <2>5 DEF v
<1>2. work'[p] = w
  <2>1. MarkFreed(work, F) \in [Peers -> Work]
    BY MarkFreedType DEF TypeOK
  <2> QED BY <2>1
<1> QED
  BY <1>1, <1>2 DEF RowsKept

LEMMA FinishKeeps ==
    ASSUME TypeOK, NEW p \in Peers, NEW b, NEW orph \in SUBSET Orphan, NEW save \in SUBSET Row, NEW F,
           save = {} \/ HasTransition(save), Finish(p, b, orph, save, F)
    PROVE  RowsKept
<1> DEFINE next == {o \in orph : Prev[o.hash] = b}
<1>1. Deferred(save, next) \in Work /\ Deferred(save, next).save = save
  BY DeferredType DEF Deferred
<1>2. work' = [MarkFreed(work, F) EXCEPT ![p] = Deferred(save, next)]
  BY DEF Finish
<1> HIDE DEF next
<1> QED
  BY <1>1, <1>2, MarkFreedKeeps

LEMMA ReleaseKeeps ==
    ASSUME TypeOK, NEW p \in Peers, NEW b, NEW own, NEW F, Release(p, b, own, F)
    PROVE  RowsKept
<1>1. NoWork \in Work /\ NoWork.save = {}
  BY NoWorkType DEF NoWork
<1>2. work' = [MarkFreed(work, F) EXCEPT ![p] = NoWork]
  BY DEF Release
<1> QED
  BY <1>1, <1>2, MarkFreedKeeps

LEMMA CompleteKeeps ==
    ASSUME TypeOK, NEW p \in Peers, NEW x \in Orphan, NEW st, NEW extends, NEW S,
           NEW stubs \in SUBSET Checkpoints, NEW F, Complete(p, x, st, extends, S, stubs, F)
    PROVE  RowsKept
<1>0. BlockTypes /\ x.hash \in Hash
  BY TypeOKParts DEF Orphan
<1> DEFINE save == Rows(x.hash, x, SaveCount(x.hash, extends), S, stubs)
<1>1. save \in SUBSET Row /\ (save = {} \/ HasTransition(save))
  BY <1>0, RowsType, RowsHaveTransition
<1>2. \E orph \in SUBSET Orphan : Finish(p, x.hash, orph, save, F)
  BY <1>0 DEF Complete, BlockTypes
<1> HIDE DEF save
<1> QED
  BY <1>1, <1>2, FinishKeeps

LEMMA StoreBlockKeeps ==
    ASSUME TypeOK, NEW p \in Peers, NEW x \in Orphan, NEW own, NEW st,
           NEW F \in SUBSET (Hash \ Checkpoints), StoreBlock(p, x, own, st, F)
    PROVE  RowsKept
<1>0. /\ orphans \in SUBSET Orphan /\ {} \in SUBSET Row /\ stub \in SUBSET Checkpoints /\ BlockTypes
      /\ [x EXCEPT !.known = TRUE] \in Orphan
  BY TypeOKParts DEF TypeOK, Orphan
<1>1. CASE ExtendMainChain(p, x, st, F)
  <2>1. stub' \in SUBSET Checkpoints /\ Complete(p, x, st, TRUE, blocks', stub', F)
    BY <1>0, <1>1 DEF ExtendMainChain
  <2> QED BY <2>1, CompleteKeeps
<1>2. CASE ReplaceBlock(p, x, own, F)
  <2>1. CASE Fault("nullBlock")
    BY <2>1 DEF Fault, RowsKept
  <2>2. CASE Finish(p, x.hash, orphans, {}, F \cup {x.hash})
    BY <1>0, <2>2, FinishKeeps
  <2> QED BY <1>2, <2>1, <2>2 DEF ReplaceBlock
<1>3. CASE PostponeBlock(p, x, F)
  <2>1. AddOrphan([x EXCEPT !.known = TRUE]) \in SUBSET Orphan
    BY <1>0, AddOrphanType
  <2> QED BY <1>0, <1>3, <2>1, FinishKeeps DEF PostponeBlock
<1>4. CASE ReleaseBlock(p, x, own, F)
  BY <1>4, ReleaseKeeps DEF ReleaseBlock
<1>5. CASE AddFork(p, x, F)
  BY <1>0, <1>5, FinishKeeps DEF AddFork
<1>6. CASE Reorganize(p, x, st, F)
  <2>1. CASE Fault("nullBlock")
    BY <2>1 DEF Fault, RowsKept
  <2>2. CASE Complete(p, x, st, FALSE, blocks', stub, F)
    BY <1>0, <2>2, CompleteKeeps
  <2> QED BY <1>6, <2>1, <2>2 DEF Reorganize
<1> QED
  BY <1>1, <1>2, <1>3, <1>4, <1>5, <1>6 DEF StoreBlock

LEMMA HandleBlockKeeps ==
    ASSUME TypeOK, NEW p \in Peers, NEW x \in Orphan, NEW header, NEW own,
           HandleBlock(p, x, header, own)
    PROVE  RowsKept
<1>1. CASE Ignored(p, x, own)
  BY <1>1, ReleaseKeeps DEF Ignored
<1>2. CASE KeepOrphan(p, x)
  <2>1. CASE x.known
    <3>1. AddOrphan(x) \in SUBSET Orphan /\ {} \in SUBSET Row
      BY AddOrphanType, TypeOKParts
    <3> QED BY <1>2, <2>1, <3>1, FinishKeeps DEF KeepOrphan
  <2>2. CASE ~x.known
    <3>1. work' = [work EXCEPT ![p] = NoWork] /\ NoWork.save = {} /\ work \in [Peers -> Work]
      BY <1>2, <2>2 DEF KeepOrphan, NoWork, TypeOK
    <3> QED BY <3>1 DEF RowsKept
  <2> QED BY <2>1, <2>2
<1>3. ASSUME NEW st, PlaceBlock(p, x, own, st) PROVE RowsKept
  <2> DEFINE F == Pruned(x.hash)
  <2>1. F \in SUBSET (Hash \ Checkpoints)
    BY PrunedIn DEF Orphan
  <2>2. CASE \E kind : Fault(kind)
    BY <2>2 DEF Fault, RowsKept
  <2>3. CASE StoreBlock(p, x, own, st, F)
    BY <2>1, <2>3, StoreBlockKeeps
  <2>4. CASE ReleaseBlock(p, x, own, F)
    BY <2>4, ReleaseKeeps DEF ReleaseBlock
  <2> QED BY <1>3, <2>2, <2>3, <2>4 DEF PlaceBlock
<1> QED
  BY <1>1, <1>2, <1>3 DEF HandleBlock, OrphanBlock

\* CopyBlocks, DeleteRows and PutRows of a thread.
LEMMA SavingKeeps ==
    ASSUME TypeOK, SaveInv, NEW p \in Peers, CopyBlocks(p) \/ DeleteRows(p) \/ PutRows(p)
    PROVE  SaveInv'
<1>0. work \in [Peers -> Work] /\ work[p] \in Work
  BY DEF TypeOK
<1>1. CASE CopyBlocks(p)
  <2>1. saved' = saved /\ \E pc : work' = [work EXCEPT ![p].pc = pc] \/ work' = work
    BY <1>1 DEF CopyBlocks
  <2>2. RowsKept
    BY <1>0, <2>1 DEF RowsKept, Work
  <2> QED BY <2>1, <2>2, SaveStep
<1>2. CASE DeleteRows(p)
  <2>1. saved' = {} /\ work' = [work EXCEPT ![p].pc = "put"]
    BY <1>2 DEF DeleteRows
  <2>2. RowsKept
    BY <1>0, <2>1 DEF RowsKept, Work
  <2> QED BY <2>1, <2>2 DEF SaveInv, RowsKept
<1>3. CASE PutRows(p)
  <2>1. saved' = saved \cup work[p].save /\ work' = [work EXCEPT ![p] = Deferred({}, work[p].next)]
    BY <1>3 DEF PutRows
  <2>2. RowsKept
    BY <1>0, <2>1 DEF RowsKept, Deferred
  <2>3. saved' # {} => HasTransition(saved')
    BY <2>1 DEF SaveInv, HasTransition
  <2> QED BY <2>2, <2>3 DEF SaveInv, RowsKept
<1> QED
  BY <1>1, <1>2, <1>3

LEMMA PeerStepKeeps ==
    ASSUME TypeOK, SaveInv, NEW p \in Peers, PeerStep(p) PROVE SaveInv'
<1>1. CASE RelayBlock(p)
  <2>1. PICK b \in Network, header \in BOOLEAN : \E txs \in SUBSET (TxIn[b] \cap Registered) :
          HandleBlock(p, [hash |-> b, txs |-> txs, known |-> FALSE], header, FALSE)
    BY <1>1 DEF RelayBlock
  <2>2. PICK txs \in SUBSET (TxIn[b] \cap Registered) :
          HandleBlock(p, [hash |-> b, txs |-> txs, known |-> FALSE], header, FALSE)
    BY <2>1
  <2>3. [hash |-> b, txs |-> txs, known |-> FALSE] \in Orphan
    BY DEF Network, Orphan, Registered
  <2>4. RowsKept
    BY <2>2, <2>3, HandleBlockKeeps
  <2>5. saved' = saved
    BY <2>2 DEF HandleBlock
  <2> QED BY <2>4, <2>5, SaveStep
<1>2. CASE HandleNext(p)
  <2>1. PICK x \in work[p].next : HandleBlock(p, x, FALSE, TRUE)
    BY <1>2 DEF HandleNext
  <2>2. x \in Orphan
    BY <2>1 DEF TypeOK, Work
  <2>3. RowsKept
    BY <2>1, <2>2, HandleBlockKeeps
  <2>4. saved' = saved
    BY <2>1 DEF HandleBlock
  <2> QED BY <2>3, <2>4, SaveStep
<1>3. CASE CopyBlocks(p) \/ DeleteRows(p) \/ PutRows(p)
  BY <1>3, SavingKeeps
<1>4. CASE UNCHANGED <<work, saved>>
  BY <1>4 DEF SaveInv
<1> QED
  BY <1>1, <1>2, <1>3, <1>4 DEF PeerStep, RelayTx, UpdateFilterPingDone, UpdateFilterLoadDone,
     PeerConnected, PeerDisconnected

\* The database never holds blocks without one to restore from, at any point of
\* any interleaving of saves, nor after a crash between its two transactions.
THEOREM RestoresFromTransition == Spec => []SavedHasTransition
<1>1. Init => SaveInv
  BY DEF Init, SaveInv, NoWork
<1>2. TypeOK /\ SaveInv /\ [Next]_vars => SaveInv'
  <2> SUFFICES ASSUME TypeOK, SaveInv, [Next]_vars PROVE SaveInv'
    OBVIOUS
  <2>1. CASE Rescan
    BY <2>1 DEF Rescan, SaveInv
  <2>2. CASE Restart
    BY <2>2 DEF Restart, SaveInv, NoWork
  <2>3. CASE \E p \in Peers : PeerStep(p)
    BY <2>3, PeerStepKeeps
  <2>4. CASE UNCHANGED vars
    BY <2>4 DEF vars, SaveInv
  <2> QED BY <2>1, <2>2, <2>3, <2>4 DEF Next
<1>3. TypeOK /\ SaveInv => SavedHasTransition
  <2> SUFFICES ASSUME TypeOK, SaveInv, saved # {} PROVE TransitionRows(saved) # {}
    BY DEF SavedHasTransition
  <2> DEFINE H == {r.hash : r \in {r \in saved : AtTransition(r.hash)}}
  <2>1. H \in SUBSET Hash /\ H # {}
    BY DEF TypeOK, Row, SaveInv, HasTransition
  <2>2. PICK b \in H : \A a \in H : Height[a] <= Height[b]
    BY <2>1, HighestExists
  <2>3. PICK r \in saved : r.hash = b /\ AtTransition(r.hash)
    BY <2>2
  <2>4. r \in TransitionRows(saved)
    BY <2>2, <2>3 DEF TransitionRows
  <2> QED BY <2>4
<1> QED
  BY <1>1, <1>2, <1>3, TypeCorrect, PTL DEF Spec

-----------------------------------------------------------------------------
(* Multiples of the interval                                                *)

LEMMA IsMultiple ==
    ASSUME NEW x \in Nat, x % Interval = 0
    PROVE  \E k \in Nat : x = Interval * k
<1>1. Interval \in Nat /\ Interval > 1
  BY ConstantsAssumption
<1>2. x \div Interval \in Nat /\ x = Interval * (x \div Interval) + (x % Interval)
  BY <1>1
<1> QED
  BY <1>1, <1>2

LEMMA NextMultiple ==
    ASSUME NEW x \in Nat, x % Interval = 0 PROVE (x + Interval) % Interval = 0
<1>1. Interval \in Nat /\ Interval > 1
  BY ConstantsAssumption
<1> QED
  BY <1>1

LEMMA PreviousMultiple ==
    ASSUME NEW x \in Nat, (x + Interval) % Interval = 0 PROVE x % Interval = 0
<1>0. Interval \in Nat /\ Interval > 1
  BY ConstantsAssumption
<1>1. PICK k \in Nat : x + Interval = Interval * k
  <2>1. PICK y \in Nat : y = x + Interval
    BY <1>0
  <2>2. \E k \in Nat : y = Interval * k
    BY <2>1, IsMultiple
  <2> QED BY <2>1, <2>2
<1> DEFINE q == x \div Interval  r == x % Interval
<1>2. q \in Nat /\ r \in 0 .. Interval - 1 /\ x = Interval * q + r
  BY <1>0
<1> HIDE DEF q, r
<1>3. Interval * (k - q - 1) = r
  BY <1>0, <1>1, <1>2
<1>4. k - q - 1 >= 1 => Interval * (k - q - 1) >= Interval
  BY <1>0, <1>2
<1>5. k - q - 1 <= -1 => Interval * (k - q - 1) < 0
  BY <1>0, <1>2
<1>6. r = 0
  BY <1>0, <1>2, <1>3, <1>4, <1>5
<1> QED
  BY <1>6 DEF r

LEMMA MultiplesApart ==
    ASSUME NEW x \in Nat, NEW y \in Nat, x % Interval = 0, y % Interval = 0, x < y
    PROVE  x + Interval <= y
<1>0. Interval \in Nat /\ Interval > 1
  BY ConstantsAssumption
<1>1. PICK k \in Nat : x = Interval * k
  BY IsMultiple
<1>2. PICK l \in Nat : y = Interval * l
  BY IsMultiple
<1>3. k < l
  <2> SUFFICES ASSUME l <= k PROVE FALSE
    BY <1>1, <1>2
  <2>1. Interval * l <= Interval * k
    BY <1>0
  <2> QED BY <1>0, <1>1, <1>2, <2>1
<1>4. Interval * (k + 1) <= Interval * l /\ Interval * (k + 1) = Interval * k + Interval
  BY <1>0, <1>3
<1> QED
  BY <1>0, <1>1, <1>2, <1>4

-----------------------------------------------------------------------------
(* Chains                                                                   *)

LEMMA ChainIn == ASSUME NEW b \in Hash PROVE b \in Chain[b] /\ Chain[b] \in SUBSET Hash
<1>1. Chain[b] = {b} \cup (IF Prev[b] \in Hash THEN Chain[Prev[b]] ELSE {})
  BY ChainAssumption
<1>2. b \in Chain[b]
  BY <1>1
<1>3. Chain[b] \in SUBSET Hash
  BY ConstantsAssumption
<1> QED
  BY <1>2, <1>3

LEMMA HeightIn == \A b \in Hash : Height[b] \in Nat
BY ConstantsAssumption

\* The chain of an ancestor is the part of the chain below it.
LEMMA ChainOfAncestor ==
    ASSUME NEW d \in Hash, NEW c \in Chain[d]
    PROVE  Chain[c] = {a \in Chain[d] : Height[a] <= Height[c]}
<1> DEFINE Wrong(e, f) == f \in Chain[e] /\ Chain[f] # {a \in Chain[e] : Height[a] <= Height[f]}
           S == {e \in Hash : \E f \in Hash : Wrong(e, f)}
<1>1. CASE S = {}
  BY <1>1, ChainIn
<1>2. CASE S # {}
  <2>1. PICK e \in S : \A a \in S : Height[e] <= Height[a]
    BY <1>2, LowestExists
  <2>2. PICK f \in Hash : Wrong(e, f)
    BY <2>1
  <2>3. /\ e \in Hash /\ f \in Chain[e] /\ Chain[f] # {a \in Chain[e] : Height[a] <= Height[f]}
    BY <2>1, <2>2
  <2>4. f # e
    <3>1. \A a \in Chain[e] : Height[a] <= Height[e]
      BY <2>3, ChainAssumption, ChainIn, HeightIn
    <3> QED BY <2>3, <3>1
  <2>5. Prev[e] \in Hash /\ Chain[e] = {e} \cup Chain[Prev[e]] /\ Height[e] = Height[Prev[e]] + 1
    BY <2>3, <2>4, ChainAssumption
  <2>6. f \in Chain[Prev[e]] /\ Height[f] < Height[e]
    BY <2>3, <2>4, <2>5, ChainAssumption
  <2>7. Prev[e] \notin S
    BY <2>1, <2>3, <2>5, HeightIn
  <2>8. Chain[f] = {a \in Chain[Prev[e]] : Height[a] <= Height[f]}
    BY <2>5, <2>6, <2>7
  <2>9. \A a \in Hash : Height[a] \in Nat
    BY HeightIn
  <2>10. ~(Height[e] <= Height[f])
    BY <2>3, <2>6, <2>9
  <2>11. {a \in Chain[e] : Height[a] <= Height[f]} = {a \in Chain[Prev[e]] : Height[a] <= Height[f]}
    BY <2>5, <2>10
  <2> QED BY <2>3, <2>8, <2>11
<1> QED
  BY <1>1, <1>2

\* A chain has a block at every height between two of its blocks.
LEMMA ChainIsFull ==
    ASSUME NEW d \in Hash, NEW c \in Chain[d], NEW h \in Nat, Height[c] <= h, h <= Height[d]
    PROVE  \E a \in Chain[d] : Height[a] = h
<1> DEFINE S == {a \in Chain[d] : Height[a] >= h}
<1>0. \A a \in Hash : Height[a] \in Nat
  BY HeightIn
<1>1. S \in SUBSET Hash /\ S # {}
  BY <1>0, ChainIn
<1>2. PICK e \in S : \A a \in S : Height[e] <= Height[a]
  BY <1>1, LowestExists
<1>3. CASE Height[e] = h
  BY <1>2, <1>3
<1>4. CASE Height[e] > h
  <2>1. e \in Hash /\ Chain[e] = {a \in Chain[d] : Height[a] <= Height[e]}
    BY <1>1, <1>2, ChainOfAncestor
  <2>2. c \in Chain[e] /\ c # e /\ c \in Hash
    BY <1>0, <1>1, <1>4, <2>1, ChainIn
  <2>3. Prev[e] \in Hash /\ Chain[e] = {e} \cup Chain[Prev[e]] /\ Height[e] = Height[Prev[e]] + 1
    BY <2>1, <2>2, ChainAssumption
  <2>4. Prev[e] \in Chain[d] /\ Height[Prev[e]] >= h /\ Height[Prev[e]] < Height[e]
    BY <1>0, <1>4, <2>1, <2>3, ChainIn
  <2> QED BY <1>0, <1>2, <2>1, <2>3, <2>4
<1> QED
  BY <1>0, <1>1, <1>2, <1>3, <1>4

-----------------------------------------------------------------------------
(* The last transition is found                                             *)

\* d is not below what a transition block no higher than tip + 1 lets VerifyBlock free
Recent(d, tip) == \A k \in Nat : k % Interval = 0 /\ k <= tip + 1 => Height[d] >= k - Interval

\* Between d and the last transition at or below d no block is missing.
Anchored(d) == \E a \in RunOf(d) : AtTransition(a) /\ Height[a] > Height[d] - Interval
AnchorInv == \A d \in blocks : Recent(d, Height[lastBlock]) => Anchored(d)

\* A transition block is its own anchor.
LEMMA TransitionAnchored ==
    ASSUME NEW d \in Hash, AtTransition(d) PROVE Anchored(d)
<1>1. d \in Chain[d] /\ \A c \in Chain[d] : c \in Hash /\ (c # d => Height[c] < Height[d])
  BY ChainIn, ChainAssumption
<1>2. Height[d] \in Nat /\ Interval \in Nat /\ Interval > 1 /\ \A c \in Hash : Height[c] \in Nat
  BY ConstantsAssumption
<1>3. d \in RunOf(d)
  BY <1>1, <1>2 DEF RunOf, Run
<1> QED
  BY <1>2, <1>3 DEF Anchored

LEMMA TransitionAnchoredNext ==
    ASSUME TypeOK', NEW d \in Hash, AtTransition(d) PROVE Anchored(d)'
<1>1. d \in Chain[d] /\ \A c \in Chain[d] : c \in Hash /\ (c # d => Height[c] < Height[d])
  BY ChainIn, ChainAssumption
<1>2. Height[d] \in Nat /\ Interval \in Nat /\ Interval > 1 /\ \A c \in Hash : Height[c] \in Nat
  BY ConstantsAssumption
<1>3. d \in RunOf(d)'
  BY <1>1, <1>2 DEF RunOf, Run
<1> QED
  BY <1>2, <1>3 DEF Anchored, AtTransition

\* The predecessor of a transition block is no higher than the tip.
LEMMA TransitionIsNear ==
    ASSUME TypeOK, TipInv, NEW b \in Hash, Prev[b] \in blocks, AtTransition(b)
    PROVE  Height[b] <= Height[lastBlock] + 1
<1>1. Prev[b] \in Hash /\ lastBlock \in Hash
  BY DEF TypeOK
<1>2. Height[b] = Height[Prev[b]] + 1
  BY <1>1, ChainAssumption
<1>3. Height[b] \in Nat /\ Height[Prev[b]] \in Nat /\ Height[lastBlock] \in Nat
  BY <1>1, HeightIn
<1> SUFFICES ASSUME Height[Prev[b]] > Height[lastBlock] PROVE FALSE
  BY <1>2, <1>3
<1>4. Height[Prev[b]] % Interval = 0
  BY CheckpointAssumption DEF TipInv
<1> QED
  BY <1>2, <1>3, <1>4, NotBothTransitions DEF AtTransition

\* What a step of a peer's thread does: VerifyBlock has freed blocks for b, and b
\* may be stored and may become the tip.
Places(b) ==
    /\ b \in Hash /\ Prev[b] \in blocks
    /\ blocks \ Pruned(b) \subseteq blocks' /\ blocks' \subseteq (blocks \ Pruned(b)) \cup {b}
    /\ stub' \subseteq stub
    /\ lastBlock' = lastBlock \/ (lastBlock' = b /\ Height[b] > Height[lastBlock])
PlacesOrNot == UNCHANGED <<blocks, stub, lastBlock>> \/ \E b \in Hash : Places(b)

LEMMA StoreBlockPlaces ==
    ASSUME TypeOK, NEW p \in Peers, NEW x \in Orphan, NEW own, NEW st,
           Prev[x.hash] \in blocks, StoreBlock(p, x, own, st, Pruned(x.hash))
    PROVE  PlacesOrNot
<1> DEFINE b == x.hash  F == Pruned(b)
<1>1. b \in Hash /\ lastBlock \in Hash
  BY DEF Orphan, TypeOK
<1>2. \A a \in Hash : Height[a] \in Nat
  BY HeightIn
<1> HIDE DEF F
<1>3. CASE Prev[b] = lastBlock /\ ExtendMainChain(p, x, st, F)
  <2>1. Height[b] = Height[lastBlock] + 1
    BY <1>1, <1>3, ChainAssumption
  <2>2. Height[b] > Height[lastBlock]
    BY <1>1, <1>2, <2>1
  <2>3. blocks' = (blocks \ F) \cup {b} /\ stub' = stub \ {b} /\ lastBlock' = b
    BY <1>3 DEF ExtendMainChain
  <2> QED BY <1>1, <2>2, <2>3 DEF F, PlacesOrNot, Places
<1>4. CASE ReplaceBlock(p, x, own, F)
  <2>1. CASE Fault("nullBlock")
    BY <2>1 DEF Fault, chainVars, PlacesOrNot
  <2>2. CASE blocks' = blocks \ F /\ stub' = stub \ {b} /\ UNCHANGED <<lastBlock, filterVars, fault>>
    BY <1>1, <2>2 DEF F, PlacesOrNot, Places
  <2> QED BY <1>4, <2>1, <2>2 DEF ReplaceBlock
<1>5. CASE PostponeBlock(p, x, F) \/ ReleaseBlock(p, x, own, F)
  BY <1>1, <1>5 DEF PostponeBlock, ReleaseBlock, F, PlacesOrNot, Places
<1>6. CASE AddFork(p, x, F)
  BY <1>1, <1>6 DEF AddFork, F, PlacesOrNot, Places
<1>7. CASE ~IsNoHigher(b) /\ Reorganize(p, x, st, F)
  <2>1. Height[b] > Height[lastBlock]
    BY <1>1, <1>2, <1>7 DEF IsNoHigher
  <2>2. CASE Fault("nullBlock")
    BY <2>2 DEF Fault, chainVars, PlacesOrNot
  <2>3. CASE blocks' = (blocks \ F) \cup {b} /\ lastBlock' = b /\ UNCHANGED <<stub, freedCheckpoints, fault>>
    BY <1>1, <2>1, <2>3 DEF F, PlacesOrNot, Places
  <2> QED BY <1>7, <2>2, <2>3 DEF Reorganize
<1> QED
  BY <1>3, <1>4, <1>5, <1>6, <1>7 DEF StoreBlock, F

LEMMA HandleBlockPlaces ==
    ASSUME TypeOK, NEW p \in Peers, NEW x \in Orphan, NEW header, NEW own,
           HandleBlock(p, x, header, own)
    PROVE  PlacesOrNot
<1>1. CASE Ignored(p, x, own) \/ KeepOrphan(p, x)
  BY <1>1 DEF Ignored, KeepOrphan, chainVars, PlacesOrNot
<1>2. ASSUME Prev[x.hash] \in blocks, NEW st, PlaceBlock(p, x, own, st) PROVE PlacesOrNot
  <2>0. x.hash \in Hash
    BY DEF Orphan
  <2>1. CASE \E kind : Fault(kind)
    BY <2>1 DEF Fault, chainVars, PlacesOrNot
  <2>2. CASE StoreBlock(p, x, own, st, Pruned(x.hash))
    BY <1>2, <2>2, StoreBlockPlaces
  <2>3. CASE ReleaseBlock(p, x, own, Pruned(x.hash))
    BY <1>2, <2>0, <2>3 DEF ReleaseBlock, PlacesOrNot, Places
  <2> QED BY <1>2, <2>1, <2>2, <2>3 DEF PlaceBlock
<1> QED
  BY <1>1, <1>2 DEF HandleBlock, OrphanBlock

LEMMA PeerStepPlaces ==
    ASSUME TypeOK, NEW p \in Peers, PeerStep(p) PROVE PlacesOrNot
<1>1. CASE RelayBlock(p)
  <2>1. PICK b \in Network, header \in BOOLEAN : \E txs \in SUBSET (TxIn[b] \cap Registered) :
          HandleBlock(p, [hash |-> b, txs |-> txs, known |-> FALSE], header, FALSE)
    BY <1>1 DEF RelayBlock
  <2>2. PICK txs \in SUBSET (TxIn[b] \cap Registered) :
          HandleBlock(p, [hash |-> b, txs |-> txs, known |-> FALSE], header, FALSE)
    BY <2>1
  <2>3. [hash |-> b, txs |-> txs, known |-> FALSE] \in Orphan
    BY DEF Network, Orphan, Registered
  <2> QED BY <2>2, <2>3, HandleBlockPlaces
<1>2. CASE HandleNext(p)
  <2>1. PICK x \in work[p].next : HandleBlock(p, x, FALSE, TRUE)
    BY <1>2 DEF HandleNext
  <2>2. x \in Orphan
    BY <2>1 DEF TypeOK, Work
  <2> QED BY <2>1, <2>2, HandleBlockPlaces
<1>3. CASE UNCHANGED chainVars
  BY <1>3 DEF chainVars, PlacesOrNot
<1>4. ASSUME ~RelayBlock(p), ~HandleNext(p) PROVE UNCHANGED chainVars
  BY <1>4 DEF PeerStep, CopyBlocks, DeleteRows, PutRows, RelayTx, UpdateFilterPingDone,
     UpdateFilterLoadDone, PeerConnected, UnfitPeer, KeepDownloadPeer, SelectDownloadPeer,
     PeerDisconnected
<1> QED
  BY <1>1, <1>2, <1>3, <1>4

\* Freed blocks lie below the last transition of every recent block.
LEMMA AnchorNotFreed ==
    ASSUME TypeOK, TipInv, NEW b \in Hash, Prev[b] \in blocks,
           NEW d \in Hash, Recent(d, Height[lastBlock]), NEW a \in Hash,
           AtTransition(a), Height[a] > Height[d] - Interval, NEW c \in Hash, Height[c] >= Height[a]
    PROVE  c \notin Pruned(b)
<1> SUFFICES ASSUME c \in Pruned(b) PROVE FALSE
  OBVIOUS
<1>1. AtTransition(b) /\ Height[c] < Height[b] - Interval
  BY DEF Pruned
<1>2. /\ Height[a] \in Nat /\ Height[b] \in Nat /\ Height[c] \in Nat /\ Height[d] \in Nat
      /\ lastBlock \in Hash /\ Interval \in Nat
  BY HeightIn, ConstantsAssumption DEF TypeOK
<1>3. Height[b] <= Height[lastBlock] + 1
  BY <1>1, TransitionIsNear
<1>4. Height[d] >= Height[b] - Interval
  BY <1>1, <1>2, <1>3 DEF Recent, AtTransition
<1>5. Height[a] + Interval < Height[b]
  BY <1>1, <1>2
<1>6. (Height[a] + Interval) % Interval = 0
  BY <1>2, NextMultiple DEF AtTransition
<1>7. Height[a] + Interval + Interval <= Height[b]
  BY <1>1, <1>2, <1>5, <1>6, MultiplesApart DEF AtTransition
<1> QED
  BY <1>2, <1>4, <1>7

\* A block that stays stored keeps its anchor.
LEMMA AnchorKept ==
    ASSUME TypeOK, TipInv, NEW b \in Hash, Places(b),
           NEW d \in Hash, Recent(d, Height[lastBlock]), Anchored(d)
    PROVE  Anchored(d)'
<1>1. PICK a \in RunOf(d) : AtTransition(a) /\ Height[a] > Height[d] - Interval
  BY DEF Anchored
<1>2. /\ a \in Chain[d] /\ a \in Hash
      /\ \A c \in Chain[d] : /\ Height[c] >= Height[a] /\ c # d => c \in blocks
                             /\ Height[c] > Height[a] => c \notin stub \ {d}
  BY ChainIn DEF RunOf, Run
<1>3. ASSUME NEW c \in Chain[d], Height[c] >= Height[a], c # d PROVE c \in blocks'
  <2>1. c \in Hash /\ c \notin Pruned(b)
    BY <1>1, <1>2, <1>3, AnchorNotFreed, ChainIn DEF Places
  <2> QED BY <1>2, <1>3, <2>1 DEF Places
<1>4. \A c \in Chain[d] : Height[c] > Height[a] => c \notin stub' \ {d}
  BY <1>2 DEF Places
<1>5. a \in RunOf(d)'
  BY <1>2, <1>3, <1>4 DEF RunOf, Run
<1> QED
  BY <1>1, <1>5 DEF Anchored, AtTransition

\* The anchor of a new block is itself or that of its predecessor.
LEMMA AnchorOfNew ==
    ASSUME TypeOK, TypeOK', TipInv, AnchorInv, NEW b \in Hash, Places(b),
           Recent(b, Height[lastBlock])
    PROVE  Anchored(b)'
<1>1. CASE AtTransition(b)
  BY <1>1, TransitionAnchoredNext
<1>2. CASE ~AtTransition(b)
  <2> DEFINE e == Prev[b]
  <2>1. e \in blocks /\ e \in Hash /\ lastBlock \in Hash
    BY DEF Places, TypeOK
  <2>2. Height[b] = Height[e] + 1 /\ Chain[b] = {b} \cup Chain[e]
    BY <2>1, ChainAssumption
  <2>3. Height[b] \in Nat /\ Height[e] \in Nat /\ Height[lastBlock] \in Nat /\ Interval \in Nat
    BY <2>1, ConstantsAssumption
  <2>4. Recent(e, Height[lastBlock])
    <3> SUFFICES ASSUME NEW k \in Nat, k % Interval = 0, k <= Height[lastBlock] + 1
                 PROVE  Height[e] >= k - Interval
      BY DEF Recent
    <3>1. Height[b] >= k - Interval
      BY DEF Recent
    <3>2. Height[b] # k - Interval
      <4> SUFFICES ASSUME Height[b] + Interval = k PROVE FALSE
        BY <2>3
      <4>1. Height[b] % Interval = 0
        BY <2>3, PreviousMultiple
      <4> QED BY <1>2, <4>1 DEF AtTransition
    <3> QED BY <2>2, <2>3, <3>1, <3>2
  <2>5. Anchored(e)
    BY <2>1, <2>4 DEF AnchorInv
  <2>6. PICK a \in RunOf(e) : AtTransition(a) /\ Height[a] > Height[e] - Interval
    BY <2>5 DEF Anchored
  <2> DEFINE f == IF e \in stub THEN e ELSE a
  <2>7. /\ a \in Chain[e] /\ a \in Hash /\ e \in Chain[e] /\ \A c \in Chain[e] : c \in Hash
        /\ \A c \in Chain[e] : /\ Height[c] >= Height[a] /\ c # e => c \in blocks
                               /\ Height[c] > Height[a] => c \notin stub \ {e}
    BY <2>1, ChainIn DEF RunOf, Run
  <2>8. AtTransition(f) /\ f \in Chain[e] /\ Height[f] > Height[e] - Interval
    <3>1. CASE e \in stub
      <4>1. e \in Checkpoints
        BY <3>1 DEF TypeOK
      <4> QED BY <2>3, <2>7, <3>1, <4>1, CheckpointAssumption, ConstantsAssumption DEF AtTransition
    <3> QED BY <2>6, <2>7, <3>1
  <2>9. \A c \in Chain[e] : c # e => Height[c] < Height[e]
    BY <2>1, ChainAssumption
  <2>10. Height[f] > Height[b] - Interval
    <3>1. Height[f] \in Nat
      BY <2>7, <2>8, HeightIn
    <3> SUFFICES ASSUME Height[b] = Height[f] + Interval PROVE FALSE
      BY <2>2, <2>3, <2>8, <3>1
    <3>2. Height[b] % Interval = 0
      BY <2>8, <3>1, NextMultiple DEF AtTransition
    <3> QED BY <1>2, <3>2 DEF AtTransition
  <2>11. Pruned(b) = {}
    BY <1>2 DEF Pruned
  <2>12. \A c \in Hash : Height[c] \in Nat
    BY HeightIn
  <2>13. ASSUME NEW c \in Chain[b]
         PROVE  /\ Height[c] >= Height[f] /\ c # b => c \in blocks'
                /\ Height[c] > Height[f] => c \notin stub' \ {b}
    <3>1. c = b \/ c \in Chain[e]
      BY <2>2
    <3>2. CASE e \in stub
      BY <2>1, <2>7, <2>9, <2>11, <2>12, <3>1, <3>2 DEF Places
    <3>3. CASE e \notin stub
      BY <2>1, <2>7, <2>9, <2>11, <2>12, <3>1, <3>3 DEF Places
    <3> QED BY <3>2, <3>3
  <2>14. f \in RunOf(b)'
    BY <2>2, <2>8, <2>13 DEF RunOf, Run
  <2> HIDE DEF f
  <2> QED BY <2>8, <2>10, <2>14 DEF Anchored, AtTransition
<1> QED
  BY <1>1, <1>2

\* A thread's step keeps the anchors.
LEMMA PlacesKeepsAnchors ==
    ASSUME TypeOK, TypeOK', TipInv, AnchorInv, PlacesOrNot PROVE AnchorInv'
<1>1. CASE UNCHANGED <<blocks, stub, lastBlock>>
  BY <1>1 DEF AnchorInv, Anchored, RunOf, Run, Recent, AtTransition
<1>2. ASSUME NEW b \in Hash, Places(b) PROVE AnchorInv'
  <2> SUFFICES ASSUME NEW d \in blocks', Recent(d, Height[lastBlock'])
               PROVE  Anchored(d)'
    BY DEF AnchorInv, Recent
  <2>1. d \in Hash /\ lastBlock \in Hash /\ lastBlock' \in Hash
    BY DEF TypeOK
  <2>2. Recent(d, Height[lastBlock])
    <3>1. Height[lastBlock] \in Nat /\ Height[lastBlock'] \in Nat /\ Height[lastBlock] <= Height[lastBlock']
      BY <1>2, <2>1, HeightIn DEF Places
    <3> QED BY <3>1 DEF Recent
  <2>3. CASE d \in blocks
    <3>1. Anchored(d)
      BY <2>2, <2>3 DEF AnchorInv
    <3> QED BY <1>2, <2>1, <2>2, <3>1, AnchorKept
  <2>4. CASE d \notin blocks
    <3>1. d = b
      BY <1>2, <2>4 DEF Places
    <3> QED BY <1>2, <2>2, <3>1, AnchorOfNew
  <2> QED BY <2>3, <2>4
<1> QED
  BY <1>1, <1>2 DEF PlacesOrNot

\* After a restart every restored block has the block restored from in its chain,
\* and no transition above that one.
LEMMA RestartAnchors ==
    ASSUME TypeOK, TypeOK', Restart PROVE AnchorInv'
<1>1. PICK T \in Tables(saved) :
        \/ TransitionRows(saved) = {} /\ NewManager({}, T)
        \/ \E start \in TransitionRows(saved) : NewManager(Reached(start, T), T)
  BY DEF Restart
<1>2. T \subseteq saved /\ saved \subseteq Row
  BY <1>1 DEF Tables, TypeOK
<1>3. \A c \in Checkpoints : c \in Hash /\ Anchored(c)'
  <2>1. \A c \in Checkpoints : c \in Hash /\ AtTransition(c)
    BY ConstantsAssumption, CheckpointAssumption DEF AtTransition
  <2> QED BY <2>1, TransitionAnchoredNext
<1>4. CASE NewManager({}, T)
  <2>1. blocks' = Checkpoints
    BY <1>4 DEF NewManager
  <2> QED BY <1>3, <2>1 DEF AnchorInv
<1>5. ASSUME NEW start \in TransitionRows(saved), NewManager(Reached(start, T), T) PROVE AnchorInv'
  <2> DEFINE hashes == {r.hash : r \in Reached(start, T)}
             s == start.hash
  <2>1. blocks' = Checkpoints \cup hashes /\ stub' = Checkpoints \ hashes
    BY <1>5 DEF NewManager
  <2>2. /\ s \in Hash /\ AtTransition(s)
        /\ \A r \in saved : AtTransition(r.hash) => Height[r.hash] <= Height[s]
    BY <1>2 DEF TransitionRows, Row
  <2>3. \A c \in Hash : Height[c] \in Nat
    BY HeightIn
  <2>4. s \in hashes
    BY DEF Reached
  <2>5. ASSUME NEW d \in hashes PROVE Anchored(d)'
    <3>1. PICK r \in Reached(start, T) : d = r.hash
      OBVIOUS
    <3>2. r = start \/ (r \in T /\ s \in Chain[d] /\ \A c \in Chain[d] :
                            Height[c] > Height[s] => \E q \in T : q.hash = c)
      BY <3>1 DEF Reached
    <3>3. CASE r = start
      BY <2>2, <3>1, <3>3, TransitionAnchoredNext
    <3>4. CASE r \in T /\ s \in Chain[d] /\ \A c \in Chain[d] :
                            Height[c] > Height[s] => \E q \in T : q.hash = c
      <4>1. d \in Hash /\ \A c \in Chain[d] : c \in Hash
        BY <1>2, <3>1, <3>4, ChainIn DEF Row
      <4>2. ASSUME NEW c \in Chain[d], Height[c] > Height[s] PROVE c \in hashes
        <5>1. PICK q \in T : q.hash = c
          BY <3>4, <4>2
        <5>2. Chain[c] = {a \in Chain[d] : Height[a] <= Height[c]} /\ c \in Hash
          BY <4>1, ChainOfAncestor
        <5>3. s \in Chain[c]
          BY <2>2, <2>3, <3>4, <4>2, <5>2
        <5>4. q \in Reached(start, T)
          BY <3>4, <5>1, <5>2, <5>3 DEF Reached
        <5> QED BY <5>1, <5>4
      <4>3. ASSUME NEW c \in Chain[d], Height[c] >= Height[s] PROVE c \in hashes
        <5>1. CASE Height[c] > Height[s]
          BY <4>2, <5>1
        <5>2. CASE Height[c] = Height[s]
          <6>1. c = s
            BY <3>4, <4>1, <5>2, ChainAssumption
          <6> QED BY <2>4, <6>1
        <5> QED BY <2>2, <2>3, <4>1, <4>3, <5>1, <5>2
      <4> HIDE DEF hashes
      <4>4. s \in RunOf(d)'
        BY <2>1, <2>2, <2>3, <3>4, <4>1, <4>2, <4>3 DEF RunOf, Run
      <4>5. Height[s] > Height[d] - Interval
        <5>1. Interval \in Nat /\ Interval > 1
          BY ConstantsAssumption
        <5> SUFFICES ASSUME Height[s] + Interval <= Height[d] PROVE FALSE
          BY <2>2, <2>3, <4>1, <5>1
        <5>2. PICK c \in Chain[d] : Height[c] = Height[s] + Interval
          BY <2>2, <2>3, <3>4, <4>1, <5>1, ChainIsFull
        <5>3. AtTransition(c)
          BY <2>2, <2>3, <5>2, NextMultiple DEF AtTransition
        <5>4. \E q \in saved : q.hash = c
          BY <1>2, <2>2, <2>3, <3>4, <5>1, <5>2
        <5> QED BY <2>2, <2>3, <5>1, <5>2, <5>3, <5>4
      <4> QED BY <2>2, <4>4, <4>5 DEF Anchored, AtTransition
    <3> QED BY <3>2, <3>3, <3>4
  <2> HIDE DEF hashes
  <2> QED BY <1>3, <2>1, <2>5 DEF AnchorInv
<1> QED
  BY <1>1, <1>4, <1>5

\* From the tip back to the last difficulty transition no block is missing, so that
\* VerifyBlock can check the next transition, through any interleaving of peers,
\* forks, reorganizations and restarts.  With rescans the statement is false: the
\* blocks that a peer still sends above the old tip free blocks that the new tip
\* links to.
THEOREM TransitionsFound == ASSUME Rescans = {} PROVE Spec => []TransitionReachable
<1>1. Init => AnchorInv
  <2> SUFFICES ASSUME Init PROVE AnchorInv
    OBVIOUS
  <2>1. \A c \in blocks : c \in Hash /\ AtTransition(c)
    BY ConstantsAssumption, CheckpointAssumption DEF Init, AtTransition
  <2> QED BY <2>1, TransitionAnchored DEF AnchorInv
<1>2. Rescans = {} /\ TypeOK /\ TypeOK' /\ TipInv /\ AnchorInv /\ [Next]_vars => TipInv' /\ AnchorInv'
  <2> SUFFICES ASSUME Rescans = {}, TypeOK, TypeOK', TipInv, AnchorInv, [Next]_vars
               PROVE TipInv' /\ AnchorInv'
    OBVIOUS
  <2>1. CASE Rescan
    BY <2>1 DEF Rescan, RescanStarts
  <2>2. CASE Restart
    BY <2>2, RestartTip, RestartAnchors
  <2>3. CASE \E p \in Peers : PeerStep(p)
    BY <2>3, PeerStepTip, PeerStepPlaces, PlacesKeepsAnchors
  <2>4. CASE UNCHANGED vars
    BY <2>4, PlacesKeepsAnchors DEF vars, chainVars, TipInv, PlacesOrNot
  <2> QED BY <2>1, <2>2, <2>3, <2>4 DEF Next
<1>3. TypeOK /\ TipInv /\ AnchorInv => TransitionReachable
  <2> SUFFICES ASSUME TypeOK, TipInv, AnchorInv PROVE TransitionReachable
    OBVIOUS
  <2>0. /\ lastBlock \in Hash /\ Height[lastBlock] \in Nat /\ Interval \in Nat /\ Interval > 1
        /\ \A c \in Hash : Height[c] \in Nat
    BY ConstantsAssumption DEF TypeOK
  <2>1. Recent(lastBlock, Height[lastBlock])
    BY <2>0 DEF Recent
  <2>2. PICK a \in RunOf(lastBlock) : AtTransition(a) /\ Height[a] > Height[lastBlock] - Interval
    BY <2>1 DEF TipInv, AnchorInv, Anchored
  <2>3. CASE lastBlock \in stub
    <3>1. AtTransition(lastBlock)
      BY <2>3, CheckpointAssumption DEF TypeOK, AtTransition
    <3>2. lastBlock \in MainChain
      BY <2>0, ChainIn, ChainAssumption DEF MainChain, Run
    <3> QED BY <2>0, <3>1, <3>2 DEF TransitionReachable
  <2>4. CASE lastBlock \notin stub
    <3>1. stub \ {lastBlock} = stub
      BY <2>4
    <3>2. a \in MainChain
      BY <2>2, <3>1 DEF MainChain, RunOf
    <3> QED BY <2>2, <3>2 DEF TransitionReachable
  <2> QED BY <2>3, <2>4
<1> QED
  BY <1>1, <1>2, <1>3, InitTip, TypeCorrect, PTL DEF Spec

-----------------------------------------------------------------------------
(* What a relayed block does                                                *)

\* The blocks that wait for their predecessor, or for the thread that took them.
NextOf(W) == UNION {W[q].next : q \in Peers}
Waiting == orphans \cup NextOf(work)

\* Nothing waits but what waited before and the block x just relayed.
WaitsOnlyFor(x) ==
    \A o \in orphans' \cup NextOf(work') :
        o \in Waiting \/ (o.hash = x.hash /\ o.txs = x.txs)

\* The outcomes of _peerRelayedBlock for x, when VerifyBlock has freed F.
Frees(F) ==
    /\ blocks' = blocks \ F /\ matched' = Cleared(matched, F)
    /\ UNCHANGED <<stub, lastBlock, txHeight>>
Extends(x, F) ==
    /\ Prev[x.hash] = lastBlock
    /\ blocks' = (blocks \ F) \cup {x.hash} /\ stub' = stub \ {x.hash}
    /\ matched' = [Cleared(matched, F) EXCEPT ![x.hash] = x.txs]
    /\ lastBlock' = x.hash /\ txHeight' = Confirm(txHeight, x.txs, Height[x.hash])
Replaces(x, F) ==
    /\ Prev[x.hash] # lastBlock /\ x.hash \in blocks
    /\ blocks' = blocks \ F /\ stub' = stub \ {x.hash}
    /\ matched' = [Cleared(matched, F) EXCEPT ![x.hash] = x.txs]
    /\ lastBlock' = lastBlock
    /\ txHeight' = IF x.hash \in Run(lastBlock, blocks \ F, stub)
                   THEN Confirm(txHeight, x.txs, Height[x.hash]) ELSE txHeight
Forks(x, F) ==
    /\ x.hash \notin blocks /\ Height[x.hash] > Height[LastCheckpoint]
    /\ Height[x.hash] <= Height[lastBlock]
    /\ blocks' = (blocks \ F) \cup {x.hash}
    /\ matched' = [Cleared(matched, F) EXCEPT ![x.hash] = x.txs]
    /\ UNCHANGED <<stub, lastBlock, txHeight>>
Joint(b, F) == Run(b, blocks \ F, stub) \cap Run(lastBlock, blocks \ F, stub)
Reorganizes(x, F) ==
    LET b == x.hash
        fork == Run(b, blocks \ F, stub)
        main == Run(lastBlock, blocks \ F, stub)
        join == Height[Tip(Joint(b, F))]
    IN  /\ b \notin blocks /\ Height[b] > Height[LastCheckpoint] /\ Height[b] > Height[lastBlock]
        /\ blocks' = (blocks \ F) \cup {b} /\ stub' = stub
        /\ matched' = [Cleared(matched, F) EXCEPT ![b] = x.txs]
        /\ lastBlock' = b
        /\ Joint(b, F) = {} => \E e \in fork : \A a \in main : Height[e] < Height[a]
        /\ \E h \in Int, joining \in SUBSET fork :
             /\ Joint(b, F) # {} => h = join /\ joining = JoiningBlocks(fork, join)
             /\ txHeight' = ConfirmFork(UnconfirmAfter(txHeight, h), joining,
                                        [matched EXCEPT ![b] = x.txs])
Stores(x, F) ==
    /\ Verified(x.hash)
    /\ Extends(x, F) \/ Replaces(x, F) \/ Forks(x, F) \/ Reorganizes(x, F)
Relays(x) ==
    \/ UNCHANGED <<blocks, stub, matched, lastBlock, txHeight>>
    \/ Prev[x.hash] \in blocks /\ (Frees(Pruned(x.hash)) \/ Stores(x, Pruned(x.hash)))

LEMMA LastCheckpointIn ==
    /\ LastCheckpoint \in Checkpoints /\ LastCheckpoint \in Hash
    /\ \A c \in Checkpoints : Height[c] <= Height[LastCheckpoint]
BY TipIn, ConstantsAssumption DEF LastCheckpoint

LEMMA ReorganizeStores ==
    ASSUME TypeOK, NEW p \in Peers, NEW x \in Orphan, NEW st, NEW F,
           x.hash \notin blocks, Height[x.hash] > Height[LastCheckpoint],
           Height[x.hash] > Height[lastBlock], Reorganize(p, x, st, F)
    PROVE  UNCHANGED <<blocks, stub, matched, lastBlock, txHeight>> \/ Reorganizes(x, F)
<1> DEFINE b == x.hash
           fork == Run(b, blocks \ F, stub)
           main == Run(lastBlock, blocks \ F, stub)
           lowest(S) == CHOOSE h \in {Height[a] : a \in S} : \A a \in S : h <= Height[a]
           join == IF fork \cap main # {} THEN Height[Tip(fork \cap main)] ELSE lowest(main) - 1
<1>1. \/ fork \cap main = {} /\ lowest(main) <= lowest(fork) /\ Fault("nullBlock")
      \/ /\ ~(fork \cap main = {} /\ lowest(main) <= lowest(fork))
         /\ blocks' = (blocks \ F) \cup {b} /\ stub' = stub
         /\ matched' = [Cleared(matched, F) EXCEPT ![b] = x.txs]
         /\ lastBlock' = b
         /\ txHeight' = ConfirmFork(UnconfirmAfter(txHeight, join),
                            IF fork \cap main # {} THEN JoiningBlocks(fork, join) ELSE {},
                            [matched EXCEPT ![b] = x.txs])
  BY DEF Reorganize
<1>2. b \in Hash /\ lastBlock \in Hash /\ \A a \in Hash : Height[a] \in Nat
  BY HeightIn DEF Orphan, TypeOK
<1>3. /\ fork \in SUBSET Hash /\ main \in SUBSET Hash /\ b \in fork /\ lastBlock \in main
  <2>1. ASSUME NEW d \in Hash, NEW S PROVE d \in Run(d, S, stub)
    BY <1>2, <2>1, ChainIn, ChainAssumption DEF Run
  <2> QED BY <1>2, <2>1, RunIn
<1>4. ASSUME NEW S \in SUBSET Hash, S # {}
      PROVE  \E e \in S : lowest(S) = Height[e] /\ \A a \in S : Height[e] <= Height[a]
  <2>1. PICK e \in S : \A a \in S : Height[e] <= Height[a]
    BY <1>4, LowestExists
  <2>2. lowest(S) \in {Height[a] : a \in S} /\ \A a \in S : lowest(S) <= Height[a]
    BY <2>1
  <2> QED BY <2>2
<1>5. CASE Fault("nullBlock")
  BY <1>5 DEF Fault, chainVars
<1>6. CASE ~(fork \cap main = {} /\ lowest(main) <= lowest(fork))
  <2>1. PICK e \in fork : lowest(fork) = Height[e]
    BY <1>3, <1>4
  <2>2. PICK m \in main : lowest(main) = Height[m] /\ \A a \in main : Height[m] <= Height[a]
    BY <1>3, <1>4
  <2> DEFINE joining == IF fork \cap main # {} THEN JoiningBlocks(fork, join) ELSE {}
  <2>3. joining \in SUBSET fork
    BY DEF JoiningBlocks
  <2>4. join \in Int
    <3>1. fork \cap main # {} => Tip(fork \cap main) \in fork \cap main
      BY <1>3, TipIn
    <3>2. fork \cap main # {} => Height[Tip(fork \cap main)] \in Nat
      BY <1>2, <1>3, <3>1
    <3>3. lowest(main) \in Nat
      BY <1>2, <1>3, <2>2
    <3> HIDE DEF lowest, fork, main
    <3> QED BY <3>2, <3>3
  <2>5. fork \cap main = {} => \A a \in main : Height[e] < Height[a]
    <3> HIDE DEF lowest, fork, main
    <3> QED BY <1>2, <1>3, <1>6, <2>1, <2>2
  <2>6. fork \cap main # {} => join = Height[Tip(fork \cap main)] /\ joining = JoiningBlocks(fork, join)
    OBVIOUS
  <2> HIDE DEF lowest, join, joining
  <2>7. txHeight' = ConfirmFork(UnconfirmAfter(txHeight, join), joining, [matched EXCEPT ![b] = x.txs])
        \/ Fault("nullBlock")
    BY <1>1 DEF joining
  <2> QED BY <1>1, <1>5, <2>3, <2>4, <2>5, <2>6, <2>7 DEF Reorganizes, Joint, fork, main
<1> QED
  BY <1>1, <1>5, <1>6

LEMMA StoreBlockStores ==
    ASSUME TypeOK, NEW p \in Peers, NEW x \in Orphan, NEW own, NEW st, NEW F,
           Verified(x.hash), StoreBlock(p, x, own, st, F)
    PROVE  UNCHANGED <<blocks, stub, matched, lastBlock, txHeight>> \/ Frees(F) \/ Stores(x, F)
<1> DEFINE b == x.hash
<1>1. /\ b \in Hash /\ lastBlock \in Hash /\ LastCheckpoint \in Hash
      /\ Height[b] \in Nat /\ Height[lastBlock] \in Nat /\ Height[LastCheckpoint] \in Nat
  BY LastCheckpointIn, HeightIn DEF Orphan, TypeOK
<1>2. CASE Prev[b] = lastBlock /\ ExtendMainChain(p, x, st, F)
  BY <1>2 DEF ExtendMainChain, Extends, Stores
<1>3. CASE Prev[b] # lastBlock /\ b \in blocks /\ ReplaceBlock(p, x, own, F)
  <2>1. CASE Fault("nullBlock")
    BY <2>1 DEF Fault, chainVars
  <2>2. CASE ~Fault("nullBlock")
    BY <1>3, <2>2 DEF ReplaceBlock, Replaces, Stores
  <2> QED BY <2>1, <2>2
<1>4. CASE PostponeBlock(p, x, F) \/ ReleaseBlock(p, x, own, F)
  BY <1>4 DEF PostponeBlock, ReleaseBlock, Frees
<1>5. CASE /\ b \notin blocks /\ ~(Height[b] <= Height[LastCheckpoint])
           /\ IsNoHigher(b) /\ AddFork(p, x, F)
  BY <1>1, <1>5 DEF AddFork, Forks, Stores, IsNoHigher
<1>6. CASE /\ b \notin blocks /\ ~(Height[b] <= Height[LastCheckpoint])
           /\ ~IsNoHigher(b) /\ Reorganize(p, x, st, F)
  <2>1. Height[b] > Height[LastCheckpoint] /\ Height[b] > Height[lastBlock]
    BY <1>1, <1>6 DEF IsNoHigher
  <2> QED BY <1>6, <2>1, ReorganizeStores DEF Stores
<1> QED
  BY <1>2, <1>3, <1>4, <1>5, <1>6 DEF StoreBlock

LEMMA HandleBlockRelays ==
    ASSUME TypeOK, NEW p \in Peers, NEW x \in Orphan, NEW header, NEW own,
           HandleBlock(p, x, header, own)
    PROVE  Relays(x)
<1>1. CASE Ignored(p, x, own) \/ KeepOrphan(p, x)
  BY <1>1 DEF Ignored, KeepOrphan, chainVars, Relays
<1>2. ASSUME Prev[x.hash] \in blocks, NEW st, PlaceBlock(p, x, own, st) PROVE Relays(x)
  <2>1. CASE \E kind : Fault(kind)
    BY <2>1 DEF Fault, chainVars, Relays
  <2>2. CASE Verified(x.hash) /\ StoreBlock(p, x, own, st, Pruned(x.hash))
    BY <1>2, <2>2, StoreBlockStores DEF Relays
  <2>3. CASE ReleaseBlock(p, x, own, Pruned(x.hash))
    BY <1>2, <2>3 DEF ReleaseBlock, Relays, Frees
  <2> QED BY <1>2, <2>1, <2>2, <2>3 DEF PlaceBlock
<1> QED
  BY <1>1, <1>2 DEF HandleBlock, OrphanBlock

LEMMA NextAfter ==
    ASSUME TypeOK, NEW F, NEW p \in Peers, NEW w \in Work, work' = [MarkFreed(work, F) EXCEPT ![p] = w]
    PROVE  NextOf(work') \subseteq NextOf(work) \cup w.next
<1>1. ASSUME NEW q \in Peers, q # p PROVE work'[q].next = work[q].next
  <2>1. work[q] \in Work /\ MarkFreed(work, F) \in [Peers -> Work]
    BY MarkFreedType DEF TypeOK
  <2>2. work'[q] = MarkFreed(work, F)[q]
    BY <1>1, <2>1
  <2> DEFINE v == work[q]  c == v.pc = "copy" /\ \E r \in v.save : r.hash \in F \cup {Reparsed[e] : e \in F \cap Checkpoints}
  <2>3. MarkFreed(work, F)[q] = [v EXCEPT !.freed = @ \/ c]
    BY DEF MarkFreed
  <2> HIDE DEF v, c
  <2>4. v \in Work
    BY <2>1 DEF v
  <2>5. [v EXCEPT !.freed = @ \/ c].next = v.next
    BY <2>4 DEF Work
  <2> QED BY <2>2, <2>3, <2>5 DEF v
<1>2. work'[p] = w
  <2>1. MarkFreed(work, F) \in [Peers -> Work]
    BY MarkFreedType DEF TypeOK
  <2> QED BY <2>1
<1>3. ASSUME NEW q \in Peers PROVE work'[q].next \subseteq NextOf(work) \cup w.next
  BY <1>1, <1>2 DEF NextOf
<1>4. NextOf(work') = UNION {work'[q].next : q \in Peers}
  BY DEF NextOf
<1> QED
  BY <1>3, <1>4

LEMMA FinishWaits ==
    ASSUME TypeOK, NEW p \in Peers, NEW b, NEW orph \in SUBSET Orphan, NEW save \in SUBSET Row, NEW F,
           Finish(p, b, orph, save, F)
    PROVE  orphans' \cup NextOf(work') \subseteq orph \cup NextOf(work)
<1> DEFINE next == {o \in orph : Prev[o.hash] = b}
<1>1. Deferred(save, next) \in Work /\ Deferred(save, next).next = next
  BY DeferredType DEF Deferred
<1>2. orphans' = orph \ next /\ work' = [MarkFreed(work, F) EXCEPT ![p] = Deferred(save, next)]
  BY DEF Finish
<1>3. next \subseteq orph
  OBVIOUS
<1> HIDE DEF next
<1>4. NextOf(work') \subseteq NextOf(work) \cup next
  BY <1>1, <1>2, NextAfter
<1> QED
  BY <1>2, <1>3, <1>4

LEMMA ReleaseWaits ==
    ASSUME TypeOK, NEW p \in Peers, NEW b, NEW own, NEW F, Release(p, b, own, F)
    PROVE  orphans' \cup NextOf(work') \subseteq Waiting
<1>1. NoWork \in Work /\ NoWork.next = {}
  BY NoWorkType DEF NoWork
<1>2. orphans' = orphans /\ work' = [MarkFreed(work, F) EXCEPT ![p] = NoWork]
  BY DEF Release
<1>3. NextOf(work') \subseteq NextOf(work) \cup {}
  BY <1>1, <1>2, NextAfter
<1> QED
  BY <1>2, <1>3 DEF Waiting

LEMMA CompleteWaits ==
    ASSUME TypeOK, NEW p \in Peers, NEW x \in Orphan, NEW st, NEW extends, NEW S,
           NEW stubs \in SUBSET Checkpoints, NEW F, Complete(p, x, st, extends, S, stubs, F)
    PROVE  orphans' \cup NextOf(work') \subseteq Waiting
<1>0. BlockTypes /\ x.hash \in Hash
  BY TypeOKParts DEF Orphan
<1> DEFINE save == Rows(x.hash, x, SaveCount(x.hash, extends), S, stubs)
<1>1. save \in SUBSET Row
  BY <1>0, RowsType
<1>2. PICK orph \in {{}, orphans} : Finish(p, x.hash, orph, save, F)
  BY DEF Complete
<1>3. orph \in SUBSET Orphan
  BY <1>2 DEF TypeOK
<1> HIDE DEF save
<1>4. orphans' \cup NextOf(work') \subseteq orph \cup NextOf(work)
  BY <1>1, <1>2, <1>3, FinishWaits
<1> QED
  BY <1>2, <1>4 DEF Waiting

LEMMA AddOrphanWaits ==
    ASSUME TypeOK, NEW x \in Orphan
    PROVE  AddOrphan(x) \in SUBSET Orphan /\ AddOrphan(x) \subseteq orphans \cup {x}
BY DEF AddOrphan, TypeOK

LEMMA FaultWaits == ASSUME NEW kind, Fault(kind) PROVE orphans' \cup NextOf(work') \subseteq Waiting
BY DEF Fault, orphanVars, Waiting, NextOf

LEMMA KeepOrphanWaits ==
    ASSUME TypeOK, NEW p \in Peers, NEW x \in Orphan, KeepOrphan(p, x) PROVE WaitsOnlyFor(x)
<1>1. CASE Finish(p, x.hash, AddOrphan(x), {}, {})
  <2>1. orphans' \cup NextOf(work') \subseteq AddOrphan(x) \cup NextOf(work)
    BY <1>1, AddOrphanWaits, FinishWaits
  <2> QED BY <2>1, AddOrphanWaits DEF WaitsOnlyFor, Waiting
<1>2. CASE orphans' = AddOrphan(x) /\ work' = [work EXCEPT ![p] = NoWork]
  <2>1. NoWork.next = {} /\ \A q \in Peers : work'[q] = IF q = p THEN NoWork ELSE work[q]
    BY <1>2 DEF NoWork, TypeOK
  <2>2. NextOf(work') = UNION {work'[q].next : q \in Peers}
    BY DEF NextOf
  <2>3. NextOf(work') \subseteq NextOf(work)
    BY <2>1, <2>2 DEF NextOf
  <2> QED BY <1>2, <2>3, AddOrphanWaits DEF WaitsOnlyFor, Waiting
<1> QED
  BY <1>1, <1>2 DEF KeepOrphan

LEMMA StoreBlockWaits ==
    ASSUME TypeOK, NEW p \in Peers, NEW x \in Orphan, NEW own, NEW st, NEW F,
           StoreBlock(p, x, own, st, F)
    PROVE  WaitsOnlyFor(x)
<1>0. x.hash \in Hash /\ stub \in SUBSET Checkpoints /\ stub \ {x.hash} \in SUBSET Checkpoints
  BY DEF Orphan, TypeOK
<1> SUFFICES ASSUME ~(orphans' \cup NextOf(work') \subseteq Waiting) PROVE WaitsOnlyFor(x)
  BY DEF WaitsOnlyFor
<1>1. ~ExtendMainChain(p, x, st, F)
  <2>1. ExtendMainChain(p, x, st, F) =>
          stub' = stub \ {x.hash} /\ Complete(p, x, st, TRUE, blocks', stub', F)
    BY DEF ExtendMainChain
  <2> QED BY <1>0, <2>1, CompleteWaits
<1>2. ~ReplaceBlock(p, x, own, F)
  <2>1. ReplaceBlock(p, x, own, F) =>
          Fault("nullBlock") \/ Finish(p, x.hash, orphans, {}, F \cup {x.hash})
    BY DEF ReplaceBlock
  <2>2. orphans \in SUBSET Orphan
    BY DEF TypeOK
  <2> QED BY <2>1, <2>2, FinishWaits, FaultWaits DEF Waiting
<1>3. ~ReleaseBlock(p, x, own, F)
  BY ReleaseWaits DEF ReleaseBlock
<1>4. ~AddFork(p, x, F)
  <2>1. orphans \in SUBSET Orphan
    BY DEF TypeOK
  <2> QED BY <2>1, FinishWaits DEF AddFork, Waiting
<1>5. ~Reorganize(p, x, st, F)
  <2>1. Reorganize(p, x, st, F) =>
          Fault("nullBlock") \/ Complete(p, x, st, FALSE, blocks', stub, F)
    BY DEF Reorganize
  <2> QED BY <1>0, <2>1, CompleteWaits, FaultWaits
<1>6. CASE PostponeBlock(p, x, F)
  <2> DEFINE y == [x EXCEPT !.known = TRUE]
  <2>1. y \in Orphan /\ y.hash = x.hash /\ y.txs = x.txs
    BY DEF Orphan
  <2>2. Finish(p, x.hash, AddOrphan(y), {}, F)
    BY <1>6 DEF PostponeBlock
  <2> HIDE DEF y
  <2>3. orphans' \cup NextOf(work') \subseteq AddOrphan(y) \cup NextOf(work)
    BY <2>1, <2>2, AddOrphanWaits, FinishWaits
  <2> QED BY <2>1, <2>3, AddOrphanWaits DEF WaitsOnlyFor, Waiting
<1> QED
  BY <1>1, <1>2, <1>3, <1>4, <1>5, <1>6 DEF StoreBlock

LEMMA HandleBlockWaits ==
    ASSUME TypeOK, NEW p \in Peers, NEW x \in Orphan, NEW header, NEW own,
           HandleBlock(p, x, header, own)
    PROVE  WaitsOnlyFor(x)
<1>1. CASE Ignored(p, x, own)
  BY <1>1, ReleaseWaits DEF Ignored, WaitsOnlyFor
<1>2. CASE KeepOrphan(p, x)
  BY <1>2, KeepOrphanWaits
<1>3. ASSUME NEW st, PlaceBlock(p, x, own, st) PROVE WaitsOnlyFor(x)
  <2>1. CASE \E kind : Fault(kind)
    BY <2>1, FaultWaits DEF WaitsOnlyFor
  <2>2. CASE StoreBlock(p, x, own, st, Pruned(x.hash))
    BY <2>2, StoreBlockWaits
  <2>3. CASE ReleaseBlock(p, x, own, Pruned(x.hash))
    BY <2>3, ReleaseWaits DEF ReleaseBlock, WaitsOnlyFor
  <2> QED BY <1>3, <2>1, <2>2, <2>3 DEF PlaceBlock
<1> QED
  BY <1>1, <1>2, <1>3 DEF HandleBlock, OrphanBlock

-----------------------------------------------------------------------------
(* The stored blocks, without rescans and restarts                          *)

\* Above the tip there are only stubs; what is stored not above the last
\* checkpoint belongs to the chain of the tip, or is a checkpoint; below a stub
\* that the tip is not below, only checkpoints are stored.
TopInv == \A a \in blocks : Height[a] > Height[lastBlock] => a \in stub
OldInv ==
    \A a \in blocks : Height[a] <= Height[LastCheckpoint] =>
        a \in Checkpoints \/ a \in Chain[lastBlock]
StubInv ==
    \A s \in stub, a \in blocks :
        Height[lastBlock] >= Height[s] /\ Height[a] < Height[s] => a \in Checkpoints

\* The predecessor of a recent block is stored.
RecentAbove(d, tip) == \A k \in Nat : k % Interval = 0 /\ k <= tip + 1 => Height[d] > k - Interval
LinkInv == \A d \in blocks : d \notin stub /\ RecentAbove(d, Height[lastBlock]) => Prev[d] \in blocks

StoredInv == TipInv /\ CheckpointInv /\ TopInv /\ OldInv /\ StubInv /\ LinkInv

LEMMA PrevIs ==
    ASSUME NEW b \in Hash, Prev[b] \in Hash
    PROVE  /\ Height[b] = Height[Prev[b]] + 1 /\ Chain[b] = {b} \cup Chain[Prev[b]]
           /\ Height[b] \in Nat /\ Height[Prev[b]] \in Nat /\ Prev[b] \in Chain[b] /\ Prev[b] # b
<1>1. /\ Height[b] = Height[Prev[b]] + 1 /\ Chain[b] = {b} \cup Chain[Prev[b]]
  BY ChainAssumption
<1>2. Height[b] \in Nat /\ Height[Prev[b]] \in Nat
  BY HeightIn
<1>3. Prev[b] \in Chain[b]
  BY <1>1, ChainIn
<1> QED
  BY <1>1, <1>2, <1>3

LEMMA NoNeighbours ==
    ASSUME NEW b \in Checkpoints, Prev[b] \in Checkpoints PROVE FALSE
<1>1. b \in Hash /\ Prev[b] \in Hash
  BY ConstantsAssumption
<1>2. Height[b] % Interval = 0 /\ Height[Prev[b]] % Interval = 0
  BY CheckpointAssumption
<1> QED
  BY <1>1, <1>2, PrevIs, NotBothTransitions

LEMMA RunStart == ASSUME NEW d \in Hash, NEW S, NEW stubs PROVE d \in Run(d, S, stubs)
BY ChainIn, HeightIn, ChainAssumption DEF Run

\* A run has every block of the chain above one of its blocks.
LEMMA RunAbove ==
    ASSUME NEW b \in Hash, NEW S, NEW stubs, NEW w \in Run(b, S, stubs),
           NEW a \in Chain[b], Height[a] >= Height[w]
    PROVE  /\ a \in Run(b, S, stubs)
           /\ a # b => a \in S
           /\ Height[a] > Height[w] => a \notin stubs
<1>1. \A c \in Chain[b] : Height[c] \in Nat
  BY ChainIn, HeightIn
<1>2. w \in Chain[b]
  BY DEF Run
<1> QED
  BY <1>1, <1>2 DEF Run

\* A run goes on to the predecessor, if that is stored.
LEMMA RunGoesOn ==
    ASSUME NEW b \in Hash, NEW S \in SUBSET Hash, NEW stubs, NEW w \in Run(b, S, stubs),
           w \notin stubs, Prev[w] \in S
    PROVE  Prev[w] \in Run(b, S, stubs) /\ Height[Prev[w]] < Height[w]
<1>1. w \in Chain[b] /\ w \in Hash /\ Prev[w] \in Hash
  BY ChainIn DEF Run
<1>2. /\ Height[w] = Height[Prev[w]] + 1 /\ Height[w] \in Nat /\ Height[Prev[w]] \in Nat
      /\ Prev[w] \in Chain[w]
  BY <1>1, PrevIs
<1>3. Prev[w] \in Chain[b]
  BY <1>1, <1>2, ChainOfAncestor
<1>4. ASSUME NEW c \in Chain[b], Height[c] >= Height[Prev[w]]
      PROVE  c = Prev[w] \/ Height[c] >= Height[w]
  <2>1. Height[c] \in Nat
    BY ChainIn, HeightIn
  <2>2. Height[c] = Height[Prev[w]] => c = Prev[w]
    BY <1>3, ChainAssumption
  <2> QED BY <1>2, <1>4, <2>1, <2>2
<1>5. ASSUME NEW c \in Chain[b], Height[c] >= Height[w]
      PROVE  (c # b => c \in S) /\ c \notin stubs
  <2>1. Height[c] > Height[w] => c \notin stubs
    BY <1>5, RunAbove
  <2>2. c # b => c \in S
    BY <1>5, RunAbove
  <2>3. Height[c] = Height[w] => c = w
    BY <1>1, ChainAssumption
  <2>4. Height[c] \in Nat
    BY ChainIn, HeightIn
  <2> QED BY <1>2, <1>5, <2>1, <2>2, <2>3, <2>4
<1>6. Prev[w] \in Run(b, S, stubs)
  <2>1. ASSUME NEW c \in Chain[b], Height[c] >= Height[Prev[w]] PROVE c # b => c \in S
    BY <1>4, <1>5, <2>1
  <2>2. ASSUME NEW c \in Chain[b], Height[c] > Height[Prev[w]] PROVE c \notin stubs
    <3>1. Height[c] \in Nat
      BY ChainIn, HeightIn
    <3>2. c # Prev[w] /\ Height[c] >= Height[Prev[w]]
      BY <1>2, <2>2, <3>1
    <3> QED BY <1>4, <1>5, <3>2
  <2> QED BY <1>3, <2>1, <2>2 DEF Run
<1> QED
  BY <1>2, <1>6

\* The block of a reorganization is one higher than the tip.
LEMMA ReorganizesNext ==
    ASSUME TypeOK, TipInv, TopInv, NEW x \in Orphan, NEW F, Prev[x.hash] \in blocks, Reorganizes(x, F)
    PROVE  Height[x.hash] = Height[lastBlock] + 1
<1> DEFINE b == x.hash
           fork == Run(b, blocks \ F, stub)
           main == Run(lastBlock, blocks \ F, stub)
<1>1. /\ b \in Hash /\ lastBlock \in Hash /\ Prev[b] \in Hash
      /\ Height[lastBlock] \in Nat /\ Height[b] > Height[lastBlock]
  BY HeightIn DEF Orphan, TypeOK, Reorganizes
<1>2. /\ Height[b] = Height[Prev[b]] + 1 /\ Height[b] \in Nat /\ Height[Prev[b]] \in Nat
      /\ Prev[b] \in Chain[b]
  BY <1>1, PrevIs
<1>3. PICK e \in fork : Height[e] <= Height[lastBlock]
  <2>1. lastBlock \in main /\ \A a \in main : a \in Hash /\ Height[a] <= Height[lastBlock]
    BY <1>1, RunStart, ChainIn, HeightIn, ChainAssumption DEF Run
  <2>2. CASE Joint(b, F) = {}
    <3>1. \E e \in fork : \A a \in main : Height[e] < Height[a]
      BY <2>2 DEF Reorganizes
    <3> QED BY <1>1, <2>1, <3>1, RunIn, HeightIn
  <2>3. CASE Joint(b, F) # {}
    BY <2>1, <2>3 DEF Joint
  <2> QED BY <2>2, <2>3
<1>4. e \in Hash /\ Height[e] \in Nat
  BY <1>1, RunIn, HeightIn
<1> SUFFICES ASSUME Height[Prev[b]] > Height[lastBlock] PROVE FALSE
  BY <1>1, <1>2
<1>5. Prev[b] \in stub
  BY DEF TopInv
<1>6. Height[Prev[b]] > Height[e]
  BY <1>1, <1>2, <1>3, <1>4
<1> HIDE DEF b
<1>7. Height[Prev[b]] >= Height[e]
  BY <1>2, <1>4, <1>6
<1> QED
  BY <1>1, <1>2, <1>5, <1>6, <1>7, RunAbove

\* What every outcome does to the stored blocks.
Shape(b) ==
    /\ b \in Hash /\ Prev[b] \in blocks
    /\ blocks \ Pruned(b) \subseteq blocks' /\ blocks' \subseteq (blocks \ Pruned(b)) \cup {b}
    /\ stub \ {b} \subseteq stub' /\ stub' \subseteq stub
    /\ Height[lastBlock'] >= Height[lastBlock]

LEMMA StoresShape ==
    ASSUME TypeOK, TipInv, TopInv, NEW x \in Orphan, Prev[x.hash] \in blocks,
           Frees(Pruned(x.hash)) \/ Stores(x, Pruned(x.hash))
    PROVE  Shape(x.hash)
<1> DEFINE b == x.hash  F == Pruned(b)
<1>1. b \in Hash /\ lastBlock \in Hash /\ Height[lastBlock] \in Nat /\ Height[b] \in Nat /\ Prev[b] \in Hash
  BY HeightIn DEF Orphan, TypeOK
<1> HIDE DEF F
<1>2. CASE Frees(F)
  BY <1>1, <1>2 DEF Frees, Shape, F
<1>3. CASE Extends(x, F)
  <2>1. Height[b] = Height[lastBlock] + 1
    BY <1>1, <1>3, ChainAssumption DEF Extends
  <2>2. Height[b] >= Height[lastBlock]
    BY <1>1, <2>1
  <2> QED BY <1>1, <1>3, <2>2 DEF Extends, Shape, F
<1>4. CASE Replaces(x, F)
  BY <1>1, <1>4 DEF Replaces, Shape, F
<1>5. CASE Forks(x, F)
  BY <1>1, <1>5 DEF Forks, Shape, F
<1>6. CASE Reorganizes(x, F)
  <2>1. Height[b] >= Height[lastBlock]
    BY <1>1, <1>6 DEF Reorganizes
  <2> QED BY <1>1, <1>6, <2>1 DEF Reorganizes, Shape, F
<1> QED
  BY <1>2, <1>3, <1>4, <1>5, <1>6 DEF Stores, F

\* Recent blocks are not freed.
LEMMA PrunedIsLow ==
    ASSUME TypeOK, TipInv, NEW b \in Hash, Prev[b] \in blocks, NEW a \in Pruned(b)
    PROVE  /\ AtTransition(b) /\ Height[b] <= Height[lastBlock] + 1
           /\ Height[a] < Height[b] - Interval /\ Height[a] <= Height[lastBlock] - Interval
<1>1. AtTransition(b) /\ Height[a] < Height[b] - Interval /\ a \in Hash
  BY PrunedIn DEF Pruned
<1>2. Height[a] \in Nat /\ Height[b] \in Nat /\ Height[lastBlock] \in Nat /\ Interval \in Nat
  BY <1>1, HeightIn, ConstantsAssumption DEF TypeOK
<1>3. Height[b] <= Height[lastBlock] + 1
  BY <1>1, TransitionIsNear
<1> QED
  BY <1>1, <1>2, <1>3

LEMMA LinkKept ==
    ASSUME TypeOK, TypeOK', TipInv, LinkInv, NEW b, Shape(b) PROVE LinkInv'
<1> SUFFICES ASSUME NEW d \in blocks', d \notin stub', RecentAbove(d, Height[lastBlock'])
             PROVE  Prev[d] \in blocks'
  BY DEF LinkInv, RecentAbove
<1>1. d \in Hash /\ b \in Hash /\ lastBlock \in Hash /\ lastBlock' \in Hash /\ Prev[b] \in blocks
  BY DEF TypeOK, Shape
<1>2. /\ Height[d] \in Nat /\ Height[b] \in Nat /\ Height[lastBlock] \in Nat
      /\ Height[lastBlock'] \in Nat /\ Interval \in Nat /\ Interval > 1
  BY <1>1, ConstantsAssumption
<1>3. RecentAbove(d, Height[lastBlock])
  <2>1. Height[lastBlock] <= Height[lastBlock']
    BY <1>2 DEF Shape
  <2> QED BY <1>2, <2>1 DEF RecentAbove
<1>4. Prev[d] \in blocks
  BY <1>1, <1>3 DEF LinkInv, Shape
<1>5. Prev[d] \in Hash
  BY <1>4 DEF TypeOK
<1>6. Height[d] = Height[Prev[d]] + 1 /\ Height[Prev[d]] \in Nat
  BY <1>1, <1>5, PrevIs
<1>7. Prev[d] \notin Pruned(b)
  <2> SUFFICES ASSUME Prev[d] \in Pruned(b) PROVE FALSE
    OBVIOUS
  <2>1. /\ AtTransition(b) /\ Height[b] <= Height[lastBlock] + 1
        /\ Height[Prev[d]] < Height[b] - Interval
    BY <1>1, PrunedIsLow
  <2>2. Height[d] > Height[b] - Interval
    BY <1>2, <1>3, <2>1 DEF RecentAbove, AtTransition
  <2> QED BY <1>2, <1>6, <2>1, <2>2
<1> QED
  BY <1>4, <1>7 DEF Shape

LEMMA TopKept ==
    ASSUME TypeOK, TypeOK', TipInv, TopInv, OldInv, NEW x \in Orphan, Prev[x.hash] \in blocks,
           Shape(x.hash), Frees(Pruned(x.hash)) \/ Stores(x, Pruned(x.hash))
    PROVE  TopInv'
<1> DEFINE b == x.hash
<1>1. /\ b \in Hash /\ lastBlock \in Hash /\ lastBlock' \in Hash /\ Prev[b] \in Hash
      /\ blocks \subseteq Hash
  BY DEF Orphan, TypeOK
<1>2. \A a \in Hash : Height[a] \in Nat
  BY HeightIn
<1> SUFFICES ASSUME NEW a \in blocks', Height[a] > Height[lastBlock'] PROVE a \in stub'
  BY DEF TopInv
<1>3. CASE a # b
  <2>1. a \in blocks /\ a \in Hash /\ Height[lastBlock] <= Height[lastBlock']
    BY <1>1, <1>2, <1>3 DEF Shape
  <2>2. Height[a] > Height[lastBlock]
    BY <1>1, <1>2, <2>1
  <2> QED BY <1>3, <2>1, <2>2 DEF TopInv, Shape
<1>4. CASE a = b
  <2>1. CASE Frees(Pruned(b))
    BY <1>4, <2>1 DEF Frees, TopInv
  <2>2. CASE Extends(x, Pruned(b)) \/ Reorganizes(x, Pruned(b))
    BY <1>1, <1>2, <1>4, <2>2 DEF Extends, Reorganizes
  <2>3. CASE Forks(x, Pruned(b))
    BY <1>1, <1>2, <1>4, <2>3 DEF Forks
  <2>4. CASE Replaces(x, Pruned(b))
    <3>1. b \in stub /\ b \in Checkpoints /\ Height[b] > Height[lastBlock] /\ Prev[b] # lastBlock
      BY <1>4, <2>4 DEF Replaces, TopInv, TypeOK
    <3>2. Prev[b] \notin Checkpoints
      BY <3>1, NoNeighbours
    <3>3. Height[b] = Height[Prev[b]] + 1
      BY <1>1, PrevIs
    <3>4. Height[Prev[b]] <= Height[lastBlock]
      BY <1>1, <1>2, <3>2 DEF TipInv
    <3>5. Height[b] <= Height[LastCheckpoint] /\ Height[LastCheckpoint] \in Nat
      BY <1>2, <3>1, LastCheckpointIn
    <3>6. Height[Prev[b]] <= Height[LastCheckpoint]
      BY <1>1, <1>2, <3>3, <3>5
    <3>7. Prev[b] \in Chain[lastBlock]
      BY <3>2, <3>6 DEF OldInv
    <3>8. Height[Prev[b]] = Height[lastBlock]
      BY <1>1, <1>2, <3>1, <3>3, <3>4
    <3>9. Prev[b] = lastBlock
      BY <1>1, <3>7, <3>8, ChainIn, ChainAssumption
    <3> QED BY <3>1, <3>9
  <2> QED BY <2>1, <2>2, <2>3, <2>4 DEF Stores
<1> QED
  BY <1>3, <1>4

LEMMA OldKept ==
    ASSUME TypeOK, TypeOK', TipInv, CheckpointInv, TopInv, OldInv, NEW x \in Orphan,
           Prev[x.hash] \in blocks,
           Shape(x.hash), Frees(Pruned(x.hash)) \/ Stores(x, Pruned(x.hash))
    PROVE  OldInv'
<1> DEFINE b == x.hash
<1>1. /\ b \in Hash /\ lastBlock \in Hash /\ lastBlock' \in Hash /\ Prev[b] \in Hash
      /\ blocks \subseteq Hash
  BY DEF Orphan, TypeOK
<1>2. \A a \in Hash : Height[a] \in Nat
  BY HeightIn
<1> SUFFICES ASSUME NEW a \in blocks', Height[a] <= Height[LastCheckpoint], a \notin Checkpoints
             PROVE  a \in Chain[lastBlock']
  BY DEF OldInv
<1>3. CASE Frees(Pruned(b)) \/ Replaces(x, Pruned(b))
  BY <1>3 DEF Frees, Replaces, OldInv
<1>4. CASE Forks(x, Pruned(b))
  <2>1. a # b
    BY <1>1, <1>2, <1>4, LastCheckpointIn DEF Forks
  <2> QED BY <1>4, <2>1 DEF Forks, OldInv
<1>5. CASE Extends(x, Pruned(b))
  <2>1. a = b \/ a \in Chain[lastBlock]
    BY <1>5 DEF Extends, OldInv
  <2>2. Chain[b] = {b} \cup Chain[lastBlock]
    BY <1>1, <1>5, PrevIs DEF Extends
  <2> QED BY <1>5, <2>1, <2>2 DEF Extends
<1>6. CASE Verified(b) /\ Reorganizes(x, Pruned(b))
  <2>1. Height[b] = Height[lastBlock] + 1 /\ Height[b] > Height[LastCheckpoint]
    BY <1>6, ReorganizesNext DEF Reorganizes
  <2>2. Height[LastCheckpoint] <= Height[lastBlock] /\ Height[LastCheckpoint] <= Height[b]
    BY <1>1, <1>2, <2>1, LastCheckpointIn
  <2>3. a # b
    BY <1>1, <1>2, <2>1, LastCheckpointIn
  <2>4. a \in Chain[lastBlock]
    BY <1>6, <2>3 DEF Reorganizes, OldInv
  <2>5. LastCheckpoint \in Chain[lastBlock]
    BY <2>2, LastCheckpointIn DEF CheckpointInv, TipInv
  <2>6. LastCheckpoint \in Chain[b]
    BY <1>1, <1>6, <2>2, LastCheckpointIn, VerifiedKeepsCheckpoints
  <2>7. a \in Chain[LastCheckpoint]
    BY <1>1, <2>4, <2>5, ChainOfAncestor
  <2>8. a \in Chain[b]
    BY <1>1, <2>6, <2>7, ChainOfAncestor
  <2> QED BY <1>6, <2>8 DEF Reorganizes
<1> QED
  BY <1>3, <1>4, <1>5, <1>6 DEF Stores

LEMMA StubKept ==
    ASSUME TypeOK, TypeOK', TipInv, TopInv, StubInv, NEW x \in Orphan, Prev[x.hash] \in blocks,
           Shape(x.hash), Frees(Pruned(x.hash)) \/ Stores(x, Pruned(x.hash))
    PROVE  StubInv'
<1> DEFINE b == x.hash
<1>1. /\ b \in Hash /\ lastBlock \in Hash /\ lastBlock' \in Hash /\ Prev[b] \in Hash
      /\ blocks \subseteq Hash /\ stub \subseteq Checkpoints
  BY DEF Orphan, TypeOK
<1>2. \A a \in Hash : Height[a] \in Nat
  BY HeightIn
<1> SUFFICES ASSUME NEW s \in stub', NEW a \in blocks', Height[lastBlock'] >= Height[s],
                    Height[a] < Height[s]
             PROVE  a \in Checkpoints
  BY DEF StubInv
<1>3. s \in stub /\ s \in Checkpoints /\ s \in Hash /\ Height[s] <= Height[LastCheckpoint]
      /\ Height[LastCheckpoint] \in Nat /\ a \in Hash
  BY <1>1, <1>2, LastCheckpointIn, ConstantsAssumption DEF Shape, TypeOK
<1>4. CASE Frees(Pruned(b)) \/ Replaces(x, Pruned(b))
  BY <1>3, <1>4 DEF Frees, Replaces, StubInv
<1>5. CASE Forks(x, Pruned(b))
  <2>1. a # b
    BY <1>1, <1>2, <1>3, <1>5 DEF Forks
  <2> QED BY <1>3, <1>5, <2>1 DEF Forks, StubInv
<1>6. CASE Verified(b) /\ Extends(x, Pruned(b))
  <2>1. Height[b] = Height[lastBlock] + 1 /\ lastBlock' = b /\ s # b
    BY <1>1, <1>6, PrevIs DEF Extends
  <2>2. Height[s] # Height[b]
    BY <1>3, <1>6, <2>1 DEF Verified
  <2>3. Height[lastBlock] >= Height[s]
    BY <1>1, <1>2, <1>3, <2>1, <2>2
  <2>4. a # b
    BY <1>1, <1>2, <1>3, <2>1, <2>3
  <2> QED BY <1>3, <1>6, <2>3, <2>4 DEF Extends, StubInv
<1>7. CASE Reorganizes(x, Pruned(b))
  <2>1. Height[b] = Height[lastBlock] + 1 /\ Height[b] > Height[LastCheckpoint]
    BY <1>7, ReorganizesNext DEF Reorganizes
  <2>2. Height[lastBlock] >= Height[s] /\ a # b
    BY <1>1, <1>2, <1>3, <2>1
  <2> QED BY <1>3, <1>7, <2>2 DEF Reorganizes, StubInv
<1> QED
  BY <1>4, <1>5, <1>6, <1>7 DEF Stores

LEMMA RelaysKeeps ==
    ASSUME TypeOK, TypeOK', StoredInv, NEW x \in Orphan, Relays(x), TipInv', CheckpointInv'
    PROVE  StoredInv'
<1>1. CASE UNCHANGED <<blocks, stub, matched, lastBlock, txHeight>>
  BY <1>1 DEF StoredInv, TopInv, OldInv, StubInv, LinkInv, RecentAbove
<1>2. CASE Prev[x.hash] \in blocks /\ (Frees(Pruned(x.hash)) \/ Stores(x, Pruned(x.hash)))
  <2>1. Shape(x.hash)
    BY <1>2, StoresShape DEF StoredInv
  <2> QED BY <1>2, <2>1, LinkKept, TopKept, OldKept, StubKept DEF StoredInv
<1> QED
  BY <1>1, <1>2 DEF Relays

\* A recent block of the chain of the tip is reached from the tip, unless a stub
\* above it is in the way.
LEMMA RunIsDeep ==
    ASSUME TypeOK, TipInv, LinkInv, NEW S \in SUBSET blocks,
           \A c \in blocks : Height[c] > Height[lastBlock] - Interval => c \in S,
           NEW d \in Chain[lastBlock], Height[d] > Height[lastBlock] - Interval,
           d \notin Run(lastBlock, S, stub)
    PROVE  \E w \in Run(lastBlock, S, stub) : w \in stub /\ Height[w] > Height[d]
<1> DEFINE main == Run(lastBlock, S, stub)
<1>1. lastBlock \in Hash /\ d \in Hash /\ main \in SUBSET Hash /\ lastBlock \in main /\ S \in SUBSET Hash
  BY ChainIn, RunIn, RunStart DEF TypeOK
<1>2. (\A a \in Hash : Height[a] \in Nat) /\ Interval \in Nat /\ Interval > 1
  BY ConstantsAssumption
<1>3. PICK w \in main : \A a \in main : Height[w] <= Height[a]
  BY <1>1, LowestExists
<1>4. Height[w] > Height[d]
  <2> SUFFICES ASSUME Height[d] >= Height[w] PROVE FALSE
    BY <1>1, <1>2
  <2> QED BY <1>1, RunAbove
<1>5. w \in Hash /\ w \in blocks
  <2>1. w \in Chain[lastBlock]
    BY DEF Run
  <2>2. w # lastBlock => w \in S
    BY <1>1, <1>2, <2>1, RunAbove
  <2> QED BY <1>1, <2>2 DEF TipInv
<1> SUFFICES ASSUME w \notin stub PROVE FALSE
  BY <1>4
<1>6. RecentAbove(w, Height[lastBlock])
  BY <1>1, <1>2, <1>4, <1>5 DEF RecentAbove
<1>7. Prev[w] \in blocks /\ Prev[w] \in Hash
  BY <1>5, <1>6 DEF LinkInv, TypeOK
<1>8. Height[w] = Height[Prev[w]] + 1
  BY <1>5, <1>7, PrevIs
<1>9. Prev[w] \in S
  BY <1>1, <1>2, <1>4, <1>5, <1>7, <1>8
<1>10. Prev[w] \in main /\ Height[Prev[w]] < Height[w]
  BY <1>1, <1>9, RunGoesOn
<1> QED
  BY <1>2, <1>3, <1>5, <1>7, <1>10

\* A reorganization finds the block where the two chains join.
LEMMA Joins ==
    ASSUME TypeOK, StoredInv, ShortForks, blocks \subseteq ChainBlocks,
           NEW x \in Orphan, x.hash \in Network, Prev[x.hash] \in blocks, Verified(x.hash),
           Reorganizes(x, Pruned(x.hash))
    PROVE  Joint(x.hash, Pruned(x.hash)) # {}
<1> DEFINE b == x.hash  F == Pruned(b)
           fork == Run(b, blocks \ F, stub)
           main == Run(lastBlock, blocks \ F, stub)
<1> SUFFICES ASSUME Joint(b, F) = {} PROVE FALSE
  OBVIOUS
<1>1. b \in Hash /\ lastBlock \in Hash /\ blocks \subseteq Hash /\ stub \subseteq Checkpoints
  BY DEF Orphan, TypeOK
<1>2. (\A a \in Hash : Height[a] \in Nat) /\ Interval \in Nat
  BY ConstantsAssumption
<1>3. PICK e \in fork : \A a \in main : Height[e] < Height[a]
  BY DEF Reorganizes
<1>4. e \in Hash /\ lastBlock \in main /\ main \subseteq Hash
  BY <1>1, RunIn, RunStart
<1>5. Height[b] = Height[lastBlock] + 1
  BY ReorganizesNext DEF StoredInv
<1>6. PICK d \in Chain[lastBlock] \cap Chain[b] : Height[d] > Height[lastBlock] - Interval
  BY <1>5 DEF ShortForks, ChainBlocks, StoredInv, TipInv
<1>7. ASSUME NEW w \in main, w \in Chain[b] PROVE FALSE
  <2>1. Height[w] >= Height[e]
    BY <1>2, <1>3, <1>4
  <2>2. w \in fork
    BY <1>1, <1>7, <2>1, RunAbove
  <2> QED BY <2>2 DEF Joint
<1>8. ASSUME NEW c \in blocks, Height[c] > Height[lastBlock] - Interval PROVE c \in blocks \ F
  <2>1. c \in F => Height[c] <= Height[lastBlock] - Interval
    BY <1>1, PrunedIsLow DEF StoredInv
  <2> QED BY <1>1, <1>2, <1>8, <2>1
<1>9. d \notin main
  BY <1>6, <1>7
<1>10. PICK w \in main : w \in stub /\ Height[w] > Height[d]
  BY <1>6, <1>8, <1>9, RunIsDeep DEF StoredInv
<1>11. w \in Checkpoints /\ w \in Chain[lastBlock]
  BY <1>1, <1>10 DEF Run
<1>12. Height[w] <= Height[lastBlock]
  BY <1>1, <1>2, <1>11, ChainIn, ChainAssumption
<1>13. Height[w] <= Height[b]
  <2>1. w \in Hash
    BY <1>4
  <2> HIDE DEF b, main
  <2>2. Height[w] \in Nat /\ Height[b] \in Nat /\ Height[lastBlock] \in Nat
    BY <1>1, <1>2, <2>1
  <2> QED BY <1>5, <1>12, <2>2
<1>14. w \in Chain[b]
  BY <1>1, <1>11, <1>13, VerifiedKeepsCheckpoints DEF StoredInv
<1> QED
  BY <1>7, <1>14

-----------------------------------------------------------------------------
(* Confirmations                                                            *)

\* A matched transaction is mined in the block and registered in the wallet,
\* whether the block is stored, waits or has just been relayed.
Mined(b) == TxIn[b] \cap Registered
Fit(x) == x.hash \in Network /\ x.txs \subseteq Mined(x.hash)
MinedInv ==
    /\ blocks \subseteq ChainBlocks
    /\ \A b \in Hash : matched[b] \subseteq Mined(b)
    /\ \A o \in Waiting : Fit(o)

\* The other steps at most register a transaction.
Registers ==
    /\ UNCHANGED <<blocks, stub, matched, lastBlock>>
    /\ orphans' \cup NextOf(work') \subseteq Waiting
    /\ \A t \in Txs : txHeight'[t] = txHeight[t]
                      \/ (txHeight[t] = UNREGISTERED /\ txHeight'[t] = TX_UNCONFIRMED)

LEMMA SavingRegisters ==
    ASSUME TypeOK, NEW p \in Peers, CopyBlocks(p) \/ DeleteRows(p) \/ PutRows(p) PROVE Registers
<1>1. UNCHANGED <<blocks, stub, matched, lastBlock, txHeight, orphans>>
  BY DEF CopyBlocks, DeleteRows, PutRows, chainVars, orphanVars
<1>2. work' = work \/ \E w \in Work : w.next = work[p].next /\ work' = [work EXCEPT ![p] = w]
  <2>1. work[p] \in Work /\ work \in [Peers -> Work]
    BY DEF TypeOK
  <2>2. CASE CopyBlocks(p) \/ DeleteRows(p)
    <3>1. work' = work \/ \E pc \in {"delete", "put"} : work' = [work EXCEPT ![p].pc = pc]
      BY <2>2 DEF CopyBlocks, DeleteRows
    <3>2. ASSUME NEW pc \in {"delete", "put"}, work' = [work EXCEPT ![p].pc = pc]
          PROVE  \E w \in Work : w.next = work[p].next /\ work' = [work EXCEPT ![p] = w]
      <4> DEFINE w == [work[p] EXCEPT !.pc = pc]
      <4>1. w \in Work /\ w.next = work[p].next
        BY <2>1 DEF Work
      <4>2. work' = [work EXCEPT ![p] = w]
        BY <2>1, <3>2
      <4> QED BY <4>1, <4>2
    <3> QED BY <3>1, <3>2
  <2>3. CASE PutRows(p)
    <3>1. work' = [work EXCEPT ![p] = Deferred({}, work[p].next)]
      BY <2>3 DEF PutRows
    <3>2. work[p].next \in SUBSET Orphan
      BY <2>1 DEF Work
    <3>3. Deferred({}, work[p].next) \in Work /\ Deferred({}, work[p].next).next = work[p].next
      BY <3>2, DeferredType DEF Deferred
    <3> QED BY <3>1, <3>3
  <2> QED BY <2>2, <2>3
<1>3. NextOf(work') \subseteq NextOf(work)
  <2>1. CASE work' = work
    BY <2>1 DEF NextOf
  <2>2. ASSUME NEW w \in Work, w.next = work[p].next, work' = [work EXCEPT ![p] = w]
        PROVE  NextOf(work') \subseteq NextOf(work)
    <3>1. \A q \in Peers : work'[q].next = work[q].next
      BY <2>2 DEF TypeOK
    <3>2. NextOf(work') = UNION {work'[q].next : q \in Peers}
      BY DEF NextOf
    <3> QED BY <3>1, <3>2 DEF NextOf
  <2> QED BY <1>2, <2>1, <2>2
<1> QED
  BY <1>1, <1>3 DEF Registers, Waiting

LEMMA PeerStepRelays ==
    ASSUME TypeOK, MinedInv, NEW p \in Peers, PeerStep(p)
    PROVE  Registers \/ \E x \in Orphan : Fit(x) /\ Relays(x) /\ WaitsOnlyFor(x)
<1>1. CASE RelayBlock(p)
  <2>1. PICK b \in Network, header \in BOOLEAN : \E txs \in SUBSET (TxIn[b] \cap Registered) :
          HandleBlock(p, [hash |-> b, txs |-> txs, known |-> FALSE], header, FALSE)
    BY <1>1 DEF RelayBlock
  <2>2. PICK txs \in SUBSET (TxIn[b] \cap Registered) :
          HandleBlock(p, [hash |-> b, txs |-> txs, known |-> FALSE], header, FALSE)
    BY <2>1
  <2> DEFINE x == [hash |-> b, txs |-> txs, known |-> FALSE]
  <2>3. x \in Orphan /\ Fit(x)
    BY DEF Network, Orphan, Registered, Fit, Mined
  <2> HIDE DEF x
  <2>4. HandleBlock(p, x, header, FALSE)
    BY <2>2 DEF x
  <2> QED BY <2>3, <2>4, HandleBlockRelays, HandleBlockWaits
<1>2. CASE HandleNext(p)
  <2>1. PICK x \in work[p].next : HandleBlock(p, x, FALSE, TRUE)
    BY <1>2 DEF HandleNext
  <2>2. x \in Orphan /\ x \in Waiting
    BY <2>1 DEF TypeOK, Work, Waiting, NextOf
  <2> QED BY <2>1, <2>2, HandleBlockRelays, HandleBlockWaits DEF MinedInv
<1>3. CASE CopyBlocks(p) \/ DeleteRows(p) \/ PutRows(p)
  BY <1>3, SavingRegisters
<1>4. CASE RelayTx(p)
  <2>1. UNCHANGED <<blocks, stub, matched, lastBlock, orphans, work>>
    BY <1>4 DEF RelayTx, chainVars, orphanVars
  <2>2. PICK t \in Txs :
          txHeight' = [txHeight EXCEPT ![t] = IF @ = UNREGISTERED THEN TX_UNCONFIRMED ELSE @]
    BY <1>4 DEF RelayTx
  <2>3. \A u \in Txs : txHeight'[u] = txHeight[u]
                      \/ (txHeight[u] = UNREGISTERED /\ txHeight'[u] = TX_UNCONFIRMED)
    BY <2>2 DEF TypeOK
  <2> QED BY <2>1, <2>3 DEF Registers, Waiting, NextOf
<1>5. CASE ~(RelayBlock(p) \/ HandleNext(p) \/ CopyBlocks(p) \/ DeleteRows(p) \/ PutRows(p) \/ RelayTx(p))
  <2>1. UNCHANGED <<blocks, stub, matched, lastBlock, txHeight, work>> /\ orphans' \in {{}, orphans}
    BY <1>5 DEF PeerStep, UpdateFilterPingDone, UpdateFilterLoadDone, PeerConnected, UnfitPeer,
       KeepDownloadPeer, SelectDownloadPeer, PeerDisconnected, LoadBloomFilter, chainVars, orphanVars
  <2> QED BY <2>1 DEF Registers, Waiting, NextOf
<1> QED
  BY <1>1, <1>2, <1>3, <1>4, <1>5

\* What a reorganization does to the height of a transaction.
LEMMA ConfirmForkIs ==
    ASSUME NEW th \in [Txs -> Nat \cup {UNREGISTERED}], NEW fork \in SUBSET Hash,
           NEW m \in [Hash -> SUBSET Txs], NEW t \in Txs
    PROVE  \/ /\ ConfirmFork(th, fork, m)[t] = th[t]
              /\ th[t] = UNREGISTERED \/ \A a \in fork : t \notin m[a]
           \/ /\ th[t] # UNREGISTERED
              /\ \E a \in fork : t \in m[a] /\ ConfirmFork(th, fork, m)[t] = Height[a]
<1> DEFINE in == {a \in fork : t \in m[a]}
<1>1. ConfirmFork(th, fork, m)[t] =
        IF in = {} \/ th[t] = UNREGISTERED THEN th[t]
        ELSE Height[CHOOSE a \in in : \A c \in in : Height[a] <= Height[c]]
  BY DEF ConfirmFork
<1>2. CASE in = {} \/ th[t] = UNREGISTERED
  BY <1>1, <1>2
<1>3. CASE in # {} /\ th[t] # UNREGISTERED
  <2>1. in \in SUBSET Hash
    OBVIOUS
  <2>2. \E a \in in : \A c \in in : Height[a] <= Height[c]
    BY <1>3, <2>1, LowestExists
  <2>3. (CHOOSE a \in in : \A c \in in : Height[a] <= Height[c]) \in in
    BY <2>2
  <2> QED BY <1>1, <1>3, <2>3
<1> QED
  BY <1>2, <1>3

LEMMA UnconfirmAfterIs ==
    ASSUME NEW th, NEW h, NEW t \in Txs
    PROVE  UnconfirmAfter(th, h)[t] = IF th[t] > h THEN TX_UNCONFIRMED ELSE th[t]
BY DEF UnconfirmAfter

LEMMA ConfirmIs ==
    ASSUME NEW th, NEW txs, NEW h, NEW t \in Txs
    PROVE  Confirm(th, txs, h)[t] = IF t \in txs /\ th[t] # UNREGISTERED THEN h ELSE th[t]
BY DEF Confirm

LEMMA StaysRegistered ==
    ASSUME TypeOK, NEW x \in Orphan, Relays(x) \/ Registers PROVE Registered \subseteq Registered'
<1>1. x.hash \in Hash /\ \A a \in Hash : Height[a] \in Nat /\ Height[a] # UNREGISTERED
  BY HeightIn DEF Orphan, UNREGISTERED
<1>2. TX_UNCONFIRMED \in Nat /\ TX_UNCONFIRMED # UNREGISTERED
  BY ConstantsAssumption DEF UNREGISTERED
<1>3. txHeight \in [Txs -> Nat \cup {UNREGISTERED}]
  BY DEF TypeOK
<1> SUFFICES ASSUME NEW t \in Txs, txHeight[t] # UNREGISTERED PROVE txHeight'[t] # UNREGISTERED
  BY DEF Registered
<1>4. CASE Registers \/ txHeight' = txHeight
  BY <1>2, <1>4 DEF Registers
<1>5. CASE txHeight' = Confirm(txHeight, x.txs, Height[x.hash])
  BY <1>1, <1>5, ConfirmIs
<1>6. CASE Reorganizes(x, Pruned(x.hash))
  <2> DEFINE fork == Run(x.hash, blocks \ Pruned(x.hash), stub)
             m == [matched EXCEPT ![x.hash] = x.txs]
  <2>1. PICK h \in Int, joining \in SUBSET fork :
          txHeight' = ConfirmFork(UnconfirmAfter(txHeight, h), joining, m)
    BY <1>6 DEF Reorganizes
  <2> DEFINE th == UnconfirmAfter(txHeight, h)
  <2>2. th \in [Txs -> Nat \cup {UNREGISTERED}] /\ th[t] # UNREGISTERED
    BY <1>2, <1>3 DEF UnconfirmAfter
  <2>3. joining \in SUBSET Hash
    BY <1>1, <2>1, RunIn
  <2>4. m \in [Hash -> SUBSET Txs]
    BY <1>1 DEF TypeOK, Orphan
  <2> HIDE DEF th, m
  <2>5. ConfirmFork(th, joining, m)[t] = th[t] \/ \E a \in joining : ConfirmFork(th, joining, m)[t] = Height[a]
    BY <2>2, <2>3, <2>4, ConfirmForkIs
  <2> QED BY <1>1, <2>1, <2>2, <2>3, <2>5 DEF th
<1> QED
  BY <1>4, <1>5, <1>6 DEF Relays, Frees, Stores, Extends, Replaces, Forks

LEMMA MinedKept ==
    ASSUME TypeOK, TypeOK', MinedInv, NEW x \in Orphan,
           Registers \/ (Fit(x) /\ Relays(x) /\ WaitsOnlyFor(x))
    PROVE  MinedInv'
<1>1. Registered \subseteq Registered'
  BY StaysRegistered
<1>2. \A b \in Hash : Mined(b) \subseteq Mined(b)'
  BY <1>1 DEF Mined
<1>3. x.hash \in Hash /\ matched \in [Hash -> SUBSET Txs]
  BY DEF Orphan, TypeOK
<1>4. blocks' \subseteq ChainBlocks
  BY DEF MinedInv, Registers, Relays, Frees, Stores, Extends, Replaces, Forks, Reorganizes, Fit, ChainBlocks
<1>5. ASSUME NEW b \in Hash PROVE matched'[b] \subseteq matched[b] \/ (b = x.hash /\ matched'[b] = x.txs /\ Fit(x))
  <2>1. CASE matched' = matched
    BY <2>1
  <2>2. ASSUME NEW F, matched' = Cleared(matched, F) PROVE matched'[b] \subseteq matched[b]
    BY <2>2 DEF Cleared
  <2>3. ASSUME NEW F, matched' = [Cleared(matched, F) EXCEPT ![x.hash] = x.txs]
        PROVE  matched'[b] \subseteq matched[b] \/ (b = x.hash /\ matched'[b] = x.txs)
    BY <1>3, <2>3 DEF Cleared
  <2> QED BY <2>1, <2>2, <2>3 DEF Registers, Relays, Frees, Stores, Extends, Replaces, Forks, Reorganizes
<1>6. \A b \in Hash : matched'[b] \subseteq Mined(b)'
  BY <1>2, <1>5 DEF MinedInv, Fit
<1>7. ASSUME NEW o \in orphans' \cup NextOf(work') PROVE Fit(o)'
  <2>1. Fit(o)
    BY <1>7 DEF Registers, WaitsOnlyFor, MinedInv, Fit
  <2>2. o.hash \in Hash
    BY <2>1 DEF Fit, Network
  <2> QED BY <1>2, <2>1, <2>2 DEF Fit
<1>8. Waiting' = orphans' \cup NextOf(work')
  BY DEF Waiting, NextOf
<1> QED
  BY <1>4, <1>6, <1>7, <1>8 DEF MinedInv

MinedIn(b, x) == [matched EXCEPT ![b] = x.txs]

\* The heights after a reorganization, in terms of the block j where the chains join.
LEMMA ReorganizesTo ==
    ASSUME TypeOK, StoredInv, MinedInv, ShortForks, NEW x \in Orphan, Fit(x),
           Prev[x.hash] \in blocks, Verified(x.hash), Reorganizes(x, Pruned(x.hash))
    PROVE  \E j \in Joint(x.hash, Pruned(x.hash)) :
             \A t \in Txs :
               LET m == MinedIn(x.hash, x)
                   fork == Run(x.hash, blocks \ Pruned(x.hash), stub)
               IN  \/ /\ txHeight[t] > Height[j] /\ txHeight'[t] = TX_UNCONFIRMED
                      /\ \A a \in fork : Height[a] > Height[j] => t \notin m[a]
                   \/ /\ ~(txHeight[t] > Height[j]) /\ txHeight'[t] = txHeight[t]
                      /\ \/ txHeight[t] = UNREGISTERED
                         \/ \A a \in fork : Height[a] > Height[j] => t \notin m[a]
                   \/ \E a \in fork : t \in m[a] /\ Height[a] > Height[j] /\ txHeight'[t] = Height[a]
<1> DEFINE b == x.hash  F == Pruned(b)
           fork == Run(b, blocks \ F, stub)
           j == Tip(Joint(b, F))
           m == MinedIn(b, x)
           th == UnconfirmAfter(txHeight, Height[j])
<1>0. b \in Hash /\ fork \in SUBSET Hash
  BY RunIn DEF Orphan
<1>1. Joint(b, F) # {}
  BY Joins DEF MinedInv, Fit
<1>2. j \in Joint(b, F)
  <2>1. Joint(b, F) \in SUBSET Hash
    BY <1>0 DEF Joint
  <2> QED BY <1>1, <2>1, TipIn
<1>3. txHeight' = ConfirmFork(th, JoiningBlocks(fork, Height[j]), m)
  BY <1>1 DEF Reorganizes, MinedIn
<1>4. j \in Hash /\ Height[j] \in Nat /\ TX_UNCONFIRMED \in Nat
  BY <1>0, <1>2, HeightIn, ConstantsAssumption DEF Joint
<1>5. th \in [Txs -> Nat \cup {UNREGISTERED}]
  BY <1>4 DEF UnconfirmAfter, TypeOK
<1>6. m \in [Hash -> SUBSET Txs]
  BY <1>0 DEF MinedIn, TypeOK, Orphan
<1>7. JoiningBlocks(fork, Height[j]) = {a \in fork : Height[a] > Height[j]}
  BY DEF JoiningBlocks
<1>8. TX_UNCONFIRMED # UNREGISTERED
  BY <1>4 DEF UNREGISTERED
<1> HIDE DEF fork, j, m
<1>9. ASSUME NEW t \in Txs
      PROVE  \/ /\ txHeight[t] > Height[j] /\ txHeight'[t] = TX_UNCONFIRMED
                /\ \A a \in fork : Height[a] > Height[j] => t \notin m[a]
             \/ /\ ~(txHeight[t] > Height[j]) /\ txHeight'[t] = txHeight[t]
                /\ \/ txHeight[t] = UNREGISTERED
                   \/ \A a \in fork : Height[a] > Height[j] => t \notin m[a]
             \/ \E a \in fork : t \in m[a] /\ Height[a] > Height[j] /\ txHeight'[t] = Height[a]
  <2> DEFINE S == JoiningBlocks(fork, Height[j])
  <2>1. S \in SUBSET Hash
    BY <1>0, <1>7
  <2>2. th[t] = IF txHeight[t] > Height[j] THEN TX_UNCONFIRMED ELSE txHeight[t]
    BY UnconfirmAfterIs
  <2> HIDE DEF th, S
  <2>3. \/ /\ ConfirmFork(th, S, m)[t] = th[t]
           /\ th[t] = UNREGISTERED \/ \A a \in S : t \notin m[a]
        \/ /\ th[t] # UNREGISTERED
           /\ \E a \in S : t \in m[a] /\ ConfirmFork(th, S, m)[t] = Height[a]
    BY <1>5, <1>6, <2>1, ConfirmForkIs
  <2>4. txHeight' = ConfirmFork(th, S, m)
    BY <1>3 DEF S
  <2>5. \A a : a \in S <=> a \in fork /\ Height[a] > Height[j]
    BY <1>7 DEF S
  <2> QED BY <1>8, <2>2, <2>3, <2>4, <2>5
<1> QED
  BY <1>2, <1>9 DEF fork, m

\* Below the block where they join, two chains are the same.
LEMMA SameBelow ==
    ASSUME NEW b \in Hash, NEW d \in Hash, NEW j \in Chain[b] \cap Chain[d],
           NEW a \in Chain[d], Height[a] <= Height[j]
    PROVE  a \in Chain[b]
<1>1. a \in Chain[j]
  BY ChainOfAncestor
<1> QED
  BY <1>1, ChainOfAncestor

LEMMA RelaysConfirms ==
    ASSUME TypeOK, TypeOK', StoredInv, MinedInv, ShortForks, ConfirmationsOnMainChain,
           NEW x \in Orphan, Fit(x), Relays(x)
    PROVE  ConfirmationsOnMainChain'
<1> DEFINE b == x.hash  F == Pruned(b)
<1>1. /\ b \in Hash /\ lastBlock \in Hash /\ \A a \in Hash : Height[a] \in Nat
      /\ x.txs \subseteq TxIn[b] /\ \A a \in Hash : matched[a] \subseteq TxIn[a]
  BY HeightIn DEF Orphan, TypeOK, Fit, Mined, MinedInv
<1> SUFFICES ASSUME NEW t \in Txs, txHeight'[t] # UNREGISTERED, txHeight'[t] # TX_UNCONFIRMED
             PROVE  \E a \in Chain[lastBlock'] : Height[a] = txHeight'[t] /\ t \in TxIn[a]
  BY DEF ConfirmationsOnMainChain, Confirmed
<1>2. ASSUME txHeight'[t] = txHeight[t]
      PROVE  \E a \in Chain[lastBlock] : Height[a] = txHeight'[t] /\ t \in TxIn[a]
  BY <1>2 DEF ConfirmationsOnMainChain, Confirmed
<1>3. CASE UNCHANGED <<blocks, stub, matched, lastBlock, txHeight>>
  BY <1>2, <1>3
<1>4. CASE Frees(F) \/ Forks(x, F)
  BY <1>2, <1>4 DEF Frees, Forks
<1>5. CASE Prev[b] \in blocks /\ Extends(x, F)
  <2>1. Chain[b] = {b} \cup Chain[lastBlock] /\ lastBlock' = b
    BY <1>1, <1>5, PrevIs DEF Extends
  <2>2. txHeight'[t] = IF t \in x.txs /\ txHeight[t] # UNREGISTERED THEN Height[b] ELSE txHeight[t]
    BY <1>5, ConfirmIs DEF Extends
  <2>3. CASE t \in x.txs /\ txHeight[t] # UNREGISTERED
    BY <1>1, <2>1, <2>2, <2>3
  <2>4. CASE ~(t \in x.txs /\ txHeight[t] # UNREGISTERED)
    BY <1>2, <2>1, <2>2, <2>4
  <2> QED BY <2>3, <2>4
<1>6. CASE Replaces(x, F)
  <2>1. lastBlock' = lastBlock
    BY <1>6 DEF Replaces
  <2>2. CASE txHeight' = txHeight
    BY <1>2, <2>1, <2>2
  <2>3. CASE b \in Run(lastBlock, blocks \ F, stub) /\ txHeight' = Confirm(txHeight, x.txs, Height[b])
    <3>1. b \in Chain[lastBlock]
      BY <2>3 DEF Run
    <3>2. txHeight'[t] = IF t \in x.txs /\ txHeight[t] # UNREGISTERED THEN Height[b] ELSE txHeight[t]
      BY <2>3, ConfirmIs
    <3>3. CASE t \in x.txs /\ txHeight[t] # UNREGISTERED
      BY <1>1, <2>1, <3>1, <3>2, <3>3
    <3>4. CASE ~(t \in x.txs /\ txHeight[t] # UNREGISTERED)
      BY <1>2, <2>1, <3>2, <3>4
    <3> QED BY <3>3, <3>4
  <2> QED BY <1>6, <2>2, <2>3 DEF Replaces
<1>7. CASE Prev[b] \in blocks /\ Verified(b) /\ Reorganizes(x, F)
  <2> DEFINE m == MinedIn(b, x)  fork == Run(b, blocks \ F, stub)
  <2>1. PICK j \in Joint(b, F) :
          \/ txHeight'[t] = TX_UNCONFIRMED
          \/ ~(txHeight[t] > Height[j]) /\ txHeight'[t] = txHeight[t]
          \/ \E a \in fork : t \in m[a] /\ txHeight'[t] = Height[a]
    BY <1>7, ReorganizesTo
  <2>2. j \in Chain[b] \cap Chain[lastBlock] /\ lastBlock' = b
    BY <1>7 DEF Joint, Run, Reorganizes
  <2>3. CASE ~(txHeight[t] > Height[j]) /\ txHeight'[t] = txHeight[t]
    <3>1. PICK a \in Chain[lastBlock] : Height[a] = txHeight'[t] /\ t \in TxIn[a]
      BY <1>2, <2>3
    <3>2. a \in Hash /\ j \in Hash
      BY <1>1, <2>2, ChainIn
    <3>3. Height[a] <= Height[j]
      BY <1>1, <2>3, <3>1, <3>2
    <3>4. a \in Chain[b]
      BY <1>1, <2>2, <3>3, SameBelow
    <3> QED BY <2>2, <3>1, <3>4
  <2>4. ASSUME NEW a \in fork, t \in m[a], txHeight'[t] = Height[a]
        PROVE  \E c \in Chain[lastBlock'] : Height[c] = txHeight'[t] /\ t \in TxIn[c]
    <3>1. a \in Chain[b] /\ a \in Hash
      BY <1>1, ChainIn DEF Run
    <3>2. m[a] \subseteq TxIn[a]
      BY <1>1, <3>1 DEF MinedIn, TypeOK
    <3> QED BY <2>2, <2>4, <3>1, <3>2
  <2> QED BY <2>1, <2>3, <2>4
<1> QED
  BY <1>3, <1>4, <1>5, <1>6, <1>7 DEF Relays, Stores

LEMMA RegistersConfirms ==
    ASSUME ConfirmationsOnMainChain, Registers PROVE ConfirmationsOnMainChain'
<1> SUFFICES ASSUME NEW t \in Txs, txHeight'[t] # UNREGISTERED, txHeight'[t] # TX_UNCONFIRMED
             PROVE  \E a \in Chain[lastBlock'] : Height[a] = txHeight'[t] /\ t \in TxIn[a]
  BY DEF ConfirmationsOnMainChain, Confirmed
<1> QED
  BY DEF Registers, ConfirmationsOnMainChain, Confirmed

LEMMA ClearedIn ==
    ASSUME TypeOK, NEW F, NEW a \in Hash PROVE Cleared(matched, F)[a] \subseteq matched[a]
BY DEF Cleared, TypeOK

\* No recent block of the main chain is missing.
LEMMA ForkIsNoHole ==
    ASSUME TypeOK, StoredInv, NEW x \in Orphan, NEW F, Forks(x, F), x.hash \in Chain[lastBlock]
    PROVE  Height[x.hash] <= Height[lastBlock] - Interval
<1> DEFINE b == x.hash
<1>1. b \in Hash /\ lastBlock \in Hash /\ b \notin blocks /\ Height[b] > Height[LastCheckpoint]
  BY DEF Orphan, TypeOK, Forks
<1>2. (\A a \in Hash : Height[a] \in Nat) /\ Interval \in Nat
  BY ConstantsAssumption
<1> SUFFICES ASSUME Height[b] > Height[lastBlock] - Interval PROVE FALSE
  BY <1>1, <1>2
<1>3. b \notin Run(lastBlock, blocks, stub)
  <2> SUFFICES ASSUME b \in Run(lastBlock, blocks, stub) PROVE FALSE
    OBVIOUS
  <2>1. b # lastBlock
    BY <1>1 DEF StoredInv, TipInv
  <2>2. Height[b] >= Height[b] /\ b \in Chain[lastBlock]
    BY <1>1, <1>2
  <2>3. b \in blocks
    BY <1>1, <2>1, <2>2, RunAbove
  <2> QED BY <1>1, <2>3
<1>4. PICK w \in Run(lastBlock, blocks, stub) : w \in stub /\ Height[w] > Height[b]
  BY <1>3, RunIsDeep DEF StoredInv
<1>5. w \in Checkpoints /\ w \in Hash
  BY <1>4, ConstantsAssumption DEF TypeOK
<1>6. Height[w] <= Height[LastCheckpoint]
  BY <1>5, LastCheckpointIn
<1> QED
  BY <1>1, <1>2, <1>4, <1>5, <1>6, LastCheckpointIn

\* A stub of the main chain that is replaced does not bring older blocks into it.
LEMMA ReplacedStub ==
    ASSUME TypeOK, StoredInv, NEW b \in Hash, NEW F, b \in stub, Prev[b] \in blocks,
           NEW a \in Run(lastBlock, blocks \ F, stub \ {b})
    PROVE  a \in Run(lastBlock, blocks \ F, stub)
<1>1. lastBlock \in Hash /\ Prev[b] \in Hash /\ b \in Checkpoints
  BY DEF TypeOK
<1>2. \A c \in Hash : Height[c] \in Nat
  BY HeightIn
<1>3. b \notin Chain[lastBlock]
  <2> SUFFICES ASSUME b \in Chain[lastBlock] PROVE FALSE
    OBVIOUS
  <2>1. Height[b] <= Height[lastBlock]
    BY <1>1, <1>2, ChainAssumption
  <2>2. Height[Prev[b]] < Height[b]
    BY <1>1, PrevIs
  <2>3. Height[lastBlock] >= Height[b]
    BY <1>1, <1>2, <2>1
  <2>4. Prev[b] \in Checkpoints
    BY <2>2, <2>3 DEF StoredInv, StubInv
  <2> QED BY <1>1, <2>4, NoNeighbours
<1> QED
  BY <1>3 DEF Run

LEMMA RelaysMatched ==
    ASSUME TypeOK, TypeOK', StoredInv, MinedInv, ShortForks, MinedOnce, MatchedAreConfirmed,
           NEW x \in Orphan, Fit(x), Relays(x)
    PROVE  MatchedAreConfirmed'
<1> DEFINE b == x.hash  F == Pruned(b)
<1>1. /\ b \in Hash /\ lastBlock \in Hash /\ lastBlock' \in Hash /\ \A a \in Hash : Height[a] \in Nat
      /\ x.txs \subseteq TxIn[b] /\ \A a \in Hash : matched[a] \subseteq TxIn[a]
      /\ x.txs \subseteq Registered /\ \A a \in Hash : matched[a] \subseteq Registered
      /\ matched \in [Hash -> SUBSET Txs] /\ x.txs \subseteq Txs
  BY HeightIn DEF Orphan, TypeOK, Fit, Mined, MinedInv
<1>1a. Interval \in Nat
  BY ConstantsAssumption
<1> SUFFICES ASSUME NEW a \in Run(lastBlock', blocks', stub'),
                    Height[a] > Height[lastBlock'] - Interval, NEW t \in matched'[a]
             PROVE  txHeight'[t] = Height[a]
  BY DEF MatchedAreConfirmed, MainChain
<1>2. a \in Hash /\ a \in Chain[lastBlock']
  BY <1>1, RunIn DEF Run
<1>3. ASSUME a \in Run(lastBlock, blocks, stub), t \in matched[a], Height[a] > Height[lastBlock] - Interval
      PROVE  txHeight[t] = Height[a] /\ t \in TxIn[a] /\ t \in Txs
  BY <1>1, <1>2, <1>3 DEF MatchedAreConfirmed, MainChain
<1>4. CASE UNCHANGED <<blocks, stub, matched, lastBlock, txHeight>>
  BY <1>3, <1>4
<1>5. CASE Frees(F)
  <2>1. a \in Run(lastBlock, blocks, stub)
    BY <1>5 DEF Frees, Run
  <2> QED BY <1>2, <1>3, <1>5, <2>1, ClearedIn DEF Frees
<1>6. CASE Forks(x, F)
  <2>1. /\ blocks' = (blocks \ F) \cup {b} /\ stub' = stub /\ lastBlock' = lastBlock
        /\ txHeight' = txHeight /\ matched' = [Cleared(matched, F) EXCEPT ![b] = x.txs]
        /\ b \notin blocks
    BY <1>6 DEF Forks
  <2>2. b \in Chain[lastBlock] => Height[b] < Height[a]
    <3>1. b \in Chain[lastBlock] => Height[b] <= Height[lastBlock] - Interval
      BY <1>6, ForkIsNoHole
    <3> QED BY <1>1, <1>1a, <1>2, <2>1, <3>1
  <2>3. a # b
    BY <1>1, <1>2, <2>1, <2>2
  <2>4. a \in Run(lastBlock, blocks, stub)
    <3>1. a \in Chain[lastBlock]
      BY <1>2, <2>1
    <3>2. ASSUME NEW c \in Chain[lastBlock], Height[c] >= Height[a] PROVE c # b
      BY <1>1, <1>2, <2>2, <3>2
    <3> QED BY <2>1, <3>1, <3>2 DEF Run
  <2>5. t \in matched[a]
    BY <1>2, <2>1, <2>3, ClearedIn DEF Cleared
  <2> QED BY <1>3, <2>1, <2>4, <2>5
<1>7. CASE Prev[b] \in blocks /\ Extends(x, F)
  <2>1. /\ blocks' = (blocks \ F) \cup {b} /\ stub' = stub \ {b} /\ lastBlock' = b
        /\ txHeight' = Confirm(txHeight, x.txs, Height[b])
        /\ matched' = [Cleared(matched, F) EXCEPT ![b] = x.txs] /\ Prev[b] = lastBlock
    BY <1>7 DEF Extends
  <2>2. Chain[b] = {b} \cup Chain[lastBlock] /\ Height[b] = Height[lastBlock] + 1
    BY <1>1, <2>1, PrevIs
  <2>3. CASE a = b
    <3>1. t \in x.txs
      BY <1>1, <2>1, <2>3 DEF Cleared
    <3>2. txHeight[t] # UNREGISTERED /\ t \in Txs
      BY <1>1, <3>1 DEF Registered
    <3> QED BY <2>1, <2>3, <3>1, <3>2, ConfirmIs
  <2>4. CASE a # b
    <3>1. a \in Chain[lastBlock]
      BY <1>2, <2>1, <2>2, <2>4
    <3>2. b \notin Chain[lastBlock]
      <4>1. \A c \in Chain[lastBlock] : Height[c] <= Height[lastBlock]
        BY <1>1, ChainIn, ChainAssumption
      <4> QED BY <1>1, <2>2, <4>1
    <3>3. a \in Run(lastBlock, blocks, stub)
      BY <2>1, <2>2, <3>1, <3>2 DEF Run
    <3>4. t \in matched[a]
      BY <1>2, <2>1, <2>4, ClearedIn DEF Cleared
    <3>5. Height[a] > Height[lastBlock] - Interval
      BY <1>1, <1>1a, <1>2, <2>1, <2>2
    <3>6. txHeight[t] = Height[a] /\ t \in TxIn[a] /\ t \in Txs
      BY <1>3, <3>3, <3>4, <3>5
    <3>7. t \notin x.txs
      <4> SUFFICES ASSUME t \in x.txs PROVE FALSE
        OBVIOUS
      <4>1. t \in TxIn[a] \cap TxIn[b] /\ a \in Chain[b] /\ b \in Chain[b]
        BY <1>1, <2>2, <3>1, <3>6
      <4> QED BY <1>1, <2>4, <4>1 DEF MinedOnce
    <3> QED BY <2>1, <3>6, <3>7, ConfirmIs
  <2> QED BY <2>3, <2>4
<1>8. CASE Prev[b] \in blocks /\ Replaces(x, F)
  <2>1. /\ blocks' = blocks \ F /\ stub' = stub \ {b} /\ lastBlock' = lastBlock
        /\ matched' = [Cleared(matched, F) EXCEPT ![b] = x.txs]
        /\ txHeight' = IF b \in Run(lastBlock, blocks \ F, stub)
                       THEN Confirm(txHeight, x.txs, Height[b]) ELSE txHeight
    BY <1>8 DEF Replaces
  <2>2. a \in Run(lastBlock, blocks \ F, stub)
    <3>1. CASE b \in stub
      BY <1>1, <1>8, <2>1, <3>1, ReplacedStub
    <3>2. CASE b \notin stub
      BY <2>1, <3>2
    <3> QED BY <3>1, <3>2
  <2>3. a \in Run(lastBlock, blocks, stub)
    BY <2>2 DEF Run
  <2>4. CASE a = b
    <3>1. t \in x.txs
      BY <1>1, <2>1, <2>4 DEF Cleared
    <3>2. txHeight[t] # UNREGISTERED /\ t \in Txs
      BY <1>1, <3>1 DEF Registered
    <3> QED BY <2>1, <2>2, <2>4, <3>1, <3>2, ConfirmIs
  <2>5. CASE a # b
    <3>1. t \in matched[a]
      BY <1>2, <2>1, <2>5, ClearedIn DEF Cleared
    <3>2. txHeight[t] = Height[a] /\ t \in TxIn[a] /\ t \in Txs
      BY <1>3, <2>1, <2>3, <3>1
    <3>3. CASE txHeight' = txHeight
      BY <3>2, <3>3
    <3>4. CASE b \in Run(lastBlock, blocks \ F, stub) /\ txHeight' = Confirm(txHeight, x.txs, Height[b])
      <4>1. t \notin x.txs
        <5> SUFFICES ASSUME t \in x.txs PROVE FALSE
          OBVIOUS
        <5>1. t \in TxIn[a] \cap TxIn[b] /\ a \in Chain[lastBlock] /\ b \in Chain[lastBlock]
          BY <1>1, <1>2, <2>1, <3>2, <3>4 DEF Run
        <5> QED BY <1>1, <2>5, <5>1 DEF MinedOnce
      <4> QED BY <3>2, <3>4, <4>1, ConfirmIs
    <3> QED BY <2>1, <3>3, <3>4
  <2> QED BY <2>4, <2>5
<1>9. CASE Prev[b] \in blocks /\ Verified(b) /\ Reorganizes(x, F)
  <2> DEFINE m == MinedIn(b, x)
             fork == Run(b, blocks \ F, stub)
             main == Run(lastBlock, blocks \ F, stub)
  <2>1. /\ blocks' = (blocks \ F) \cup {b} /\ stub' = stub /\ lastBlock' = b
        /\ matched' = [Cleared(matched, F) EXCEPT ![b] = x.txs]
    BY <1>9 DEF Reorganizes
  <2>2. Height[b] = Height[lastBlock] + 1
    BY <1>9, ReorganizesNext DEF StoredInv
  <2>3. a \in fork
    BY <1>2, <2>1 DEF Run
  <2>4. t \in m[a] /\ m[a] \subseteq TxIn[a] /\ m[a] \subseteq Registered /\ t \in Txs
    BY <1>1, <1>2, <2>1, ClearedIn DEF MinedIn, Cleared
  <2>5. PICK j \in Joint(b, F) : \A u \in Txs :
          \/ /\ txHeight[u] > Height[j] /\ txHeight'[u] = TX_UNCONFIRMED
             /\ \A d \in fork : Height[d] > Height[j] => u \notin m[d]
          \/ /\ ~(txHeight[u] > Height[j]) /\ txHeight'[u] = txHeight[u]
             /\ \/ txHeight[u] = UNREGISTERED
                \/ \A d \in fork : Height[d] > Height[j] => u \notin m[d]
          \/ \E d \in fork : u \in m[d] /\ Height[d] > Height[j] /\ txHeight'[u] = Height[d]
    BY <1>9, ReorganizesTo
  <2>6. j \in fork /\ j \in main /\ j \in Chain[b] \cap Chain[lastBlock] /\ j \in Hash
    BY <1>1, RunIn DEF Joint, Run
  <2>7. ASSUME NEW d \in fork, t \in m[d] PROVE d = a
    <3>1. d \in Hash /\ d \in Chain[b] /\ a \in Chain[b]
      BY <1>1, <2>3, ChainIn DEF Run
    <3>2. m[d] \subseteq TxIn[d]
      BY <1>1, <3>1 DEF MinedIn
    <3>3. t \in TxIn[a] \cap TxIn[d]
      BY <2>4, <2>7, <3>2
    <3> QED BY <1>1, <3>1, <3>3 DEF MinedOnce
  <2>8. txHeight[t] # UNREGISTERED
    BY <2>4 DEF Registered
  <2> HIDE DEF m, fork, main
  <2>9. CASE Height[a] > Height[j]
    BY <2>3, <2>4, <2>5, <2>7, <2>8, <2>9
  <2>10. CASE ~(Height[a] > Height[j])
    <3>1. Height[a] <= Height[j]
      BY <1>1, <1>2, <2>6, <2>10
    <3>2. a \in Chain[b]
      BY <1>2, <2>1
    <3>3. a \in Chain[lastBlock]
      BY <1>1, <2>6, <3>1, <3>2, SameBelow
    <3>4. a # b
      <4>1. Height[a] <= Height[lastBlock]
        BY <1>1, <1>2, <3>3, ChainAssumption
      <4> QED BY <1>1, <2>2, <4>1
    <3>5. ASSUME NEW c \in Chain[lastBlock], Height[c] >= Height[a]
          PROVE  /\ c # lastBlock => c \in blocks
                 /\ Height[c] > Height[a] => c \notin stub
      <4>1. c \in Hash
        BY <1>1, ChainIn
      <4>2. CASE Height[c] > Height[j]
        <5>1. Height[c] >= Height[j]
          BY <1>1, <2>6, <4>1, <4>2
        <5> QED BY <1>1, <2>6, <4>2, <5>1, RunAbove DEF main
      <4>3. CASE Height[c] <= Height[j]
        <5>1. c \in Chain[b]
          BY <1>1, <2>6, <4>3, SameBelow
        <5>2. c # b
          <6>1. Height[c] <= Height[lastBlock]
            BY <1>1, <4>1, ChainAssumption
          <6> QED BY <1>1, <2>2, <6>1
        <5> QED BY <1>1, <2>3, <3>5, <5>1, <5>2, RunAbove DEF fork
      <4> QED BY <1>1, <2>6, <4>1, <4>2, <4>3
    <3>6. a \in Run(lastBlock, blocks, stub)
      <4>1. ASSUME NEW c \in Chain[lastBlock], Height[c] >= Height[a] PROVE c # lastBlock => c \in blocks
        BY <3>5, <4>1
      <4>2. ASSUME NEW c \in Chain[lastBlock], Height[c] > Height[a] PROVE c \notin stub
        <5>1. Height[c] >= Height[a]
          BY <1>1, <1>2, <4>2, ChainIn
        <5> QED BY <3>5, <4>2, <5>1
      <4> QED BY <3>3, <4>1, <4>2 DEF Run
    <3>7. t \in matched[a]
      BY <1>1, <1>2, <2>4, <3>4 DEF m, MinedIn
    <3>8. Height[a] > Height[lastBlock] - Interval
      BY <1>1, <1>1a, <1>2, <2>1, <2>2
    <3>9. txHeight[t] = Height[a]
      BY <1>3, <3>6, <3>7, <3>8
    <3>10. ~ \E d \in fork : t \in m[d] /\ Height[d] > Height[j]
      BY <2>7, <2>10
    <3>11. ~(txHeight[t] > Height[j])
      BY <2>10, <3>9
    <3> QED BY <2>4, <2>5, <3>9, <3>10, <3>11
  <2> QED BY <2>9, <2>10
<1> QED
  BY <1>4, <1>5, <1>6, <1>7, <1>8, <1>9 DEF Relays, Stores

LEMMA RegistersMatched ==
    ASSUME TypeOK, MinedInv, MatchedAreConfirmed, Registers PROVE MatchedAreConfirmed'
<1> SUFFICES ASSUME NEW a \in MainChain, Height[a] > Height[lastBlock] - Interval, NEW t \in matched[a]
             PROVE  txHeight'[t] = Height[a]
  BY DEF Registers, MatchedAreConfirmed, MainChain
<1>1. a \in Hash
  BY RunIn DEF MainChain, TypeOK
<1>2. t \in Txs /\ txHeight[t] # UNREGISTERED
  BY <1>1 DEF MinedInv, Mined, Registered
<1> QED
  BY <1>2 DEF Registers, MatchedAreConfirmed

LEMMA InitStored == Init => StoredInv /\ MinedInv /\ ConfirmationsOnMainChain /\ MatchedAreConfirmed
<1> SUFFICES ASSUME Init PROVE StoredInv /\ MinedInv /\ ConfirmationsOnMainChain /\ MatchedAreConfirmed
  OBVIOUS
<1>1. TipInv
  BY InitTip
<1>2. CheckpointInv
  BY CheckpointAssumption DEF Init, CheckpointInv
<1>3. TopInv /\ OldInv /\ StubInv /\ LinkInv
  BY DEF Init, TopInv, OldInv, StubInv, LinkInv
<1>4. MinedInv
  BY DEF Init, MinedInv, ChainBlocks, Waiting, NextOf, NoWork
<1>5. ConfirmationsOnMainChain
  BY DEF Init, ConfirmationsOnMainChain, Confirmed
<1>6. MatchedAreConfirmed
  <2> SUFFICES ASSUME NEW a \in MainChain PROVE matched[a] = {}
    BY DEF MatchedAreConfirmed
  <2>1. lastBlock \in Hash
    BY StartCheckpointIn, ConstantsAssumption DEF Init
  <2>2. a \in Hash
    BY <2>1, RunIn DEF MainChain
  <2> QED BY <2>2 DEF Init
<1> QED
  BY <1>1, <1>2, <1>3, <1>4, <1>5, <1>6 DEF StoredInv

LEMMA StoredNext ==
    Rescans = {} /\ CanCrash = FALSE /\ TypeOK /\ TypeOK' /\ StoredInv /\ MinedInv /\ [Next]_vars
        => StoredInv' /\ MinedInv'
<1> SUFFICES ASSUME Rescans = {}, CanCrash = FALSE, TypeOK, TypeOK', StoredInv, MinedInv, [Next]_vars
             PROVE  StoredInv' /\ MinedInv'
  OBVIOUS
<1>1. CASE Rescan \/ Restart
  BY <1>1 DEF Rescan, RescanStarts, Restart
<1>2. ASSUME NEW p \in Peers, PeerStep(p) PROVE StoredInv' /\ MinedInv'
  <2>1. TipInv' /\ CheckpointInv'
    BY <1>2, PeerStepTip, PeerStepAdds, AddsKeepsCheckpoints DEF StoredInv
  <2>2. CASE Registers
    <3>1. StoredInv'
      BY <2>1, <2>2 DEF Registers, StoredInv, TopInv, OldInv, StubInv, LinkInv, RecentAbove
    <3>2. [hash |-> lastBlock, txs |-> {}, known |-> FALSE] \in Orphan
      BY DEF Orphan, TypeOK
    <3>3. MinedInv'
      BY <2>2, <3>2, MinedKept
    <3> QED BY <3>1, <3>3
  <2>3. CASE \E x \in Orphan : Fit(x) /\ Relays(x) /\ WaitsOnlyFor(x)
    BY <2>1, <2>3, RelaysKeeps, MinedKept
  <2> QED BY <1>2, <2>2, <2>3, PeerStepRelays
<1>3. CASE UNCHANGED vars
  BY <1>3 DEF vars, chainVars, orphanVars, StoredInv, TipInv, CheckpointInv, TopInv, OldInv,
     StubInv, LinkInv, RecentAbove, MinedInv, Waiting, NextOf, Fit, Mined, Registered
<1> QED
  BY <1>1, <1>2, <1>3 DEF Next

\* A confirmed transaction is mined, at that height, in the chain of the tip, in
\* any interleaving of peers, forks and reorganizations that replace fewer than
\* Interval blocks.  (A longer fork leaves the walk back without stored blocks, and
\* keeps confirmations; a restart or a rescan takes the tip back and keeps them too.)
THEOREM ConfirmedOnMainChain ==
    ASSUME Rescans = {}, CanCrash = FALSE, ShortForks
    PROVE  Spec => []ConfirmationsOnMainChain
<1>1. ShortForks /\ TypeOK /\ TypeOK' /\ StoredInv /\ MinedInv /\ ConfirmationsOnMainChain
        /\ CanCrash = FALSE /\ Rescans = {} /\ [Next]_vars => ConfirmationsOnMainChain'
  <2> SUFFICES ASSUME ShortForks, TypeOK, TypeOK', StoredInv, MinedInv, ConfirmationsOnMainChain,
                      CanCrash = FALSE, Rescans = {}, [Next]_vars
               PROVE  ConfirmationsOnMainChain'
    OBVIOUS
  <2>1. CASE Rescan \/ Restart
    BY <2>1 DEF Rescan, RescanStarts, Restart
  <2>2. CASE \E p \in Peers : PeerStep(p)
    BY <2>2, PeerStepRelays, RelaysConfirms, RegistersConfirms
  <2>3. CASE UNCHANGED vars
    BY <2>3 DEF vars, chainVars, ConfirmationsOnMainChain, Confirmed
  <2> QED BY <2>1, <2>2, <2>3 DEF Next
<1> QED
  BY <1>1, StoredNext, InitStored, TypeCorrect, PTL DEF Spec

\* No confirmation is missed: what one of the newest blocks of the main chain has
\* matched has the height of that block, on the same assumptions, if no chain mines
\* a transaction twice.
THEOREM NoConfirmationMissed ==
    ASSUME Rescans = {}, CanCrash = FALSE, ShortForks, MinedOnce
    PROVE  Spec => []MatchedAreConfirmed
<1>1. ShortForks /\ MinedOnce /\ TypeOK /\ TypeOK' /\ StoredInv /\ MinedInv /\ MatchedAreConfirmed
        /\ CanCrash = FALSE /\ Rescans = {} /\ [Next]_vars => MatchedAreConfirmed'
  <2> SUFFICES ASSUME ShortForks, MinedOnce, TypeOK, TypeOK', StoredInv, MinedInv, MatchedAreConfirmed,
                      CanCrash = FALSE, Rescans = {}, [Next]_vars
               PROVE  MatchedAreConfirmed'
    OBVIOUS
  <2>1. CASE Rescan \/ Restart
    BY <2>1 DEF Rescan, RescanStarts, Restart
  <2>2. CASE \E p \in Peers : PeerStep(p)
    BY <2>2, PeerStepRelays, RelaysMatched, RegistersMatched
  <2>3. CASE UNCHANGED vars
    BY <2>3 DEF vars, chainVars, MatchedAreConfirmed, MainChain
  <2> QED BY <2>1, <2>2, <2>3 DEF Next
<1> QED
  BY <1>1, StoredNext, InitStored, TypeCorrect, PTL DEF Spec

=============================================================================
