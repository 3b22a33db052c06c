------------------------------- MODULE Wallet -------------------------------
(***************************************************************************)
(* One BRWallet (BRWallet.c): the transactions it knows, their order and   *)
(* heights, which of them are invalid or pending, the outputs it may spend *)
(* and its two chains of addresses.                                        *)
(*                                                                         *)
(* The calls that change a wallet come from the handlers of a              *)
(* BRPeerManager, which hold manager->lock, so they follow one another;    *)
(* the application's threads only generate addresses, when wallet->lock is *)
(* free.  A call that loops over several transactions takes a step for     *)
(* each of them: removing, left and needsUpdate are the state of the loop. *)
(*                                                                         *)
(* The block chain is the environment: mined says which transactions are   *)
(* in the main chain and at what height.  Amounts, scripts and signatures  *)
(* are left out: the balance is the set of unspent outputs.                *)
(***************************************************************************)
EXTENDS Integers, SequencesExt

CONSTANTS
    Tx,             \* transactions that may be relayed to the wallet
    NoTx,           \* no transaction; also the origin of other people's outputs
    Output,         \* every transaction output
    TxOf,           \* TxOf[o]: the transaction that o is an output of
    AddressOf,      \* AddressOf[o]: the wallet's address that o pays, or Foreign
    Foreign,
    Inputs,         \* Inputs[t]: the outputs that t spends
    NonFinal,       \* replaceable, oversized or dust: pending until confirmed
    LockHeight,     \* lockTime of a transaction with a non-final input, else 0
    TX_UNCONFIRMED, \* the height of unconfirmed transactions, INT32_MAX
    GapLimit,       \* SEQUENCE_GAP_LIMIT_INTERNAL and _EXTERNAL
    FilterSpare,    \* spare addresses generated for a bloom filter (100)
    MaxHeight,      \* bound: the chain's height
    MaxAddresses,   \* bound: addresses of a chain
    CanRestart      \* whether the process may be restarted

Chains == {"internal", "external"}
Address == [chain : Chains, index : Nat]

ASSUME WalletAssumption ==
    /\ IsFiniteSet(Tx) /\ NoTx \notin Tx
    /\ Foreign \notin Address
    /\ TxOf \in [Output -> Tx \cup {NoTx}]
    /\ AddressOf \in [Output -> Address \cup {Foreign}]
    /\ Inputs \in [Tx -> SUBSET Output] /\ NonFinal \subseteq Tx
    /\ LockHeight \in [Tx -> Nat]
    /\ MaxHeight \in Nat /\ TX_UNCONFIRMED \in Nat /\ TX_UNCONFIRMED > MaxHeight
    /\ GapLimit \in [Chains -> 1 .. MaxAddresses] /\ FilterSpare \in Nat
    /\ MaxAddresses \in Nat /\ CanRestart \in BOOLEAN

VARIABLES
    transactions,   \* wallet->transactions, sorted
    allTx,          \* wallet->allTx, with transactions that are not the wallet's
    height,         \* tx->blockHeight
    blockHeight,    \* wallet->blockHeight
    invalidTx, pendingTx, utxos, usedAddrs,  \* what _BRWalletUpdateBalance finds
    count,          \* the number of addresses generated in each chain
    left,           \* the transactions that BRWalletUpdateTransactions still has to set,
    updateHeight,   \* to this height (0: no call is running)
    needsUpdate,
    confirming,     \* the heights whose blocks the peer manager has to hand over
    removing,       \* the transaction that BRWalletRemoveTransaction removes
    loading,        \* the rows that BRWalletNew still has to insert
    phase,          \* "loading", "offline" until a filter is loaded, "online",
                    \* "none" when BRWalletNew has returned NULL, "fault" when
                    \* a listed transaction is freed: no step is modelled then
    mined, tip      \* the main chain: mined[t] is 0 if t is not mined

walletVars == <<transactions, allTx, height, blockHeight, count>>
balanceVars == <<invalidTx, pendingTx, utxos, usedAddrs>>
updateVars == <<left, updateHeight, needsUpdate>>
chainVars == <<mined, tip>>
vars == <<walletVars, balanceVars, updateVars, confirming, removing, loading, phase, chainVars>>

Listed == Range(transactions)
Heights == 0 .. MaxHeight \cup {TX_UNCONFIRMED}

TypeOK ==
    /\ transactions \in Seq(Tx) /\ allTx \subseteq Tx
    /\ height \in [Tx -> Heights] /\ blockHeight \in Heights
    /\ invalidTx \subseteq Tx /\ pendingTx \subseteq Tx
    /\ utxos \subseteq Output /\ usedAddrs \subseteq Address
    /\ count \in [Chains -> 0 .. MaxAddresses]
    /\ left \subseteq Tx /\ updateHeight \in Heights /\ needsUpdate \in BOOLEAN
    /\ confirming \subseteq 1 .. MaxHeight /\ removing \in Tx \cup {NoTx}
    /\ loading \subseteq Tx /\ phase \in {"loading", "offline", "online", "none", "fault"}
    /\ mined \in [Tx -> 0 .. MaxHeight] /\ tip \in 0 .. MaxHeight

-----------------------------------------------------------------------------
(* The order of the transactions                                            *)

Parents(t) == {TxOf[o] : o \in Inputs[t]}

\* _BRWalletTxIsAscending follows the inputs of tx1 through the transactions of
\* all; SpendsFrom(h, all)[n] is the relation found within n links
SpendsFrom(h, all) ==
    LET f[n \in Nat] ==
          {ab \in Tx \X Tx :
              \/ h[ab[1]] > h[ab[2]]
              \/ /\ h[ab[1]] = h[ab[2]]
                 /\ \/ ab[2] \in Parents(ab[1])
                    \/ /\ ab[1] \notin Parents(ab[2])
                       /\ n > 0 /\ \E q \in Parents(ab[1]) \cap all : <<q, ab[2]>> \in f[n - 1]}
    IN  f[Cardinality(Tx)]

Ascending(h, all, a, b) ==
    h[a] > h[b] \/ (h[a] = h[b] /\ <<a, b>> \in SpendsFrom(h, all))

\* _txChainIndex: the position of the last address of a chain that t pays, or -1
ChainIndex(t, c) ==
    LET found == {AddressOf[o].index : o \in {o \in Output :
                    TxOf[o] = t /\ AddressOf[o] # Foreign /\ AddressOf[o].chain = c}}
        known == {k \in found : k < count[c]}
    IN  IF known = {} THEN -1 ELSE CHOOSE k \in known : \A j \in known : j <= k

\* _BRWalletTxCompare(tx1, tx2) > 0
PaysLater(a, b) ==
    LET kind == IF ChainIndex(a, "internal") = -1 THEN "external" ELSE "internal"
    IN  ChainIndex(b, kind) # -1 /\ ChainIndex(a, kind) > ChainIndex(b, kind)
After(h, all, a, b) ==
    Ascending(h, all, a, b) \/ (~Ascending(h, all, b, a) /\ PaysLater(a, b))

\* _BRWalletInsertTx: t goes behind the last transaction that it does not precede
InsertPosition(s, h, all, t, p) ==
    /\ \A k \in p .. Len(s) : After(h, all, s[k], t)
    /\ p = 1 \/ ~After(h, all, s[p - 1], t)
InsertTx(s, h, all, t) ==
    {InsertAt(s, p, t) : p \in {p \in 1 .. Len(s) + 1 : InsertPosition(s, h, all, t, p)}}

\* array_rm of the transaction
Without(s, t) == {RemoveAt(s, i) : i \in {i \in 1 .. Len(s) : s[i] = t}}

-----------------------------------------------------------------------------
(* What the wallet owns and can spend                                       *)

\* n: the number of addresses of each chain
Owned(n, o) == AddressOf[o] # Foreign /\ AddressOf[o].index < n[AddressOf[o].chain]

\* _BRWalletContainsTx: t pays the wallet, or spends what is known to pay it
ContainsTx(n, t) ==
    \/ \E o \in Output : TxOf[o] = t /\ Owned(n, o)
    \/ \E o \in Inputs[t] : TxOf[o] \in allTx /\ Owned(n, o)

\* _BRWalletUpdateBalance walks over the transactions of s with the heights h:
\* an unconfirmed one is invalid if a valid one before it spends the same
\* output or if it spends an output of an invalid one before it
Before(s, i) == {s[j] : j \in 1 .. i - 1}
Conflicting(t, u) == t # u /\ Inputs[t] \cap Inputs[u] # {}
IsInvalidTx(s, h, invalid) ==
    \A i \in 1 .. Len(s) :
        s[i] \in invalid <=>
            /\ h[s[i]] = TX_UNCONFIRMED
            /\ \/ \E u \in Before(s, i) \ invalid : Conflicting(s[i], u)
               \/ Parents(s[i]) \cap Before(s, i) \cap invalid # {}

\* a valid unconfirmed one is pending if it is not final or spends from one
IsLocked(t, bh) == LockHeight[t] - 1 > bh
IsPendingTx(s, h, bh, invalid, pending) ==
    \A i \in 1 .. Len(s) :
        s[i] \in pending <=>
            /\ s[i] \notin invalid /\ h[s[i]] = TX_UNCONFIRMED
            /\ \/ s[i] \in NonFinal \/ IsLocked(s[i], bh)
               \/ Parents(s[i]) \cap Before(s, i) \cap pending # {}

\* the outputs of the others are unspent, less what has been spent when the
\* last of them is reached
Accepted(s, skipped) == {i \in 1 .. Len(s) : s[i] \notin skipped}
\* wrong on purpose: takes every parent to be before the transactions that spend it
UnspentInOrder(s, n, invalid, pending) ==
    {o \in Output :
        /\ Owned(n, o)
        /\ \E i \in Accepted(s, invalid \cup pending) :
             /\ TxOf[o] = s[i]
             /\ ~\E k \in Accepted(s, invalid \cup pending) : k > i /\ o \in Inputs[s[k]]}
\* wrong on purpose: what an invalid transaction spends is spent
UnspentByAny(s, n, invalid, pending) ==
    {o \in Output :
        /\ Owned(n, o)
        /\ \E i \in Accepted(s, invalid \cup pending) : TxOf[o] = s[i]
        /\ ~\E i \in Accepted(s, invalid \cup pending) : \E j \in 1 .. i : o \in Inputs[s[j]]}
Unspent(s, n, invalid, pending) ==
    {o \in Output :
        /\ Owned(n, o)
        /\ \E i \in Accepted(s, invalid \cup pending) : TxOf[o] = s[i]
        /\ ~\E i \in Accepted(s, invalid \cup pending) :
             \E j \in 1 .. i : s[j] \notin invalid /\ o \in Inputs[s[j]]}

\* outputs without an address are skipped; wrong on purpose: they are not
PaidAnywhere(ts) == {AddressOf[o] : o \in {o \in Output : TxOf[o] \in ts}}
Paid(ts) == {AddressOf[o] : o \in {o \in Output : TxOf[o] \in ts}} \ {Foreign}

UpdateBalance(s, h, bh, n) ==
    /\ invalidTx' \in SUBSET Range(s) /\ IsInvalidTx(s, h, invalidTx')
    /\ pendingTx' \in SUBSET Range(s) /\ IsPendingTx(s, h, bh, invalidTx', pendingTx')
    /\ utxos' = Unspent(s, n, invalidTx', pendingTx')
    /\ usedAddrs' = Paid(Range(s) \ (invalidTx' \cup pendingTx'))

\* BRWalletUnusedAddrs: extend a chain until its last gap addresses are unused
HasGap(c, n, gap, used) ==
    n >= gap /\ \A k \in n - gap .. n - 1 : [chain |-> c, index |-> k] \notin used
IsExtended(c, from, gap, used, n) ==
    n >= from /\ HasGap(c, n, gap, used) /\ \A m \in from .. n - 1 : ~HasGap(c, m, gap, used)
UnusedAddrs(from, gap, used) ==
    \E i, e \in 0 .. MaxAddresses :
        /\ IsExtended("internal", from["internal"], gap["internal"], used, i)
        /\ IsExtended("external", from["external"], gap["external"], used, e)
        /\ count' = [c \in Chains |-> IF c = "internal" THEN i ELSE e]

-----------------------------------------------------------------------------
(* Calls of the peer manager                                                *)

Idle == phase = "online" /\ updateHeight = 0 /\ confirming = {} /\ removing = NoTx

\* BRWalletRegisterTransaction for a transaction that is not known yet: it is
\* listed if it is the wallet's; else it is only remembered, unless the
\* chain is being synced, when the peer manager does not register it at all
ListTx(t) ==
    \E s \in InsertTx(transactions, height, allTx \cup {t}, t) :
        /\ transactions' = s
        /\ UpdateBalance(s, height, blockHeight, count)
        /\ UnusedAddrs(count, GapLimit, usedAddrs')
RegisterTransaction(t) ==
    /\ Idle /\ t \notin allTx
    /\ allTx' = allTx \cup {t}
    /\ \/ ContainsTx(count, t) /\ ListTx(t)
       \/ ~ContainsTx(count, t) /\ UNCHANGED <<transactions, count, balanceVars>>
    /\ UNCHANGED <<height, blockHeight, updateVars, confirming, removing, loading, phase, chainVars>>

\* BRWalletUpdateTransactions for the transactions of one block, or for one that
\* enough peers have relayed, or have dropped (its height stays TX_UNCONFIRMED)
BeginUpdate(ts, h) ==
    /\ updateHeight' = h /\ left' = ts
    /\ blockHeight' = IF h > blockHeight THEN h ELSE blockHeight

UpdateBlock ==
    /\ phase = "online" /\ updateHeight = 0 /\ confirming # {}
    /\ \E h \in confirming :
        /\ \A k \in confirming : k <= h
        /\ LET ts == {t \in Tx : mined[t] = h} IN
           \/ ts # {} /\ BeginUpdate(ts, h)
           \/ ts = {} /\ UNCHANGED <<blockHeight, left, updateHeight>>
        /\ confirming' = confirming \ {h}
    /\ UNCHANGED <<transactions, allTx, height, count, balanceVars, needsUpdate, removing,
                   loading, phase, chainVars>>

UpdateUnconfirmed ==
    /\ Idle
    /\ \E t \in allTx : height[t] = TX_UNCONFIRMED /\ BeginUpdate({t}, TX_UNCONFIRMED)
    /\ UNCHANGED <<transactions, allTx, height, count, balanceVars, needsUpdate, confirming,
                   removing, loading, phase, chainVars>>

\* one transaction of the loop: its new place in the list; one that is not the
\* wallet's is freed when it is confirmed, in the list or not
\* wrong on purpose: leaves t where it is
ReinsertInPlace(t, h) == transactions' = transactions
Reinsert(t, h) ==
    IF t \notin Listed THEN transactions' = transactions
    ELSE \E s \in Without(transactions, t) : transactions' \in InsertTx(s, h, allTx, t)
\* wrong on purpose: the balance does not change when a known invalid one confirms
AffectsWhenPending(t) == t \in pendingTx
AffectsBalance(t) == t \in pendingTx \cup invalidTx
SetHeight(t) ==
    LET h == [height EXCEPT ![t] = updateHeight] IN
    \/ /\ ContainsTx(count, t)
       /\ height' = h /\ Reinsert(t, h)
       /\ needsUpdate' = (needsUpdate \/ AffectsBalance(t))
       /\ UNCHANGED <<allTx, phase>>
    \/ /\ ~ContainsTx(count, t) /\ updateHeight # TX_UNCONFIRMED /\ t \notin Listed
       /\ allTx' = allTx \ {t} /\ height' = [height EXCEPT ![t] = TX_UNCONFIRMED]
       /\ UNCHANGED <<transactions, needsUpdate, phase>>
    \/ /\ ~ContainsTx(count, t) /\ updateHeight # TX_UNCONFIRMED /\ t \in Listed
       /\ phase' = "fault"
       /\ UNCHANGED <<transactions, allTx, height, needsUpdate>>
    \/ /\ ~ContainsTx(count, t) /\ updateHeight = TX_UNCONFIRMED
       /\ UNCHANGED <<transactions, allTx, height, needsUpdate, phase>>

\* nothing to do for an unknown one, or if the timestamp is the same as well
UpdateTransaction ==
    /\ phase = "online" /\ updateHeight # 0
    /\ \E t \in left :
        /\ left' = left \ {t}
        /\ \/ t \in allTx /\ SetHeight(t)
           \/ /\ t \notin allTx \/ height[t] = updateHeight
              /\ UNCHANGED <<transactions, allTx, height, needsUpdate, phase>>
    /\ UNCHANGED <<blockHeight, count, balanceVars, updateHeight, confirming, removing,
                   loading, chainVars>>

EndUpdate ==
    /\ phase = "online" /\ updateHeight # 0 /\ left = {}
    /\ updateHeight' = 0 /\ needsUpdate' = FALSE
    /\ IF needsUpdate THEN UpdateBalance(transactions, height, blockHeight, count)
       ELSE UNCHANGED balanceVars
    /\ UNCHANGED <<walletVars, left, confirming, removing, loading, phase, chainVars>>

\* BRWalletSetTxUnconfirmedAfter: the end of the list that is above h
Above(h) == {transactions[i] : i \in {i \in 1 .. Len(transactions) :
                \A k \in i .. Len(transactions) : height[transactions[k]] > h}}
\* wrong on purpose: spares the block after the join
UnconfirmedAfterNext(h) == [t \in Tx |-> IF t \in Above(h + 1) THEN TX_UNCONFIRMED ELSE height[t]]
UnconfirmedAfter(h) == [t \in Tx |-> IF t \in Above(h) THEN TX_UNCONFIRMED ELSE height[t]]
SetTxUnconfirmedAfter(h) ==
    /\ blockHeight' = h
    /\ height' = UnconfirmedAfter(h)
    /\ IF Above(h) # {} THEN UpdateBalance(transactions, height', h, count) ELSE UNCHANGED balanceVars
    /\ UNCHANGED <<transactions, allTx, count>>

\* BRWalletRemoveTransaction: a transaction that no peer has, and before it all
\* that depend on it; the search for those ends at the first lower height
Dependents(t) ==
    {u \in Listed \ {t} : \E i \in 1 .. Len(transactions) :
        /\ transactions[i] = u /\ t \in Parents(u)
        /\ \A k \in i .. Len(transactions) : height[transactions[k]] >= height[t]}
WithDependents(t) ==
    {u \in Listed : \A S \in SUBSET Listed :
        t \in S /\ (\A v \in S : Dependents(v) \subseteq S) => u \in S}

BeginRemove ==
    /\ Idle
    /\ \E t \in Listed : height[t] = TX_UNCONFIRMED /\ removing' = t
    /\ UNCHANGED <<walletVars, balanceVars, updateVars, confirming, loading, phase, chainVars>>

RemoveTransaction ==
    /\ removing # NoTx
    /\ \E t \in WithDependents(removing) :
        /\ Dependents(t) = {}
        /\ \E s \in Without(transactions, t) :
            transactions' = s /\ UpdateBalance(s, height, blockHeight, count)
        /\ removing' = IF t = removing THEN NoTx ELSE removing
    /\ UNCHANGED <<allTx, height, blockHeight, count, updateVars, confirming, loading, phase,
                   chainVars>>

\* _BRPeerManagerLoadBloomFilter generates spare addresses
LoadBloomFilter ==
    /\ phase \in {"offline", "online"} /\ updateHeight = 0 /\ removing = NoTx
    /\ phase' = "online"
    /\ UnusedAddrs(count, [c \in Chains |-> GapLimit[c] + FilterSpare], usedAddrs)
    /\ UNCHANGED <<transactions, allTx, height, blockHeight, balanceVars, updateVars, confirming,
                   removing, loading, chainVars>>

\* BRWalletReceiveAddress and the change address of a new transaction, which the
\* application asks for whenever wallet->lock is free: not while
\* BRWalletUpdateTransactions loops, but between the removals of dependents
NextAddress ==
    /\ phase \in {"offline", "online"} /\ updateHeight = 0
    /\ UnusedAddrs(count, [c \in Chains |-> 1], usedAddrs)
    /\ UNCHANGED <<transactions, allTx, height, blockHeight, balanceVars, updateVars, confirming,
                   removing, loading, phase, chainVars>>

-----------------------------------------------------------------------------
(* The main chain                                                           *)

\* no output is spent twice, inputs and locks are respected
IsChain(m) ==
    \A t \in Tx : m[t] # 0 =>
        /\ \A u \in Tx : m[u] # 0 => ~Conflicting(t, u)
        /\ \A u \in Parents(t) \ {NoTx} : m[u] # 0 /\ m[u] <= m[t]
        /\ m[t] > LockHeight[t]

\* a peer's thread hands a block over when the peer has sent its transactions; it
\* sends those that concern the wallet (_BRPeerAcceptMerkleblockMessage)
Relayed(m, hs) == \A t \in Tx : m[t] \in hs => t \in allTx \/ ~ContainsTx(count, t)

NewBlock ==
    /\ Idle /\ tip < MaxHeight
    /\ tip' = tip + 1
    /\ \E ts \in SUBSET {t \in Tx : mined[t] = 0} :
         mined' = [t \in Tx |-> IF t \in ts THEN tip' ELSE mined[t]]
    /\ IsChain(mined')
    /\ confirming' = {tip'} /\ Relayed(mined', confirming')
    /\ UNCHANGED <<walletVars, balanceVars, updateVars, removing, loading, phase>>

\* a block is relayed once more, after a rescan or by another peer
OldBlock ==
    /\ Idle
    /\ \E h \in 1 .. tip : confirming' = {h}
    /\ Relayed(mined, confirming')
    /\ UNCHANGED <<walletVars, balanceVars, updateVars, removing, loading, phase, chainVars>>

\* a fork one block longer replaces what is above the block it joins
Reorganize ==
    /\ Idle /\ tip < MaxHeight
    /\ \E join \in 0 .. tip - 1 :
        /\ tip' = tip + 1
        /\ mined' \in [Tx -> 0 .. tip']
        /\ \A t \in Tx : (mined[t] \in 1 .. join \/ mined'[t] \in 1 .. join) => mined'[t] = mined[t]
        /\ IsChain(mined')
        /\ confirming' = join + 1 .. tip' /\ Relayed(mined', confirming')
        /\ SetTxUnconfirmedAfter(join)
    /\ UNCHANGED <<updateVars, removing, loading, phase>>

-----------------------------------------------------------------------------
(* Restart: BRWalletNew with the transactions of the database, which are    *)
(* those of the list, with their heights                                    *)

Restart ==
    /\ CanRestart /\ phase \in {"offline", "online"} /\ updateHeight = 0
    /\ loading' = Listed /\ phase' = "loading"
    /\ transactions' = <<>> /\ allTx' = {}
    /\ height' = [t \in Tx |-> IF t \in Listed THEN height[t] ELSE TX_UNCONFIRMED]
    /\ blockHeight' = 0 /\ count' = [c \in Chains |-> 0]
    /\ invalidTx' = {} /\ pendingTx' = {} /\ utxos' = {} /\ usedAddrs' = {}
    /\ confirming' = {} /\ removing' = NoTx
    /\ UNCHANGED <<updateVars, chainVars>>

LoadTransaction ==
    /\ phase = "loading"
    /\ \E t \in loading :
        /\ loading' = loading \ {t} /\ allTx' = allTx \cup {t}
        /\ transactions' \in InsertTx(transactions, height, allTx', t)
        /\ usedAddrs' = usedAddrs \cup Paid({t})
    /\ UNCHANGED <<height, blockHeight, count, invalidTx, pendingTx, utxos, updateVars,
                   confirming, removing, phase, chainVars>>

\* the addresses, the balance, and a check of the first row, which may be any:
\* no wallet is returned if it is not the wallet's
FinishLoading ==
    /\ phase = "loading" /\ loading = {}
    /\ UnusedAddrs(count, GapLimit, usedAddrs)
    /\ UpdateBalance(transactions, height, blockHeight, count')
    /\ \/ phase' = "offline" /\ (Listed = {} \/ \E t \in Listed : ContainsTx(count', t))
       \/ phase' = "none" /\ \E t \in Listed : ~ContainsTx(count', t)
    /\ UNCHANGED <<transactions, allTx, height, blockHeight, updateVars, confirming, removing,
                   loading, chainVars>>

-----------------------------------------------------------------------------

\* BRWalletNew with an empty database
Init ==
    /\ transactions = <<>> /\ allTx = {} /\ height = [t \in Tx |-> TX_UNCONFIRMED]
    /\ blockHeight = 0
    /\ invalidTx = {} /\ pendingTx = {} /\ utxos = {} /\ usedAddrs = {}
    /\ count = GapLimit
    /\ left = {} /\ updateHeight = 0 /\ needsUpdate = FALSE
    /\ confirming = {} /\ removing = NoTx /\ loading = {} /\ phase = "offline"
    /\ mined = [t \in Tx |-> 0] /\ tip = 0

Next ==
    \/ \E t \in Tx : RegisterTransaction(t)
    \/ UpdateBlock \/ UpdateUnconfirmed \/ UpdateTransaction \/ EndUpdate
    \/ BeginRemove \/ RemoveTransaction
    \/ LoadBloomFilter \/ NextAddress
    \/ NewBlock \/ OldBlock \/ Reorganize
    \/ Restart \/ LoadTransaction \/ FinishLoading

Spec == Init /\ [][Next]_vars

-----------------------------------------------------------------------------
(* Properties                                                               *)

\* The list is sorted by height, which BRWalletTxUnconfirmedBefore,
\* BRWalletSetTxUnconfirmedAfter and BRWalletRemoveTransaction rely on when they
\* stop at the first transaction that is lower.
SortedByHeight ==
    \A i, j \in 1 .. Len(transactions) :
        i < j => height[transactions[i]] <= height[transactions[j]]

\* No output is spent by two transactions that the wallet takes for valid, though
\* _BRWalletUpdateBalance runs only when a changed transaction was invalid or
\* pending: a confirmed one never is invalid, and of two that spend the same
\* output at least one is.
NoDoubleSpend ==
    /\ \A t \in Listed : t \in invalidTx /\ ~needsUpdate /\ phase # "loading"
                            => height[t] = TX_UNCONFIRMED
    /\ \A t, u \in Listed : Conflicting(t, u) /\ phase # "loading" => t \in invalidTx \/ u \in invalidTx

\* The coins offered for the next payment, and counted in the balance, are outputs
\* of listed transactions that are neither invalid nor pending, and no such
\* transaction has spent them, whatever the order in which they came.
Valid == Listed \ (invalidTx \cup pendingTx)
CoinsSpendable ==
    \A o \in utxos : TxOf[o] \in Valid /\ \A t \in Valid : o \notin Inputs[t]

\* No coin is lost: while the wallet exists one leaves utxos only when a listed
\* transaction that is not invalid spends it, or when its own transaction is
\* removed, or is unconfirmed and turns out to be invalid or pending.
CoinsLeaveWhenSpent ==
    [][phase' # "loading" =>
        \A o \in utxos \ utxos' :
            \/ \E t \in Listed' \ invalidTx' : o \in Inputs[t]
            \/ TxOf[o] \notin Listed'
            \/ TxOf[o] \in (invalidTx \cup pendingTx)' /\ height'[TxOf[o]] = TX_UNCONFIRMED]_vars

\* The confirmations are those of the main chain, through blocks that arrive
\* again, reorganizations and restarts.
ConfirmedAreMined ==
    \A t \in Listed : height[t] # TX_UNCONFIRMED => height[t] = mined[t]
=============================================================================
