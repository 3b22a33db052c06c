-------------------------------- MODULE EthNode --------------------------------
(***************************************************************************)
(* The Ethereum light node: the account's wallets (one for ether, one for a *)
(* token), the transactions in them, the nonce of the account's address,    *)
(* the thread that creates, signs and submits a transaction, and the        *)
(* threads that bring the server's answers (the Java client runs each       *)
(* request on a thread of its own, so that answers come in any order).      *)
(*                                                                         *)
(* A transaction's tid is its index in "transactions"; the hash of one      *)
(* created here is its tid, that of the i-th mined one of others is -i, and *)
(* 0 is the empty hash.  Amounts, gas, balances and the listener's events   *)
(* are left out.  The server and the network are not in the repository.     *)
(***************************************************************************)
EXTENDS Integers, SequencesExt, FiniteSets

CONSTANTS Elsewhere,    \* bound: kinds of the transactions that are not created here
          MaxSends,     \* bound: transactions created here
          MaxChain      \* bound: mined transactions of the account

ASSUME EthAssumption == Elsewhere \subseteq {"ether", "token"} /\ MaxSends \in Nat /\ MaxChain \in Nat

VARIABLES
    transactions,   \* node->transactions
    wallets,        \* wallets[w]: its transactions, oldest first
    addressNonce,   \* the next nonce of the account's address
    nonces,         \* nonces of answers that are about to be stored
    sender,         \* the thread that sends: where it is, its transaction, the nonce it read
    calls,          \* calls[t]: the request that submits t
    pool,           \* transactions the server accepted, not mined yet
    chain           \* the account's mined transactions, in order

node   == <<transactions, wallets>>
server == <<pool, chain>>
vars   == <<node, addressNonce, nonces, sender, calls, server>>

Kinds      == {"ether", "token"}
Statuses   == {"created", "signed", "submitted", "blocked"}
Nonce      == 0 .. MaxSends + MaxChain
Unassigned == MaxSends + MaxChain + 1      \* UINT64_MAX
Hashes     == (-MaxChain) .. (MaxSends + 2 * MaxChain)
NoHash     == 0
NoBlock    == 0
Tids       == 1 .. MaxSends + 2 * MaxChain

Transaction == [here : BOOLEAN, kind : Kinds, ours : BOOLEAN, status : Statuses,
                nonce : Nonce \union {Unassigned}, hash : Hashes, block : 0 .. MaxChain]
Mined       == [kind : Kinds, ours : BOOLEAN, nonce : Nonce, hash : Hashes]

Idle == [pc |-> "idle", tid |-> 0, nonce |-> 0]

TypeOK ==
    /\ transactions \in Seq(Transaction) /\ Len(transactions) \in {0} \union Tids
    /\ wallets \in [Kinds -> Seq(DOMAIN transactions)]
    /\ addressNonce \in Nonce /\ nonces \subseteq Nonce
    /\ sender \in [pc : {"idle", "load", "store", "finish", "submit"}, tid : {0} \union Tids, nonce : Nonce]
    /\ calls \in [Tids -> {"none", "posted", "accepted"}]
    /\ pool \subseteq DOMAIN transactions
    /\ chain \in Seq(Mined) /\ Len(chain) <= MaxChain

Init ==
    /\ transactions = <<>>
    /\ wallets = [w \in Kinds |-> <<>>]
    /\ addressNonce = 0 /\ nonces = {}
    /\ sender = Idle
    /\ calls = [t \in Tids |-> "none"]
    /\ pool = {} /\ chain = <<>>

-----------------------------------------------------------------------------
(* The order of a wallet's list.                                            *)

\* transactionCompare: blocked before unblocked, by place on the chain, then by nonce.
Less(a, b) ==
    IF a.status = "blocked"
    THEN b.status # "blocked" \/ a.block < b.block
    ELSE b.status # "blocked" /\ a.nonce < b.nonce

\* walletInsertTransactionSorted: from the end, past all that t is less than.
InsertSorted(list, t, txs) ==
    LET before == {0} \union {k \in DOMAIN list : ~Less(txs[t], txs[list[k]])}
        index  == CHOOSE k \in before : \A j \in before : j <= k
    IN InsertAt(list, index + 1, t)

\* wrong on purpose: stay where it is
LeaveInPlace(list, t, txs) == IF \E k \in DOMAIN list : list[k] = t THEN list ELSE InsertSorted(list, t, txs)

\* array_rm at the index walletLookupTransactionIndex finds, where there is one
Without(list, t) ==
    IF \E k \in DOMAIN list : list[k] = t
    THEN RemoveAt(list, CHOOSE k \in DOMAIN list : list[k] = t)
    ELSE list

\* walletUpdateTransactionSorted: remove, then insert.
UpdateSorted(list, t, txs) == InsertSorted(Without(list, t), t, txs)

\* The transaction listed first among those whose indices in the list are given, 0 if none.
First(list, found) ==
    IF found = {} THEN 0 ELSE list[CHOOSE k \in found : \A j \in found : k <= j]

\* walletGetTransactionByHash, 0 if none
ByHash(w, hash) == First(wallets[w], {k \in DOMAIN wallets[w] : transactions[wallets[w][k]].hash = hash})

\* wrong on purpose: never look by nonce
ByNonceNever(w, nonce) == 0

\* walletGetTransactionByNonce for the account's own address, 0 if none
ByNonce(w, nonce) ==
    First(wallets[w], {k \in DOMAIN wallets[w] : LET tx == transactions[wallets[w][k]]
                                                  IN tx.ours /\ tx.nonce = nonce})

NewTransaction(w, here, ours, nonce) ==
    [here |-> here, kind |-> w, ours |-> ours, status |-> "created", nonce |-> nonce,
     hash |-> NoHash, block |-> NoBlock]

Listed(w) == {wallets[w][k] : k \in DOMAIN wallets[w]}

Created == {t \in DOMAIN transactions : transactions[t].here}

-----------------------------------------------------------------------------
(* Sending: signAndPublishTransaction and what it calls.                    *)

\* lightNodeWalletCreateTransaction: under the lock
Create(w) ==
    /\ sender = Idle /\ Cardinality(Created) < MaxSends
    /\ LET t   == Len(transactions) + 1
           txs == Append(transactions, NewTransaction(w, TRUE, TRUE, Unassigned))
       IN /\ transactions' = txs
          /\ wallets' = [wallets EXCEPT ![w] = InsertSorted(@, t, txs)]
          /\ sender' = [pc |-> "load", tid |-> t, nonce |-> 0]
    /\ UNCHANGED <<addressNonce, nonces, calls, server>>

\* walletSignTransaction takes no lock: addressGetThenIncrementNonce loads ...
SignLoad ==
    /\ sender.pc = "load"
    /\ sender' = [sender EXCEPT !.pc = "store", !.nonce = addressNonce]
    /\ UNCHANGED <<node, addressNonce, nonces, calls, server>>

\* ... and stores the nonce, which the transaction keeps (and its wallet is not sorted).
SignStore ==
    /\ sender.pc = "store"
    /\ addressNonce' = sender.nonce + 1
    /\ transactions' = [transactions EXCEPT ![sender.tid].nonce = sender.nonce]
    /\ sender' = [sender EXCEPT !.pc = "finish"]
    /\ UNCHANGED <<wallets, nonces, calls, server>>

\* transactionSign
SignFinish ==
    /\ sender.pc = "finish"
    /\ transactions' = [transactions EXCEPT ![sender.tid].status = "signed"]
    /\ sender' = [sender EXCEPT !.pc = "submit"]
    /\ UNCHANGED <<wallets, addressNonce, nonces, calls, server>>

\* lightNodeWalletSubmitTransaction: the client posts a request, or drops it when the
\* app is in the background.
Submit ==
    /\ sender.pc = "submit"
    /\ \E call \in {"none", "posted"} : calls' = [calls EXCEPT ![sender.tid] = call]
    /\ sender' = Idle
    /\ UNCHANGED <<node, addressNonce, nonces, server>>

-----------------------------------------------------------------------------
(* The server and the network.                                              *)

Count == Cardinality({i \in DOMAIN chain : chain[i].ours})

\* A transaction of a nonce that is not used yet is accepted.
Accept(t) ==
    /\ calls[t] = "posted"
    /\ transactions[t].nonce >= Count
    /\ \A u \in pool : transactions[u].nonce # transactions[t].nonce
    /\ pool' = pool \union {t}
    /\ calls' = [calls EXCEPT ![t] = "accepted"]
    /\ UNCHANGED <<node, addressNonce, nonces, sender, chain>>

\* The request, or its answer, is lost, or the answer is an error: the client stops there.
NotAnswered(t) ==
    /\ calls[t] # "none"
    /\ calls' = [calls EXCEPT ![t] = "none"]
    /\ UNCHANGED <<node, addressNonce, nonces, sender, server>>

Extend(kind, ours, nonce, hash) ==
    /\ Len(chain) < MaxChain
    /\ chain' = Append(chain, [kind |-> kind, ours |-> ours, nonce |-> nonce, hash |-> hash])

Mine(t) ==
    /\ t \in pool /\ transactions[t].nonce = Count
    /\ Extend(transactions[t].kind, TRUE, Count, t)
    /\ pool' = pool \ {t}
    /\ UNCHANGED <<node, addressNonce, nonces, sender, calls>>

\* A transaction of the account from another device, or from before this installation.
OtherDevice(kind) ==
    /\ Extend(kind, TRUE, Count, -(Len(chain) + 1))
    /\ pool' = {t \in pool : transactions[t].nonce # Count}
    /\ UNCHANGED <<node, addressNonce, nonces, sender, calls>>

Receive(kind) ==
    /\ Extend(kind, FALSE, 0, -(Len(chain) + 1))
    /\ UNCHANGED <<node, addressNonce, nonces, sender, calls, pool>>

-----------------------------------------------------------------------------
(* Answers.  The node's thread asks for the nonce, the transactions and the *)
(* logs in every round; each answer gives what the server knew when asked.  *)

\* wrong on purpose: only a nonce that was never set is set
AnnounceNonceOnce(n) ==
    /\ addressNonce = 0 /\ n > addressNonce
    /\ nonces' = nonces \union {n}
    /\ UNCHANGED <<node, addressNonce, sender, calls, server>>

\* addressSetNonce, which takes no lock: compares ...
AnnounceNonce(n) ==
    /\ n > addressNonce
    /\ nonces' = nonces \union {n}
    /\ UNCHANGED <<node, addressNonce, sender, calls, server>>

\* ... and stores.
StoreNonce(n) ==
    /\ n \in nonces
    /\ addressNonce' = n /\ nonces' = nonces \ {n}
    /\ UNCHANGED <<node, sender, calls, server>>

\* transactionAnnounceSubmitted
Submitted(tx, hash) == [tx EXCEPT !.status = "submitted", !.hash = hash]

\* wrong on purpose: one whose submission was never answered stays as it is
BlockedIfSubmitted(tx, i) ==
    IF tx.status = "submitted" THEN [tx EXCEPT !.status = "blocked", !.block = i] ELSE tx

\* wrong on purpose: the number of the next block
BlockedNext(tx, i) == [tx EXCEPT !.status = "blocked", !.block = i + 1]

\* transactionAnnounceBlocked
Blocked(tx, i) == [tx EXCEPT !.status = "blocked", !.block = i]

\* lightNodeAnnounceSubmitTransaction: under the lock; whatever the status was.
AnnounceSubmitTransaction(t) ==
    /\ calls[t] = "accepted"
    /\ transactions' = [transactions EXCEPT ![t] = Submitted(@, t)]
    /\ calls' = [calls EXCEPT ![t] = "none"]
    /\ UNCHANGED <<wallets, addressNonce, nonces, sender, server>>

\* The rest of an announcement: t is the transaction it found, or 0.  A new one is listed,
\* submitted, then blocked and moved like any other (so it is listed where it is moved to).
\* One that is blocked already is left alone.
MarkBlocked(w, t, i, nonce) ==
    /\ ~(t # 0 /\ transactions[t].status = "blocked")
    /\ LET tid == IF t = 0 THEN Len(transactions) + 1 ELSE t
           new == Submitted(NewTransaction(w, FALSE, chain[i].ours, nonce), chain[i].hash)
           txs == IF t = 0 THEN Append(transactions, Blocked(new, i))
                           ELSE [transactions EXCEPT ![t] = Blocked(@, i)]
       IN /\ transactions' = txs
          /\ wallets' = [wallets EXCEPT ![w] = UpdateSorted(@, tid, txs)]

\* lightNodeAnnounceTransaction: a transaction from or to the account, in the ether wallet.
AnnounceTransaction(i) ==
    /\ i \in DOMAIN chain
    /\ chain[i].ours \/ chain[i].kind = "ether"
    /\ LET h == ByHash("ether", chain[i].hash)
           t == IF h = 0 /\ chain[i].ours THEN ByNonce("ether", chain[i].nonce) ELSE h
       IN MarkBlocked("ether", t, i, chain[i].nonce)
    /\ UNCHANGED <<addressNonce, nonces, sender, calls, server>>

\* lightNodeAnnounceLog: a token's transfer, in the token's wallet, with nonce 0.
AnnounceLog(i) ==
    /\ i \in DOMAIN chain /\ chain[i].kind = "token"
    /\ MarkBlocked("token", ByHash("token", chain[i].hash), i, 0)
    /\ UNCHANGED <<addressNonce, nonces, sender, calls, server>>

-----------------------------------------------------------------------------
Next ==
    \/ \E w \in Kinds : Create(w)
    \/ \E w \in Elsewhere : OtherDevice(w) \/ Receive(w)
    \/ SignLoad \/ SignStore \/ SignFinish \/ Submit
    \/ \E t \in DOMAIN transactions :
          Accept(t) \/ NotAnswered(t) \/ Mine(t) \/ AnnounceSubmitTransaction(t)
    \/ \E n \in 0 .. Count : AnnounceNonce(n)
    \/ \E n \in nonces : StoreNonce(n)
    \/ \E i \in DOMAIN chain : AnnounceTransaction(i) \/ AnnounceLog(i)

\* The node's thread asks again in every round, and some answers arrive.
Fairness ==
    /\ WF_vars(AnnounceNonce(Count))
    /\ WF_vars(\E n \in nonces : StoreNonce(n))
    /\ WF_vars(\E i \in DOMAIN chain : AnnounceTransaction(i))
    /\ WF_vars(\E i \in DOMAIN chain : AnnounceLog(i))

Spec     == Init /\ [][Next]_vars
FairSpec == Spec /\ Fairness

-----------------------------------------------------------------------------
\* The blocked transactions of a wallet are listed in the order of the chain, though a late
\* answer takes "blocked" back without sorting, and a nonce is assigned without sorting.
BlockedInOrder ==
    \A w \in Kinds : \A j, k \in DOMAIN wallets[w] :
        LET a == transactions[wallets[w][j]]
            b == transactions[wallets[w][k]]
        IN j < k /\ a.status = "blocked" /\ b.status = "blocked" => a.block <= b.block

\* The ether wallet shows a transaction once: no two of its entries have the same hash, in
\* whichever order the answer to the submission and the mined transaction arrive.
OneEntryPerHash ==
    \A t, u \in Listed("ether") :
        t # u /\ transactions[t].hash = transactions[u].hash => transactions[t].hash = NoHash

\* What is mined is in the end shown at its place for good, whatever answers were lost or
\* late: in the ether wallet, or for a token's transfer in the token's wallet.
ShownAt(w, i) ==
    \E t \in Listed(w) : transactions[t].status = "blocked" /\ transactions[t].block = i
AllShown ==
    \A i \in DOMAIN chain :
        /\ chain[i].ours \/ chain[i].kind = "ether" => ShownAt("ether", i)
        /\ chain[i].kind = "token" => ShownAt("token", i)
EveryMinedShown == <>[]AllShown

\* The address's nonce reaches the server's count for good, though the answers' stores and
\* the increments of signing overwrite each other.
NonceCatchesUp == <>[](addressNonce >= Count)
================================================================================
