------------------------------- MODULE ElaHistory -------------------------------
(***************************************************************************)
(* The ELA wallet's history: the table of transactions and the page number *)
(* (ElaDataSource, BRSharedPrefs), the tasks of the thread pool that load   *)
(* pages of it from the node (TxManager, WalletActivity), and the thread    *)
(* that sends.  The node lists the address's mined transactions by pages,   *)
(* newest first; it is not in the repository.  What a row says beside its   *)
(* transaction, and the votes, are left out.                                *)
(***************************************************************************)
EXTENDS Integers, Sequences, FiniteSets

CONSTANTS Tasks,        \* bound: loads under way at a time
          PageSize,     \* ONE_PAGE_SIZE
          MaxTx,        \* bound: transactions of the address
          MaxPosts,     \* bound: updates on their way to the main thread
          MaxUpsets     \* bound: loads that fail, restarts and deletions of the table

ASSUME ElaAssumption == PageSize \in Nat \ {0} /\ MaxTx \in Nat \ {0}
                        /\ MaxPosts \in Nat /\ MaxUpsets \in Nat

VARIABLES
    rows,         \* rows[t]: "none", "pending" (cached by the send) or "mined" (by a page)
    pageNumber, range,              \* preferences
    isLoading,    \* TxManager.mIsLoading
    posts,        \* updates of the list on their way to the main thread
    task,         \* task[k]: where a load is, what it asked for and was answered
    sending,      \* the send that holds the monitor of ElaDataSource: none, posted or its transaction
    pool,         \* transactions the node accepted, not mined yet
    history,      \* mined transactions, oldest first
    upsets,       \* what is left of MaxUpsets
    disturbed     \* loads overlapped, or one was killed between the page number and its rows

prefs == <<pageNumber, range>>
node  == <<pool, history>>
vars  == <<rows, prefs, isLoading, posts, task, sending, node, upsets, disturbed>>

Txs    == 1 .. MaxTx
Pages  == 1 .. MaxTx + 1
Kinds  == {"more", "refresh", "open", "again"}
Places == {"idle", "queued", "ask", "store", "cache", "list", "flag"}
NoTx   == 0
Posted == -1

Idle == [pc |-> "idle", kind |-> "open", page |-> 1, was |-> 1, answer |-> {}]

TypeOK ==
    /\ rows \in [Txs -> {"none", "pending", "mined"}]
    /\ pageNumber \in Pages /\ range \in 0 .. 1
    /\ isLoading \in BOOLEAN /\ posts \in 0 .. MaxPosts
    /\ task \in [Tasks -> [pc : Places, kind : Kinds, page : Pages, was : Pages, answer : SUBSET Txs]]
    /\ sending \in Txs \union {NoTx, Posted}
    /\ pool \subseteq Txs /\ history \in Seq(Txs) /\ Len(history) <= MaxTx
    /\ upsets \in 0 .. MaxUpsets /\ disturbed \in BOOLEAN

Init ==
    /\ rows = [t \in Txs |-> "none"]
    /\ pageNumber = 1 /\ range = 0
    /\ isLoading = FALSE /\ posts = 0
    /\ task = [k \in Tasks |-> Idle]
    /\ sending = NoTx
    /\ pool = {} /\ history = <<>>
    /\ upsets = MaxUpsets /\ disturbed = FALSE

-----------------------------------------------------------------------------
(* The node.                                                                *)

Mined  == {history[i] : i \in DOMAIN history}
Fresh  == Txs \ (Mined \union pool)
Rank(t) == Len(history) + 1 - (CHOOSE i \in DOMAIN history : history[i] = t)

Page(p) == {t \in Mined : Rank(t) \in (p - 1) * PageSize + 1 .. p * PageSize}

\* Transactions are numbered in the order in which the node learns of them.
NextTx == CHOOSE t \in Fresh : \A u \in Fresh : t <= u

Mine(t) ==
    /\ t \in pool
    /\ history' = Append(history, t) /\ pool' = pool \ {t}
    /\ UNCHANGED <<rows, prefs, isLoading, posts, task, sending, upsets, disturbed>>

Receive ==
    /\ Fresh # {}
    /\ history' = Append(history, NextTx)
    /\ UNCHANGED <<rows, prefs, isLoading, posts, task, sending, pool, upsets, disturbed>>

Upset == upsets > 0 /\ upsets' = upsets - 1

-----------------------------------------------------------------------------
(* The main thread.                                                         *)

Queue(k, kind) ==
    /\ task[k].pc = "idle"
    /\ task' = [task EXCEPT ![k] = [Idle EXCEPT !.pc = "queued", !.kind = kind]]
    /\ disturbed' = (disturbed \/ \E j \in Tasks : task[j].pc \notin {"idle", "flag"})

\* loadMoreData
LoadMore(k) ==
    /\ Queue(k, "more")
    /\ range' = 1
    /\ UNCHANGED <<rows, pageNumber, isLoading, posts, sending, node, upsets>>

\* onRefresh
Refresh(k) ==
    /\ Queue(k, "refresh")
    /\ pageNumber' = 1 /\ range' = 0
    /\ UNCHANGED <<rows, isLoading, posts, sending, node, upsets>>

\* WalletActivity.onCreate, HyperSendCryptoActivity.onCreate
Open(k) ==
    /\ Queue(k, "open")
    /\ UNCHANGED <<rows, prefs, isLoading, posts, sending, node, upsets>>

\* updateTxList's second half
ShowList ==
    /\ posts > 0
    /\ posts' = posts - 1 /\ isLoading' = FALSE
    /\ UNCHANGED <<rows, prefs, task, sending, node, upsets, disturbed>>

\* ElaNodeActivity.wipeData: the table, not the page number
DeleteAll ==
    /\ Upset
    /\ rows' = [t \in Txs |-> "none"]
    /\ UNCHANGED <<prefs, isLoading, posts, task, sending, node, disturbed>>

-----------------------------------------------------------------------------
(* A task of the pool.                                                      *)

Go(k, pc) == task' = [task EXCEPT ![k].pc = pc]

\* What was asked and answered is not used again.
Leave(k, pc) == task' = [task EXCEPT ![k] = [Idle EXCEPT !.pc = pc, !.kind = task[k].kind]]

\* A load of the list's own is skipped while mIsLoading; getHistory reads the preferences.
Run(k) ==
    /\ task[k].pc = "queued"
    /\ IF isLoading /\ task[k].kind \in {"more", "refresh"}
       THEN task' = [task EXCEPT ![k] = [Idle EXCEPT !.pc = "flag"]]
       ELSE task' = [task EXCEPT ![k].pc = "ask", ![k].was = pageNumber,
                       ![k].page = IF task[k].kind = "refresh" THEN 1
                                   ELSE IF task[k].kind = "again" THEN pageNumber ELSE pageNumber + range]
    /\ UNCHANGED <<rows, prefs, isLoading, posts, sending, node, upsets, disturbed>>

\* Only updateTxHistory stores a page number; nothing is cached of an empty page.
Answered(k) ==
    /\ task[k].pc = "ask"
    /\ LET answer == Page(task[k].page)
       IN IF answer = {} /\ task[k].kind \in {"refresh", "again"}
          THEN Leave(k, "list")
          ELSE task' = [task EXCEPT ![k].answer = answer,
                          ![k].pc = IF task[k].kind \in {"more", "open"} THEN "store" ELSE "cache"]
    /\ UNCHANGED <<rows, prefs, isLoading, posts, sending, node, upsets, disturbed>>

\* wrong on purpose: the next page is taken to be there
FailedAdvances(k) ==
    /\ task[k].pc = "ask"
    /\ Upset /\ Leave(k, "list")
    /\ pageNumber' = task[k].page /\ range' = 0
    /\ UNCHANGED <<rows, isLoading, posts, sending, node, disturbed>>

\* The exception is caught, and the list is updated all the same.
Failed(k) ==
    /\ task[k].pc = "ask"
    /\ Upset /\ Leave(k, "list")
    /\ UNCHANGED <<rows, prefs, isLoading, posts, sending, node, disturbed>>

\* wrong on purpose: an empty page counts as read
StoreEmptyPage(k) ==
    /\ task[k].pc = "store"
    /\ pageNumber' = task[k].page /\ range' = 0
    /\ IF task[k].answer = {} THEN Leave(k, "list") ELSE Go(k, "cache")
    /\ UNCHANGED <<rows, isLoading, posts, sending, node, upsets, disturbed>>

\* getHistory stores the number of the page, before its rows.
StorePage(k) ==
    /\ task[k].pc = "store"
    /\ LET empty == task[k].answer = {}
       IN /\ pageNumber' = IF empty THEN task[k].was ELSE task[k].page
          /\ IF empty THEN Leave(k, "list") ELSE Go(k, "cache")
    /\ range' = 0
    /\ UNCHANGED <<rows, isLoading, posts, sending, node, upsets, disturbed>>

\* wrong on purpose: does not wait for the monitor
CacheRowsAnyTime(k) ==
    /\ task[k].pc = "cache"
    /\ rows' = [t \in Txs |-> IF t \in task[k].answer THEN "mined" ELSE rows[t]]
    /\ Leave(k, "list")
    /\ UNCHANGED <<prefs, isLoading, posts, sending, node, upsets, disturbed>>

\* cacheMultTx: synchronized, like sendElaRawTx
CacheRows(k) ==
    /\ task[k].pc = "cache" /\ sending = NoTx
    /\ rows' = [t \in Txs |-> IF t \in task[k].answer THEN "mined" ELSE rows[t]]
    /\ Leave(k, "list")
    /\ UNCHANGED <<prefs, isLoading, posts, sending, node, upsets, disturbed>>

\* updateTxList posts to the main thread.  The task of onCreate then asks for the page again
\* (checkTxHistory, whose repetitions of that request are one here) and does not update the list.
UpdateList(k) ==
    /\ task[k].pc = "list"
    /\ posts' = IF task[k].kind = "again" THEN posts ELSE posts + 1
    /\ posts' <= MaxPosts
    /\ task' = [task EXCEPT ![k] =
           IF task[k].kind = "again"     THEN Idle
           ELSE IF task[k].kind = "open" THEN [Idle EXCEPT !.pc = "queued", !.kind = "again"]
           ELSE [Idle EXCEPT !.pc = "flag"]]
    /\ UNCHANGED <<rows, prefs, isLoading, sending, node, upsets, disturbed>>

\* The list's own loads end with mIsLoading = true, which the main thread may have reset before.
SetLoading(k) ==
    /\ task[k].pc = "flag"
    /\ isLoading' = TRUE
    /\ task' = [task EXCEPT ![k] = Idle]
    /\ UNCHANGED <<rows, prefs, posts, sending, node, upsets, disturbed>>

-----------------------------------------------------------------------------
(* Sending: sendElaRawTx holds the monitor until it is answered.             *)

SendBegin ==
    /\ sending = NoTx
    /\ sending' = Posted
    /\ UNCHANGED <<rows, prefs, isLoading, posts, task, node, upsets, disturbed>>

Accept ==
    /\ sending = Posted /\ Fresh # {}
    /\ pool' = pool \union {NextTx} /\ sending' = NextTx
    /\ UNCHANGED <<rows, prefs, isLoading, posts, task, history, upsets, disturbed>>

\* The node's answer is the transaction's id: the row is cached under it, the list updated.
SendEnd ==
    /\ sending \in Txs
    /\ rows' = [rows EXCEPT ![sending] = "pending"]
    /\ sending' = NoTx
    /\ UNCHANGED <<prefs, isLoading, posts, task, node, upsets, disturbed>>

\* The request, or its answer, is lost, or the answer is an error.
SendFails ==
    /\ sending # NoTx
    /\ sending' = NoTx
    /\ UNCHANGED <<rows, prefs, isLoading, posts, task, node, upsets, disturbed>>

\* The process is killed: the table and the preferences stay.
Restart ==
    /\ Upset
    /\ isLoading' = FALSE /\ posts' = 0 /\ sending' = NoTx
    /\ task' = [k \in Tasks |-> Idle]
    /\ disturbed' = (disturbed \/ \E k \in Tasks : task[k].pc = "cache")
    /\ UNCHANGED <<rows, prefs, node>>

-----------------------------------------------------------------------------
Next ==
    \/ \E k \in Tasks :
          \/ LoadMore(k) \/ Refresh(k) \/ Open(k)
          \/ Run(k) \/ Answered(k) \/ Failed(k) \/ StorePage(k) \/ CacheRows(k)
          \/ UpdateList(k) \/ SetLoading(k)
    \/ ShowList \/ DeleteAll \/ Restart
    \/ SendBegin \/ Accept \/ SendEnd \/ SendFails
    \/ Receive \/ \E t \in pool : Mine(t)

Spec == Init /\ [][Next]_vars

-----------------------------------------------------------------------------
\* The list has no hole that loading more would skip: a mined transaction that has no row,
\* though a newer one was loaded, is on a page after the last one loaded.  New transactions
\* move the pages while they are read, requests fail, and refreshing starts from page 1; only
\* loads that overlap, or a kill between the page number and its rows, leave such a hole.
NoHole ==
    ~disturbed /\ (\A k \in Tasks : task[k].pc \in {"idle", "queued", "flag"}) =>
        \A t, u \in Mined : rows[t] = "mined" /\ rows[u] = "none" /\ Rank(t) < Rank(u) =>
            Rank(u) > pageNumber * PageSize

\* A transaction shown as mined does not become pending again, though the answer to its send may
\* come after a page that lists it was read.
MinedStaysMined == [][\A t \in Txs : rows[t] = "mined" => rows'[t] # "pending"]_vars
================================================================================
