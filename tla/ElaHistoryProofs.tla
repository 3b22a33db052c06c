---------------------------- MODULE ElaHistoryProofs ----------------------------
(* Proofs about ElaHistory: its types, that a row shown as mined stays so, and *)
(* that loading more pages leaves no hole behind.                              *)
EXTENDS ElaHistory, FiniteSetTheorems, SequenceTheorems, TLAPS

-----------------------------------------------------------------------------
(* The node's history: each transaction is mined once.                      *)

Once == \A i, j \in DOMAIN history : history[i] = history[j] => i = j
HistoryOK == history \in Seq(Txs) /\ Once /\ pool \subseteq Txs \ Mined

LEMMA HistoryDomain ==
    ASSUME HistoryOK
    PROVE  Len(history) \in Nat /\ DOMAIN history = 1 .. Len(history) /\ Mined \subseteq Txs
<1>1. Len(history) \in Nat /\ history \in [1 .. Len(history) -> Txs] /\ DOMAIN history = 1 .. Len(history)
  BY LenProperties DEF HistoryOK
<1> QED BY <1>1 DEF Mined

\* No more are mined than there are.
LEMMA HistoryLength ==
    ASSUME HistoryOK
    PROVE  Len(history) \in 0 .. MaxTx
<1>1. Len(history) \in Nat /\ history \in [1 .. Len(history) -> Txs]
  BY LenProperties DEF HistoryOK
<1>2. history \in Injection(1 .. Len(history), Txs)
  BY <1>1 DEF HistoryOK, Once, Injection, IsInjective
<1>3. IsFiniteSet(Txs) /\ Cardinality(Txs) = MaxTx
  BY ElaAssumption, FS_Interval DEF Txs, ElaAssumption
<1>4. Cardinality(1 .. Len(history)) = Len(history)
  BY <1>1, FS_Interval
<1>5. Cardinality(1 .. Len(history)) <= Cardinality(Txs)
  BY <1>2, <1>3, FS_Injection
<1> QED BY <1>1, <1>3, <1>4, <1>5

LEMMA RankOf ==
    ASSUME HistoryOK, NEW i \in DOMAIN history
    PROVE  Rank(history[i]) = Len(history) + 1 - i
<1>1. (CHOOSE j \in DOMAIN history : history[j] = history[i]) = i
  BY DEF HistoryOK, Once
<1> QED BY <1>1 DEF Rank

LEMMA RankFacts ==
    ASSUME HistoryOK
    PROVE  /\ \A t \in Mined : Rank(t) \in 1 .. Len(history)
           /\ \A t, u \in Mined : Rank(t) = Rank(u) => t = u
<1>0. Len(history) \in Nat /\ DOMAIN history = 1 .. Len(history)
  BY HistoryDomain
<1>1. \A i \in DOMAIN history : Rank(history[i]) = Len(history) + 1 - i
  BY RankOf
<1> QED BY <1>0, <1>1 DEF Mined

\* A transaction that is mined comes first, and the others move by one.
LEMMA Grows ==
    ASSUME HistoryOK, NEW t \in Txs \ Mined, history' = Append(history, t), pool' \subseteq pool \ {t}
    PROVE  /\ HistoryOK' /\ Mined' = Mined \cup {t}
           /\ Rank(t)' = 1
           /\ \A u \in Mined : Rank(u)' = Rank(u) + 1
<1> DEFINE n == Len(history)
<1>0. n \in Nat /\ DOMAIN history = 1 .. n /\ history \in Seq(Txs)
  BY HistoryDomain DEF HistoryOK
<1>1. /\ history' \in Seq(Txs) /\ Len(history') = n + 1 /\ DOMAIN history' = 1 .. n + 1
      /\ history'[n + 1] = t /\ \A i \in 1 .. n : history'[i] = history[i]
  BY <1>0
<1>2. Mined' = Mined \cup {t}
  BY <1>0, <1>1 DEF Mined
<1>3. Once'
  BY <1>0, <1>1 DEF HistoryOK, Once, Mined
<1>4. HistoryOK'
  BY <1>1, <1>2, <1>3 DEF HistoryOK
<1>5. ASSUME NEW i \in 1 .. n + 1, NEW u \in Txs, u = history'[i] PROVE Rank(u)' = n + 2 - i
  <2>1. (CHOOSE j \in DOMAIN history' : history'[j] = u) = i
    BY <1>1, <1>3, <1>5 DEF Once
  <2>2. Rank(u)' = Len(history') + 1 - (CHOOSE j \in DOMAIN history' : history'[j] = u)
    BY DEF Rank
  <2>3. Rank(u)' = Len(history') + 1 - i
    BY <2>1, <2>2
  <2> QED BY <1>0, <1>1, <2>3
<1>6. Rank(t)' = 1
  BY <1>0, <1>1, <1>5
<1>7. ASSUME NEW u \in Mined PROVE Rank(u)' = Rank(u) + 1
  <2>1. PICK i \in 1 .. n : history[i] = u
    BY <1>0 DEF Mined
  <2>2. Rank(u) = n + 1 - i
    BY <1>0, <2>1, RankOf
  <2>3. u \in Txs
    BY HistoryDomain
  <2>4. Rank(u)' = n + 2 - i
    BY <1>0, <1>1, <1>5, <2>1, <2>3
  <2> QED BY <1>0, <2>2, <2>4
<1> QED BY <1>2, <1>4, <1>6, <1>7

LEMMA NextTxFresh ==
    ASSUME Fresh # {} PROVE NextTx \in Fresh
<1>1. Fresh \subseteq Nat
  BY ElaAssumption DEF Fresh, Txs, ElaAssumption
<1>2. PICK t \in Fresh : \A u \in Fresh : ~ (<<u, t>> \in OpToRel(<, Nat))
  BY <1>1, NatLessThanWellFounded, WFMin
<1>3. ASSUME NEW u \in Fresh, u < t PROVE FALSE
  <2>1. <<u, t>> \in Nat \X Nat /\ <<u, t>>[1] < <<u, t>>[2]
    BY <1>1, <1>3
  <2>2. <<u, t>> \in OpToRel(<, Nat)
    BY <2>1 DEF OpToRel
  <2> QED BY <1>2, <2>2
<1>4. \A u \in Fresh : t <= u
  BY <1>1, <1>3
<1> QED BY <1>4 DEF NextTx

-----------------------------------------------------------------------------
(* The types, and what they rest on: a page that had transactions is not    *)
(* beyond the last one, and a row is only mined if its transaction is.      *)

TaskRec == [pc : Places, kind : Kinds, page : Pages, was : Pages, answer : SUBSET Txs]

RecOK(r) == /\ r \in TaskRec
            /\ r.was <= MaxTx
            /\ r.pc = "store" /\ r.answer # {} => r.page <= MaxTx

TasksOK == task \in [Tasks -> TaskRec] /\ \A k \in Tasks : RecOK(task[k]) /\ task[k].answer \subseteq Mined
PrefsOK == pageNumber \in 1 .. MaxTx /\ range \in 0 .. 1
RowsOK  == /\ rows \in [Txs -> {"none", "pending", "mined"}]
           /\ \A t \in Txs : rows[t] = "mined" => t \in Mined
\* The answer to a send comes before its transaction is shown as mined.
SendOK  == sending \in Txs \union {NoTx, Posted} /\ (sending \in Txs => rows[sending] # "mined")
FlagsOK == isLoading \in BOOLEAN /\ disturbed \in BOOLEAN
CountsOK == posts \in 0 .. MaxPosts /\ upsets \in 0 .. MaxUpsets

TypeInv == HistoryOK /\ TasksOK /\ PrefsOK /\ RowsOK /\ SendOK /\ FlagsOK /\ CountsOK

LEMMA TypeInvTypes == TypeInv => TypeOK
<1> SUFFICES ASSUME TypeInv PROVE TypeOK
  OBVIOUS
<1>1. pageNumber \in Pages /\ range \in 0 .. 1
  BY ElaAssumption DEF TypeInv, PrefsOK, Pages, ElaAssumption
<1>2. history \in Seq(Txs) /\ Len(history) <= MaxTx /\ pool \subseteq Txs
  BY HistoryLength, ElaAssumption DEF TypeInv, HistoryOK, ElaAssumption
<1> QED BY <1>1, <1>2 DEF TypeInv, TypeOK, TasksOK, TaskRec, RowsOK, SendOK, FlagsOK, CountsOK

LEMMA IdleFacts ==
    ASSUME NEW pc \in Places, NEW kind \in Kinds
    PROVE  LET r == [Idle EXCEPT !.pc = pc, !.kind = kind]
           IN  RecOK(r) /\ r.pc = pc /\ r.kind = kind /\ r.answer = {}
<1>1. ASSUME NEW i \in TaskRec
      PROVE  LET r == [i EXCEPT !.pc = pc, !.kind = kind]
             IN r \in TaskRec /\ r.pc = pc /\ r.kind = kind /\ r.answer = i.answer /\ r.was = i.was
  BY DEF TaskRec
<1>2. Idle \in TaskRec /\ Idle.answer = {} /\ Idle.was = 1 /\ 1 <= MaxTx
  BY ElaAssumption DEF Idle, TaskRec, Places, Kinds, Pages, ElaAssumption
<1> QED BY <1>1, <1>2 DEF RecOK

LEMMA IdleOK == RecOK(Idle) /\ Idle.pc = "idle" /\ Idle.answer = {} /\ Idle.kind = "open"
BY ElaAssumption DEF Idle, RecOK, TaskRec, Places, Kinds, Pages, ElaAssumption

LEMMA IdlePlace ==
    ASSUME NEW pc \in Places
    PROVE  LET r == [Idle EXCEPT !.pc = pc]
           IN  RecOK(r) /\ r.pc = pc /\ r.kind = "open" /\ r.answer = {}
<1>1. ASSUME NEW i \in TaskRec
      PROVE  LET r == [i EXCEPT !.pc = pc]
             IN r \in TaskRec /\ r.pc = pc /\ r.kind = i.kind /\ r.answer = i.answer /\ r.was = i.was
  BY DEF TaskRec
<1>2. Idle \in TaskRec /\ Idle.answer = {} /\ Idle.was = 1 /\ 1 <= MaxTx /\ Idle.kind = "open"
  BY ElaAssumption DEF Idle, TaskRec, Places, Kinds, Pages, ElaAssumption
<1> QED BY <1>1, <1>2 DEF RecOK

\* One load moves.
LEMMA TaskMoves ==
    ASSUME TasksOK, NEW k \in Tasks, NEW r, RecOK(r), r.answer \subseteq Mined,
           task' = [task EXCEPT ![k] = r], UNCHANGED history
    PROVE  TasksOK'
<1>1. task' \in [Tasks -> TaskRec] /\ Mined' = Mined
  BY DEF TasksOK, RecOK, Mined
<1>2. \A j \in Tasks : task'[j] = IF j = k THEN r ELSE task[j]
  BY DEF TasksOK
<1> QED BY <1>1, <1>2 DEF TasksOK, RecOK

LEMMA TaskIs ==
    ASSUME TypeInv, NEW k \in Tasks
    PROVE  task[k] \in TaskRec /\ RecOK(task[k]) /\ task[k].answer \subseteq Mined /\ task[k].kind \in Kinds
BY DEF TypeInv, TasksOK, TaskRec

\* Page numbers times the size of a page.
LEMMA PageBound ==
    ASSUME NEW p \in Nat \ {0}, NEW n \in Nat, (p - 1) * PageSize + 1 <= n
    PROVE  p <= n
<1>1. PageSize \in Nat /\ PageSize >= 1
  BY ElaAssumption DEF ElaAssumption
<1>2. \A a \in Nat, b \in Nat : b >= 1 => a * b >= a
  BY Z3
<1>3. (p - 1) * PageSize >= p - 1
  BY <1>1, <1>2
<1>4. (p - 1) * PageSize \in Nat
  BY <1>1
<1> QED BY <1>3, <1>4

LEMMA PageFacts ==
    ASSUME HistoryOK, NEW p \in Pages
    PROVE  Page(p) \subseteq Mined /\ (Page(p) # {} => p <= MaxTx)
<1>1. ASSUME NEW t \in Page(p) PROVE p <= MaxTx
  <2>1. Rank(t) \in 1 .. Len(history) /\ Rank(t) \in (p - 1) * PageSize + 1 .. p * PageSize
    BY RankFacts DEF Page
  <2>2. Len(history) \in 0 .. MaxTx /\ MaxTx \in Nat /\ PageSize \in Nat /\ p \in Nat \ {0}
    BY HistoryLength, ElaAssumption DEF ElaAssumption, Pages
  <2>3. (p - 1) * PageSize \in Int /\ p * PageSize \in Int
    BY <2>2
  <2>4. (p - 1) * PageSize + 1 <= Rank(t)
    BY <2>1, <2>2, <2>3
  <2>5. p <= Rank(t)
    BY <2>1, <2>2, <2>4, PageBound
  <2> QED BY <2>1, <2>2, <2>5
<1> QED BY <1>1 DEF Page

LEMMA MinedStep ==
    ASSUME TypeInv, NEW t \in Txs \ Mined, history' = Append(history, t), pool' \subseteq pool \ {t},
           UNCHANGED <<rows, prefs, isLoading, posts, task, sending, upsets, disturbed>>
    PROVE  TypeInv'
<1>1. HistoryOK' /\ Mined' = Mined \cup {t}
  BY Grows DEF TypeInv
<1> QED BY <1>1 DEF TypeInv, TasksOK, PrefsOK, prefs, RowsOK, SendOK, FlagsOK, CountsOK

LEMMA NodeStep ==
    ASSUME TypeInv, Receive \/ (\E t \in pool : Mine(t))
    PROVE  TypeInv'
<1>1. CASE Receive
  <2>1. NextTx \in Txs \ Mined /\ NextTx \notin pool
    BY <1>1, NextTxFresh DEF Receive, Fresh
  <2> DEFINE t == NextTx
  <2>2. PICK x : x = t
    OBVIOUS
  <2>3. x \in Txs \ Mined /\ history' = Append(history, x) /\ pool' \subseteq pool \ {x}
    BY <1>1, <2>1, <2>2 DEF Receive
  <2> QED BY <1>1, <2>3, MinedStep DEF Receive
<1>2. ASSUME NEW t \in pool, Mine(t) PROVE TypeInv'
  BY <1>2, MinedStep DEF TypeInv, HistoryOK, Mine
<1> QED BY <1>1, <1>2

LEMMA QueueStep ==
    ASSUME TypeInv, NEW k \in Tasks, LoadMore(k) \/ Refresh(k) \/ Open(k)
    PROVE  TypeInv'
<1>1. PICK kind \in Kinds : Queue(k, kind)
  BY DEF LoadMore, Refresh, Open, Kinds
<1> DEFINE r == [Idle EXCEPT !.pc = "queued", !.kind = kind]
<1>2. RecOK(r) /\ r.answer = {}
  BY IdleFacts DEF Places
<1>3. task' = [task EXCEPT ![k] = r]
  BY <1>1 DEF Queue
<1>4. UNCHANGED <<rows, isLoading, posts, sending, node, upsets>> /\ PrefsOK' /\ disturbed' \in BOOLEAN
  <2>1. disturbed' \in BOOLEAN
    BY <1>1 DEF Queue
  <2>2. UNCHANGED <<rows, isLoading, posts, sending, node, upsets>>
    BY DEF LoadMore, Refresh, Open
  <2>3. pageNumber' \in {1, pageNumber} /\ range' \in {0, 1, range}
    BY DEF LoadMore, Refresh, Open, prefs
  <2> QED BY <2>1, <2>2, <2>3, ElaAssumption DEF TypeInv, PrefsOK, ElaAssumption
<1> HIDE DEF r
<1>5. TasksOK'
  BY <1>2, <1>3, <1>4, TaskMoves DEF TypeInv, node
<1> QED BY <1>4, <1>5 DEF TypeInv, HistoryOK, Once, Mined, node, RowsOK, SendOK, FlagsOK, CountsOK

\* A step of one load that writes neither the node nor the preferences.
LEMMA LoadStep ==
    ASSUME TypeInv, NEW k \in Tasks, NEW r, RecOK(r), r.answer \subseteq Mined,
           task' = [task EXCEPT ![k] = r], UNCHANGED node, PrefsOK', RowsOK', SendOK', FlagsOK', CountsOK'
    PROVE  TypeInv'
<1>1. TasksOK'
  BY TaskMoves DEF TypeInv, node
<1> QED BY <1>1 DEF TypeInv, HistoryOK, Once, Mined, node

LEMMA LeaveFacts ==
    ASSUME TypeInv, NEW k \in Tasks, NEW pc \in Places, Leave(k, pc)
    PROVE  \E r : RecOK(r) /\ r.answer = {} /\ r.pc = pc /\ task' = [task EXCEPT ![k] = r]
<1>1. task[k].kind \in Kinds
  BY TaskIs
<1> QED BY <1>1, IdleFacts DEF Leave

LEMMA RunStep ==
    ASSUME TypeInv, NEW k \in Tasks, Run(k)
    PROVE  TypeInv'
<1>0. /\ task[k] \in TaskRec /\ RecOK(task[k]) /\ task[k].answer \subseteq Mined /\ UNCHANGED node
      /\ PrefsOK /\ PrefsOK' /\ RowsOK' /\ SendOK' /\ FlagsOK' /\ CountsOK'
  BY TaskIs DEF Run, TypeInv, RowsOK, SendOK, FlagsOK, CountsOK, PrefsOK, prefs, node, Mined
<1>1. CASE task' = [task EXCEPT ![k] = [Idle EXCEPT !.pc = "flag"]]
  BY <1>0, <1>1, IdlePlace, LoadStep DEF Places
<1>2. ASSUME NEW page \in Pages,
             task' = [task EXCEPT ![k].pc = "ask", ![k].was = pageNumber, ![k].page = page]
      PROVE  TypeInv'
  <2> DEFINE r == [task[k] EXCEPT !.pc = "ask", !.was = pageNumber, !.page = page]
  <2>1. task' = [task EXCEPT ![k] = r]
    BY <1>0, <1>2 DEF TypeInv, TasksOK, TaskRec
  <2>2. pageNumber \in Pages /\ pageNumber <= MaxTx
    BY <1>0, ElaAssumption DEF PrefsOK, Pages, ElaAssumption
  <2>3. RecOK(r) /\ r.answer = task[k].answer
    BY <1>0, <2>2 DEF RecOK, TaskRec, Places
  <2> HIDE DEF r
  <2> QED BY <1>0, <2>1, <2>3, LoadStep
<1>3. 1 \in Pages /\ pageNumber \in Pages /\ pageNumber + range \in Pages
  BY <1>0, ElaAssumption DEF PrefsOK, Pages, ElaAssumption
<1> QED BY <1>1, <1>2, <1>3 DEF Run

LEMMA AnsweredStep ==
    ASSUME TypeInv, NEW k \in Tasks, Answered(k)
    PROVE  TypeInv'
<1>0. /\ task[k] \in TaskRec /\ RecOK(task[k]) /\ UNCHANGED node /\ HistoryOK
      /\ PrefsOK' /\ RowsOK' /\ SendOK' /\ FlagsOK' /\ CountsOK'
  BY TaskIs DEF Answered, TypeInv, RowsOK, SendOK, FlagsOK, CountsOK, PrefsOK, prefs, node, Mined
<1> DEFINE answer == Page(task[k].page)
<1>1. answer \subseteq Mined /\ answer \subseteq Txs /\ (answer # {} => task[k].page <= MaxTx)
  BY <1>0, PageFacts, HistoryDomain DEF TaskRec
<1>2. CASE Leave(k, "list")
  BY <1>0, <1>2, LeaveFacts, LoadStep DEF Places
<1>3. ASSUME NEW pc \in {"store", "cache"}, task' = [task EXCEPT ![k].answer = answer, ![k].pc = pc]
      PROVE  TypeInv'
  <2> DEFINE r == [task[k] EXCEPT !.answer = answer, !.pc = pc]
  <2>1. task' = [task EXCEPT ![k] = r]
    BY <1>0, <1>3 DEF TypeInv, TasksOK, TaskRec
  <2> HIDE DEF answer
  <2>2. RecOK(r) /\ r.answer = answer
    BY <1>0, <1>1 DEF RecOK, TaskRec, Places
  <2> HIDE DEF r
  <2> QED BY <1>0, <1>1, <2>1, <2>2, LoadStep
<1> QED BY <1>2, <1>3 DEF Answered

LEMMA StorePageStep ==
    ASSUME TypeInv, NEW k \in Tasks, StorePage(k)
    PROVE  TypeInv'
<1>0. /\ task[k] \in TaskRec /\ RecOK(task[k]) /\ task[k].answer \subseteq Mined /\ UNCHANGED node
      /\ RowsOK' /\ SendOK' /\ FlagsOK' /\ CountsOK' /\ task[k].pc = "store"
  BY TaskIs DEF StorePage, TypeInv, RowsOK, SendOK, FlagsOK, CountsOK, node, Mined
<1>1. PrefsOK'
  BY <1>0, ElaAssumption DEF StorePage, PrefsOK, RecOK, TaskRec, Pages, ElaAssumption
<1>2. CASE Leave(k, "list")
  BY <1>0, <1>1, <1>2, LeaveFacts, LoadStep DEF Places
<1>3. CASE Go(k, "cache")
  <2> DEFINE r == [task[k] EXCEPT !.pc = "cache"]
  <2>1. task' = [task EXCEPT ![k] = r]
    BY <1>3 DEF Go
  <2>2. RecOK(r) /\ r.answer = task[k].answer
    BY <1>0 DEF RecOK, TaskRec, Places
  <2> HIDE DEF r
  <2> QED BY <1>0, <1>1, <2>1, <2>2, LoadStep
<1> QED BY <1>2, <1>3 DEF StorePage

\* The rows of a page are mined; no send is waiting for its answer.
LEMMA CacheRowsStep ==
    ASSUME TypeInv, NEW k \in Tasks, CacheRows(k)
    PROVE  TypeInv'
<1>0. /\ task[k].answer \subseteq Mined /\ UNCHANGED node
      /\ PrefsOK' /\ FlagsOK' /\ CountsOK' /\ sending = NoTx /\ sending' = NoTx
  BY TaskIs DEF CacheRows, TypeInv, FlagsOK, CountsOK, PrefsOK, prefs, node
<1>1. RowsOK'
  BY <1>0 DEF CacheRows, TypeInv, RowsOK, node, Mined
<1>2. SendOK'
  BY <1>0, ElaAssumption DEF SendOK, NoTx, Txs, ElaAssumption
<1> QED BY <1>0, <1>1, <1>2, LeaveFacts, LoadStep DEF CacheRows, Places

LEMMA UpdateListStep ==
    ASSUME TypeInv, NEW k \in Tasks, UpdateList(k)
    PROVE  TypeInv'
<1>0. /\ UNCHANGED node /\ RowsOK' /\ SendOK' /\ PrefsOK' /\ FlagsOK'
  BY DEF UpdateList, TypeInv, RowsOK, SendOK, FlagsOK, PrefsOK, prefs, node, Mined
<1>1. CountsOK'
  BY ElaAssumption DEF UpdateList, TypeInv, CountsOK, ElaAssumption
<1>2. PICK r : task' = [task EXCEPT ![k] = r] /\
             r \in {Idle, [Idle EXCEPT !.pc = "queued", !.kind = "again"], [Idle EXCEPT !.pc = "flag"]}
  BY DEF UpdateList
<1>3. RecOK(r) /\ r.answer = {}
  <2>1. "queued" \in Places /\ "flag" \in Places /\ "again" \in Kinds
    BY DEF Places, Kinds
  <2> DEFINE again == [Idle EXCEPT !.pc = "queued", !.kind = "again"]
             flag  == [Idle EXCEPT !.pc = "flag"]
  <2>2. RecOK(again) /\ again.answer = {}
    BY <2>1, IdleFacts
  <2>3. RecOK(flag) /\ flag.answer = {}
    BY <2>1, IdlePlace
  <2> QED BY <1>2, <2>2, <2>3, IdleOK
<1> QED BY <1>0, <1>1, <1>2, <1>3, LoadStep

LEMMA TaskRestStep ==
    ASSUME TypeInv, NEW k \in Tasks, Failed(k) \/ SetLoading(k)
    PROVE  TypeInv'
<1>0. UNCHANGED node /\ RowsOK' /\ SendOK' /\ PrefsOK'
  BY DEF Failed, SetLoading, TypeInv, RowsOK, SendOK, PrefsOK, prefs, node, Mined
<1>1. FlagsOK'
  BY DEF Failed, SetLoading, TypeInv, FlagsOK
<1>2. CountsOK'
  BY ElaAssumption DEF Failed, Upset, SetLoading, TypeInv, CountsOK, ElaAssumption
<1>3. CASE Leave(k, "list")
  BY <1>0, <1>1, <1>2, <1>3, LeaveFacts, LoadStep DEF Places
<1>4. CASE task' = [task EXCEPT ![k] = Idle]
  BY <1>0, <1>1, <1>2, <1>4, IdleOK, LoadStep
<1> QED BY <1>3, <1>4 DEF Failed, SetLoading

LEMMA SendStep ==
    ASSUME TypeInv, SendBegin \/ Accept \/ SendEnd \/ SendFails
    PROVE  TypeInv'
<1>0. TasksOK' /\ PrefsOK' /\ FlagsOK' /\ CountsOK' /\ Mined' = Mined /\ UNCHANGED history
  BY DEF SendBegin, Accept, SendEnd, SendFails, TypeInv, TasksOK, FlagsOK, CountsOK, PrefsOK, prefs, node, Mined
<1>1. NoTx \notin Txs /\ Posted \notin Txs
  BY ElaAssumption DEF NoTx, Posted, Txs, ElaAssumption
<1>2. CASE Accept
  <2>1. NextTx \in Txs \ Mined
    BY <1>2, NextTxFresh DEF Accept, Fresh
  <2>2. HistoryOK'
    BY <1>0, <1>2, <2>1 DEF Accept, TypeInv, HistoryOK, Once
  <2>3. RowsOK' /\ SendOK'
    BY <1>0, <1>2, <2>1 DEF Accept, TypeInv, RowsOK, SendOK
  <2> QED BY <1>0, <2>2, <2>3 DEF TypeInv
<1>3. CASE SendBegin \/ SendFails
  <2>1. HistoryOK' /\ RowsOK'
    BY <1>0, <1>3 DEF SendBegin, SendFails, TypeInv, HistoryOK, Once, RowsOK, node
  <2>2. SendOK'
    BY <1>1, <1>3 DEF SendBegin, SendFails, SendOK
  <2> QED BY <1>0, <2>1, <2>2 DEF TypeInv
<1>4. CASE SendEnd
  <2>1. HistoryOK'
    BY <1>0, <1>4 DEF SendEnd, TypeInv, HistoryOK, Once, node
  <2>2. RowsOK' /\ SendOK'
    BY <1>0, <1>1, <1>4 DEF SendEnd, TypeInv, RowsOK, SendOK
  <2> QED BY <1>0, <2>1, <2>2 DEF TypeInv
<1> QED BY <1>2, <1>3, <1>4

LEMMA MainStep ==
    ASSUME TypeInv, ShowList \/ DeleteAll \/ Restart
    PROVE  TypeInv'
<1>0. HistoryOK' /\ PrefsOK' /\ Mined' = Mined
  BY DEF ShowList, DeleteAll, Restart, TypeInv, HistoryOK, Once, PrefsOK, prefs, node, Mined
<1>1. NoTx \notin Txs
  BY ElaAssumption DEF NoTx, Txs, ElaAssumption
<1>2. TasksOK'
  <2>1. CASE UNCHANGED task
    BY <1>0, <2>1 DEF TypeInv, TasksOK
  <2>2. CASE task' = [k \in Tasks |-> Idle]
    BY <2>2, IdleOK DEF TasksOK, RecOK
  <2> QED BY <2>1, <2>2 DEF ShowList, DeleteAll, Restart
<1>3. RowsOK' /\ SendOK'
  BY <1>0, <1>1 DEF ShowList, DeleteAll, Restart, TypeInv, RowsOK, SendOK
<1>4. FlagsOK'
  BY DEF ShowList, DeleteAll, Restart, TypeInv, FlagsOK
<1>5. CountsOK'
  BY ElaAssumption DEF ShowList, DeleteAll, Restart, Upset, TypeInv, CountsOK, ElaAssumption
<1> QED BY <1>0, <1>2, <1>3, <1>4, <1>5 DEF TypeInv

LEMMA InitTypeInv == Init => TypeInv
<1> SUFFICES ASSUME Init PROVE TypeInv
  OBVIOUS
<1>0. history = <<>> /\ pool = {}
  BY DEF Init
<1>1. HistoryOK /\ Mined = {}
  BY <1>0 DEF HistoryOK, Once, Mined
<1>2. TasksOK
  BY IdleOK DEF Init, TasksOK, RecOK
<1>3. PrefsOK /\ CountsOK
  BY ElaAssumption DEF Init, PrefsOK, CountsOK, ElaAssumption
<1>4. RowsOK /\ SendOK
  BY ElaAssumption DEF Init, RowsOK, SendOK, NoTx, Txs, ElaAssumption
<1>5. FlagsOK
  BY DEF Init, FlagsOK
<1> QED BY <1>1, <1>2, <1>3, <1>4, <1>5 DEF TypeInv

LEMMA StutterStep == TypeInv /\ UNCHANGED vars => TypeInv'
<1> SUFFICES ASSUME TypeInv, UNCHANGED vars PROVE TypeInv'
  OBVIOUS
<1>1. HistoryOK' /\ Mined' = Mined
  BY DEF TypeInv, HistoryOK, Once, Mined, vars, node
<1>2. TasksOK' /\ PrefsOK' /\ CountsOK' /\ RowsOK' /\ SendOK'
  BY <1>1 DEF TypeInv, vars, prefs, TasksOK, PrefsOK, CountsOK, RowsOK, SendOK
<1>3. FlagsOK'
  BY DEF TypeInv, vars, FlagsOK
<1> QED BY <1>1, <1>2, <1>3 DEF TypeInv

LEMMA TypeStep == TypeInv /\ [Next]_vars => TypeInv'
<1> SUFFICES ASSUME TypeInv, [Next]_vars PROVE TypeInv'
  OBVIOUS
<1>1. ASSUME NEW k \in Tasks, LoadMore(k) \/ Refresh(k) \/ Open(k) PROVE TypeInv'
  BY <1>1, QueueStep
<1>2. ASSUME NEW k \in Tasks, Run(k) PROVE TypeInv'
  BY <1>2, RunStep
<1>3. ASSUME NEW k \in Tasks, Answered(k) PROVE TypeInv'
  BY <1>3, AnsweredStep
<1>4. ASSUME NEW k \in Tasks, StorePage(k) PROVE TypeInv'
  BY <1>4, StorePageStep
<1>5. ASSUME NEW k \in Tasks, CacheRows(k) PROVE TypeInv'
  BY <1>5, CacheRowsStep
<1>6. ASSUME NEW k \in Tasks, UpdateList(k) PROVE TypeInv'
  BY <1>6, UpdateListStep
<1>7. ASSUME NEW k \in Tasks, Failed(k) \/ SetLoading(k) PROVE TypeInv'
  BY <1>7, TaskRestStep
<1>8. CASE ShowList \/ DeleteAll \/ Restart
  BY <1>8, MainStep
<1>9. CASE SendBegin \/ Accept \/ SendEnd \/ SendFails
  BY <1>9, SendStep
<1>10. CASE Receive \/ (\E t \in pool : Mine(t))
  BY <1>10, NodeStep
<1>11. CASE UNCHANGED vars
  BY <1>11, StutterStep
<1> QED BY <1>1, <1>2, <1>3, <1>4, <1>5, <1>6, <1>7, <1>8, <1>9, <1>10, <1>11 DEF Next

\* The table, the preferences, every load and the send stay within their types:
\* no page beyond the last one that had transactions is ever stored.
THEOREM HistoryTypeCorrect == Spec => []TypeOK
BY InitTypeInv, TypeStep, TypeInvTypes, PTL DEF Spec

\* A transaction shown as mined does not become pending again: a page is cached
\* only while no send holds the monitor, and a send is answered before its
\* transaction is on any page that is already cached.
THEOREM MinedRowsStay == Spec => MinedStaysMined
<1> DEFINE Stays == \A t \in Txs : rows[t] = "mined" => rows'[t] # "pending"
<1>1. ASSUME TypeInv, [Next]_vars PROVE Stays
  <2>1. CASE SendEnd
    BY <1>1, <2>1 DEF SendEnd, TypeInv, RowsOK, SendOK
  <2>2. CASE DeleteAll
    BY <2>2 DEF DeleteAll
  <2>3. ASSUME NEW k \in Tasks, CacheRows(k) PROVE Stays
    BY <2>3 DEF CacheRows
  <2>4. CASE UNCHANGED rows
    BY <2>4
  <2>5. ASSUME NEW k \in Tasks, Failed(k) \/ LoadMore(k) \/ Refresh(k) \/ Open(k) \/ Run(k) \/ Answered(k)
                                \/ StorePage(k) \/ UpdateList(k) \/ SetLoading(k)
        PROVE  UNCHANGED rows
    BY <2>5 DEF Failed, LoadMore, Refresh, Open, Run, Answered, StorePage, UpdateList, SetLoading
  <2>6. ShowList \/ Restart \/ SendBegin \/ Accept \/ SendFails \/ Receive \/ (\E t \in pool : Mine(t))
          => UNCHANGED rows
    BY DEF ShowList, Restart, SendBegin, Accept, SendFails, Receive, Mine
  <2> HIDE DEF Stays
  <2> QED BY <1>1, <2>1, <2>2, <2>3, <2>4, <2>5, <2>6 DEF Next, vars
<1>2. Spec => [][Stays]_vars
  <2> HIDE DEF Stays
  <2>1. TypeInv /\ [Next]_vars => [Stays]_vars
    BY <1>1
  <2> QED BY <2>1, InitTypeInv, TypeStep, PTL DEF Spec
<1> QED BY <1>2 DEF MinedStaysMined

-----------------------------------------------------------------------------
(* No hole.  While nothing disturbed the loads, one is active at most, and  *)
(* what it was answered reaches as far as the page it will store.           *)

Active(k) == task[k].pc \notin {"idle", "flag"}

\* With the answer's rows, a transaction without a row that is older than one
\* shown as mined comes after the page.
Clear(page, answer) == \A t, u \in Mined :
    rows[t] = "mined" /\ rows[u] = "none" /\ u \notin answer /\ Rank(t) < Rank(u) => Rank(u) > page * PageSize

\* What is older than some of the answer and not in it comes after the page.
Whole(page, answer) == \A t \in answer, u \in Mined \ answer : Rank(t) < Rank(u) => Rank(u) > page * PageSize

TaskOK(r) ==
    /\ r.pc = "queued" /\ r.kind = "refresh" => pageNumber = 1
    /\ r.pc = "ask" => /\ r.was = pageNumber /\ r.page \in {pageNumber, pageNumber + 1}
                       /\ r.kind \in {"refresh", "again"} => r.page = pageNumber
    /\ r.pc = "store" => /\ r.was = pageNumber
                         /\ r.answer # {} => Whole(r.page, r.answer) /\ Clear(r.page, r.answer)
    /\ r.pc = "cache" => r.page = pageNumber /\ Whole(r.page, r.answer) /\ Clear(r.page, r.answer)

Lone    == \A j, k \in Tasks : Active(j) /\ Active(k) => j = k
Settled == (\A k \in Tasks : task[k].pc # "cache") => Clear(pageNumber, {})
HoleInv == ~disturbed => Lone /\ Settled /\ \A k \in Tasks : TaskOK(task[k])

\* A step that takes nothing from what is clear.
Keeps == \A p \in Nat, A \in SUBSET Mined :
    /\ Whole(p, A) => Whole(p, A)'
    /\ Whole(p, A) /\ Clear(p, A) => Clear(p, A)'

LEMMA RankNat ==
    ASSUME TypeInv PROVE \A t \in Mined : Rank(t) \in Nat
BY RankFacts, HistoryDomain DEF TypeInv

LEMMA SizeNat == \A p \in Nat : p * PageSize \in Nat /\ (p >= 1 => p * PageSize >= 1 * PageSize)
<1>1. PageSize \in Nat
  BY ElaAssumption DEF ElaAssumption
<1>2. \A a \in Nat, b \in Nat : a * b \in Nat /\ (a >= 1 => a * b >= 1 * b)
  BY Z3
<1> QED BY <1>1, <1>2

LEMMA StillClear ==
    ASSUME UNCHANGED <<rows, history>>
    PROVE  \A p, A : (Clear(p, A) => Clear(p, A)') /\ (Whole(p, A) => Whole(p, A)')
<1>1. Mined' = Mined
  BY DEF Mined
<1>2. \A t \in Mined : Rank(t)' = Rank(t)
  BY DEF Rank
<1>3. ASSUME NEW p, NEW A, Clear(p, A) PROVE Clear(p, A)'
  BY <1>1, <1>2, <1>3 DEF Clear
<1>4. ASSUME NEW p, NEW A, Whole(p, A) PROVE Whole(p, A)'
  <2>1. ASSUME NEW t \in A, NEW u \in Mined \ A, Rank(t)' < Rank(u) PROVE Rank(u) > p * PageSize
    <3>1. Rank(t)' = Rank(t)
      BY DEF Rank
    <3> QED BY <1>4, <2>1, <3>1 DEF Whole
  <2> QED BY <1>1, <1>2, <2>1 DEF Whole
<1> QED BY <1>3, <1>4

LEMMA KeepsSame ==
    ASSUME UNCHANGED <<rows, history>> PROVE Keeps
BY StillClear DEF Keeps

LEMMA KeepsGrown ==
    ASSUME TypeInv, NEW x \in Txs \ Mined, history' = Append(history, x), pool' \subseteq pool \ {x}, UNCHANGED rows
    PROVE  Keeps
<1>1. /\ Mined' = Mined \cup {x} /\ Rank(x)' = 1
      /\ \A u \in Mined : Rank(u)' = Rank(u) + 1
  BY Grows DEF TypeInv
<1>2. \A u \in Mined : Rank(u) \in Nat /\ Rank(u) >= 1
  BY RankFacts, HistoryDomain DEF TypeInv
<1>3. rows[x] # "mined"
  BY DEF TypeInv, RowsOK
<1> SUFFICES ASSUME NEW p \in Nat, NEW A \in SUBSET Mined, Whole(p, A)
             PROVE  Whole(p, A)' /\ (Clear(p, A) => Clear(p, A)')
  BY DEF Keeps
<1>4. p * PageSize \in Nat
  BY SizeNat
<1>5. ASSUME NEW t \in A, NEW u \in Mined' \ A, Rank(t)' < Rank(u)' PROVE Rank(u)' > p * PageSize
  BY <1>1, <1>2, <1>4, <1>5 DEF Whole
<1>6. ASSUME Clear(p, A), NEW t \in Mined', NEW u \in Mined', rows[t] = "mined", rows[u] = "none", u \notin A,
             Rank(t)' < Rank(u)'
      PROVE  Rank(u)' > p * PageSize
  <2>1. t \in Mined /\ u \in Mined
    BY <1>1, <1>2, <1>3, <1>6
  <2>2. Rank(t) < Rank(u)
    BY <1>1, <1>2, <1>6, <2>1
  <2>3. Rank(u) > p * PageSize
    BY <1>6, <2>1, <2>2 DEF Clear
  <2> QED BY <1>1, <1>2, <1>4, <2>1, <2>3
<1> QED BY <1>5, <1>6 DEF Whole, Clear

\* Fewer rows are mined, and fewer are none.
LEMMA KeepsFewer ==
    ASSUME UNCHANGED history,
           \A t \in Txs : rows'[t] = "mined" => rows[t] = "mined",
           TypeInv, (\A t \in Txs : rows'[t] = "none" => rows[t] = "none") \/ (\A t \in Txs : rows'[t] = "none")
    PROVE  Keeps
<1>1. Mined' = Mined /\ Mined \subseteq Txs
  BY HistoryDomain DEF Mined, TypeInv
<1>2. \A t \in Mined : Rank(t)' = Rank(t)
  BY DEF Rank
<1> QED BY <1>1, <1>2 DEF Keeps, Whole, Clear

\* No load moves.
LEMMA QuietStep ==
    ASSUME TypeInv, HoleInv, Keeps, UNCHANGED <<pageNumber, disturbed, task>>
    PROVE  HoleInv'
<1> SUFFICES ASSUME ~disturbed PROVE HoleInv'
  BY DEF HoleInv
<1>1. Lone'
  BY DEF HoleInv, Lone, Active
<1>2. pageNumber \in Nat
  BY DEF TypeInv, PrefsOK
<1>3. Settled'
  <2>1. Whole(pageNumber, {})
    BY DEF Whole
  <2> QED BY <1>2, <2>1 DEF HoleInv, Settled, Keeps
<1>4. ASSUME NEW k \in Tasks PROVE TaskOK(task[k])'
  <2>1. task[k].page \in Nat /\ task[k].answer \in SUBSET Mined /\ TaskOK(task[k])
    BY TaskIs DEF TaskRec, Pages, HoleInv
  <2> QED BY <2>1 DEF TaskOK, Keeps
<1> QED BY <1>1, <1>3, <1>4 DEF HoleInv

\* The active load moves: nothing is known of the others but that they rest.
LEMMA ActiveStep ==
    ASSUME TypeInv, HoleInv, ~disturbed, NEW k \in Tasks, Active(k), NEW r, task' = [task EXCEPT ![k] = r],
           TaskOK(r)', r.pc # "cache" => Clear(pageNumber, {})'
    PROVE  HoleInv'
<1>1. /\ \A j \in Tasks \ {k} : task'[j] = task[j] /\ task[j].pc \in {"idle", "flag"}
      /\ task'[k] = r
  BY DEF HoleInv, Lone, Active, TypeInv, TasksOK
<1>2. Lone'
  BY <1>1 DEF Lone, Active
<1>3. Settled'
  BY <1>1 DEF Settled
<1>4. ASSUME NEW j \in Tasks PROVE TaskOK(task[j])'
  <2>1. CASE j = k
    BY <1>1, <2>1 DEF TaskOK
  <2>2. CASE j # k
    BY <1>1, <2>2 DEF TaskOK
  <2> QED BY <2>1, <2>2
<1> QED BY <1>2, <1>3, <1>4 DEF HoleInv

LEMMA SettledBefore ==
    ASSUME HoleInv, ~disturbed, NEW k \in Tasks, Active(k), task[k].pc # "cache"
    PROVE  Clear(pageNumber, {})
BY DEF HoleInv, Lone, Settled, Active

LEMMA QueueHole ==
    ASSUME TypeInv, HoleInv, NEW k \in Tasks, LoadMore(k) \/ Refresh(k) \/ Open(k)
    PROVE  HoleInv'
<1> SUFFICES ASSUME ~disturbed' PROVE HoleInv'
  BY DEF HoleInv
<1>1. PICK kind \in Kinds : /\ Queue(k, kind)
                            /\ kind = "refresh" => pageNumber' = 1
                            /\ pageNumber' # pageNumber => pageNumber' = 1
  BY DEF LoadMore, Refresh, Open, Kinds, prefs
<1>2. ~disturbed /\ \A j \in Tasks : task[j].pc \in {"idle", "flag"}
  BY <1>1 DEF Queue
<1>3. PICK r : r = [Idle EXCEPT !.pc = "queued", !.kind = kind]
  OBVIOUS
<1>4. r.pc = "queued" /\ r.kind = kind
  BY <1>3 DEF Idle
<1>5. task' = [task EXCEPT ![k] = r]
  BY <1>1, <1>3 DEF Queue
<1>6. /\ \A j \in Tasks \ {k} : task'[j] = task[j] /\ task[j].pc \in {"idle", "flag"}
      /\ task'[k] = r
  BY <1>2, <1>5 DEF TypeInv, TasksOK
<1>7. Lone'
  BY <1>6 DEF Lone, Active
<1>8. Clear(pageNumber, {})'
  <2>1. UNCHANGED <<rows, history>> /\ Mined' = Mined /\ \A t \in Mined : Rank(t)' = Rank(t)
    BY DEF LoadMore, Refresh, Open, node, Mined, Rank
  <2>2. Clear(pageNumber, {})
    BY <1>2 DEF HoleInv, Settled
  <2>3. pageNumber' * PageSize \in Nat /\ pageNumber' * PageSize <= pageNumber * PageSize /\ pageNumber * PageSize \in Nat
    <3>1. pageNumber \in Nat /\ pageNumber >= 1
      BY ElaAssumption DEF TypeInv, PrefsOK, ElaAssumption
    <3>2. CASE pageNumber' = 1
      BY <3>1, <3>2, SizeNat
    <3>3. CASE pageNumber' = pageNumber
      BY <3>1, <3>3, SizeNat
    <3> QED BY <1>1, <3>2, <3>3
  <2>4. \A t \in Mined : Rank(t) \in Nat
    BY RankNat
  <2> QED BY <2>1, <2>2, <2>3, <2>4 DEF Clear
<1>9. ASSUME NEW j \in Tasks PROVE TaskOK(task[j])'
  <2>1. CASE j = k
    BY <1>1, <1>4, <1>6, <2>1 DEF TaskOK
  <2>2. CASE j # k
    BY <1>6, <2>2 DEF TaskOK
  <2> QED BY <2>1, <2>2
<1> QED BY <1>7, <1>8, <1>9 DEF HoleInv, Settled

LEMMA RunHole ==
    ASSUME TypeInv, HoleInv, NEW k \in Tasks, Run(k)
    PROVE  HoleInv'
<1> SUFFICES ASSUME ~disturbed PROVE HoleInv'
  BY DEF HoleInv, Run
<1>0. /\ Active(k) /\ task[k].pc = "queued" /\ TaskOK(task[k]) /\ task[k] \in TaskRec
      /\ UNCHANGED <<rows, history, pageNumber>>
  BY TaskIs DEF Run, Active, HoleInv, node, prefs
<1>1. Clear(pageNumber, {})'
  BY <1>0, SettledBefore, KeepsSame DEF Clear, Mined, Rank
<1>2. ASSUME NEW r, task' = [task EXCEPT ![k] = r], r.pc = "flag" PROVE HoleInv'
  BY <1>0, <1>1, <1>2, ActiveStep DEF TaskOK
<1>3. ASSUME NEW r, task' = [task EXCEPT ![k] = r], r.pc = "ask", r.was = pageNumber, r.kind = task[k].kind,
             r.page = IF r.kind = "refresh" THEN 1 ELSE IF r.kind = "again" THEN pageNumber ELSE pageNumber + range
      PROVE  HoleInv'
  <2>1. range \in {0, 1} /\ pageNumber \in Nat
    BY DEF TypeInv, PrefsOK
  <2>2. r.kind = "refresh" => pageNumber = 1
    BY <1>0, <1>3 DEF TaskOK
  <2>3. r.page \in {pageNumber, pageNumber + 1} /\ (r.kind \in {"refresh", "again"} => r.page = pageNumber)
    BY <1>3, <2>1, <2>2
  <2>4. TaskOK(r)'
    BY <1>0, <1>3, <2>3 DEF TaskOK
  <2> QED BY <1>0, <1>1, <1>3, <2>4, ActiveStep
<1>4. CASE isLoading /\ task[k].kind \in {"more", "refresh"}
  <2>1. PICK r : r = [Idle EXCEPT !.pc = "flag"]
    OBVIOUS
  <2>2. r.pc = "flag"
    BY <2>1 DEF Idle
  <2> QED BY <1>2, <1>4, <2>1, <2>2 DEF Run
<1>5. CASE ~ (isLoading /\ task[k].kind \in {"more", "refresh"})
  <2>1. PICK page : page = IF task[k].kind = "refresh" THEN 1
                           ELSE IF task[k].kind = "again" THEN pageNumber ELSE pageNumber + range
    OBVIOUS
  <2>2. PICK r : r = [task[k] EXCEPT !.pc = "ask", !.was = pageNumber, !.page = page]
    OBVIOUS
  <2>3. task' = [task EXCEPT ![k] = r]
    BY <1>0, <1>5, <2>1, <2>2 DEF Run, TypeInv, TasksOK, TaskRec
  <2>4. r.pc = "ask" /\ r.was = pageNumber /\ r.page = page /\ r.kind = task[k].kind
    BY <1>0, <2>2 DEF TaskRec
  <2> QED BY <1>3, <2>1, <2>3, <2>4
<1> QED BY <1>4, <1>5

\* A load that is over leaves what was clear.
LEMMA LeaveHole ==
    ASSUME TypeInv, HoleInv, ~disturbed, NEW k \in Tasks, Active(k), Leave(k, "list"), Clear(pageNumber, {})'
    PROVE  HoleInv'
<1>1. PICK r : r.pc = "list" /\ task' = [task EXCEPT ![k] = r]
  BY LeaveFacts DEF Places
<1> QED BY <1>1, ActiveStep DEF TaskOK

LEMMA AnsweredHole ==
    ASSUME TypeInv, HoleInv, NEW k \in Tasks, Answered(k)
    PROVE  HoleInv'
<1> SUFFICES ASSUME ~disturbed PROVE HoleInv'
  BY DEF HoleInv, Answered
<1>0. /\ Active(k) /\ task[k].pc = "ask" /\ TaskOK(task[k]) /\ task[k] \in TaskRec
      /\ UNCHANGED <<rows, history, pageNumber>>
  BY TaskIs DEF Answered, Active, HoleInv, node, prefs
<1>1. Clear(pageNumber, {}) /\ Clear(pageNumber, {})'
  <2>1. Clear(pageNumber, {})
    BY <1>0, SettledBefore
  <2>2. PICK p : p = pageNumber
    OBVIOUS
  <2>3. Clear(p, {})'
    BY <1>0, <2>1, <2>2, StillClear
  <2> QED BY <1>0, <2>1, <2>2, <2>3
<1>2. CASE Leave(k, "list")
  BY <1>0, <1>1, <1>2, LeaveHole
<1>3. PICK page, answer : page = task[k].page /\ answer = Page(page)
  OBVIOUS
<1>4. /\ page \in Pages /\ page \in {pageNumber, pageNumber + 1} /\ pageNumber \in Nat
      /\ task[k].was = pageNumber /\ (task[k].kind \in {"refresh", "again"} => page = pageNumber)
  BY <1>0, <1>3 DEF TaskOK, TaskRec, TypeInv, PrefsOK
<1>5. answer \subseteq Mined
  BY <1>3, <1>4, PageFacts DEF TypeInv
<1>6. page * PageSize \in Nat /\ (page - 1) * PageSize \in Nat
  BY <1>4, SizeNat DEF Pages
<1>7. \A u \in Mined : u \in answer <=> (Rank(u) >= (page - 1) * PageSize + 1 /\ Rank(u) <= page * PageSize)
  BY <1>3, <1>6, RankNat DEF Page
<1>8. Whole(page, answer)
  BY <1>5, <1>6, <1>7, RankNat DEF Whole
<1>9. Clear(page, answer)
  <2>1. CASE page = pageNumber
    BY <1>1, <2>1 DEF Clear
  <2>2. CASE page = pageNumber + 1
    <3>1. page - 1 = pageNumber
      BY <1>4, <2>2
    <3>2. ASSUME NEW t \in Mined, NEW u \in Mined, rows[t] = "mined", rows[u] = "none", u \notin answer, Rank(t) < Rank(u)
          PROVE  Rank(u) > page * PageSize
      <4>1. Rank(u) > (page - 1) * PageSize
        BY <1>1, <3>1, <3>2 DEF Clear
      <4> QED BY <1>6, <1>7, <3>2, <4>1, RankNat
    <3> QED BY <3>2 DEF Clear
  <2> QED BY <1>4, <2>1, <2>2
<1>10. Whole(page, answer)' /\ Clear(page, answer)'
  <2>1. Mined' = Mined /\ \A t \in Mined : Rank(t)' = Rank(t)
    BY <1>0 DEF Mined, Rank
  <2> QED BY <1>0, <1>5, <1>8, <1>9, <2>1 DEF Whole, Clear
<1>11. ASSUME NEW pc \in {"store", "cache"}, pc = "cache" => task[k].kind \in {"refresh", "again"},
              task' = [task EXCEPT ![k].answer = answer, ![k].pc = pc]
       PROVE  HoleInv'
  <2>1. PICK r : r = [task[k] EXCEPT !.answer = answer, !.pc = pc]
    OBVIOUS
  <2>2. task' = [task EXCEPT ![k] = r]
    BY <1>0, <1>11, <2>1 DEF TypeInv, TasksOK, TaskRec
  <2>3. r.pc = pc /\ r.answer = answer /\ r.page = page /\ r.was = task[k].was
    BY <1>0, <1>3, <2>1 DEF TaskRec
  <2>4. TaskOK(r)'
    BY <1>0, <1>4, <1>10, <1>11, <2>3 DEF TaskOK
  <2> QED BY <1>0, <1>1, <2>2, <2>4, ActiveStep
<1>12. task[k].kind \in Kinds
  BY TaskIs
<1> QED BY <1>2, <1>3, <1>11, <1>12 DEF Answered, Kinds

LEMMA StorePageHole ==
    ASSUME TypeInv, HoleInv, NEW k \in Tasks, StorePage(k)
    PROVE  HoleInv'
<1> SUFFICES ASSUME ~disturbed PROVE HoleInv'
  BY DEF HoleInv, StorePage
<1>0. /\ Active(k) /\ task[k].pc = "store" /\ TaskOK(task[k]) /\ task[k] \in TaskRec
      /\ UNCHANGED <<rows, history>>
  BY TaskIs DEF StorePage, Active, HoleInv, node
<1>1. CASE task[k].answer = {}
  <2>1. pageNumber' = pageNumber /\ Leave(k, "list")
    BY <1>0, <1>1 DEF StorePage, TaskOK
  <2>2. Clear(pageNumber, {})'
    <3>1. Clear(pageNumber, {})
      BY <1>0, SettledBefore
    <3>2. PICK p : p = pageNumber
      OBVIOUS
    <3>3. Clear(p, {})'
      BY <1>0, <3>1, <3>2, StillClear
    <3> QED BY <2>1, <3>2, <3>3
  <2> QED BY <1>0, <2>1, <2>2, LeaveHole
<1>2. CASE task[k].answer # {}
  <2>1. PICK page, answer : page = task[k].page /\ answer = task[k].answer
    OBVIOUS
  <2>2. PICK r : r = [task[k] EXCEPT !.pc = "cache"]
    OBVIOUS
  <2>3. pageNumber' = page /\ task' = [task EXCEPT ![k] = r]
    BY <1>2, <2>1, <2>2 DEF StorePage, Go
  <2>4. r.pc = "cache" /\ r.answer = answer /\ r.page = page
    BY <1>0, <2>1, <2>2 DEF TaskRec
  <2>5. Whole(page, answer)' /\ Clear(page, answer)'
    <3>1. Whole(page, answer) /\ Clear(page, answer)
      BY <1>0, <1>2, <2>1 DEF TaskOK
    <3> QED BY <1>0, <3>1, StillClear
  <2>6. TaskOK(r)'
    BY <2>3, <2>4, <2>5 DEF TaskOK
  <2> QED BY <1>0, <2>3, <2>4, <2>6, ActiveStep
<1> QED BY <1>1, <1>2

LEMMA CacheRowsHole ==
    ASSUME TypeInv, HoleInv, NEW k \in Tasks, CacheRows(k)
    PROVE  HoleInv'
<1> SUFFICES ASSUME ~disturbed PROVE HoleInv'
  BY DEF HoleInv, CacheRows
<1> DEFINE A == task[k].answer
<1>0. /\ Active(k) /\ task[k].pc = "cache" /\ TaskOK(task[k]) /\ A \subseteq Mined
      /\ UNCHANGED <<history, pageNumber>> /\ Leave(k, "list")
      /\ rows' = [t \in Txs |-> IF t \in A THEN "mined" ELSE rows[t]]
  BY TaskIs DEF CacheRows, Active, HoleInv, node, prefs
<1>1. Whole(pageNumber, A) /\ Clear(pageNumber, A)
  BY <1>0 DEF TaskOK
<1>2. Mined' = Mined /\ Mined \subseteq Txs /\ \A t \in Mined : Rank(t)' = Rank(t)
  BY <1>0, HistoryDomain DEF Mined, Rank, TypeInv
<1> HIDE DEF A
<1>3. Clear(pageNumber, {})'
  <2>1. ASSUME NEW t \in Mined, NEW u \in Mined, rows'[t] = "mined", rows'[u] = "none", Rank(t) < Rank(u)
        PROVE  Rank(u) > pageNumber * PageSize
    <3>1. u \notin A /\ rows[u] = "none"
      BY <1>0, <1>2, <2>1
    <3>2. CASE t \in A
      BY <1>1, <2>1, <3>1, <3>2 DEF Whole
    <3>3. CASE t \notin A
      BY <1>0, <1>1, <1>2, <2>1, <3>1, <3>3 DEF Clear
    <3> QED BY <3>2, <3>3
  <2> QED BY <1>0, <1>2, <2>1 DEF Clear
<1> QED BY <1>0, <1>3, LeaveHole

LEMMA FailedHole ==
    ASSUME TypeInv, HoleInv, NEW k \in Tasks, Failed(k)
    PROVE  HoleInv'
<1> SUFFICES ASSUME ~disturbed PROVE HoleInv'
  BY DEF HoleInv, Failed
<1>0. Active(k) /\ task[k].pc = "ask" /\ UNCHANGED <<rows, history, pageNumber>> /\ Leave(k, "list")
  BY DEF Failed, Active, node, prefs
<1>1. Clear(pageNumber, {})
  BY <1>0, SettledBefore
<1>2. PICK p : p = pageNumber
  OBVIOUS
<1>3. Clear(p, {})'
  BY <1>0, <1>1, <1>2, StillClear
<1> QED BY <1>0, <1>2, <1>3, LeaveHole

LEMMA UpdateListHole ==
    ASSUME TypeInv, HoleInv, NEW k \in Tasks, UpdateList(k)
    PROVE  HoleInv'
<1> SUFFICES ASSUME ~disturbed PROVE HoleInv'
  BY DEF HoleInv, UpdateList
<1>0. Active(k) /\ task[k].pc = "list" /\ UNCHANGED <<rows, history, pageNumber>>
  BY DEF UpdateList, Active, node, prefs
<1>1. Clear(pageNumber, {})
  BY <1>0, SettledBefore
<1>2. PICK p : p = pageNumber
  OBVIOUS
<1>3. Clear(p, {})'
  BY <1>0, <1>1, <1>2, StillClear
<1>4. PICK r : task' = [task EXCEPT ![k] = r] /\
             r \in {Idle, [Idle EXCEPT !.pc = "queued", !.kind = "again"], [Idle EXCEPT !.pc = "flag"]}
  BY DEF UpdateList
<1>5. r.pc \in {"idle", "queued", "flag"} /\ (r.pc = "queued" => r.kind = "again")
  <2> DEFINE again == [Idle EXCEPT !.pc = "queued", !.kind = "again"]
             flag  == [Idle EXCEPT !.pc = "flag"]
  <2>1. "queued" \in Places /\ "flag" \in Places /\ "again" \in Kinds
    BY DEF Places, Kinds
  <2>2. again.pc = "queued" /\ again.kind = "again"
    BY <2>1, IdleFacts
  <2>3. flag.pc = "flag"
    BY <2>1, IdlePlace
  <2> QED BY <1>4, <2>2, <2>3, IdleOK
<1>6. TaskOK(r)'
  BY <1>5 DEF TaskOK
<1> QED BY <1>0, <1>2, <1>3, <1>4, <1>6, ActiveStep

LEMMA SetLoadingHole ==
    ASSUME TypeInv, HoleInv, NEW k \in Tasks, SetLoading(k)
    PROVE  HoleInv'
<1> SUFFICES ASSUME ~disturbed PROVE HoleInv'
  BY DEF HoleInv, SetLoading
<1>0. task[k].pc = "flag" /\ UNCHANGED <<rows, history, pageNumber>>
  BY DEF SetLoading, node, prefs
<1>1. /\ \A j \in Tasks \ {k} : task'[j] = task[j]
      /\ task'[k].pc = "idle"
  BY DEF SetLoading, TypeInv, TasksOK, Idle
<1>2. Lone'
  BY <1>1 DEF HoleInv, Lone, Active
<1>3. Keeps
  BY <1>0, KeepsSame
<1>4. Settled'
  <2>1. (\A j \in Tasks : task'[j].pc # "cache") => \A j \in Tasks : task[j].pc # "cache"
    BY <1>0, <1>1
  <2>2. pageNumber \in Nat /\ Whole(pageNumber, {})
    BY DEF TypeInv, PrefsOK, Whole
  <2> QED BY <1>0, <1>3, <2>1, <2>2 DEF HoleInv, Settled, Keeps
<1>5. ASSUME NEW j \in Tasks PROVE TaskOK(task[j])'
  <2>1. CASE j = k
    BY <1>1, <2>1 DEF TaskOK
  <2>2. CASE j # k
    <3>1. task[j].page \in Nat /\ task[j].answer \in SUBSET Mined /\ TaskOK(task[j]) /\ task'[j] = task[j]
      BY <1>1, <2>2, TaskIs DEF TaskRec, Pages, HoleInv
    <3> QED BY <1>0, <1>3, <3>1 DEF TaskOK, Keeps
  <2> QED BY <2>1, <2>2
<1> QED BY <1>2, <1>4, <1>5 DEF HoleInv

LEMMA RestartHole ==
    ASSUME TypeInv, HoleInv, Restart
    PROVE  HoleInv'
<1> SUFFICES ASSUME ~disturbed' PROVE HoleInv'
  BY DEF HoleInv
<1>1. ~disturbed /\ \A k \in Tasks : task[k].pc # "cache"
  BY DEF Restart
<1>2. UNCHANGED <<rows, history, pageNumber>>
  BY DEF Restart, node, prefs
<1>3. Clear(pageNumber, {})
  BY <1>1 DEF HoleInv, Settled
<1>4. PICK p : p = pageNumber
  OBVIOUS
<1>5. Clear(p, {})'
  BY <1>2, <1>3, <1>4, StillClear
<1>6. \A k \in Tasks : task'[k].pc = "idle"
  BY DEF Restart, Idle
<1> QED BY <1>2, <1>4, <1>5, <1>6 DEF HoleInv, Lone, Active, Settled, TaskOK

LEMMA QuietHole ==
    ASSUME TypeInv, HoleInv,
           \/ ShowList \/ DeleteAll \/ SendBegin \/ Accept \/ SendEnd \/ SendFails
           \/ Receive \/ (\E t \in pool : Mine(t)) \/ UNCHANGED vars
    PROVE  HoleInv'
<1>1. UNCHANGED <<pageNumber, disturbed, task>>
  BY DEF ShowList, DeleteAll, SendBegin, Accept, SendEnd, SendFails, Receive, Mine, vars, prefs
<1>2. CASE ShowList \/ SendBegin \/ Accept \/ SendFails \/ UNCHANGED vars
  <2>1. UNCHANGED <<rows, history>>
    BY <1>2 DEF ShowList, SendBegin, Accept, SendFails, vars, node
  <2> QED BY <1>1, <2>1, KeepsSame, QuietStep
<1>3. CASE DeleteAll
  <2>1. UNCHANGED history /\ \A t \in Txs : rows'[t] = "none"
    BY <1>3 DEF DeleteAll, node
  <2> QED BY <1>1, <2>1, KeepsFewer, QuietStep
<1>4. CASE SendEnd
  <2>1. /\ UNCHANGED history
        /\ \A t \in Txs : (rows'[t] = "mined" => rows[t] = "mined") /\ (rows'[t] = "none" => rows[t] = "none")
    BY <1>4 DEF SendEnd, node, TypeInv, RowsOK
  <2> QED BY <1>1, <2>1, KeepsFewer, QuietStep
<1>5. CASE Receive
  <2>1. NextTx \in Txs \ Mined /\ NextTx \notin pool
    BY <1>5, NextTxFresh DEF Receive, Fresh
  <2>2. PICK x : x = NextTx
    OBVIOUS
  <2>3. x \in Txs \ Mined /\ history' = Append(history, x) /\ pool' \subseteq pool \ {x} /\ UNCHANGED rows
    BY <1>5, <2>1, <2>2 DEF Receive
  <2> QED BY <1>1, <2>3, KeepsGrown, QuietStep
<1>6. ASSUME NEW t \in pool, Mine(t) PROVE HoleInv'
  <2>1. t \in Txs \ Mined /\ history' = Append(history, t) /\ pool' \subseteq pool \ {t} /\ UNCHANGED rows
    BY <1>6 DEF TypeInv, HistoryOK, Mine
  <2> QED BY <1>1, <2>1, KeepsGrown, QuietStep
<1> QED BY <1>2, <1>3, <1>4, <1>5, <1>6

LEMMA HoleStep == TypeInv /\ HoleInv /\ [Next]_vars => HoleInv'
<1> SUFFICES ASSUME TypeInv, HoleInv, [Next]_vars PROVE HoleInv'
  OBVIOUS
<1>1. ASSUME NEW k \in Tasks, LoadMore(k) \/ Refresh(k) \/ Open(k) PROVE HoleInv'
  BY <1>1, QueueHole
<1>2. ASSUME NEW k \in Tasks, Run(k) PROVE HoleInv'
  BY <1>2, RunHole
<1>3. ASSUME NEW k \in Tasks, Answered(k) PROVE HoleInv'
  BY <1>3, AnsweredHole
<1>4. ASSUME NEW k \in Tasks, StorePage(k) PROVE HoleInv'
  BY <1>4, StorePageHole
<1>5. ASSUME NEW k \in Tasks, CacheRows(k) PROVE HoleInv'
  BY <1>5, CacheRowsHole
<1>6. ASSUME NEW k \in Tasks, UpdateList(k) PROVE HoleInv'
  BY <1>6, UpdateListHole
<1>7. ASSUME NEW k \in Tasks, Failed(k) PROVE HoleInv'
  BY <1>7, FailedHole
<1>8. ASSUME NEW k \in Tasks, SetLoading(k) PROVE HoleInv'
  BY <1>8, SetLoadingHole
<1>9. CASE Restart
  BY <1>9, RestartHole
<1> QED BY <1>1, <1>2, <1>3, <1>4, <1>5, <1>6, <1>7, <1>8, <1>9, QuietHole DEF Next

LEMMA InitHole == Init => HoleInv
<1> SUFFICES ASSUME Init PROVE HoleInv
  OBVIOUS
<1>1. \A k \in Tasks : task[k].pc = "idle"
  BY DEF Init, Idle
<1>2. Clear(pageNumber, {})
  BY DEF Init, Clear, Mined
<1> QED BY <1>1, <1>2 DEF HoleInv, Lone, Active, Settled, TaskOK

\* Loading more pages leaves no hole: new transactions move the pages while they
\* are read, requests fail, the list is refreshed from page 1 and the table is
\* deleted, and still a mined transaction without a row that is older than one
\* shown comes after the last page loaded, unless loads overlapped or one was
\* killed between storing the page's number and its rows.
THEOREM NoHoleLeft == Spec => []NoHole
<1>1. HoleInv => NoHole
  <2> SUFFICES ASSUME HoleInv, ~disturbed, \A k \in Tasks : task[k].pc \in {"idle", "queued", "flag"},
                      NEW t \in Mined, NEW u \in Mined, rows[t] = "mined", rows[u] = "none", Rank(t) < Rank(u)
               PROVE  Rank(u) > pageNumber * PageSize
    BY DEF NoHole
  <2>1. Clear(pageNumber, {})
    BY DEF HoleInv, Settled
  <2> QED BY <2>1 DEF Clear
<1> QED BY <1>1, InitTypeInv, TypeStep, InitHole, HoleStep, PTL DEF Spec

=============================================================================
