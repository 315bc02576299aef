------------------------------ MODULE LockProofs ------------------------------
(***************************************************************************)
(* Which transactions can wait for each other in a circle, for any number  *)
(* of transactions. No cycle is searched for: the blockers of a            *)
(* transaction that holds something are fewer at each step.                *)
(***************************************************************************)
EXTENDS RowLocks, SequenceTheorems, TLAPS

-----------------------------------------------------------------------------
(* The invariant *)

\* A transaction takes the locks of one way through its method.
OnItsPath(p) ==
    \/ tx[p] = NoTransaction
    \/ /\ tx[p].name \in Traffic /\ tx[p].locks \in Paths(tx[p].name)
       /\ tx[p] = [name |-> tx[p].name, locks |-> tx[p].locks, held |-> tx[p].held]
       /\ tx[p].held \in Nat

\* Two transactions hold no locks that conflict, whatever they still ask for.
Compatible(p, q) == \A l \in Held(p), m \in Held(q) : ~Conflict(l, m)

LockInv ==
    /\ tx = [p \in Transactions |-> tx[p]]
    /\ \A p \in Transactions : OnItsPath(p)
    /\ \A p, q \in Transactions : p # q => Compatible(p, q) /\ Together(tx[p].name, tx[q].name)

LEMMA ConflictIsMutual ==
    ASSUME NEW l, NEW m, Conflict(l, m)
    PROVE  Conflict(m, l)
  BY DEF Conflict

\* Of two locks of one row only key shares go together, and a key share with a
\* change that keeps the key.
LEMMA ChangesConflict ==
    ASSUME NEW a \in {"update", "no key update"}, NEW b \in {"update", "no key update"}
    PROVE  {a, b} \in {{"update"}, {"update", "key share"}, {"update", "no key update"},
                      {"no key update"}}
  <1>1. CASE a = b
    <2>1. {a, b} = {a}
      BY <1>1
    <2> QED
      BY <2>1
  <1>2. CASE a # b
    <2>1. CASE a = "update" /\ b = "no key update"
      BY <2>1
    <2>2. CASE a = "no key update" /\ b = "update"
      <3>1. {a, b} = {b, a}
        OBVIOUS
      <3> QED
        BY <2>2, <3>1
    <2> QED
      BY <1>2, <2>1, <2>2
  <1> QED
    BY <1>1, <1>2

LEMMA TogetherIsMutual ==
    ASSUME NEW a, NEW b, Together(a, b)
    PROVE  Together(b, a)
  <1>1. {a, b} = {b, a}
    OBVIOUS
  <1> QED
    BY <1>1 DEF Together

\* Whoever did not move holds what it held.
LEMMA HeldStays ==
    ASSUME NEW p, tx'[p] = tx[p]
    PROVE  Held(p)' = Held(p)
  BY DEF Held

\* Of a step only one transaction is new, and it agrees with those that stay.
LEMMA OneMoves ==
    ASSUME LockInv, NEW p \in Transactions,
           \A q \in Transactions \ {p} : tx'[q] = tx[q],
           tx' = [q \in Transactions |-> tx'[q]],
           OnItsPath(p)',
           \A q \in Transactions \ {p} :
               Compatible(p, q)' /\ Together(tx'[p].name, tx[q].name)
    PROVE  LockInv'
  <1>1. \A q \in Transactions \ {p} : Held(q)' = Held(q)
    BY HeldStays
  <1>2. ASSUME NEW q \in Transactions
        PROVE  OnItsPath(q)'
    <2>1. CASE q = p
      BY <2>1
    <2>2. CASE q # p
      BY <2>2 DEF LockInv, OnItsPath, NoTransaction
    <2> QED
      BY <2>1, <2>2
  <1>3. ASSUME NEW q \in Transactions, NEW r \in Transactions, q # r
        PROVE  (Compatible(q, r) /\ Together(tx[q].name, tx[r].name))'
    <2>1. CASE q = p
      BY <1>3, <2>1
    <2>2. CASE r = p
      <3>1. Compatible(p, q)' /\ Together(tx'[p].name, tx[q].name)
        BY <1>3, <2>2
      <3>2. tx'[q] = tx[q]
        BY <1>3, <2>2
      <3>3. Compatible(q, p)'
        BY <3>1, ConflictIsMutual DEF Compatible
      <3> QED
        BY <2>2, <3>1, <3>2, <3>3, TogetherIsMutual
    <2>3. CASE q # p /\ r # p
      <3>1. Compatible(q, r) /\ Together(tx[q].name, tx[r].name)
        BY <1>3 DEF LockInv
      <3> QED
        BY <1>1, <2>3, <3>1 DEF Compatible
    <2> QED
      BY <2>1, <2>2, <2>3
  <1> QED
    BY <1>2, <1>3 DEF LockInv

\* Nothing is held before the first lock.
LEMMA NothingHeld ==
    ASSUME NEW p, tx[p].held = 0
    PROVE  Held(p) = {}
  BY DEF Held

LEMMA LockInit == Init => LockInv
  <1> SUFFICES ASSUME Init PROVE LockInv
    OBVIOUS
  <1>1. \A p \in Transactions : tx[p] = NoTransaction /\ Held(p) = {}
    BY NothingHeld DEF Init, NoTransaction
  <1>2. Together("none", "none")
    BY DEF Together
  <1> QED
    BY <1>1, <1>2 DEF LockInv, OnItsPath, Compatible, NoTransaction, Init

\* Whoever begins or ends holds nothing.
LEMMA Emptied ==
    ASSUME LockInv, NEW p \in Transactions, NEW t,
           tx' = [tx EXCEPT ![p] = t], t.held = 0,
           \/ t = NoTransaction
           \/ /\ t.name \in Traffic /\ t.locks \in Paths(t.name)
              /\ t = [name |-> t.name, locks |-> t.locks, held |-> t.held],
           \A q \in Transactions \ {p} : Together(t.name, tx[q].name)
    PROVE  LockInv'
  <1>1. tx'[p] = t /\ \A q \in Transactions \ {p} : tx'[q] = tx[q]
    BY DEF LockInv
  <1>2. tx' = [q \in Transactions |-> tx'[q]]
    BY DEF LockInv
  <1>3. OnItsPath(p)'
    BY <1>1 DEF OnItsPath, NoTransaction
  <1>4. Held(p)' = {}
    BY <1>1 DEF Held
  <1> QED
    BY <1>1, <1>2, <1>3, <1>4, OneMoves DEF Compatible

LEMMA LockStep == LockInv /\ [Next]_tx => LockInv'
  <1> SUFFICES ASSUME LockInv, [Next]_tx PROVE LockInv'
    OBVIOUS
  <1>0. \A a : Together("none", a)
    BY DEF Together
  <1>1. CASE UNCHANGED tx
    <2>1. \A p \in Transactions : Held(p)' = Held(p) /\ OnItsPath(p)'
      BY <1>1, HeldStays DEF LockInv, OnItsPath
    <2>2. ASSUME NEW p \in Transactions, NEW q \in Transactions, p # q
          PROVE  (Compatible(p, q) /\ Together(tx[p].name, tx[q].name))'
      BY <1>1, <2>1, <2>2 DEF LockInv, Compatible
    <2>3. (tx = [p \in Transactions |-> tx[p]])'
      BY <1>1 DEF LockInv
    <2> QED
      BY <2>1, <2>2, <2>3 DEF LockInv
  <1>2. ASSUME NEW p \in Transactions, Start(p)  PROVE LockInv'
    <2>1. PICK name \in Traffic : \E locks \in Paths(name) :
              /\ \A q \in Transactions : Together(name, tx[q].name)
              /\ tx' = [tx EXCEPT ![p] = [name |-> name, locks |-> locks, held |-> 0]]
      BY <1>2 DEF Start
    <2>2. PICK locks \in Paths(name) :
              tx' = [tx EXCEPT ![p] = [name |-> name, locks |-> locks, held |-> 0]]
      BY <2>1
    <2> DEFINE t == [name |-> name, locks |-> locks, held |-> 0]
    <2>3. t.name = name /\ t.locks = locks /\ t.held = 0
      OBVIOUS
    <2>4. tx' = [tx EXCEPT ![p] = t]
      BY <2>2
    <2>5. t = [name |-> t.name, locks |-> t.locks, held |-> t.held]
      OBVIOUS
    <2>6. \A q \in Transactions \ {p} : Together(t.name, tx[q].name)
      BY <2>1
    <2> HIDE DEF t
    <2> QED
      BY <2>3, <2>4, <2>5, <2>6, Emptied
  <1>3. ASSUME NEW p \in Transactions, Lock(p)  PROVE LockInv'
    <2>1. tx' = [tx EXCEPT ![p].held = @ + 1] /\ Asks(p) /\ ~Blocked(p)
      BY <1>3 DEF Lock
    <2>2. \A q \in Transactions \ {p} : tx'[q] = tx[q]
      BY <2>1 DEF LockInv
    <2>3. tx' = [q \in Transactions |-> tx'[q]]
      BY <2>1 DEF LockInv
    <2>4. tx[p] # NoTransaction
      BY <2>1 DEF Asks, NoTransaction
    <2>5. /\ tx'[p].name = tx[p].name /\ tx'[p].locks = tx[p].locks
          /\ tx'[p].held = tx[p].held + 1 /\ tx[p].held \in Nat
          /\ tx'[p] = [name |-> tx[p].name, locks |-> tx[p].locks, held |-> tx[p].held + 1]
      BY <2>1, <2>4 DEF LockInv, OnItsPath
    <2>6. OnItsPath(p)'
      BY <2>4, <2>5 DEF LockInv, OnItsPath
    <2>7. Held(p)' = Held(p) \cup {Wanted(p)}
      BY <2>5 DEF Held, Wanted
    <2>8. ASSUME NEW q \in Transactions \ {p}
          PROVE  Compatible(p, q)' /\ Together(tx'[p].name, tx[q].name)
      <3>1. Held(q)' = Held(q)
        BY <2>2, HeldStays
      <3>2. ~Blocks(q, p)
        BY <2>1 DEF Blocked
      <3>3. \A m \in Held(q) : ~Conflict(Wanted(p), m)
        BY <2>1, <3>2, ConflictIsMutual DEF Blocks
      <3>4. Compatible(p, q)'
        BY <2>7, <3>1, <3>3 DEF LockInv, Compatible
      <3> QED
        BY <2>5, <3>4 DEF LockInv
    <2> QED
      BY <2>2, <2>3, <2>6, <2>8, OneMoves
  <1>4. ASSUME NEW p \in Transactions, End(p) \/ Victim(p)  PROVE LockInv'
    BY <1>0, <1>4, Emptied DEF End, Victim, NoTransaction
  <1> QED
    BY <1>1, <1>2, <1>3, <1>4 DEF Next

LEMMA LocksAreCompatible == Spec => []LockInv
  BY LockInit, LockStep, PTL DEF Spec

\* Who blocks another holds a lock, and who waits asks for one more.
LEMMA BlockersHold ==
    ASSUME LockInv, NEW p \in Transactions, NEW q \in Transactions, Blocks(q, p)
    PROVE  /\ p # q /\ tx[q].held \in Nat \ {0} /\ tx[q] # NoTransaction
           /\ \E l \in Held(q) : Conflict(l, Wanted(p))
  <1>1. p # q /\ \E l \in Held(q) : Conflict(l, Wanted(p))
    BY DEF Blocks
  <1>2. \E i \in 1 .. tx[q].held : TRUE
    BY <1>1 DEF Held
  <1>3. tx[q] # NoTransaction
    BY <1>2 DEF NoTransaction
  <1> QED
    BY <1>1, <1>2, <1>3 DEF LockInv, OnItsPath

LEMMA WaitersAsk ==
    ASSUME LockInv, NEW p \in Transactions, Waits(p)
    PROVE  /\ tx[p] # NoTransaction
           /\ tx[p].name \in Traffic /\ tx[p].locks \in Paths(tx[p].name)
           /\ tx[p].held \in Nat /\ tx[p].held < Len(tx[p].locks)
           /\ Wanted(p).waits
  <1>1. Asks(p) /\ Wanted(p).waits
    BY DEF Waits, Blocked, Blocks
  <1>2. tx[p] # NoTransaction
    BY <1>1 DEF Asks, NoTransaction
  <1> QED
    BY <1>1, <1>2 DEF LockInv, OnItsPath, Asks

-----------------------------------------------------------------------------
(* Documents *)

\* The transactions that take a lock and then ask for another, drafts and
\* reviews aside, begin with a lock of the document no other of them can share.
LEMMA DocumentFirst ==
    ASSUME NEW name \in DOMAIN Documents \ {"edit_in_place", "review"},
           NEW locks \in Paths(name), Len(locks) > 1
    PROVE  locks[1] \in {Own("document"), Update("document")}
  <1>1. Paths(name) = Documents[name]
    BY DEF Paths
  <1>2. CASE name \in {"claim", "sweep", "discard", "give_back"}
    <2>1. locks \in {<<SkipLocked("job")>>, <<SkipLocked("staged")>>, <<Own("staged")>>,
                      <<Own("job")>>}
      BY <1>1, <1>2 DEF Documents, Claim, Sweep, Discard, GiveBack
    <2>2. \A l : Len(<<l>>) = 1
      OBVIOUS
    <2> QED
      BY <2>1, <2>2
  <1>3. CASE name \in {"edit_copy", "publish", "change", "delete"}
    BY <1>1, <1>3 DEF Documents, EditCopy, Publish, Change, MarkDeleted
  <1>4. CASE name \in {"cleanup", "parse", "index"}
    BY <1>1, <1>4 DEF Documents, RunCleanup, CommitParse, CommitIndex
  <1> QED
    BY <1>2, <1>3, <1>4 DEF Documents

\* Two transactions that begin with the document do not both hold it.
LEMMA OneHoldsTheDocument ==
    ASSUME NEW l \in {Own("document"), Update("document")},
           NEW m \in {Own("document"), Update("document")}
    PROVE  Conflict(l, m)
  <1>1. /\ Own("document").row = "document" /\ Update("document").row = "document"
        /\ Own("document").mode = "update" /\ Update("document").mode = "no key update"
    BY DEF Own, Update
  <1>2. l.row = "document" /\ m.row = "document"
    BY <1>1
  <1>3. l.mode \in {"update", "no key update"} /\ m.mode \in {"update", "no key update"}
    BY <1>1
  <1> QED
    BY <1>2, <1>3, ChangesConflict DEF Conflict

\* Two of a circle would both hold the document.
LEMMA WorkersMakeNoCircle ==
    ASSUME Traffic \subseteq DOMAIN Documents, LockInv
    PROVE  DocumentsFlow
  <1> SUFFICES ASSUME NEW ps \in SUBSET Transactions, Cycle(ps),
                      \A p \in ps : tx[p].name \notin {"edit_in_place", "review"}
               PROVE  FALSE
    BY DEF DocumentsFlow, CyclesNeed
  <1>1. ASSUME NEW q \in ps, NEW p \in ps, Blocks(q, p)
        PROVE  \E l \in Held(q) : l \in {Own("document"), Update("document")}
    <2>1. tx[q].held \in Nat \ {0}
      BY <1>1, BlockersHold
    <2>2. /\ tx[q].name \in Traffic /\ tx[q].locks \in Paths(tx[q].name)
          /\ tx[q].held < Len(tx[q].locks)
      BY WaitersAsk DEF Cycle
    <2>3. tx[q].locks[1] \in {Own("document"), Update("document")}
      <3>1. Len(tx[q].locks) > 1
        BY <2>1, <2>2
      <3> QED
        BY <2>2, <3>1, DocumentFirst
    <2>4. tx[q].locks[1] \in Held(q)
      BY <2>1 DEF Held
    <2> QED
      BY <2>3, <2>4
  <1>2. PICK p \in ps : TRUE
    BY DEF Cycle
  <1>3. PICK q \in ps : Blocks(q, p)
    BY DEF Cycle
  <1>4. PICK r \in ps : Blocks(r, q)
    BY DEF Cycle
  <1>5. q # r
    BY <1>4 DEF Blocks
  <1>6. PICK l \in Held(q), m \in Held(r) : Conflict(l, m)
    BY <1>1, <1>3, <1>4, OneHoldsTheDocument
  <1> QED
    BY <1>5, <1>6 DEF LockInv, Compatible

\* In every circle of waiting transactions of documents there is an edit of a waiting
\* draft or a review, however many run at once: claim, commit, publication, deletion
\* and cleanup of workers and teachers make none of their own. With an edit or a
\* review in it a circle does occur (_postpone_index against _locked).
THEOREM DocumentCirclesHoldAnEdit ==
    ASSUME Traffic \subseteq DOMAIN Documents
    PROVE  Spec => []DocumentsFlow
  BY WorkersMakeNoCircle, LocksAreCompatible, PTL

\* A claim and the sweep ask for one lock, and skip it.
LEMMA ClaimsSkip ==
    ASSUME LockInv
    PROVE  ClaimsNeverWait
  <1> SUFFICES ASSUME NEW p \in Transactions, Waits(p), tx[p].name \in {"claim", "sweep"}
               PROVE  FALSE
    BY DEF ClaimsNeverWait
  <1>1. /\ tx[p].locks \in Paths(tx[p].name)
        /\ tx[p].held \in Nat /\ tx[p].held < Len(tx[p].locks)
        /\ tx[p].locks[tx[p].held + 1].waits
    BY WaitersAsk DEF Wanted
  <1>2. tx[p].locks \in {<<SkipLocked("job")>>, <<SkipLocked("staged")>>}
    BY <1>1 DEF Paths, Documents, Claim, Sweep
  <1>3. ~SkipLocked("job").waits /\ ~SkipLocked("staged").waits
    BY DEF SkipLocked, Own
  <1>4. tx[p].held = 0
    BY <1>1, <1>2
  <1>5. ~tx[p].locks[1].waits
    BY <1>2, <1>3
  <1> QED
    BY <1>1, <1>4, <1>5

\* A claim takes the jobs nobody holds and the sweep the files nobody uploads
\* (SKIP LOCKED): whatever else runs, neither ever waits.
THEOREM ClaimsNeverWaitForAnyone == Spec => []ClaimsNeverWait
  BY ClaimsSkip, LocksAreCompatible, PTL

-----------------------------------------------------------------------------
(* Chats *)

\* Of the ways of a chat: which lock comes first, and what a transaction that
\* holds it asks for.
LEMMA ReserveWay ==
    ASSUME NEW locks \in Paths("reserve")
    PROVE  /\ Len(locks) = 4 /\ locks[1] = Own("user")
           /\ \A i \in 2 .. 4 : locks[i].row \in {"user", "run"}
  <1>1. locks = <<Own("user"), Own("run"), Key("user"), Key("run")>>
    BY DEF Paths, Documents, Conversations, Reserve
  <1>2. /\ Own("run").row = "run" /\ Key("user").row = "user" /\ Key("run").row = "run"
    BY DEF Own, Key
  <1> QED
    BY <1>1, <1>2

LEMMA SettleWay ==
    ASSUME NEW locks \in Paths("settle")
    PROVE  /\ Len(locks) = 5 /\ locks[1] = Own("user")
           /\ \A i \in 2 .. 5 : locks[i].row \in {"user", "run", "reservation", "usage"}
  <1>1. PICK day \in {Key("user"), Own("usage")} :
            locks = <<Own("user"), Own("reservation"), Key("run"), day, Own("run")>>
    BY DEF Paths, Documents, Conversations, Settle
  <1>2. /\ Own("reservation").row = "reservation" /\ Key("run").row = "run"
        /\ Own("run").row = "run" /\ Key("user").row = "user" /\ Own("usage").row = "usage"
    BY DEF Own, Key
  <1> QED
    BY <1>1, <1>2

LEMMA BeginWay ==
    ASSUME NEW locks \in Paths("begin")
    PROVE  /\ Len(locks) = 5 /\ locks[1] = Own("session") /\ locks[2] = Own("user")
           /\ \A i \in 2 .. 5 : locks[i].row \in {"session", "user", "usage"}
  <1>1. PICK day \in {Key("user"), Own("usage")} :
            locks = <<Own("session"), Own("user")>> \o <<>> \o <<Key("session"), Key("user"), day>>
    BY DEF Paths, Documents, Conversations, BeginRun
  <1> DEFINE first == <<Own("session"), Own("user")>>
             next  == <<Key("session"), Key("user"), day>>
             rows  == {Own("session"), Own("user"), Key("session"), Key("user"), day}
  <1>2. first \in Seq(rows) /\ next \in Seq(rows) /\ Len(first) = 2 /\ Len(next) = 3
    OBVIOUS
  <1>3. locks = first \o next
    <2>1. first \o <<>> = first
      BY <1>2, ConcatEmptySeq
    <2> QED
      BY <1>1, <2>1
  <1>4. /\ Len(locks) = 5
        /\ locks[1] = first[1] /\ locks[2] = first[2]
        /\ locks[3] = next[1] /\ locks[4] = next[2] /\ locks[5] = next[3]
    <2> HIDE DEF first, next, rows
    <2>1. /\ Len(locks) = Len(first) + Len(next)
          /\ \A i \in 1 .. Len(first) + Len(next) :
                 locks[i] = IF i <= Len(first) THEN first[i] ELSE next[i - Len(first)]
      BY <1>2, <1>3, ConcatProperties
    <2>2. Len(locks) = 5 /\ \A i \in 1 .. 5 : locks[i] = IF i <= 2 THEN first[i] ELSE next[i - 2]
      BY <1>2, <2>1
    <2> QED
      BY <2>2
  <1>5. /\ Own("user").row = "user" /\ Key("session").row = "session"
        /\ Key("user").row = "user" /\ Own("usage").row = "usage"
    BY DEF Own, Key
  <1> QED
    BY <1>4, <1>5

LEMMA FinishWay ==
    ASSUME NEW locks \in Paths("finish")
    PROVE  /\ Len(locks) = 2 /\ locks[1].row = "run" /\ locks[2].row = "session"
  <1>1. locks = <<Own("run"), Key("session")>>
    BY DEF Paths, Documents, Conversations, Finish
  <1>2. Own("run").row = "run" /\ Key("session").row = "session"
    BY DEF Own, Key
  <1> QED
    BY <1>1, <1>2

LEMMA ShortWays ==
    ASSUME NEW name \in {"close", "refill", "rate", "rename"}, NEW locks \in Paths(name)
    PROVE  Len(locks) = 1
  <1>1. locks \in {<<Own("run")>>, <<Key("user")>>, <<Update("message")>>, <<Update("session")>>}
    BY DEF Paths, Documents, Conversations, Close, Refill, Rate, Rename
  <1>2. \A l : Len(<<l>>) = 1
    OBVIOUS
  <1> QED
    BY <1>1, <1>2

\* Two transactions of one user do not both have the user's row, nor two
\* questions of one conversation the session.
LEMMA OneOwns ==
    ASSUME LockInv, NEW p \in Transactions, NEW q \in Transactions, NEW row,
           Own(row) \in Held(p), Own(row) \in Held(q)
    PROVE  p = q
  <1>1. Conflict(Own(row), Own(row))
    <2>1. {"update", "update"} = {"update"}
      OBVIOUS
    <2> QED
      BY <2>1 DEF Conflict, Own
  <1> QED
    BY <1>1 DEF LockInv, Compatible

\* q waits, and it holds what p waits for.
Delays(q, p) == Waits(p) /\ Waits(q) /\ Blocks(q, p)

\* Neither of the two that a cycle of chats may need.
Common(p) == tx[p].name \in DOMAIN Conversations \ {"purge", "begin_over"}

Books(p) == tx[p].held > 0 /\ tx[p].name \in {"reserve", "settle"}
Begins(p) == tx[p].held > 0 /\ tx[p].name = "begin"
Finishes(p) == tx[p].held > 0 /\ tx[p].name = "finish"

LEMMA HolderWaits ==
    ASSUME LockInv, NEW p \in Transactions, NEW q \in Transactions, Delays(q, p), Common(q)
    PROVE  Books(q) \/ Begins(q) \/ Finishes(q)
  <1>1. tx[q].held \in Nat \ {0}
    BY BlockersHold DEF Delays
  <1>2. tx[q].locks \in Paths(tx[q].name) /\ tx[q].held < Len(tx[q].locks)
    BY WaitersAsk DEF Delays
  <1>3. tx[q].name \notin {"close", "refill", "rate", "rename"}
    <2> SUFFICES ASSUME tx[q].name \in {"close", "refill", "rate", "rename"} PROVE FALSE
      OBVIOUS
    <2>1. Len(tx[q].locks) = 1
      BY <1>2, ShortWays
    <2> QED
      BY <1>1, <1>2, <2>1
  <1>4. DOMAIN Conversations = {"reserve", "settle", "begin", "begin_over", "close", "finish",
                                "refill", "rate", "rename", "purge"}
    BY DEF Conversations
  <1> QED
    BY <1>1, <1>3, <1>4 DEF Common, Books, Begins, Finishes

LEMMA BooksHoldTheUser ==
    ASSUME LockInv, NEW p \in Transactions, Waits(p), Books(p)
    PROVE  /\ Own("user") \in Held(p)
           /\ Wanted(p).row \in {"user", "run", "reservation", "usage"}
  <1>1. /\ tx[p].locks \in Paths(tx[p].name) /\ tx[p].held < Len(tx[p].locks)
        /\ tx[p].held \in Nat /\ tx[p].held > 0
    BY WaitersAsk DEF Books
  <1>2. tx[p].locks[1] = Own("user")
    BY <1>1, ReserveWay, SettleWay DEF Books
  <1>3. tx[p].locks[1] \in Held(p)
    BY <1>1 DEF Held
  <1>4. CASE tx[p].name = "reserve"
    <2>1. Len(tx[p].locks) = 4
      BY <1>1, <1>4, ReserveWay
    <2>2. tx[p].held + 1 \in 2 .. 4
      BY <1>1, <2>1
    <2> QED
      BY <1>1, <1>2, <1>3, <1>4, <2>2, ReserveWay DEF Wanted
  <1>5. CASE tx[p].name = "settle"
    <2>1. Len(tx[p].locks) = 5
      BY <1>1, <1>5, SettleWay
    <2>2. tx[p].held + 1 \in 2 .. 5
      BY <1>1, <2>1
    <2> QED
      BY <1>1, <1>2, <1>3, <1>5, <2>2, SettleWay DEF Wanted
  <1> QED
    BY <1>4, <1>5 DEF Books

LEMMA BeginHoldsTheSession ==
    ASSUME LockInv, NEW p \in Transactions, Waits(p), Begins(p)
    PROVE  /\ Own("session") \in Held(p)
           /\ Wanted(p).row \in {"session", "user", "usage"}
           /\ \/ Own("user") \in Held(p)
              \/ \A l \in Held(p) : l.row = "session"
  <1>1. /\ tx[p].locks \in Paths("begin") /\ tx[p].held < Len(tx[p].locks)
        /\ tx[p].held \in Nat /\ tx[p].held > 0
    BY WaitersAsk DEF Begins
  <1>2. tx[p].held + 1 \in 2 .. 5
    <2>1. Len(tx[p].locks) = 5
      BY <1>1, BeginWay
    <2> QED
      BY <1>1, <2>1
  <1>3. Own("session") \in Held(p)
    BY <1>1, BeginWay DEF Held
  <1>4. Wanted(p).row \in {"session", "user", "usage"}
    BY <1>1, <1>2, BeginWay DEF Wanted
  <1>5. CASE tx[p].held = 1
    <2>1. Own("session").row = "session"
      BY DEF Own
    <2> QED
      BY <1>1, <1>3, <1>4, <1>5, <2>1, BeginWay DEF Held
  <1>6. CASE tx[p].held > 1
    <2>1. 2 \in 1 .. tx[p].held
      BY <1>1, <1>6
    <2> QED
      BY <1>1, <1>3, <1>4, <2>1, BeginWay DEF Held
  <1> QED
    BY <1>1, <1>5, <1>6

LEMMA FinishHoldsTheRun ==
    ASSUME LockInv, NEW p \in Transactions, Waits(p), Finishes(p)
    PROVE  Wanted(p).row = "session" /\ \A l \in Held(p) : l.row = "run"
  <1>1. /\ tx[p].locks \in Paths("finish") /\ tx[p].held < Len(tx[p].locks)
        /\ tx[p].held \in Nat /\ tx[p].held > 0
    BY WaitersAsk DEF Finishes
  <1>2. tx[p].held = 1
    <2>1. Len(tx[p].locks) = 2
      BY <1>1, FinishWay
    <2> QED
      BY <1>1, <2>1
  <1> QED
    BY <1>1, <1>2, FinishWay DEF Held, Wanted

\* A call that is reserved or settled waits only for transactions that do not
\* wait: all that ask for more after the run have the user first.
LEMMA BooksWaitForNone ==
    ASSUME LockInv, NEW p \in Transactions, NEW q \in Transactions, Delays(q, p), Common(q),
           Books(p)
    PROVE  FALSE
  <1>1. p # q /\ \E l \in Held(q) : l.row = Wanted(p).row
    BY BlockersHold DEF Delays, Conflict
  <1>2. Own("user") \in Held(p) /\ Wanted(p).row \in {"user", "run", "reservation", "usage"}
    BY BooksHoldTheUser DEF Delays
  <1>3. CASE Books(q)
    BY <1>1, <1>2, <1>3, BooksHoldTheUser, OneOwns DEF Delays
  <1>4. CASE Begins(q)
    BY <1>1, <1>2, <1>4, BeginHoldsTheSession, OneOwns DEF Delays
  <1>5. CASE Finishes(q)
    <2>1. Together(tx[p].name, tx[q].name)
      BY <1>1 DEF LockInv
    <2>2. {tx[p].name, tx[q].name} \in {{"finish", "reserve"}, {"finish", "settle"}}
      BY <1>5 DEF Books, Finishes
    <2> QED
      BY <2>1, <2>2 DEF Together
  <1> QED
    BY <1>3, <1>4, <1>5, HolderWaits

\* A question waits only for the calls of its user.
LEMMA BeginWaitsForBooks ==
    ASSUME LockInv, NEW p \in Transactions, NEW q \in Transactions, Delays(q, p), Common(q),
           Begins(p)
    PROVE  Books(q)
  <1>1. p # q /\ \E l \in Held(q) : l.row = Wanted(p).row
    BY BlockersHold DEF Delays, Conflict
  <1>2. Own("session") \in Held(p) /\ Wanted(p).row \in {"session", "user", "usage"}
    BY BeginHoldsTheSession DEF Delays
  <1>3. ~Begins(q)
    BY <1>1, <1>2, BeginHoldsTheSession, OneOwns DEF Delays
  <1>4. ~Finishes(q)
    BY <1>1, <1>2, FinishHoldsTheRun DEF Delays
  <1> QED
    BY <1>3, <1>4, HolderWaits

\* The end of a run waits for no other end.
LEMMA EndsDoNotMeet ==
    ASSUME LockInv, NEW p \in Transactions, NEW q \in Transactions, Delays(q, p), Common(q),
           Finishes(p)
    PROVE  Books(q) \/ Begins(q)
  <1>1. \E l \in Held(q) : l.row = Wanted(p).row
    BY BlockersHold DEF Delays, Conflict
  <1>2. ~Finishes(q)
    BY <1>1, FinishHoldsTheRun DEF Delays
  <1> QED
    BY <1>2, HolderWaits

\* Books, questions and ends of runs, in turn, are not in the circle.
LEMMA ChatsMakeNoCircle ==
    ASSUME Traffic \subseteq DOMAIN Conversations, LockInv
    PROVE  ChatsFlow
  <1> SUFFICES ASSUME NEW ps \in SUBSET Transactions, Cycle(ps),
                      \A p \in ps : tx[p].name \notin {"purge", "begin_over"}
               PROVE  FALSE
    BY DEF ChatsFlow, CyclesNeed
  <1>1. \A p \in ps : p \in Transactions /\ Common(p) /\ \E q \in ps : Delays(q, p)
    BY WaitersAsk DEF Cycle, Common, Delays
  <1>2. \A p \in ps : ~Books(p)
    BY <1>1, BooksWaitForNone
  <1>3. \A p \in ps : ~Begins(p)
    BY <1>1, <1>2, BeginWaitsForBooks
  <1>4. \A p \in ps : ~Finishes(p)
    BY <1>1, <1>2, <1>3, EndsDoNotMeet
  <1>5. PICK p \in ps : TRUE
    BY DEF Cycle
  <1> QED
    BY <1>1, <1>2, <1>3, <1>4, <1>5, HolderWaits

\* In every circle of waiting transactions of chats there is an admin's purge or a
\* question that closes a lost run, however many run at once: questions,
\* reservations, settlements, cancellations, ends of runs and grants make none of
\* their own. With a purge or such a question in it a circle does occur. (reserve and settle take the user's row before the run, begin_run the session
\* before the user's row, and nobody goes on from a run to one of them but
\* finish_run, which the calls of its run never meet.)
THEOREM ChatCirclesHoldAPurge ==
    ASSUME Traffic \subseteq DOMAIN Conversations
    PROVE  Spec => []ChatsFlow
  BY ChatsMakeNoCircle, LocksAreCompatible, PTL
=============================================================================
