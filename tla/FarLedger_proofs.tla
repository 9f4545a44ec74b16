--------------------------- MODULE FarLedger_proofs ---------------------------
(***************************************************************************)
(* Theorems about FarLedger, for any workers, updaters, streams, windows   *)
(* and faults: its types, that every row keeps the background frozen for   *)
(* its time, and that a trigger's row is the same wherever and whenever it *)
(* is published.  Where no two updates can contend for the lock of one     *)
(* that was killed, also that the product has nothing that the ledgers do  *)
(* not have.                                                               *)
(***************************************************************************)
EXTENDS FarLedger, TLAPS

\* What an update is about to write is frozen, too.
WritesFrozen ==
  \A p \in Updaters : pc[p] = "write" =>
    \A r \in output_rows[p] : Frozen(WorkerOf[p], r)

FrozenInv == TypeOK /\ BackgroundFrozen /\ WritesFrozen

\* No two updates contend for the lock of a killed one: an update that may be killed
\* is the only one of its worker, or it runs once, by hand, beside one other.
FewContend ==
  \A c \in Crashing : \A p, q \in Updaters \ {c} :
    WorkerOf[p] = WorkerOf[c] /\ WorkerOf[q] = WorkerOf[c] => p = q /\ c \notin Loops

\* Where an update has its worker's lock.
Locked == {"assign", "write", "merge lock", "merge take over", "merge read", "merge",
           "merge unlock", "unlock"}

\* A killed update left its lock.
Stale(w) == lock[w] # None /\ ~lock[w].alive

\* A worker's lock is that of the update which works under it.
LockHeld == \A p \in Updaters : pc[p] \in Locked => lock[WorkerOf[p]] = Lock(p)

\* What is taken over is stale until it has been.
TakesOverStale == \A p \in Updaters : pc[p] = "take over" => Stale(WorkerOf[p])

\* A lock is that of an update of the worker.
LockOfWorker == \A w \in Workers : lock[w] # None => WorkerOf[lock[w].by] = w

\* Whoever left a stale lock has ended, unless it is alone.
StaleOfEnded ==
  \A w \in Workers : Stale(w) =>
    /\ lock[w].by \in Crashing
    /\ \A q \in Updaters : WorkerOf[q] = w /\ q # lock[w].by => pc[lock[w].by] = "ended"

LockInv == LockHeld /\ TakesOverStale /\ LockOfWorker /\ StaleOfEnded

\* An update by hand is the last of its process.
HandEnds ==
  /\ saw \in [Updaters -> {None} \union (0..MaxTime) \X (0..MaxTime) \X BOOLEAN]
  /\ \A p \in Updaters \ Loops : pc[p] \notin {"idle", "ended"} => IsLast(p)

\* So no other update writes the ledger between its reading and its writing.
WritesMore ==
  \A p \in Updaters : pc[p] = "write" => ledger[WorkerOf[p]] \subseteq output_rows[p]

\* A merge has only read rows of ledgers.
MergesFromLedgers ==
  \A p \in Updaters : pc[p] = "merge" =>
    output_rows[p] \subseteq UNION {ledger[w] : w \in Workers}

LedgerInv ==
  /\ TypeOK /\ LockInv /\ HandEnds
  /\ WritesMore /\ MergesFromLedgers /\ ProductFromLedgers

-----------------------------------------------------------------------------
(* Facts about the operators.                                              *)

\* The constants' types.
LEMMA Constants ==
  /\ WorkerOf \in [Updaters -> Workers] /\ Loops \subseteq Updaters
  /\ \A w \in Workers : \A t \in Triggers[w] : t \in Nat
  /\ MaxTime \in Nat /\ Window \in Nat /\ Update \in Nat /\ Window > 0 /\ Update > 0
  /\ Started \in [Workers -> 0..MaxTime]
  /\ None \notin [by : Updaters, alive : BOOLEAN]
<1>1. \A w \in Workers : Triggers[w] \subseteq 0..(MaxTime - 1)
  BY SidecarAssumption
<1>2. \A w \in Workers : \A t \in Triggers[w] : t \in Nat
  BY <1>1
<1> QED
  BY <1>2, SidecarAssumption

\* A lock that is held is not None, and it names who holds it.
LEMMA LockFacts ==
  ASSUME NEW p \in Updaters
  PROVE  /\ Lock(p) \in LockState /\ Lock(p) # None /\ Lock(p).by = p /\ Lock(p).alive
<1>1. Lock(p) \in [by : Updaters, alive : BOOLEAN] /\ Lock(p).by = p /\ Lock(p).alive
  BY DEF Lock
<1> QED
  BY <1>1, Constants DEF LockState

\* The window of a trigger ends at most one update before it.
LEMMA WindowEndBounds ==
  ASSUME NEW t \in Nat
  PROVE  /\ WindowEnd(t) \in Nat /\ WindowEnd(t) <= t /\ t < WindowEnd(t) + Update
         /\ t >= Window => WindowEnd(t) >= Window
<1>1. CASE t < Window
  BY <1>1, Constants DEF WindowEnd
<1>2. CASE ~(t < Window)
  <2> DEFINE a == t - Window
             m == a % Update
  <2>1. a \in Nat
    BY <1>2, Constants
  <2>2. m \in Nat /\ m < Update /\ m <= a
    <3> HIDE DEF a
    <3>1. m \in 0..(Update - 1)
      BY <2>1, Constants
    <3>2. a = Update * (a \div Update) + m /\ a \div Update \in Nat
      BY <2>1, Constants
    <3>3. Update * (a \div Update) \in Nat
      BY <3>2, Constants
    <3> QED
      BY <3>1, <3>2, <3>3, <2>1, Constants
  <2>3. WindowEnd(t) = t - m
    BY <1>2 DEF WindowEnd
  <2>4. a = t - Window
    OBVIOUS
  <2> HIDE DEF a, m
  <2> QED
    BY <1>2, <2>1, <2>2, <2>3, <2>4, Constants
<1> QED
  BY <1>1, <1>2

\* The background that a new row gets is complete: every earlier trigger of the
\* worker is in its stream when the row's own trigger is.
LEMMA NewRowsFrozen ==
  ASSUME TypeOK, NEW w \in Workers, NEW rows, NEW r \in NewRows(w, rows)
  PROVE  r \in Row /\ Frozen(w, r)
<1>1. PICK t \in Unseen(w, rows) :
        /\ r = [worker |-> w, trigger |-> t, end |-> WindowEnd(t),
                bg |-> Background(w, WindowEnd(t))]
        /\ WindowEnd(t) - Start(WindowEnd(t)) >= Window
  BY DEF NewRows
<1>2. t \in Triggers[w] /\ t \in Nat /\ t < told[w] /\ told[w] \in Nat
  <2>1. t \in Triggers[w] /\ t \in Nat /\ t < told[w] /\ told[w] \in 0..MaxTime
    BY Constants DEF Unseen, Features, TypeOK
  <2> QED
    BY <2>1, Constants
<1> DEFINE e == WindowEnd(t)
<1>3. e \in Nat /\ e <= t /\ t < e + Update
  BY <1>2, WindowEndBounds
<1>4. r.worker = w /\ r.trigger = t /\ r.end = e /\ r.bg = Background(w, e)
  BY <1>1
<1>5. e - Start(e) >= Window
  BY <1>1
<1> HIDE DEF e
<1>6. e >= Window /\ Start(e) = e - Window
  BY <1>3, <1>5, Constants DEF Start
<1>7. Background(w, e) = {u \in Triggers[w] : e - Window <= u /\ u < e}
  <2>1. \A u \in Triggers[w] : u \in Nat /\ (u < e => u < told[w])
    BY <1>2, <1>3, Constants
  <2> QED
    BY <2>1, <1>6 DEF Background, Features
<1>8. Background(w, e) \in SUBSET Nat
  BY <1>7, Constants
<1>9. r \in Row
  BY <1>1, <1>2, <1>3, <1>4, <1>8 DEF Row
<1> QED
  BY <1>2, <1>3, <1>4, <1>6, <1>7, <1>9 DEF Frozen

-----------------------------------------------------------------------------
(* Types.                                                                  *)

\* The sidecar starts well typed: no ledger, no lock, nobody running.
LEMMA InitType == Init => TypeOK
  BY Constants DEF Init, TypeOK, LockState

\* What Return does to the variables of an updater.
LEMMA ReturnType ==
  ASSUME TypeOK, NEW p \in Updaters, Return(p)
  PROVE  /\ \/ pc' = [pc EXCEPT ![p] = "ended"] \/ pc' = [pc EXCEPT ![p] = "idle"]
         /\ output_rows' = [output_rows EXCEPT ![p] = {}]
         /\ output_rows' \in [Updaters -> SUBSET Row]
         /\ unread' \in [Updaters -> SUBSET Workers]
  BY DEF Return, Goto, TypeOK

\* The lock an update leaves behind is a state of the lock.
LEMMA DiedType ==
  ASSUME NEW l \in LockState, NEW p \in Updaters
  PROVE  Died(l, p) \in LockState
  BY Constants DEF Died, LockState

\* A time before another is not the last.
LEMMA NextTime ==
  ASSUME NEW n \in 0..MaxTime
  PROVE  /\ n < MaxTime => n + 1 \in 0..MaxTime
         /\ \A m \in 0..MaxTime : n < m => n + 1 \in 0..MaxTime
<1>1. MaxTime \in Nat
  BY Constants
<1> QED
  BY <1>1

\* What a step of a merge reads.
LEMMA MergeReads ==
  ASSUME NEW p \in Updaters, MergeWorker(p)
  PROVE  \E w \in unread[p] : \E new \in SUBSET ledger[w] :
           /\ output_rows' = [output_rows EXCEPT ![p] = @ \union new]
           /\ unread' = [unread EXCEPT ![p] = @ \ {w}]
<1> DEFINE New(w) == {r \in ledger[w] : \A s \in output_rows[p] :
                        <<s.worker, s.trigger>> # <<r.worker, r.trigger>>}
<1>1. PICK w \in unread[p] :
        /\ output_rows' = [output_rows EXCEPT ![p] = @ \union New(w)]
        /\ unread' = [unread EXCEPT ![p] = @ \ {w}]
  BY DEF MergeWorker
<1>2. New(w) \in SUBSET ledger[w]
  OBVIOUS
<1> HIDE DEF New
<1> QED
  BY <1>1, <1>2

\* Every step of submit.sh, the loops and the updates keeps the types.
LEMMA TypeStep == TypeOK /\ [Next]_vars => TypeOK'
<1> SUFFICES ASSUME TypeOK, [Next]_vars PROVE TypeOK'
  OBVIOUS
<1> USE DEF TypeOK, stream, local, locks, Goto
<1>1. ASSUME NEW w \in Workers, WriteChunk(w) PROVE TypeOK'
  <2>1. written[w] \in 0..MaxTime /\ written[w] < MaxTime
    BY <1>1 DEF WriteChunk
  <2>2. written[w] + 1 \in 0..MaxTime
    BY <2>1, NextTime
  <2> QED
    BY <1>1, <2>2 DEF WriteChunk
<1>2. ASSUME NEW w \in Workers, WriteTriggers(w) PROVE TypeOK'
  <2>1. told[w] \in 0..MaxTime /\ written[w] \in 0..MaxTime /\ told[w] < written[w]
    BY <1>2 DEF WriteTriggers
  <2>2. told[w] + 1 \in 0..MaxTime
    BY <2>1, NextTime
  <2> QED
    BY <1>2, <2>2 DEF WriteTriggers
<1>3. CASE Stop
  BY <1>3 DEF Stop
<1>4. ASSUME NEW p \in Updaters, StartUpdate(p) PROVE TypeOK'
  BY <1>4 DEF StartUpdate
<1>5. ASSUME NEW p \in Updaters, AcquireLock(p) PROVE TypeOK'
  <2> DEFINE w == WorkerOf[p]
  <2>1. w \in Workers
    BY Constants
  <2>2. CASE lock' = [lock EXCEPT ![w] = Lock(p)] /\ Goto(p, "assign") /\ UNCHANGED local
    <3>1. lock' \in [Workers -> LockState]
      BY <2>1, <2>2, LockFacts
    <3> QED
      BY <1>5, <2>2, <3>1 DEF AcquireLock
  <2>3. CASE Return(p) /\ UNCHANGED lock
    BY <1>5, <2>3, ReturnType DEF AcquireLock
  <2>4. CASE Goto(p, "take over") /\ UNCHANGED <<lock, local>>
    BY <1>5, <2>4 DEF AcquireLock
  <2> QED
    BY <1>5, <2>2, <2>3, <2>4 DEF AcquireLock
<1>6. ASSUME NEW p \in Updaters, TakeOver(p) PROVE TypeOK'
  BY <1>6, LockFacts, Constants DEF TakeOver
<1>7. ASSUME NEW p \in Updaters, Unlock(p) PROVE TypeOK'
  BY <1>7, ReturnType, Constants DEF Unlock, LockState
<1>8. ASSUME NEW p \in Updaters, Assign(p) PROVE TypeOK'
  <2>1. WorkerOf[p] \in Workers
    BY Constants
  <2>2. ledger[WorkerOf[p]] \union NewRows(WorkerOf[p], ledger[WorkerOf[p]]) \in SUBSET Row
    BY <2>1, NewRowsFrozen
  <2> QED
    BY <1>8, <2>2 DEF Assign
<1>9. ASSUME NEW p \in Updaters, WriteRows(p) PROVE TypeOK'
  BY <1>9, Constants DEF WriteRows
<1>10. ASSUME NEW p \in Updaters, MergeAcquireLock(p) PROVE TypeOK'
  BY <1>10, LockFacts DEF MergeAcquireLock
<1>11. ASSUME NEW p \in Updaters, MergeTakeOver(p) PROVE TypeOK'
  BY <1>11 DEF MergeTakeOver, LockState
<1>12. ASSUME NEW p \in Updaters, MergeReadProduct(p) PROVE TypeOK'
  BY <1>12 DEF MergeReadProduct
<1>13. ASSUME NEW p \in Updaters, MergeWorker(p) PROVE TypeOK'
  <2>1. PICK w \in unread[p] : \E new \in SUBSET ledger[w] :
          /\ output_rows' = [output_rows EXCEPT ![p] = @ \union new]
          /\ unread' = [unread EXCEPT ![p] = @ \ {w}]
    BY <1>13, MergeReads
  <2>2. PICK new \in SUBSET ledger[w] :
          /\ output_rows' = [output_rows EXCEPT ![p] = @ \union new]
          /\ unread' = [unread EXCEPT ![p] = @ \ {w}]
    BY <2>1
  <2>3. UNCHANGED <<stream, pc, locks, ledger, product>>
    BY <1>13 DEF MergeWorker
  <2>4. w \in Workers /\ new \subseteq Row
    BY <2>2
  <2> QED
    BY <2>2, <2>3, <2>4
<1>14. ASSUME NEW p \in Updaters, MergeWrite(p) PROVE TypeOK'
  BY <1>14 DEF MergeWrite
<1>15. ASSUME NEW p \in Updaters, MergeUnlock(p) PROVE TypeOK'
  BY <1>15 DEF MergeUnlock, LockState
<1>16. ASSUME NEW p \in Updaters, Fail(p) PROVE TypeOK'
  BY <1>16 DEF Fail
<1>17. ASSUME NEW p \in Updaters, Crash(p) PROVE TypeOK'
  BY <1>17, ReturnType, DiedType DEF Crash
<1>18. CASE UNCHANGED vars
  BY <1>18 DEF vars
<1> QED
  BY <1>1, <1>2, <1>3, <1>4, <1>5, <1>6, <1>7, <1>8, <1>9, <1>10, <1>11, <1>12,
     <1>13, <1>14, <1>15, <1>16, <1>17, <1>18 DEF Next, UpdateStep, Ended

-----------------------------------------------------------------------------
(* The frozen background.                                                  *)

\* The empty ledgers are frozen.
LEMMA InitFrozen == Init => FrozenInv
<1> SUFFICES ASSUME Init PROVE FrozenInv
  OBVIOUS
<1>1. TypeOK
  BY InitType
<1>2. BackgroundFrozen /\ WritesFrozen
  BY DEF Init, BackgroundFrozen, WritesFrozen
<1> QED
  BY <1>1, <1>2 DEF FrozenInv

\* Most steps change no ledger and let no update begin to write.
LEMMA FrozenKept ==
  ASSUME BackgroundFrozen, WritesFrozen, ledger' = ledger,
         \A q \in Updaters : pc'[q] = "write" =>
           pc[q] = "write" /\ output_rows'[q] = output_rows[q]
  PROVE  BackgroundFrozen' /\ WritesFrozen'
<1>1. BackgroundFrozen'
  BY DEF BackgroundFrozen, Frozen
<1>2. WritesFrozen'
  BY DEF WritesFrozen, Frozen
<1> QED
  BY <1>1, <1>2

\* The steps that are neither an assignment nor a writing of a ledger.
Other(p) ==
  \/ StartUpdate(p) \/ AcquireLock(p) \/ TakeOver(p) \/ Unlock(p)
  \/ MergeAcquireLock(p) \/ MergeTakeOver(p) \/ MergeReadProduct(p)
  \/ MergeWorker(p) \/ MergeWrite(p) \/ MergeUnlock(p) \/ Fail(p) \/ Crash(p)

\* They leave the ledgers alone, and what others are about to write.
LEMMA OtherWritesNothing ==
  ASSUME TypeOK, NEW p \in Updaters, Other(p)
  PROVE  /\ ledger' = ledger
         /\ \A q \in Updaters : pc'[q] = "write" =>
              pc[q] = "write" /\ output_rows'[q] = output_rows[q]
<1>1. ledger' = ledger
  BY DEF Other, StartUpdate, AcquireLock, TakeOver, Unlock, MergeAcquireLock,
     MergeTakeOver, MergeReadProduct, MergeWorker, MergeWrite, MergeUnlock, Fail, Crash
<1>2. pc'[p] # "write"
  <2>1. CASE \/ StartUpdate(p) \/ TakeOver(p) \/ MergeAcquireLock(p) \/ MergeTakeOver(p)
             \/ MergeReadProduct(p) \/ MergeWrite(p) \/ MergeUnlock(p) \/ Fail(p)
    BY <2>1 DEF TypeOK, StartUpdate, TakeOver, MergeAcquireLock, MergeTakeOver,
       MergeReadProduct, MergeWrite, MergeUnlock, Fail, Goto
  <2>2. CASE AcquireLock(p) \/ Unlock(p) \/ Crash(p)
    BY <2>2 DEF TypeOK, AcquireLock, Unlock, Crash, Return, Goto
  <2>3. CASE MergeWorker(p)
    BY <2>3 DEF MergeWorker
  <2> QED
    BY <2>1, <2>2, <2>3 DEF Other
<1>3. \A q \in Updaters \ {p} : pc'[q] = pc[q] /\ output_rows'[q] = output_rows[q]
  <2>1. CASE \/ StartUpdate(p) \/ TakeOver(p) \/ MergeAcquireLock(p) \/ MergeTakeOver(p)
             \/ MergeReadProduct(p) \/ MergeWrite(p) \/ MergeUnlock(p) \/ Fail(p)
    BY <2>1 DEF TypeOK, StartUpdate, TakeOver, MergeAcquireLock, MergeTakeOver,
       MergeReadProduct, MergeWrite, MergeUnlock, Fail, Goto, local
  <2>2. CASE AcquireLock(p) \/ Unlock(p) \/ Crash(p)
    BY <2>2 DEF TypeOK, AcquireLock, Unlock, Crash, Return, Goto, local
  <2>3. CASE MergeWorker(p)
    BY <2>3 DEF TypeOK, MergeWorker
  <2> QED
    BY <2>1, <2>2, <2>3 DEF Other
<1> QED
  BY <1>1, <1>2, <1>3

\* Only new rows are added to those of the ledger.
LEMMA AssignFrozen ==
  ASSUME FrozenInv, NEW p \in Updaters, Assign(p)
  PROVE  BackgroundFrozen' /\ WritesFrozen'
<1> USE DEF FrozenInv
<1> DEFINE w == WorkerOf[p]
           new == NewRows(w, ledger[w])
<1>1. w \in Workers
  BY Constants
<1>2. /\ ledger' = ledger
      /\ \A q \in Updaters \ {p} : pc'[q] = pc[q] /\ output_rows'[q] = output_rows[q]
      /\ pc'[p] = "write" => output_rows'[p] = ledger[w] \union new
  BY DEF Assign, Goto, TypeOK
<1>3. \A r \in ledger[w] \union new : Frozen(w, r)
  BY <1>1, NewRowsFrozen DEF BackgroundFrozen
<1> HIDE DEF new
<1>4. BackgroundFrozen'
  BY <1>2 DEF BackgroundFrozen, Frozen
<1>5. ASSUME NEW q \in Updaters, pc'[q] = "write", NEW r \in output_rows'[q]
      PROVE  Frozen(WorkerOf[q], r)
  <2>1. CASE q = p
    BY <1>2, <1>3, <1>5, <2>1
  <2>2. CASE q # p
    BY <1>2, <1>5, <2>2 DEF WritesFrozen
  <2> QED
    BY <2>1, <2>2
<1>6. WritesFrozen'
  BY <1>5 DEF WritesFrozen, Frozen
<1> QED
  BY <1>4, <1>6

\* What is written is frozen.
LEMMA WriteFrozen ==
  ASSUME FrozenInv, NEW p \in Updaters, WriteRows(p)
  PROVE  BackgroundFrozen' /\ WritesFrozen'
<1> USE DEF FrozenInv
<1>1. /\ pc[p] = "write" /\ pc'[p] # "write"
      /\ \A w \in Workers :
           ledger'[w] = IF w = WorkerOf[p] THEN output_rows[p] ELSE ledger[w]
      /\ \A q \in Updaters \ {p} : pc'[q] = pc[q] /\ output_rows'[q] = output_rows[q]
  BY Constants DEF WriteRows, Goto, TypeOK
<1>2. ASSUME NEW w \in Workers, NEW r \in ledger'[w] PROVE Frozen(w, r)
  BY <1>1, <1>2 DEF BackgroundFrozen, WritesFrozen
<1>3. BackgroundFrozen'
  BY <1>2 DEF BackgroundFrozen, Frozen
<1>4. WritesFrozen'
  BY <1>1 DEF WritesFrozen, Frozen
<1> QED
  BY <1>3, <1>4

\* Every step keeps the ledgers, and what is about to be written, frozen.
LEMMA FrozenStep == FrozenInv /\ [Next]_vars => FrozenInv'
<1> SUFFICES ASSUME FrozenInv, [Next]_vars PROVE FrozenInv'
  OBVIOUS
<1> USE DEF FrozenInv
<1>1. TypeOK'
  BY TypeStep
<1>2. CASE \E p \in Updaters : Other(p)
  BY <1>2, OtherWritesNothing, FrozenKept, <1>1
<1>3. CASE \E p \in Updaters : Assign(p)
  BY <1>3, AssignFrozen, <1>1
<1>4. CASE \E p \in Updaters : WriteRows(p)
  BY <1>4, WriteFrozen, <1>1
<1>5. CASE (\E w \in Workers : WriteChunk(w) \/ WriteTriggers(w)) \/ Stop \/ UNCHANGED vars
  <2>1. UNCHANGED <<pc, output_rows, ledger>>
    BY <1>5 DEF WriteChunk, WriteTriggers, Stop, vars, local
  <2> QED
    BY <2>1, FrozenKept, <1>1
<1> QED
  BY <1>2, <1>3, <1>4, <1>5 DEF Next, UpdateStep, Other, Ended

\* Every reachable state of the sidecar is well typed.
THEOREM TypeCorrect == Spec => []TypeOK
<1>1. Init => TypeOK
  BY InitType
<1>2. TypeOK /\ [Next]_vars => TypeOK'
  BY TypeStep
<1> QED
  BY <1>1, <1>2, PTL DEF Spec

\* assign_frozen_far_ledger.py: every row of a ledger has the background of the
\* complete window before it, whichever updates of the worker run at once, fail or
\* die, and whenever its trigger was seen.
THEOREM BackgroundStaysFrozen == Spec => []BackgroundFrozen
<1>1. FrozenInv => BackgroundFrozen
  BY DEF FrozenInv
<1> QED
  BY InitFrozen, FrozenStep, <1>1, PTL DEF Spec

-----------------------------------------------------------------------------
(* The value of a row.                                                     *)

\* The one row that a trigger of a worker can get.
Assigned(w, t) ==
  [worker |-> w, trigger |-> t, end |-> WindowEnd(t),
   bg |-> {u \in Triggers[w] : WindowEnd(t) - Window <= u /\ u < WindowEnd(t)}]

IsAssigned(r) == r = Assigned(r.worker, r.trigger)

\* Rows are those of triggers, in the ledgers, in the product and in what updates and
\* merges have read or are about to write.
RowsAssigned ==
  /\ \A w \in Workers : \A r \in ledger[w] : IsAssigned(r)
  /\ \A r \in product : IsAssigned(r)
  /\ \A p \in Updaters : \A r \in output_rows[p] : IsAssigned(r)

\* A new row is the one of its trigger, whatever of the stream was visible.
LEMMA NewRowsAssigned ==
  ASSUME TypeOK, NEW w \in Workers, NEW rows, NEW r \in NewRows(w, rows)
  PROVE  IsAssigned(r)
<1>1. PICK t \in Unseen(w, rows) :
        r = [worker |-> w, trigger |-> t, end |-> WindowEnd(t),
             bg |-> Background(w, WindowEnd(t))]
  BY DEF NewRows
<1>2. r.worker = w /\ r.trigger = t /\ r.end = WindowEnd(t)
  BY <1>1
<1>3. r.bg = {u \in Triggers[w] : WindowEnd(t) - Window <= u /\ u < WindowEnd(t)}
  BY <1>2, NewRowsFrozen DEF Frozen
<1> QED
  BY <1>1, <1>2, <1>3 DEF IsAssigned, Assigned

\* A step that publishes nothing and whose updater, if it keeps rows, keeps rows of
\* triggers.
LEMMA RowsKept ==
  ASSUME TypeOK, RowsAssigned, NEW p \in Updaters, NEW rows,
         ledger' = ledger, product' = product,
         output_rows' = [output_rows EXCEPT ![p] = rows],
         \A r \in rows : IsAssigned(r)
  PROVE  RowsAssigned'
<1>1. \A q \in Updaters : output_rows'[q] = IF q = p THEN rows ELSE output_rows[q]
  BY DEF TypeOK
<1> QED
  BY <1>1 DEF RowsAssigned, IsAssigned, Assigned, WindowEnd

\* Every step of an update keeps the rows those of their triggers.
LEMMA RowsUpdate ==
  ASSUME TypeOK, RowsAssigned, NEW p \in Updaters,
         StartUpdate(p) \/ UpdateStep(p) \/ Fail(p) \/ Crash(p)
  PROVE  RowsAssigned'
<1> DEFINE w == WorkerOf[p]
<1>1. w \in Workers
  BY Constants
<1>2. CASE UNCHANGED <<ledger, product, output_rows>>
  BY <1>2 DEF RowsAssigned, IsAssigned, Assigned, WindowEnd
<1>3. CASE Return(p) /\ UNCHANGED <<ledger, product>>
  <2>1. output_rows' = [output_rows EXCEPT ![p] = {}]
    BY <1>3 DEF Return
  <2> QED
    BY <1>3, <2>1, RowsKept
<1>4. CASE Assign(p)
  <2>1. \A r \in ledger[w] \union NewRows(w, ledger[w]) : IsAssigned(r)
    BY <1>1, NewRowsAssigned DEF RowsAssigned
  <2>2. UNCHANGED <<ledger, product>>
    BY <1>4 DEF Assign
  <2>3. CASE output_rows' =
               [output_rows EXCEPT ![p] = ledger[w] \union NewRows(w, ledger[w])]
    BY <2>1, <2>2, <2>3, RowsKept
  <2> QED
    BY <1>2, <1>4, <2>2, <2>3 DEF Assign
<1>5. CASE WriteRows(p)
  <2>1. /\ \A v \in Workers :
             ledger'[v] = IF v = w THEN output_rows[p] ELSE ledger[v]
        /\ product' = product
        /\ \A q \in Updaters : output_rows'[q] = IF q = p THEN {} ELSE output_rows[q]
    BY <1>5 DEF WriteRows, TypeOK
  <2> QED
    BY <2>1 DEF RowsAssigned, IsAssigned, Assigned, WindowEnd
<1>6. CASE MergeReadProduct(p)
  <2>1. /\ output_rows' = [output_rows EXCEPT ![p] = product]
        /\ UNCHANGED <<ledger, product>>
    BY <1>6 DEF MergeReadProduct
  <2> QED
    BY <2>1, RowsKept DEF RowsAssigned
<1>7. CASE MergeWorker(p)
  <2>1. PICK v \in unread[p] : \E new \in SUBSET ledger[v] :
          output_rows' = [output_rows EXCEPT ![p] = @ \union new]
    BY <1>7, MergeReads
  <2>2. PICK new \in SUBSET ledger[v] :
          output_rows' = [output_rows EXCEPT ![p] = output_rows[p] \union new]
    BY <2>1
  <2>3. v \in Workers
    BY DEF TypeOK
  <2>4. \A r \in output_rows[p] \union new : IsAssigned(r)
    BY <2>2, <2>3 DEF RowsAssigned
  <2>5. UNCHANGED <<ledger, product>>
    BY <1>7 DEF MergeWorker
  <2> QED
    BY <2>2, <2>4, <2>5, RowsKept
<1>8. CASE MergeWrite(p)
  <2>1. /\ product' = output_rows[p] /\ ledger' = ledger
        /\ \A q \in Updaters : output_rows'[q] = IF q = p THEN {} ELSE output_rows[q]
    BY <1>8 DEF MergeWrite, TypeOK
  <2> QED
    BY <2>1 DEF RowsAssigned, IsAssigned, Assigned, WindowEnd
<1>9. CASE \/ StartUpdate(p) \/ TakeOver(p) \/ MergeAcquireLock(p) \/ MergeTakeOver(p)
           \/ MergeUnlock(p) \/ Fail(p)
  BY <1>2, <1>9 DEF StartUpdate, TakeOver, MergeAcquireLock, MergeTakeOver, MergeUnlock,
     Fail, local
<1>10. CASE AcquireLock(p)
  BY <1>2, <1>3, <1>10 DEF AcquireLock, local
<1>11. CASE Unlock(p) \/ Crash(p)
  BY <1>3, <1>11 DEF Unlock, Crash
<1> QED
  BY <1>4, <1>5, <1>6, <1>7, <1>8, <1>9, <1>10, <1>11 DEF UpdateStep

\* The types and the rows together are inductive.
LEMMA RowsStep == TypeOK /\ RowsAssigned /\ [Next]_vars => (TypeOK /\ RowsAssigned)'
<1> SUFFICES ASSUME TypeOK, RowsAssigned, [Next]_vars PROVE (TypeOK /\ RowsAssigned)'
  OBVIOUS
<1>1. TypeOK'
  BY TypeStep
<1>2. CASE (\E w \in Workers : WriteChunk(w) \/ WriteTriggers(w)) \/ Stop \/ UNCHANGED vars
  <2>1. UNCHANGED <<ledger, product, output_rows>>
    BY <1>2 DEF WriteChunk, WriteTriggers, Stop, vars, local
  <2> QED
    BY <1>1, <2>1 DEF RowsAssigned, IsAssigned, Assigned, WindowEnd
<1> QED
  BY <1>1, <1>2, RowsUpdate DEF Next, Ended

\* assign_frozen_far_ledger.py: "once a trigger row has an assigned FAR, this script
\* keeps that value".  The ledgers and the product never disagree on a trigger, for any
\* workers and updates, whoever overlaps, fails or is killed and however a stale lock
\* is taken over.
THEOREM OneValue == Spec => []ValueKept
<1>1. Init => TypeOK /\ RowsAssigned
  <2>1. Init => RowsAssigned
    BY DEF Init, RowsAssigned
  <2> QED
    BY <2>1, InitType
<1>2. RowsAssigned => ValueKept
  <2> SUFFICES ASSUME RowsAssigned, NEW r \in Published, NEW s \in Published,
                      <<r.worker, r.trigger>> = <<s.worker, s.trigger>>
               PROVE  r = s
    BY DEF ValueKept
  <2>1. IsAssigned(r) /\ IsAssigned(s)
    BY DEF RowsAssigned, Published
  <2>2. r.worker = s.worker /\ r.trigger = s.trigger
    OBVIOUS
  <2>3. r = Assigned(r.worker, r.trigger) /\ s = Assigned(s.worker, s.trigger)
    BY <2>1 DEF IsAssigned
  <2> HIDE DEF Assigned
  <2> QED
    BY <2>2, <2>3
<1> QED
  BY <1>1, <1>2, RowsStep, PTL DEF Spec

-----------------------------------------------------------------------------
(* The ledgers and the product, where few contend for a stale lock.        *)

\* At the start no lock is held and no product is published.
LEMMA InitLedger == Init => LedgerInv
<1> SUFFICES ASSUME Init PROVE LedgerInv
  OBVIOUS
<1>1. TypeOK
  BY InitType
<1>2. LockInv
  BY DEF Init, LockInv, LockHeld, TakesOverStale, LockOfWorker, StaleOfEnded, Stale, Locked
<1>4. HandEnds
  BY DEF Init, HandEnds
<1>3. WritesMore /\ MergesFromLedgers /\ ProductFromLedgers
  BY DEF Init, WritesMore, MergesFromLedgers, ProductFromLedgers
<1> QED
  BY <1>1, <1>2, <1>3, <1>4 DEF LedgerInv

\* Two updates of a worker are never both under its lock.
LEMMA Exclusive ==
  ASSUME LockHeld, NEW p \in Updaters, NEW q \in Updaters, pc[p] \in Locked,
         pc[q] \in Locked, WorkerOf[p] = WorkerOf[q]
  PROVE  p = q
<1>1. Lock(p) = Lock(q)
  BY DEF LockHeld
<1> QED
  BY <1>1, LockFacts

\* Nobody takes over the lock of an update that lives.
LEMMA NoneTakesOver ==
  ASSUME LockHeld, TakesOverStale, NEW p \in Updaters, pc[p] \in Locked,
         NEW q \in Updaters, WorkerOf[q] = WorkerOf[p]
  PROVE  pc[q] # "take over"
<1>1. lock[WorkerOf[p]].alive
  BY LockFacts DEF LockHeld
<1> QED
  BY <1>1 DEF TakesOverStale, Stale

\* While an update takes a lock over, no other one of its worker is running that could
\* lock, or take over, as well.
LEMMA TakesOverAlone ==
  ASSUME FewContend, TypeOK, LockInv, NEW p \in Updaters, pc[p] = "take over",
         NEW q \in Updaters, q # p, WorkerOf[q] = WorkerOf[p]
  PROVE  pc[q] = "ended"
<1> DEFINE w == WorkerOf[p]
           b == lock[w].by
<1>1. w \in Workers /\ Stale(w)
  BY Constants DEF LockInv, TakesOverStale
<1>2. b \in Updaters /\ WorkerOf[b] = w
  BY <1>1 DEF LockInv, LockOfWorker, Stale, TypeOK, LockState
<1>3. b \in Crashing /\ \A u \in Updaters : WorkerOf[u] = w /\ u # b => pc[b] = "ended"
  BY <1>1 DEF LockInv, StaleOfEnded
<1> HIDE DEF b
<1>4. pc[b] = "ended"
  BY <1>3
<1>5. p # b
  BY <1>4
<1>6. CASE q # b
  BY <1>2, <1>3, <1>5, <1>6 DEF FewContend
<1> QED
  BY <1>4, <1>6

\* An update moves and leaves its worker's lock in the state l.  The others are as
\* they were.
Moves(p, where, l) ==
  /\ pc[p] # "ended"
  /\ pc' = [pc EXCEPT ![p] = where]
  /\ lock' = [lock EXCEPT ![WorkerOf[p]] = l]

\* When the new state is free, the mover's or one it left behind, and nobody else
\* has, or takes over, the lock, the invariant of the locks holds again.
LEMMA LockChanges ==
  ASSUME TypeOK, LockInv, NEW p \in Updaters, NEW where, NEW l, Moves(p, where, l),
         l # None => l.by = p,
         where \in Locked => l = Lock(p),
         where # "take over",
         l # None /\ ~l.alive =>
           p \in Crashing /\ \A q \in Updaters : WorkerOf[q] = WorkerOf[p] /\ q # p =>
             where = "ended",
         \A q \in Updaters : q # p /\ WorkerOf[q] = WorkerOf[p] =>
           pc[q] \notin Locked /\ pc[q] # "take over"
  PROVE  LockInv'
<1> DEFINE w == WorkerOf[p]
<1>1. w \in Workers /\ \A q \in Updaters : WorkerOf[q] \in Workers
  BY Constants
<1>2. \A q \in Updaters : pc'[q] = IF q = p THEN where ELSE pc[q]
  BY DEF Moves, TypeOK
<1>3. \A v \in Workers : lock'[v] = IF v = w THEN l ELSE lock[v]
  BY DEF Moves, TypeOK
<1>4. w = WorkerOf[p]
  OBVIOUS
<1> HIDE DEF w
<1>5. LockHeld'
  BY <1>1, <1>2, <1>3, <1>4, LockFacts DEF LockInv, LockHeld, Lock
<1>6. TakesOverStale'
  BY <1>1, <1>2, <1>3, <1>4 DEF LockInv, TakesOverStale, Stale
<1>7. LockOfWorker'
  BY <1>1, <1>3, <1>4 DEF LockInv, LockOfWorker
<1>8. ASSUME NEW v \in Workers, Stale(v)'
      PROVE  /\ lock'[v].by \in Crashing
             /\ \A q \in Updaters : WorkerOf[q] = v /\ q # lock'[v].by =>
                  pc'[lock'[v].by] = "ended"
  <2>1. CASE v = w
    BY <1>2, <1>3, <1>4, <1>8, <2>1 DEF Stale
  <2>2. CASE v # w
    <3>1. lock'[v] = lock[v] /\ Stale(v) /\ WorkerOf[lock[v].by] = v
      BY <1>3, <1>8, <2>2 DEF Stale, LockInv, LockOfWorker
    <3>2. lock[v].by \in Updaters
      BY <3>1 DEF Stale, TypeOK, LockState
    <3>3. pc'[lock[v].by] = pc[lock[v].by]
      BY <1>2, <1>4, <2>2, <3>1, <3>2
    <3> QED
      BY <3>1, <3>3 DEF LockInv, StaleOfEnded
  <2> QED
    BY <2>1, <2>2
<1>9. StaleOfEnded'
  BY <1>8 DEF StaleOfEnded, Stale
<1> QED
  BY <1>5, <1>6, <1>7, <1>9 DEF LockInv

\* An update moves and the locks stay: it goes on under the lock, lets it be or finds
\* it stale.
LEMMA LockStays ==
  ASSUME TypeOK, LockInv, lock' = lock, NEW p \in Updaters, pc[p] # "ended", NEW where,
         pc' = [pc EXCEPT ![p] = where],
         where \in Locked => pc[p] \in Locked,
         where = "take over" => Stale(WorkerOf[p])
  PROVE  LockInv'
<1>1. \A q \in Updaters : pc'[q] = IF q = p THEN where ELSE pc[q]
  BY DEF TypeOK
<1>2. LockHeld'
  BY <1>1 DEF LockInv, LockHeld
<1>3. TakesOverStale'
  BY <1>1 DEF LockInv, TakesOverStale, Stale
<1>4. LockOfWorker'
  BY DEF LockInv, LockOfWorker
<1>5. ASSUME NEW v \in Workers, Stale(v), NEW q \in Updaters, WorkerOf[q] = v,
             q # lock[v].by
      PROVE  pc'[lock[v].by] = "ended"
  <2>1. pc[lock[v].by] = "ended"
    BY <1>5 DEF LockInv, StaleOfEnded
  <2>2. lock[v].by \in Updaters
    BY <1>5 DEF Stale, TypeOK, LockState
  <2> QED
    BY <1>1, <2>1, <2>2
<1>6. StaleOfEnded'
  BY <1>5 DEF LockInv, StaleOfEnded, Stale
<1> QED
  BY <1>2, <1>3, <1>4, <1>6 DEF LockInv

\* The update that ends, in whatever way, goes back to the loop or is over.
LEMMA ReturnMoves ==
  ASSUME NEW p \in Updaters, Return(p)
  PROVE  pc' = [pc EXCEPT ![p] = IF IsLast(p) THEN "ended" ELSE "idle"]
  BY DEF Return, Goto

\* acquire_lock: an update locks when there is no lock, gives up at one, or finds it
\* stale.
LEMMA AcquireKeeps ==
  ASSUME TypeOK, LockInv, NEW p \in Updaters, AcquireLock(p)
  PROVE  LockInv'
<1> DEFINE w == WorkerOf[p]
<1>1. w \in Workers /\ pc[p] = "lock"
  BY Constants DEF AcquireLock
<1>2. CASE lock[w] = None /\ lock' = [lock EXCEPT ![w] = Lock(p)]
           /\ pc' = [pc EXCEPT ![p] = "assign"]
  <2>1. ASSUME NEW q \in Updaters, WorkerOf[q] = WorkerOf[p]
        PROVE  pc[q] \notin Locked /\ pc[q] # "take over"
    BY <1>2, <2>1, LockFacts DEF LockInv, LockHeld, TakesOverStale, Stale
  <2>2. Moves(p, "assign", Lock(p))
    BY <1>1, <1>2 DEF Moves
  <2> QED
    BY <2>1, <2>2, LockFacts, LockChanges
<1>3. CASE Return(p) /\ lock' = lock
  BY <1>1, <1>3, ReturnMoves, LockStays DEF Locked
<1>4. CASE Stale(w) /\ lock' = lock /\ pc' = [pc EXCEPT ![p] = "take over"]
  BY <1>1, <1>4, LockStays DEF Locked
<1> QED
  BY <1>2, <1>3, <1>4 DEF AcquireLock, Goto, Stale

\* rm and mkdir of a stale lock: the others of the worker have ended by then.
LEMMA TakeOverKeeps ==
  ASSUME FewContend, TypeOK, LockInv, NEW p \in Updaters, TakeOver(p)
  PROVE  LockInv'
<1>1. pc[p] = "take over" /\ Moves(p, "assign", Lock(p))
  BY DEF TakeOver, Moves, Goto
<1>2. \A q \in Updaters : q # p /\ WorkerOf[q] = WorkerOf[p] =>
        pc[q] \notin Locked /\ pc[q] # "take over"
  BY <1>1, TakesOverAlone DEF Locked
<1> QED
  BY <1>1, <1>2, LockFacts, LockChanges

\* The trap at exit removes the update's own lock.
LEMMA UnlockKeeps ==
  ASSUME TypeOK, LockInv, NEW p \in Updaters, Unlock(p)
  PROVE  LockInv'
<1> DEFINE where == IF IsLast(p) THEN "ended" ELSE "idle"
<1>1. pc[p] = "unlock" /\ pc[p] \in Locked
  BY DEF Unlock, Locked
<1>2. Moves(p, where, None)
  BY <1>1, ReturnMoves DEF Unlock, Moves
<1>3. where \notin Locked /\ where # "take over"
  BY DEF Locked
<1>4. \A q \in Updaters : q # p /\ WorkerOf[q] = WorkerOf[p] =>
        pc[q] \notin Locked /\ pc[q] # "take over"
  BY <1>1, Exclusive, NoneTakesOver DEF LockInv
<1> HIDE DEF where
<1> QED
  BY <1>2, <1>3, <1>4, LockChanges

\* A kill leaves the lock stale.  The killed update is alone, or it ran once and
\* has ended.
LEMMA CrashKeeps ==
  ASSUME FewContend, TypeOK, LockInv, HandEnds, NEW p \in Updaters, Crash(p)
  PROVE  LockInv'
<1> DEFINE w == WorkerOf[p]
           where == IF IsLast(p) THEN "ended" ELSE "idle"
<1>1. /\ p \in Crashing /\ pc[p] \notin {"idle", "lock", "ended"} /\ w \in Workers
      /\ pc' = [pc EXCEPT ![p] = where]
      /\ lock' = [v \in Workers |-> Died(lock[v], p)]
  BY ReturnMoves, Constants DEF Crash
<1>2. where \notin Locked /\ where # "take over"
  BY DEF Locked
<1>3. \A q \in Updaters : q # p /\ WorkerOf[q] = w => where = "ended"
  <2>1. p \notin Loops => IsLast(p)
    BY <1>1 DEF HandEnds
  <2>2. ASSUME NEW q \in Updaters, q # p, WorkerOf[q] = w PROVE p \notin Loops
    BY <1>1, <2>2 DEF FewContend
  <2> QED
    BY <2>1, <2>2
<1>4. \A v \in Workers : v # w => Died(lock[v], p) = lock[v]
  BY DEF LockInv, LockOfWorker, Died
<1> HIDE DEF where
<1>5. CASE pc[p] \in Locked
  <2> DEFINE l == [Lock(p) EXCEPT !.alive = FALSE]
  <2>1. l.by = p /\ ~l.alive
    BY DEF Lock
  <2>2. Died(lock[w], p) = l
    BY <1>5, LockFacts DEF LockInv, LockHeld, Died
  <2> HIDE DEF l
  <2>3. lock' = [lock EXCEPT ![w] = l]
    BY <1>1, <1>4, <2>2 DEF TypeOK
  <2>4. Moves(p, where, l)
    BY <1>1, <2>3 DEF Moves
  <2>5. \A q \in Updaters : q # p /\ WorkerOf[q] = WorkerOf[p] =>
          pc[q] \notin Locked /\ pc[q] # "take over"
    BY <1>5, Exclusive, NoneTakesOver DEF LockInv
  <2> QED
    BY <1>1, <1>2, <1>3, <2>1, <2>4, <2>5, LockChanges
<1>6. CASE pc[p] = "take over"
  <2>1. Stale(w)
    BY <1>6 DEF LockInv, TakesOverStale
  <2>2. Died(lock[w], p) = lock[w]
    <3>1. lock[w] \in [by : Updaters, alive : BOOLEAN] /\ lock[w].alive = FALSE
      BY <1>1, <2>1 DEF TypeOK, LockState, Stale
    <3> QED
      BY <3>1 DEF Died
  <2>3. lock' = lock
    BY <1>1, <1>4, <2>2 DEF TypeOK
  <2> QED
    BY <1>1, <1>2, <2>3, LockStays
<1> QED
  BY <1>1, <1>5, <1>6 DEF TypeOK, Locked

\* Every step leaves a worker's lock with the update under it.
LEMMA LockStep ==
  ASSUME FewContend, TypeOK, LockInv, HandEnds, [Next]_vars
  PROVE  LockInv'
<1>1. CASE UNCHANGED <<pc, lock>>
  BY <1>1 DEF LockInv, LockHeld, TakesOverStale, Stale, LockOfWorker, StaleOfEnded
<1>2. ASSUME NEW p \in Updaters, StartUpdate(p) PROVE LockInv'
  <2>1. pc[p] = "idle" /\ pc' = [pc EXCEPT ![p] = "lock"] /\ lock' = lock
    BY <1>2 DEF StartUpdate, locks
  <2> QED
    BY <2>1, LockStays DEF Locked
<1>3. ASSUME NEW p \in Updaters,
             \/ Assign(p) \/ WriteRows(p) \/ MergeAcquireLock(p) \/ MergeTakeOver(p)
             \/ MergeReadProduct(p) \/ MergeWrite(p) \/ MergeUnlock(p) \/ Fail(p)
      PROVE  LockInv'
  <2>1. pc[p] \in Locked /\ pc[p] # "ended" /\ lock' = lock
    BY <1>3 DEF Assign, WriteRows, MergeAcquireLock, MergeTakeOver, MergeReadProduct,
       MergeWrite, MergeUnlock, Fail, Locked, locks
  <2>2. \E where \in {"write", "merge lock", "merge take over", "merge read", "merge",
                      "merge unlock", "unlock"} : pc' = [pc EXCEPT ![p] = where]
    BY <1>3 DEF Assign, WriteRows, MergeAcquireLock, MergeTakeOver, MergeReadProduct,
       MergeWrite, MergeUnlock, Fail, Goto
  <2>3. PICK where \in {"write", "merge lock", "merge take over", "merge read", "merge",
                        "merge unlock", "unlock"} : pc' = [pc EXCEPT ![p] = where]
    BY <2>2
  <2> QED
    BY <2>1, <2>3, LockStays
<1>4. ASSUME NEW p \in Updaters, MergeWorker(p) PROVE LockInv'
  BY <1>1, <1>4 DEF MergeWorker, locks
<1>5. CASE (\E w \in Workers : WriteChunk(w) \/ WriteTriggers(w)) \/ Stop \/ UNCHANGED vars
  BY <1>1, <1>5 DEF WriteChunk, WriteTriggers, Stop, vars, locks
<1> QED
  BY <1>2, <1>3, <1>4, <1>5, AcquireKeeps, TakeOverKeeps, UnlockKeeps, CrashKeeps
     DEF Next, UpdateStep, Ended

\* What an update sees of the stream has its type, and by hand it is the last.
LEMMA SeenType ==
  ASSUME TypeOK, NEW p \in Updaters
  PROVE  /\ StreamSeen(p) \in (0..MaxTime) \X (0..MaxTime) \X BOOLEAN
         /\ p \notin Loops => StreamSeen(p)[3]
<1>1. WorkerOf[p] \in Workers
  BY Constants
<1>2. /\ written[WorkerOf[p]] \in 0..MaxTime /\ told[WorkerOf[p]] \in 0..MaxTime
      /\ stopped \in BOOLEAN
  BY <1>1 DEF TypeOK
<1>3. (IF p \in Loops THEN stopped ELSE TRUE) \in BOOLEAN
  BY <1>2
<1> QED
  BY <1>2, <1>3 DEF StreamSeen

\* Every step leaves an update by hand in its only turn.
LEMMA HandStep ==
  ASSUME TypeOK, HandEnds, [Next]_vars
  PROVE  HandEnds'
<1>1. CASE UNCHANGED <<pc, saw>>
  BY <1>1 DEF HandEnds, IsLast
<1>2. ASSUME NEW p \in Updaters, StartUpdate(p) PROVE HandEnds'
  <2>1. /\ pc' = [pc EXCEPT ![p] = "lock"] /\ saw' = [saw EXCEPT ![p] = StreamSeen(p)]
    BY <1>2 DEF StartUpdate
  <2>2. StreamSeen(p) \in (0..MaxTime) \X (0..MaxTime) \X BOOLEAN
        /\ (p \notin Loops => StreamSeen(p)[3])
    BY SeenType
  <2>3. saw' \in [Updaters -> {None} \union (0..MaxTime) \X (0..MaxTime) \X BOOLEAN]
    BY <2>1, <2>2 DEF HandEnds
  <2>4. \A q \in Updaters : /\ pc'[q] = IF q = p THEN "lock" ELSE pc[q]
                            /\ saw'[q] = IF q = p THEN StreamSeen(p) ELSE saw[q]
    BY <2>1 DEF TypeOK, HandEnds
  <2> QED
    BY <2>2, <2>3, <2>4 DEF HandEnds, IsLast
<1>3. ASSUME NEW p \in Updaters, Return(p) PROVE HandEnds'
  <2>1. saw' = [saw EXCEPT ![p] = None]
    BY <1>3 DEF Return
  <2>2. PICK where \in {"ended", "idle"} : pc' = [pc EXCEPT ![p] = where]
    BY <1>3, ReturnMoves
  <2>3. /\ pc'[p] \in {"ended", "idle"}
        /\ \A q \in Updaters : q # p => pc'[q] = pc[q]
    BY <2>2 DEF TypeOK
  <2>4. \A q \in Updaters : q # p => saw'[q] = saw[q]
    BY <2>1 DEF HandEnds
  <2>5. saw' \in [Updaters -> {None} \union (0..MaxTime) \X (0..MaxTime) \X BOOLEAN]
    BY <2>1 DEF HandEnds
  <2> QED
    BY <2>3, <2>4, <2>5 DEF HandEnds, IsLast
<1>4. ASSUME NEW p \in Updaters, saw' = saw, pc[p] \notin {"idle", "ended"},
             \A q \in Updaters \ {p} : pc'[q] = pc[q]
      PROVE  HandEnds'
  BY <1>4 DEF HandEnds, IsLast
<1>5. ASSUME NEW p \in Updaters,
             \/ TakeOver(p) \/ Assign(p) \/ WriteRows(p) \/ MergeAcquireLock(p)
             \/ MergeTakeOver(p) \/ MergeReadProduct(p) \/ MergeWrite(p)
             \/ MergeUnlock(p) \/ Fail(p)
      PROVE  HandEnds'
  <2>1. /\ saw' = saw /\ pc[p] \notin {"idle", "ended"}
        /\ \A q \in Updaters \ {p} : pc'[q] = pc[q]
    BY <1>5 DEF TakeOver, Assign, WriteRows, MergeAcquireLock, MergeTakeOver,
       MergeReadProduct, MergeWrite, MergeUnlock, Fail, Goto, TypeOK
  <2> QED
    BY <1>4, <2>1
<1>6. ASSUME NEW p \in Updaters, AcquireLock(p) PROVE HandEnds'
  <2>1. CASE Return(p)
    BY <1>3, <2>1
  <2>2. CASE saw' = saw /\ pc[p] = "lock"
             /\ (Goto(p, "assign") \/ Goto(p, "take over"))
    BY <1>4, <2>2 DEF Goto, TypeOK
  <2> QED
    BY <1>6, <2>1, <2>2 DEF AcquireLock
<1>7. ASSUME NEW p \in Updaters, Unlock(p) \/ Crash(p) PROVE HandEnds'
  BY <1>3, <1>7 DEF Unlock, Crash
<1>8. ASSUME NEW p \in Updaters, MergeWorker(p) PROVE HandEnds'
  BY <1>1, <1>8 DEF MergeWorker
<1>9. CASE (\E w \in Workers : WriteChunk(w) \/ WriteTriggers(w)) \/ Stop \/ UNCHANGED vars
  BY <1>1, <1>9 DEF WriteChunk, WriteTriggers, Stop, vars
<1> QED
  BY <1>2, <1>5, <1>6, <1>7, <1>8, <1>9 DEF Next, UpdateStep, Ended

\* A ledger is written with all its rows, and then no other update of its worker has
\* read it and not yet written.
LEMMA WriteGrows ==
  ASSUME LedgerInv, NEW p \in Updaters, WriteRows(p)
  PROVE  /\ \A w \in Workers : ledger[w] \subseteq ledger'[w]
         /\ WritesMore'
<1>1. /\ pc[p] = "write" /\ pc'[p] # "write"
      /\ \A w \in Workers :
           ledger'[w] = IF w = WorkerOf[p] THEN output_rows[p] ELSE ledger[w]
      /\ \A q \in Updaters \ {p} : pc'[q] = pc[q] /\ output_rows'[q] = output_rows[q]
  BY Constants DEF WriteRows, Goto, TypeOK, LedgerInv
<1>2. \A w \in Workers : ledger[w] \subseteq ledger'[w]
  BY <1>1 DEF LedgerInv, WritesMore
<1>3. ASSUME NEW q \in Updaters, pc'[q] = "write"
      PROVE  ledger'[WorkerOf[q]] \subseteq output_rows'[q]
  <2>1. q # p /\ pc[q] = "write" /\ output_rows'[q] = output_rows[q]
    BY <1>1, <1>3
  <2>2. WorkerOf[q] # WorkerOf[p]
    BY <1>1, <2>1, Exclusive DEF LedgerInv, LockInv, Locked
  <2>3. ledger'[WorkerOf[q]] = ledger[WorkerOf[q]]
    BY <1>1, <2>2, Constants
  <2> QED
    BY <2>1, <2>3 DEF LedgerInv, WritesMore
<1> QED
  BY <1>2, <1>3 DEF WritesMore

\* The same of any step.
LEMMA Grows ==
  ASSUME LedgerInv, [Next]_vars
  PROVE  /\ \A w \in Workers : ledger[w] \subseteq ledger'[w]
         /\ WritesMore'
<1> USE DEF LedgerInv
<1>1. ASSUME NEW p \in Updaters, Other(p)
      PROVE  (\A w \in Workers : ledger[w] \subseteq ledger'[w]) /\ WritesMore'
  BY <1>1, OtherWritesNothing DEF WritesMore
<1>2. ASSUME NEW p \in Updaters, Assign(p)
      PROVE  (\A w \in Workers : ledger[w] \subseteq ledger'[w]) /\ WritesMore'
  <2>1. /\ ledger' = ledger
        /\ \A q \in Updaters \ {p} : pc'[q] = pc[q] /\ output_rows'[q] = output_rows[q]
        /\ pc'[p] = "write" => ledger[WorkerOf[p]] \subseteq output_rows'[p]
    BY ZenonT(60), <1>2 DEF Assign, Goto, TypeOK
  <2> QED
    BY <2>1 DEF WritesMore
<1>3. CASE \E p \in Updaters : WriteRows(p)
  BY <1>3, WriteGrows
<1>4. CASE (\E w \in Workers : WriteChunk(w) \/ WriteTriggers(w)) \/ Stop \/ UNCHANGED vars
  <2>1. UNCHANGED <<pc, output_rows, ledger>>
    BY <1>4 DEF WriteChunk, WriteTriggers, Stop, vars, local
  <2> QED
    BY <2>1 DEF WritesMore
<1> QED
  BY <1>1, <1>2, <1>3, <1>4 DEF Next, UpdateStep, Other, Ended

\* What a merge has read, and the product, come from ledgers, which only grow.
LEMMA MergeStep ==
  ASSUME LedgerInv, [Next]_vars
  PROVE  MergesFromLedgers' /\ ProductFromLedgers'
<1> DEFINE All == UNION {ledger[w] : w \in Workers}
           New == UNION {ledger'[w] : w \in Workers}
<1> USE DEF LedgerInv
<1>1. \A w \in Workers : ledger[w] \subseteq All
  OBVIOUS
<1>2. All \subseteq New
  BY Grows
<1>3. product \subseteq All
  BY DEF ProductFromLedgers
<1>4. \A q \in Updaters : pc[q] = "merge" => output_rows[q] \subseteq All
  BY DEF MergesFromLedgers
<1> HIDE DEF All, New
<1>5. SUFFICES /\ \A q \in Updaters : pc'[q] = "merge" => output_rows'[q] \subseteq All
               /\ product' \subseteq All
  BY <1>2 DEF MergesFromLedgers, ProductFromLedgers, New
<1>6. ASSUME NEW p \in Updaters, MergeReadProduct(p)
      PROVE  /\ \A q \in Updaters : pc'[q] = "merge" => output_rows'[q] \subseteq All
             /\ product' \subseteq All
  <2>1. /\ output_rows' = [output_rows EXCEPT ![p] = product] /\ product' = product
        /\ pc' = [pc EXCEPT ![p] = "merge"]
    BY <1>6 DEF MergeReadProduct, Goto
  <2> QED
    BY <1>3, <1>4, <2>1 DEF TypeOK
<1>7. ASSUME NEW p \in Updaters, MergeWorker(p)
      PROVE  /\ \A q \in Updaters : pc'[q] = "merge" => output_rows'[q] \subseteq All
             /\ product' \subseteq All
  <2>1. PICK w \in unread[p] : \E new \in SUBSET ledger[w] :
          output_rows' = [output_rows EXCEPT ![p] = @ \union new]
    BY <1>7, MergeReads
  <2>2. PICK new \in SUBSET ledger[w] :
          output_rows' = [output_rows EXCEPT ![p] = @ \union new]
    BY <2>1
  <2>3. w \in Workers /\ new \subseteq All
    BY <1>1, <2>2 DEF TypeOK
  <2>4. pc[p] = "merge" /\ pc' = pc /\ product' = product
    BY <1>7 DEF MergeWorker
  <2> QED
    BY <1>3, <1>4, <2>2, <2>3, <2>4 DEF TypeOK
<1>8. ASSUME NEW p \in Updaters, MergeWrite(p)
      PROVE  /\ \A q \in Updaters : pc'[q] = "merge" => output_rows'[q] \subseteq All
             /\ product' \subseteq All
  <2>1. /\ pc[p] = "merge" /\ product' = output_rows[p]
        /\ pc' = [pc EXCEPT ![p] = "merge unlock"]
        /\ output_rows' = [output_rows EXCEPT ![p] = {}]
    BY <1>8 DEF MergeWrite, Goto
  <2> QED
    BY <1>4, <2>1 DEF TypeOK
<1>9. ASSUME NEW p \in Updaters, product' = product, pc'[p] # "merge",
             \A q \in Updaters \ {p} : pc'[q] = pc[q] /\ output_rows'[q] = output_rows[q]
      PROVE  /\ \A q \in Updaters : pc'[q] = "merge" => output_rows'[q] \subseteq All
             /\ product' \subseteq All
  BY <1>3, <1>4, <1>9
<1>10. ASSUME NEW p \in Updaters,
              \/ StartUpdate(p) \/ TakeOver(p) \/ Assign(p) \/ WriteRows(p)
              \/ MergeAcquireLock(p) \/ MergeTakeOver(p) \/ MergeUnlock(p) \/ Fail(p)
       PROVE  /\ product' = product /\ pc'[p] # "merge"
              /\ \A q \in Updaters \ {p} :
                   pc'[q] = pc[q] /\ output_rows'[q] = output_rows[q]
  BY <1>10 DEF TypeOK, StartUpdate, TakeOver, Assign, WriteRows, MergeAcquireLock,
     MergeTakeOver, MergeUnlock, Fail, Goto, local
<1>11. ASSUME NEW p \in Updaters, AcquireLock(p) \/ Unlock(p) \/ Crash(p)
       PROVE  /\ product' = product /\ pc'[p] # "merge"
              /\ \A q \in Updaters \ {p} :
                   pc'[q] = pc[q] /\ output_rows'[q] = output_rows[q]
  BY <1>11 DEF TypeOK, AcquireLock, Unlock, Crash, Return, Goto, local
<1>12. CASE (\E w \in Workers : WriteChunk(w) \/ WriteTriggers(w)) \/ Stop \/ UNCHANGED vars
  <2>1. UNCHANGED <<pc, output_rows, product>>
    BY <1>12 DEF WriteChunk, WriteTriggers, Stop, vars, local
  <2> QED
    BY <1>3, <1>4, <2>1
<1> QED
  BY <1>6, <1>7, <1>8, <1>9, <1>10, <1>11, <1>12 DEF Next, UpdateStep, Ended

\* Every step keeps the lock with the update under it and the ledgers growing.
LEMMA LedgerStep ==
  ASSUME FewContend
  PROVE  LedgerInv /\ [Next]_vars => LedgerInv'
<1> SUFFICES ASSUME LedgerInv, [Next]_vars PROVE LedgerInv'
  OBVIOUS
<1>1. TypeOK'
  BY TypeStep DEF LedgerInv
<1>2. LockInv' /\ HandEnds'
  BY LockStep, HandStep DEF LedgerInv
<1>3. WritesMore' /\ MergesFromLedgers' /\ ProductFromLedgers'
  BY Grows, MergeStep
<1> QED
  BY <1>1, <1>2, <1>3 DEF LedgerInv

\* What the run publishes is what a worker's ledger says, although merges overlap
\* with updates, and with each other when they take over one old lock.
THEOREM ProductIsFromLedgers ==
  ASSUME FewContend
  PROVE  Spec => []ProductFromLedgers
<1>1. LedgerInv => ProductFromLedgers
  BY DEF LedgerInv
<1> QED
  BY InitLedger, LedgerStep, <1>1, PTL DEF Spec
=============================================================================
