------------------------- MODULE SessionQueueProofs -------------------------
(***************************************************************************)
(* Theorems about SessionQueue, for every set of items and every bound.    *)
(*                                                                         *)
(* AtMostOnce is not inductive: whether an item may be handed over again   *)
(* depends on what the rows and the actor's copy say of it.  The invariant *)
(* QueueInv adds that (Accounted), that the item in flight is one the copy *)
(* calls pending (Delivering), and that an item without a row was never    *)
(* handed over (Born).                                                     *)
(*                                                                         *)
(* RecordInv adds what the tables, the copy and the transcript say of each *)
(* other; CopyInv what is left of that after a failed database call, which *)
(* is what the refinement of FollowUps needs.                              *)
(***************************************************************************)
EXTENDS SessionQueue, TLAPS

Pending(q, i) == q.items[i].state = "pending"

\* As long as an item can still be chosen, every time it was handed over is
\* paid for by a crash or a failed database call.
Accounted ==
    /\ \A i \in Items : accepted[i] <= 1 + faults
    /\ \A i \in Items :
        i # sending /\ (Pending(queue, i) \/ Pending(view, i))
            => accepted[i] <= faults
    /\ sending # None /\ reply = "none" => accepted[sending] <= faults

Delivering ==
    /\ sending = None => reply = "none"
    /\ sending # None => alive /\ Pending(view, sending)

Born ==
    \A i \in Items : queue.items[i].state = "unborn" =>
        accepted[i] = 0 /\ view.items[i].state = "unborn"

QueueInv == TypeOK /\ Accounted /\ Delivering /\ Born

-----------------------------------------------------------------------------
(* What the helpers return.                                                *)

\* Writing rows back keeps the queue well formed; which state each row is in.
LEMMA UpsertedRows ==
    ASSUME NEW q \in View, NEW v \in View, NEW S \in SUBSET Items,
           NEW s \in RowState
    PROVE  /\ Upserted(q, v, S, s) \in View
           /\ \A i \in Items : Upserted(q, v, S, s).items[i].state =
                    IF i \in S THEN s ELSE q.items[i].state
  <1>1. ASSUME NEW i \in Items
        PROVE  [v.items[i] EXCEPT !.state = s] \in Row
    <2>1. v.items[i] \in Row
      BY DEF View
    <2> QED  BY <2>1 DEF Row
  <1>2. \A i \in Items : q.items[i] \in Row
    BY DEF View
  <1> DEFINE rows == [i \in Items |->
                        IF i \in S THEN [v.items[i] EXCEPT !.state = s]
                        ELSE q.items[i]]
  <1>3. rows \in [Items -> Row]
    BY <1>1, <1>2
  <1>4. Upserted(q, v, S, s) = [items |-> rows, paused |-> q.paused]
    BY DEF Upserted, View
  <1>5. \A i \in Items : [v.items[i] EXCEPT !.state = s].state = s
    <2>1. \A i \in Items : v.items[i] \in Row
      BY DEF View
    <2> QED  BY <2>1 DEF Row
  <1>6. q.paused \in BOOLEAN
    BY DEF View
  <1>7. Upserted(q, v, S, s) \in View
    BY <1>3, <1>4, <1>6 DEF View
  <1> QED  BY <1>4, <1>5, <1>7

\* Every row of S is the copy's with another state, every other row is kept.
LEMMA UpsertedItems ==
    ASSUME NEW q \in View, NEW v \in View, NEW S \in SUBSET Items,
           NEW s \in RowState
    PROVE  /\ \A i \in S : /\ Upserted(q, v, S, s).items[i].state = s
                           /\ Upserted(q, v, S, s).items[i].steer = v.items[i].steer
           /\ \A i \in Items \ S : Upserted(q, v, S, s).items[i] = q.items[i]
  <1>1. \A i \in Items : v.items[i] \in Row
    BY DEF View
  <1>2. \A i \in S : /\ [v.items[i] EXCEPT !.state = s].state = s
                     /\ [v.items[i] EXCEPT !.state = s].steer = v.items[i].steer
    BY <1>1 DEF Row
  <1> DEFINE rows == [i \in Items |->
                        IF i \in S THEN [v.items[i] EXCEPT !.state = s]
                        ELSE q.items[i]]
  <1>3. Upserted(q, v, S, s).items = rows
    BY DEF Upserted, View
  <1> QED  BY <1>2, <1>3

\* A new row is pending; no other row changes.
LEMMA InsertedRows ==
    ASSUME NEW q \in View, NEW i \in Items, NEW p \in 1..MaxPosition,
           NEW b \in BOOLEAN
    PROVE  /\ Inserted(q, i, p, b) \in View
           /\ \A j \in Items : Inserted(q, i, p, b).items[j].state =
                    IF j = i THEN "pending" ELSE q.items[j].state
  <1> DEFINE row == [state |-> "pending", pos |-> p, steer |-> b, text |-> 0]
  <1>1. row \in Row
    <2>1. p \in 0..MaxPosition /\ 0 \in 0..MaxEdits
      BY QueueAssumption DEF QueueAssumption
    <2> QED  BY <2>1 DEF Row, RowState
  <1> HIDE DEF row
  <1>2. /\ Inserted(q, i, p, b) = [q EXCEPT !.items[i] = row]
        /\ row.state = "pending"
    BY DEF Inserted, row
  <1> QED  BY <1>1, <1>2 DEF View

\* Moving rows leaves their states alone.
LEMMA RankedRows ==
    ASSUME NEW q \in View, NEW S \in SUBSET Items,
           NEW rank \in [S -> 1..MaxPosition]
    PROVE  LET r == [q EXCEPT !.items = [i \in Items |->
                        IF i \in S THEN [q.items[i] EXCEPT !.pos = rank[i]]
                        ELSE q.items[i]]]
           IN  /\ r \in View
               /\ \A i \in Items : r.items[i].state = q.items[i].state
  <1>1. \A i \in Items : q.items[i] \in Row
    BY DEF View
  <1>2. \A i \in S : [q.items[i] EXCEPT !.pos = rank[i]] \in Row
    <2>1. \A i \in S : rank[i] \in 0..MaxPosition
      OBVIOUS
    <2> QED  BY <1>1, <2>1 DEF Row
  <1>3. \A i \in S : [q.items[i] EXCEPT !.pos = rank[i]].state = q.items[i].state
    BY <1>1 DEF Row
  <1> DEFINE rows == [i \in Items |->
                        IF i \in S THEN [q.items[i] EXCEPT !.pos = rank[i]]
                        ELSE q.items[i]]
  <1>4. rows \in [Items -> Row] /\ \A i \in Items : rows[i].state = q.items[i].state
    BY <1>1, <1>2, <1>3
  <1> HIDE DEF rows
  <1>5. /\ [q EXCEPT !.items = rows] \in View
        /\ [q EXCEPT !.items = rows].items = rows
    BY <1>4 DEF View
  <1> QED  BY <1>4, <1>5 DEF rows

\* Deleting takes away pending rows and nothing else.
LEMMA DeletedRows ==
    ASSUME NEW q \in View, NEW S \in SUBSET Items
    PROVE  /\ Deleted(q, S) \in View
           /\ \A i \in Items : Deleted(q, S).items[i].state =
                    IF i \in S /\ Pending(q, i) THEN "gone"
                    ELSE q.items[i].state
  <1> DEFINE gone == [Unborn EXCEPT !.state = "gone"]
             rows == [i \in Items |->
                        IF i \in S /\ q.items[i].state = "pending"
                        THEN gone ELSE q.items[i]]
  <1>1. gone \in Row /\ gone.state = "gone"
    <2>1. Unborn \in Row
      <3>1. 0 \in 0..MaxPosition /\ 0 \in 0..MaxEdits
        BY QueueAssumption DEF QueueAssumption
      <3> QED  BY <3>1 DEF Unborn, Row, RowState
    <2> QED  BY <2>1 DEF Row, RowState
  <1>2. \A i \in Items : q.items[i] \in Row
    BY DEF View
  <1>3. rows \in [Items -> Row]
    BY <1>1, <1>2
  <1>4. Deleted(q, S) = [items |-> rows, paused |-> q.paused]
    BY DEF Deleted, View
  <1>5. Deleted(q, S) \in View
    BY <1>3, <1>4 DEF View
  <1> QED  BY <1>1, <1>4, <1>5 DEF Pending

\* The ledger keeps to its states.
LEMMA LedgerStates ==
    ASSUME NEW led \in [Items -> LedgerState], NEW S \in SUBSET Items, NEW q
    PROVE  /\ \A s \in {"completed", "dispatched", "failed"} :
                    Synchronized(led, S, s) \in [Items -> LedgerState]
           /\ \A why \in LedgerState :
                    Unlinked(q, led, S, why) \in [Items -> LedgerState]
  BY DEF Synchronized, Unlinked, LedgerOf, LedgerState, LinkedState

-----------------------------------------------------------------------------
(* What draining does: it completes rows the copy called dispatched, and    *)
(* chooses a row the copy calls pending.                                    *)

\* Rows that are completed.
LEMMA CompletedRows ==
    ASSUME NEW q \in View, NEW v \in View, NEW S \in SUBSET Items
    PROVE  /\ Upserted(q, v, S, "completed") \in View
           /\ \A i \in Items : Upserted(q, v, S, "completed").items[i].state =
                    IF i \in S THEN "completed" ELSE q.items[i].state
           /\ \A i \in S : Upserted(q, v, S, "completed").items[i].steer = v.items[i].steer
           /\ \A i \in Items \ S : Upserted(q, v, S, "completed").items[i] = q.items[i]
  <1>1. "completed" \in RowState
    BY DEF RowState
  <1>2. /\ Upserted(q, v, S, "completed") \in View
        /\ \A i \in Items : Upserted(q, v, S, "completed").items[i].state =
              IF i \in S THEN "completed" ELSE q.items[i].state
    BY <1>1, UpsertedRows
  <1>3. \A i \in Items : [v.items[i] EXCEPT !.state = "completed"].steer = v.items[i].steer
    BY DEF View, Row
  <1>4. Upserted(q, v, S, "completed").items = [i \in Items |->
          IF i \in S THEN [v.items[i] EXCEPT !.state = "completed"] ELSE q.items[i]]
    BY DEF Upserted, View
  <1> QED  BY <1>2, <1>3, <1>4

\* drain_queue keeps the durable queue, the ledger and the copy well formed, and
\* chooses an item to deliver or none.
LEMMA DrainStep ==
    ASSUME TypeOK, NEW n \in Nat, faults <= n, NEW s, NEW q \in View, NEW v \in View,
           NEW led \in [Items -> LedgerState], DrainAfter(n, s, q, led, v)
    PROVE  /\ queue' \in View /\ view' \in View
           /\ ledger' \in [Items -> LedgerState]
           /\ sending' \in Items \cup {None}
           /\ faults' \in Nat /\ n <= faults' /\ faults <= faults'
           /\ \A i \in Items : \/ queue'.items[i].state = q.items[i].state
                               \/ /\ queue'.items[i].state = "completed"
                                  /\ v.items[i].state = "dispatched"
           /\ view' = v \/ view' = queue'
           /\ sending' # None => Pending(view', sending')
  <1> DEFINE done == Retired(s, v)
  <1>1. done \in SUBSET Items /\ \A i \in done : v.items[i].state = "dispatched"
    BY DEF Retired, InState
  <1>2. PICK lost \in SUBSET done, reread \in BOOLEAN :
          LET kept == done \ lost
              v2   == IF done # {} /\ reread
                      THEN Upserted(q, v, kept, "completed") ELSE v
          IN /\ faults' = IF lost # {} \/ ~reread THEN n + 1 ELSE n
             /\ queue' = Upserted(q, v, kept, "completed")
             /\ ledger' = Synchronized(led, kept, "completed")
             /\ view' = v2
             /\ IF v2.paused \/ Candidates(s, v2) = {}
                THEN sending' = None
                ELSE sending' \in Candidates(s, v2)
    BY DEF DrainAfter
  <1> DEFINE kept == done \ lost
  <1>3. kept \in SUBSET Items /\ \A i \in kept : v.items[i].state = "dispatched"
    BY <1>1
  <1>4. /\ queue' = Upserted(q, v, kept, "completed")
        /\ ledger' = Synchronized(led, kept, "completed")
        /\ view' = v \/ view' = queue'
        /\ faults' \in {n, n + 1}
        /\ sending' = None \/ sending' \in Candidates(s, view')
    BY <1>2
  <1> HIDE DEF kept
  <1>5. /\ queue' \in View
        /\ \A i \in Items : queue'.items[i].state =
              IF i \in kept THEN "completed" ELSE q.items[i].state
    BY <1>3, <1>4, CompletedRows
  <1>6. ledger' \in [Items -> LedgerState]
    BY <1>3, <1>4, LedgerStates
  <1>7. faults' \in Nat /\ n <= faults' /\ faults <= faults'
    BY <1>4 DEF TypeOK
  <1>8. sending' = None \/ (sending' \in Items /\ Pending(view', sending'))
    BY <1>4 DEF Candidates, Eligible, InState, Pending
  <1> QED  BY <1>3, <1>4, <1>5, <1>6, <1>7, <1>8

\* The variables the rows' part of TypeOK is about, after a command.
RowsOK ==
    /\ queue \in View /\ view \in View
    /\ ledger \in [Items -> LedgerState]
    /\ sending \in Items \cup {None}
    /\ faults \in Nat

\* So does the tail every command shares, whether or not it fails.
LEMMA EditType ==
    ASSUME TypeOK, NEW q \in View, NEW led \in [Items -> LedgerState],
           AfterEdit(q, led)
    PROVE  RowsOK'
  <1>1. CASE Drain(status, q, led, q)
    <2>1. faults \in Nat /\ faults <= faults /\ DrainAfter(faults, status, q, led, q)
      BY <1>1 DEF TypeOK, Drain
    <2> QED  BY <2>1, DrainStep DEF RowsOK
  <1>2. CASE EditFails(q, led)
    BY <1>2 DEF EditFails, TypeOK, RowsOK
  <1> QED  BY <1>1, <1>2 DEF AfterEdit

-----------------------------------------------------------------------------
(* Type correctness.                                                       *)

\* A new session's state is well formed.
LEMMA InitType == Init => TypeOK
  <1> SUFFICES ASSUME Init PROVE TypeOK
    OBVIOUS
  <1>1. Unborn \in Row
    <2>1. 0 \in 0..MaxPosition /\ 0 \in 0..MaxEdits
      BY QueueAssumption DEF QueueAssumption
    <2> QED  BY <2>1 DEF Unborn, Row, RowState
  <1>2. queue \in View /\ view \in View
    BY <1>1 DEF Init, View
  <1>3. ledger \in [Items -> LedgerState] /\ accepted \in [Items -> Nat]
    BY DEF Init, LedgerState
  <1>4. events \in Seq(Event)
    BY DEF Init
  <1> QED  BY <1>2, <1>3, <1>4 DEF Init, TypeOK, Status

\* Commands of the developer keep every variable's type.
LEMMA UserType == TypeOK /\ UserStep => TypeOK'
  <1> SUFFICES ASSUME TypeOK, UserStep PROVE TypeOK'
    OBVIOUS
  <1>1. ASSUME NEW q \in View, NEW led \in [Items -> LedgerState], Command(q, led)
        PROVE  TypeOK'
    <2>1. RowsOK'
      BY <1>1, EditType DEF Command
    <2> QED  BY <1>1, <2>1 DEF Command, otherCommandVars, runtimeVars, RowsOK, TypeOK
  <1>2. queue \in View /\ ledger \in [Items -> LedgerState]
    BY DEF TypeOK
  <1>3. ASSUME NEW i \in Items, NEW b \in BOOLEAN, Enqueue(i, b) PROVE TypeOK'
    <2>1. PICK p \in 1..MaxPosition : Command(Inserted(queue, i, p, b), ledger)
      BY <1>3 DEF Enqueue
    <2>2. Inserted(queue, i, p, b) \in View
      BY <1>2, InsertedRows
    <2> QED  BY <1>1, <1>2, <2>1, <2>2
  <1>4. ASSUME NEW i \in Items, UpdateText(i) PROVE TypeOK'
    <2> DEFINE q == [queue EXCEPT !.items[i].text = @ + 1]
    <2>1. q \in View
      <3>1. queue.items[i] \in Row /\ queue.items[i].text < MaxEdits
        BY <1>2, <1>4 DEF View, UpdateText
      <3>2. queue.items[i].text + 1 \in 0..MaxEdits
        BY <3>1, QueueAssumption DEF QueueAssumption, Row
      <3> QED  BY <1>2, <3>1, <3>2 DEF View, Row
    <2> QED  BY <1>1, <1>2, <1>4, <2>1 DEF UpdateText
  <1>5. ASSUME NEW S \in SUBSET Items
        PROVE  /\ Deleted(queue, S) \in View
               /\ Unlinked(queue, ledger, S, "cancelled") \in [Items -> LedgerState]
    <2>1. "cancelled" \in LedgerState
      BY DEF LedgerState
    <2> QED  BY <1>2, <2>1, DeletedRows, LedgerStates
  <1>6. ASSUME NEW i \in Items, Remove(i) PROVE TypeOK'
    <2>1. {i} \in SUBSET Items
      OBVIOUS
    <2> QED  BY <1>1, <1>5, <1>6, <2>1 DEF Remove
  <1>7. ASSUME Clear PROVE TypeOK'
    <2>1. CASE Command(Deleted(queue, Items), Unlinked(queue, ledger, Items, "cancelled"))
      BY <1>1, <1>5, <2>1
    <2>2. CASE \E S \in SUBSET InState(queue, "pending") :
                 /\ EditFails(Deleted(queue, S), Unlinked(queue, ledger, S, "cancelled"))
                 /\ UNCHANGED <<otherCommandVars, poked>>
      <3>1. PICK S \in SUBSET Items :
               /\ EditFails(Deleted(queue, S), Unlinked(queue, ledger, S, "cancelled"))
               /\ UNCHANGED <<otherCommandVars, poked>>
        BY <2>2 DEF InState
      <3>2. AfterEdit(Deleted(queue, S), Unlinked(queue, ledger, S, "cancelled"))
        BY <3>1 DEF AfterEdit
      <3>3. RowsOK'
        BY <1>5, <3>2, EditType
      <3> QED  BY <3>1, <3>3 DEF otherCommandVars, runtimeVars, RowsOK, TypeOK
    <2> QED  BY <1>7, <2>1, <2>2 DEF Clear
  <1>8. ASSUME NEW S \in SUBSET Items, Reorder(S) PROVE TypeOK'
    <2>1. PICK rank \in [S -> 1..MaxPosition] :
             Command([queue EXCEPT !.items = [i \in Items |->
                        IF i \in S THEN [queue.items[i] EXCEPT !.pos = rank[i]]
                        ELSE queue.items[i]]], ledger)
      BY <1>8 DEF Reorder
    <2>2. [queue EXCEPT !.items = [i \in Items |->
             IF i \in S THEN [queue.items[i] EXCEPT !.pos = rank[i]]
             ELSE queue.items[i]]] \in View
      BY <1>2, RankedRows
    <2> QED  BY <1>1, <1>2, <2>1, <2>2
  <1>9. ASSUME NEW b \in BOOLEAN, SetPaused(b) PROVE TypeOK'
    <2>1. [queue EXCEPT !.paused = b] \in View
      BY <1>2 DEF View
    <2> QED  BY <1>1, <1>2, <1>9, <2>1 DEF SetPaused
  <1>10. ASSUME SendDirect PROVE TypeOK'
    BY <1>10 DEF SendDirect, TypeOK, durableVars, actorVars, ghostVars, Work
  <1>11. ASSUME Cancel PROVE TypeOK'
    <2>1. events' \in Seq(Event)
      BY <1>11 DEF Cancel, TypeOK, Event
    <2> QED  BY <1>11, <2>1 DEF Cancel, TypeOK, durableVars, actorVars, ghostVars
  <1>12. \A S \in SUBSET Stored(queue) : S \in SUBSET Items
    BY DEF Stored
  <1> QED
    BY <1>3, <1>4, <1>6, <1>7, <1>8, <1>9, <1>10, <1>11, <1>12 DEF UserStep

\* Rows written and withdrawn by the session manager keep every type.
LEMMA ManagerType == TypeOK /\ ManagerStep => TypeOK'
  <1> SUFFICES ASSUME TypeOK, ManagerStep PROVE TypeOK'
    OBVIOUS
  <1>1. queue \in View /\ ledger \in [Items -> LedgerState] /\ poked' \in BOOLEAN
    BY DEF TypeOK, ManagerStep, CreateCoordination, ResolveNotice, RetireSender, actorVars
  <1>2. ASSUME NEW i \in Items, NEW b \in BOOLEAN, CreateCoordination(i, b) PROVE TypeOK'
    <2>1. PICK p \in 1..MaxPosition : queue' = Inserted(queue, i, p, b)
      BY <1>2 DEF CreateCoordination
    <2>2. queue' \in View
      BY <1>1, <2>1, InsertedRows
    <2>3. ledger' \in [Items -> LedgerState]
      BY <1>1, <1>2 DEF CreateCoordination, LedgerState, LinkedState
    <2> QED
      BY <1>1, <1>2, <2>2, <2>3 DEF CreateCoordination, TypeOK, runtimeVars, ghostVars
  <1>3. ASSUME NEW i \in Items, ResolveNotice(i) PROVE TypeOK'
    <2>1. {i} \in SUBSET Items /\ "resolved" \in LedgerState
      BY DEF LedgerState
    <2>2. queue' \in View
      BY <1>1, <1>3, <2>1, DeletedRows DEF ResolveNotice
    <2>3. ledger' \in [Items -> LedgerState]
      BY <1>1, <1>3, <2>1, LedgerStates DEF ResolveNotice
    <2>4. read' \subseteq Notices
      BY <1>3 DEF ResolveNotice, TypeOK
    <2> QED
      BY <1>1, <1>3, <2>2, <2>3, <2>4 DEF ResolveNotice, TypeOK, runtimeVars, ghostVars
  <1>4. ASSUME NEW S \in SUBSET Linked, RetireSender(S) PROVE TypeOK'
    <2> DEFINE D == {i \in S : ledger[i] \in {"pending", "dispatched"}}
    <2>1. D \in SUBSET Items
      BY QueueAssumption DEF QueueAssumption, Linked
    <2>2. queue' = Deleted(queue, D)
      BY <1>4 DEF RetireSender, RetiredFrom
    <2> HIDE DEF D
    <2>3. queue' \in View
      BY <1>1, <2>1, <2>2, DeletedRows
    <2>4. ledger' \in [Items -> LedgerState]
      BY <1>1, <1>4 DEF RetireSender, RetiredFrom, LedgerState
    <2>5. read' \subseteq Notices
      BY <1>4 DEF RetireSender, RetiredFrom, TypeOK
    <2> QED
      BY <1>4, <2>3, <2>4, <2>5 DEF RetireSender, TypeOK, actorVars, runtimeVars, ghostVars
  <1> QED  BY <1>2, <1>3, <1>4 DEF ManagerStep

\* The actor's own steps keep every type.
LEMMA ActorType == TypeOK /\ ActorStep => TypeOK'
  <1> SUFFICES ASSUME TypeOK, ActorStep PROVE TypeOK'
    OBVIOUS
  <1>1. queue \in View /\ view \in View /\ ledger \in [Items -> LedgerState]
    BY DEF TypeOK
  <1>2. CASE Sync
    <2>1. RowsOK'
      BY <1>1, <1>2, EditType DEF Sync
    <2> QED  BY <1>2, <2>1 DEF Sync, otherCommandVars, runtimeVars, RowsOK, TypeOK
  <1>3. CASE DeliveryReturns
    <2>1. PICK saved \in BOOLEAN, reread \in BOOLEAN :
            LET S == IF saved THEN {sending} ELSE {}
            IN /\ faults' \in {faults, faults + 1}
               /\ queue' = Upserted(queue, view, S, Outcome(reply))
               /\ ledger' = Synchronized(ledger, S, Outcome(reply))
               /\ view' = IF reread THEN queue' ELSE view
      BY <1>3 DEF DeliveryReturns
    <2> DEFINE S == IF saved THEN {sending} ELSE {}
    <2>2. S \in SUBSET Items
      BY <1>3 DEF DeliveryReturns, TypeOK
    <2>3. Outcome(reply) \in {"dispatched", "failed"} /\ Outcome(reply) \in RowState
      BY DEF Outcome, RowState
    <2>4. /\ queue' = Upserted(queue, view, S, Outcome(reply))
          /\ ledger' = Synchronized(ledger, S, Outcome(reply))
          /\ view' = queue' \/ view' = view
      BY <2>1
    <2> DEFINE o == Outcome(reply)
    <2> HIDE DEF S, o
    <2>5. queue' \in View /\ view' \in View
      <3>1. Upserted(queue, view, S, o) \in View
        <4>1. o \in RowState
          BY <2>3 DEF o
        <4> QED  BY <1>1, <2>2, <4>1, UpsertedRows
      <3> QED  BY <1>1, <2>4, <3>1 DEF o
    <2>6. ledger' \in [Items -> LedgerState]
      BY <1>1, <2>2, <2>3, <2>4, LedgerStates
    <2>7. faults' \in Nat
      BY <2>1 DEF TypeOK
    <2> QED
      BY <1>3, <2>5, <2>6, <2>7 DEF DeliveryReturns, TypeOK, runtimeVars
  <1>4. CASE ApplyEvent
    <2>1. /\ Head(events) \in Event /\ events' \in Seq(Event)
      BY <1>4 DEF ApplyEvent, TypeOK
    <2>2. StatusAfter(Head(events)) \in Status
      BY <2>1 DEF Event, StatusAfter, Status
    <2>3. RowsOK'
      <3>1. CASE ReadEvent /\ Head(events) \in {"idle", "aborted"}
        <4>1. /\ faults \in Nat /\ faults <= faults
              /\ DrainAfter(faults, StatusAfter(Head(events)), queue, ledger, view)
          BY <3>1 DEF ReadEvent, Drain, TypeOK
        <4> QED  BY <1>1, <4>1, DrainStep DEF RowsOK
      <3>2. CASE ReadEvent /\ Head(events) \notin {"idle", "aborted"}
        BY <3>2 DEF ReadEvent, TypeOK, RowsOK
      <3>3. CASE DropEvent
        BY <3>3 DEF DropEvent, TypeOK, RowsOK
      <3> QED  BY <1>4, <3>1, <3>2, <3>3 DEF ApplyEvent
    <2>4. status' \in Status
      BY <1>4, <2>2 DEF ApplyEvent, ReadEvent, DropEvent, TypeOK
    <2> QED  BY <1>4, <2>1, <2>3, <2>4 DEF ApplyEvent, TypeOK, RowsOK
  <1> QED  BY <1>2, <1>3, <1>4 DEF ActorStep

\* The runtime's steps keep every type.
LEMMA RuntimeType == TypeOK /\ RuntimeStep => TypeOK'
  <1> SUFFICES ASSUME TypeOK, RuntimeStep PROVE TypeOK'
    OBVIOUS
  <1>1. CASE RuntimeAccepts
    <2> DEFINE prompt == <<sending, view.items[sending].text>>
    <2>1. sending \in Items /\ prompt \in Prompt
      BY <1>1 DEF RuntimeAccepts, TypeOK, Prompt, View, Row
    <2>2. accepted' \in [Items -> Nat]
      BY <1>1, <2>1 DEF RuntimeAccepts, Accept, TypeOK
    <2>3. Recorded({prompt}) \subseteq Prompt
      BY <2>1 DEF Recorded
    <2>4. turn' \subseteq Work /\ inbox' \subseteq Work /\ history' \subseteq Prompt
      BY <1>1, <2>1, <2>3 DEF RuntimeAccepts, Accept, TypeOK, Work
    <2>5. reply' \in {"none", "ok", "error"}
      BY <1>1 DEF RuntimeAccepts
    <2> QED  BY <1>1, <2>2, <2>4, <2>5 DEF RuntimeAccepts, TypeOK
  <1>2. CASE RuntimeRejects
    BY <1>2 DEF RuntimeRejects, TypeOK, durableVars, runtimeVars, ghostVars
  <1>3. ASSUME NEW w \in Work, TurnStart(w) PROVE TypeOK'
    <2>1. events' \in Seq(Event)
      BY <1>3 DEF TurnStart, TypeOK, Event
    <2>2. Recorded({w}) \subseteq Prompt
      BY DEF Recorded, Work
    <2> QED  BY <1>3, <2>1, <2>2 DEF TurnStart, TypeOK, actorVars, ghostVars
  <1>4. CASE TurnEnd
    <2>1. events' \in Seq(Event)
      BY <1>4 DEF TurnEnd, TypeOK, Event
    <2> QED  BY <1>4, <2>1 DEF TurnEnd, TypeOK, durableVars, actorVars, ghostVars
  <1>5. CASE TurnError
    <2>1. events' \in Seq(Event)
      BY <1>5 DEF TurnError, TypeOK, Event
    <2> QED  BY <1>5, <2>1 DEF TurnError, TypeOK, durableVars, actorVars, ghostVars
  <1> QED  BY <1>1, <1>2, <1>3, <1>4, <1>5 DEF RuntimeStep

\* Rows that are failed.
LEMMA FailedRows ==
    ASSUME NEW q \in View, NEW S \in SUBSET Items
    PROVE  /\ \A i \in S : Upserted(q, q, S, "failed").items[i].state = "failed"
           /\ \A i \in Items \ S : Upserted(q, q, S, "failed").items[i] = q.items[i]
  <1>1. \A i \in Items : q.items[i] \in Row
    BY DEF View
  <1>2. \A i \in Items : [q.items[i] EXCEPT !.state = "failed"].state = "failed"
    BY <1>1 DEF Row
  <1>3. Upserted(q, q, S, "failed").items = [i \in Items |->
          IF i \in S THEN [q.items[i] EXCEPT !.state = "failed"] ELSE q.items[i]]
    BY DEF Upserted, View
  <1> QED  BY <1>2, <1>3

\* Archiving withdraws what waits of what other sessions sent, and fails what was
\* handed over.
LEMMA RetiredRows ==
    ASSUME RetireOwn
    PROVE  LET given == {i \in Linked : ledger[i] = "dispatched"}
           IN \E D \in SUBSET Items, F \in SUBSET Items :
                /\ D = given \cup {i \in Linked : ledger[i] = "pending"}
                /\ F = given \cap InState(queue, "dispatched")
                /\ queue' = Upserted(Deleted(queue, D), Deleted(queue, D), F, "failed")
                /\ ledger' = [i \in Items |-> IF i \in D THEN "retired" ELSE ledger[i]]
                /\ read' = read \cup (D \cap Notices)
  <1> DEFINE given == {i \in Linked : ledger[i] = "dispatched"}
             D == given \cup {i \in Linked : ledger[i] = "pending"}
             F == given \cap InState(queue, "dispatched")
  <1>1. D \in SUBSET Items /\ F \in SUBSET Items
    BY QueueAssumption DEF QueueAssumption, Linked
  <1>2. /\ queue' = Upserted(Deleted(queue, D), Deleted(queue, D), F, "failed")
        /\ ledger' = [i \in Items |-> IF i \in D THEN "retired" ELSE ledger[i]]
        /\ read' = read \cup (D \cap Notices)
    BY DEF RetireOwn
  <1> QED  BY <1>1, <1>2

\* ... and no other row becomes anything else.
LEMMA RetiredStates ==
    ASSUME RetireOwn, queue \in View
    PROVE  \A i \in Items :
             IF ledger[i] = "dispatched" /\ i \in Linked
                /\ queue.items[i].state = "dispatched"
             THEN queue'.items[i].state = "failed"
             ELSE IF ledger[i] \in {"pending", "dispatched"} /\ i \in Linked
                     /\ Pending(queue, i)
             THEN queue'.items[i].state = "gone"
             ELSE queue'.items[i] = queue.items[i]
  <1> DEFINE given == {i \in Linked : ledger[i] = "dispatched"}
  <1>1. PICK D \in SUBSET Items, F \in SUBSET Items :
          /\ D = given \cup {i \in Linked : ledger[i] = "pending"}
          /\ F = given \cap InState(queue, "dispatched")
          /\ queue' = Upserted(Deleted(queue, D), Deleted(queue, D), F, "failed")
    BY RetiredRows
  <1> DEFINE q == Deleted(queue, D)
             r == Upserted(q, q, F, "failed")
  <1>2. /\ q \in View
        /\ \A i \in Items : q.items[i].state =
              IF i \in D /\ Pending(queue, i) THEN "gone" ELSE queue.items[i].state
    BY DeletedRows
  <1>3. \A i \in Items : ~(i \in D /\ Pending(queue, i)) => q.items[i] = queue.items[i]
    BY DEF Deleted, View, Pending
  <1> HIDE DEF q
  <1>4. /\ \A i \in F : r.items[i].state = "failed"
        /\ \A i \in Items \ F : r.items[i] = q.items[i]
    BY <1>2, FailedRows
  <1>5. queue' = r
    BY <1>1 DEF q
  <1> HIDE DEF r
  <1>6. \A i \in Items : i \in F <=> i \in Linked /\ ledger[i] = "dispatched"
                                       /\ queue.items[i].state = "dispatched"
    BY <1>1 DEF InState
  <1>7. \A i \in Items : i \in D <=> i \in Linked /\ ledger[i] \in {"pending", "dispatched"}
    BY <1>1
  <1> QED  BY <1>2, <1>3, <1>4, <1>5, <1>6, <1>7 DEF Pending

\* Closing, quitting, crashing and restoring keep every type.
LEMMA LifecycleType == TypeOK /\ LifecycleStep => TypeOK'
  <1> SUFFICES ASSUME TypeOK, LifecycleStep PROVE TypeOK'
    OBVIOUS
  <1>1. queue \in View /\ ledger \in [Items -> LedgerState]
    BY DEF TypeOK
  <1>2. ASSUME Gone
        PROVE  /\ view' \in View /\ status' \in Status /\ events' \in Seq(Event)
               /\ alive' \in BOOLEAN /\ installed' \in BOOLEAN /\ poked' \in BOOLEAN
               /\ sending' \in Items \cup {None} /\ reply' \in {"none", "ok", "error"}
               /\ inbox' \subseteq Work /\ turn' \subseteq Work
    <2>1. Unborn \in Row
      <3>1. 0 \in 0..MaxPosition /\ 0 \in 0..MaxEdits
        BY QueueAssumption DEF QueueAssumption
      <3> QED  BY <3>1 DEF Unborn, Row, RowState
    <2>2. view' \in View
      BY <1>2, <2>1 DEF Gone, View
    <2>3. events' \in Seq(Event)
      BY <1>2 DEF Gone
    <2> QED  BY <1>2, <2>2, <2>3 DEF Gone, Status
  <1>3. ASSUME ExpireNotices
        PROVE  /\ queue' \in View /\ ledger' \in [Items -> LedgerState]
               /\ read' \subseteq Notices
    <2> DEFINE stale == {i \in Notices \ read : ledger[i] # "none"}
               S == {i \in stale : ledger[i] \in LinkedState}
    <2>1. stale \subseteq Notices /\ S \in SUBSET Items
      BY QueueAssumption DEF QueueAssumption
    <2>2. queue' = Deleted(queue, S)
      BY <1>3 DEF ExpireNotices
    <2>3. ledger' = [i \in Items |-> IF i \in stale THEN "expired" ELSE ledger[i]]
      BY <1>3 DEF ExpireNotices
    <2>4. read' = read \cup stale
      BY <1>3 DEF ExpireNotices
    <2> HIDE DEF stale, S
    <2>5. queue' \in View
      BY <1>1, <2>1, <2>2, DeletedRows
    <2>6. ledger' \in [Items -> LedgerState]
      BY <1>1, <2>3 DEF LedgerState
    <2> QED  BY <2>1, <2>4, <2>5, <2>6 DEF TypeOK
  <1>4. CASE Close
    BY <1>2, <1>4 DEF Close, TypeOK, durableVars, ghostVars
  <1>5. CASE QuitAndStart
    BY <1>2, <1>3, <1>5 DEF QuitAndStart, TypeOK, ghostVars
  <1>6. CASE CrashAndStart
    <2>1. faults' \in Nat /\ crashes' \in Nat
      BY <1>6 DEF CrashAndStart, TypeOK
    <2> QED  BY <1>2, <1>3, <1>6, <2>1 DEF CrashAndStart, TypeOK
  <1>7. CASE Restore
    <2>1. PICK told \in BOOLEAN, loaded \in BOOLEAN : LoadQueue(told, loaded)
      BY <1>7 DEF Restore
    <2> DEFINE S == IF told THEN Reconciled(queue, ledger) ELSE {}
               q == Upserted(queue, queue, S, "completed")
               led == Synchronized(ledger, S, "completed")
               v == IF loaded THEN q ELSE view
               n == faults + (IF told THEN 0 ELSE 1) + (IF loaded THEN 0 ELSE 1)
    <2>2. S \in SUBSET Items /\ "completed" \in RowState
      BY DEF Reconciled, InState, RowState
    <2>3. DrainAfter(n, "idle", q, led, v)
      BY <2>1 DEF LoadQueue
    <2>4. n \in Nat /\ faults <= n
      BY DEF TypeOK
    <2> HIDE DEF S, n
    <2>5. q \in View
      BY <1>1, <2>2, UpsertedRows
    <2>6. led \in [Items -> LedgerState]
      BY <1>1, <2>2, LedgerStates
    <2>7. v \in View
      BY <2>5 DEF TypeOK
    <2> HIDE DEF q, led, v
    <2>8. RowsOK'
      BY <2>3, <2>4, <2>5, <2>6, <2>7, DrainStep DEF RowsOK
    <2> QED  BY <1>7, <2>8 DEF Restore, TypeOK, RowsOK, runtimeVars, Status
  <1>8. CASE Install
    BY <1>8 DEF Install, TypeOK, durableVars, runtimeVars, ghostVars
  <1>9. CASE RetireOwn
    <2>1. PICK D \in SUBSET Items, F \in SUBSET Items :
             /\ queue' = Upserted(Deleted(queue, D), Deleted(queue, D), F, "failed")
             /\ ledger' = [i \in Items |-> IF i \in D THEN "retired" ELSE ledger[i]]
             /\ read' = read \cup (D \cap Notices)
      BY <1>9, RetiredRows
    <2>2. Deleted(queue, D) \in View
      BY <1>1, DeletedRows
    <2>3. queue' \in View
      <3>1. "failed" \in RowState
        BY DEF RowState
      <3> QED  BY <2>1, <2>2, <3>1, UpsertedRows
    <2>4. ledger' \in [Items -> LedgerState] /\ read' \subseteq Notices
      BY <1>1, <2>1 DEF LedgerState, TypeOK
    <2> QED
      BY <1>9, <2>3, <2>4 DEF RetireOwn, TypeOK, actorVars, runtimeVars, ghostVars
  <1> QED  BY <1>4, <1>5, <1>6, <1>7, <1>8, <1>9 DEF LifecycleStep

\* Every variable keeps to its type, whatever the items and the bounds are.
THEOREM TypeCorrect == Spec => []TypeOK
  <1>1. TypeOK /\ UNCHANGED vars => TypeOK'
    BY DEF TypeOK, vars, durableVars, actorVars, runtimeVars, ghostVars
  <1>2. TypeOK /\ [Next]_vars => TypeOK'
    BY <1>1, UserType, ManagerType, ActorType, RuntimeType, LifecycleType DEF Next
  <1> QED  BY <1>2, InitType, PTL DEF Spec

-----------------------------------------------------------------------------
(* A follow-up is handed over once, plus once for every fault.             *)

Safe == Accounted /\ Delivering /\ Born

\* Draining keeps the accounts whenever no row or copy that is pending, other
\* than by a fault, was handed over before.
LEMMA DrainSafe ==
    ASSUME TypeOK, NEW n \in Nat, faults <= n, NEW s, NEW q \in View, NEW v \in View,
           NEW led \in [Items -> LedgerState], DrainAfter(n, s, q, led, v),
           accepted' = accepted, reply' = "none", alive',
           \A i \in Items : accepted[i] <= 1 + faults,
           \A i \in Items : Pending(q, i) \/ Pending(v, i) => accepted[i] <= faults,
           \A i \in Items : q.items[i].state = "unborn" =>
                accepted[i] = 0 /\ v.items[i].state = "unborn"
    PROVE  Safe'
  <1>1. /\ sending' \in Items \cup {None}
        /\ faults' \in Nat /\ faults <= faults'
        /\ \A i \in Items : \/ queue'.items[i].state = q.items[i].state
                            \/ /\ queue'.items[i].state = "completed"
                               /\ v.items[i].state = "dispatched"
        /\ view' = v \/ view' = queue'
        /\ sending' # None => Pending(view', sending')
    BY DrainStep
  <1>2. faults \in Nat /\ \A i \in Items : accepted[i] \in Nat
    BY DEF TypeOK
  <1>3. \A i \in Items : Pending(queue', i) \/ Pending(view', i) =>
            Pending(q, i) \/ Pending(v, i)
    BY <1>1 DEF Pending
  <1>4. Accounted'
    <2>1. \A i \in Items : accepted'[i] <= 1 + faults'
      BY <1>1, <1>2
    <2>2. \A i \in Items :
            Pending(queue', i) \/ Pending(view', i) => accepted'[i] <= faults'
      BY <1>1, <1>2, <1>3
    <2>3. sending' # None => accepted'[sending'] <= faults'
      BY <1>1, <2>2
    <2> QED  BY <2>1, <2>2, <2>3 DEF Accounted, Pending
  <1>5. Delivering'
    BY <1>1 DEF Delivering, Pending
  <1>6. Born'
    BY <1>1 DEF Born
  <1> QED  BY <1>4, <1>5, <1>6 DEF Safe

\* A command that only edits rows that were never handed over, in a session
\* that is delivering nothing, is safe.
LEMMA EditSafe ==
    ASSUME QueueInv, sending = None, NEW q \in View,
           NEW led \in [Items -> LedgerState], AfterEdit(q, led),
           accepted' = accepted, reply' = reply, alive',
           \A i \in Items : Pending(q, i) => accepted[i] <= faults,
           \A i \in Items : q.items[i].state = "unborn" =>
                queue.items[i].state = "unborn"
    PROVE  Safe'
  <1>1. /\ reply' = "none"
        /\ \A i \in Items : accepted[i] <= 1 + faults
        /\ \A i \in Items : q.items[i].state = "unborn" => accepted[i] = 0
    BY DEF QueueInv, Delivering, Accounted, Born
  <1>2. CASE Drain(status, q, led, q)
    <2>1. /\ TypeOK /\ faults \in Nat /\ faults <= faults
          /\ DrainAfter(faults, status, q, led, q)
      BY <1>2 DEF QueueInv, TypeOK, Drain
    <2> QED  BY <1>1, <2>1, DrainSafe
  <1>3. CASE EditFails(q, led)
    <2>1. /\ queue' = q /\ view' = view /\ sending' = None /\ faults' = faults + 1
      BY <1>3 DEF EditFails
    <2>2. faults \in Nat /\ \A i \in Items : accepted[i] \in Nat
      BY DEF QueueInv, TypeOK
    <2>3. Accounted'
      BY <1>1, <2>1, <2>2 DEF Accounted
    <2>4. Delivering'
      BY <1>1, <2>1 DEF Delivering
    <2>5. Born'
      BY <1>1, <2>1 DEF QueueInv, Born
    <2> QED  BY <2>3, <2>4, <2>5 DEF Safe
  <1> QED  BY <1>2, <1>3 DEF AfterEdit

\* Nothing was handed over yet.
LEMMA InitSafe == Init => Safe
  <1> SUFFICES ASSUME Init PROVE Safe
    OBVIOUS
  <1>1. \A i \in Items : queue.items[i].state = "unborn" /\ view.items[i].state = "unborn"
    BY DEF Init, Unborn
  <1> QED  BY <1>1 DEF Init, Safe, Accounted, Delivering, Born, Pending

\* No command of the developer makes an item eligible that was handed over.
LEMMA UserSafe == QueueInv /\ UserStep => Safe'
  <1> SUFFICES ASSUME QueueInv, UserStep PROVE Safe'
    OBVIOUS
  <1>1. /\ queue \in View /\ ledger \in [Items -> LedgerState]
        /\ faults \in Nat /\ \A i \in Items : accepted[i] \in Nat
    BY DEF QueueInv, TypeOK
  <1>2. sending = None => \A i \in Items : Pending(queue, i) => accepted[i] <= faults
    <2>1. None \notin Items
      BY QueueAssumption DEF QueueAssumption
    <2> QED  BY <2>1 DEF QueueInv, Accounted
  <1>3. ASSUME NEW q \in View, NEW led \in [Items -> LedgerState], Command(q, led),
               \A i \in Items : Pending(q, i) =>
                    Pending(queue, i) \/ queue.items[i].state = "unborn",
               \A i \in Items : q.items[i].state = "unborn" =>
                    queue.items[i].state = "unborn"
        PROVE  Safe'
    <2>1. \A i \in Items : Pending(q, i) => accepted[i] <= faults
      BY <1>1, <1>2, <1>3 DEF Command, Ready, QueueInv, Born
    <2> QED  BY <1>3, <2>1, EditSafe DEF Command, Ready, otherCommandVars
  <1>4. ASSUME NEW i \in Items, NEW b \in BOOLEAN, Enqueue(i, b) PROVE Safe'
    <2>1. PICK p \in 1..MaxPosition : Command(Inserted(queue, i, p, b), ledger)
      BY <1>4 DEF Enqueue
    <2>2. /\ Inserted(queue, i, p, b) \in View
          /\ \A j \in Items : Inserted(queue, i, p, b).items[j].state =
                    IF j = i THEN "pending" ELSE queue.items[j].state
      BY <1>1, InsertedRows
    <2>3. queue.items[i].state = "unborn"
      BY <1>4 DEF Enqueue
    <2> QED  BY <1>1, <1>3, <2>1, <2>2, <2>3 DEF Pending
  <1>5. ASSUME NEW i \in Items, UpdateText(i) PROVE Safe'
    <2> DEFINE q == [queue EXCEPT !.items[i].text = @ + 1]
    <2>1. q \in View /\ \A j \in Items : q.items[j].state = queue.items[j].state
      <3>1. /\ \A j \in Items : queue.items[j] \in Row
            /\ queue.items[i].text < MaxEdits
        BY <1>1, <1>5 DEF View, UpdateText
      <3>2. queue.items[i].text + 1 \in 0..MaxEdits
        BY <3>1, QueueAssumption DEF QueueAssumption, Row
      <3> QED  BY <1>1, <3>1, <3>2 DEF View, Row
    <2> QED  BY <1>1, <1>3, <1>5, <2>1 DEF UpdateText, Pending
  <1>6. ASSUME NEW S \in SUBSET Items
        PROVE  /\ Deleted(queue, S) \in View
               /\ Unlinked(queue, ledger, S, "cancelled") \in [Items -> LedgerState]
               /\ \A i \in Items : Pending(Deleted(queue, S), i) => Pending(queue, i)
               /\ \A i \in Items : Deleted(queue, S).items[i].state = "unborn"
                        => queue.items[i].state = "unborn"
    <2>1. "cancelled" \in LedgerState
      BY DEF LedgerState
    <2> QED  BY <1>1, <2>1, DeletedRows, LedgerStates DEF Pending
  <1>7. ASSUME NEW i \in Items, Remove(i) PROVE Safe'
    <2>1. {i} \in SUBSET Items
      OBVIOUS
    <2> QED  BY <1>3, <1>6, <1>7, <2>1 DEF Remove
  <1>8. ASSUME Clear PROVE Safe'
    <2>1. CASE Command(Deleted(queue, Items), Unlinked(queue, ledger, Items, "cancelled"))
      BY <1>3, <1>6, <2>1
    <2>2. ASSUME NEW S \in SUBSET InState(queue, "pending"), Ready,
                 EditFails(Deleted(queue, S), Unlinked(queue, ledger, S, "cancelled")),
                 UNCHANGED <<otherCommandVars, poked>>
          PROVE  Safe'
      <3>1. S \in SUBSET Items
        BY DEF InState
      <3>2. AfterEdit(Deleted(queue, S), Unlinked(queue, ledger, S, "cancelled"))
        BY <2>2 DEF AfterEdit
      <3>3. \A i \in Items : Pending(Deleted(queue, S), i) => accepted[i] <= faults
        BY <1>2, <1>6, <2>2, <3>1 DEF Ready
      <3> QED
        BY <1>6, <2>2, <3>1, <3>2, <3>3, EditSafe DEF Ready, otherCommandVars
    <2> QED  BY <1>8, <2>1, <2>2 DEF Clear
  <1>9. ASSUME NEW S \in SUBSET Items, Reorder(S) PROVE Safe'
    <2>1. PICK rank \in [S -> 1..MaxPosition] :
             Command([queue EXCEPT !.items = [i \in Items |->
                        IF i \in S THEN [queue.items[i] EXCEPT !.pos = rank[i]]
                        ELSE queue.items[i]]], ledger)
      BY <1>9 DEF Reorder
    <2> DEFINE q == [queue EXCEPT !.items = [i \in Items |->
                        IF i \in S THEN [queue.items[i] EXCEPT !.pos = rank[i]]
                        ELSE queue.items[i]]]
    <2>2. q \in View /\ \A i \in Items : q.items[i].state = queue.items[i].state
      BY <1>1, RankedRows
    <2> HIDE DEF q
    <2> QED  BY <1>1, <1>3, <2>1, <2>2 DEF Pending, q
  <1>10. ASSUME NEW b \in BOOLEAN, SetPaused(b) PROVE Safe'
    <2>1. /\ [queue EXCEPT !.paused = b] \in View
          /\ [queue EXCEPT !.paused = b].items = queue.items
      BY <1>1 DEF View
    <2> QED  BY <1>1, <1>3, <1>10, <2>1 DEF SetPaused, Pending
  <1>11. ASSUME SendDirect \/ Cancel PROVE Safe'
    BY <1>11 DEF SendDirect, Cancel, durableVars, actorVars, ghostVars, QueueInv,
                 Safe, Accounted, Delivering, Born, Pending
  <1>12. \A S \in SUBSET Stored(queue) : S \in SUBSET Items
    BY DEF Stored
  <1> QED
    BY <1>4, <1>5, <1>7, <1>8, <1>9, <1>10, <1>11, <1>12 DEF UserStep

\* Nor does a row another task writes or withdraws.
LEMMA ManagerSafe == QueueInv /\ ManagerStep => Safe'
  <1> SUFFICES ASSUME QueueInv, ManagerStep PROVE Safe'
    OBVIOUS
  <1>1. /\ queue \in View /\ faults \in Nat
        /\ view' = view /\ sending' = sending /\ reply' = reply /\ alive' = alive
        /\ accepted' = accepted /\ faults' = faults
    BY DEF ManagerStep, CreateCoordination, ResolveNotice, RetireSender, actorVars, ghostVars,
           QueueInv, TypeOK
  <1>2. \A j \in Items :
           /\ Pending(queue', j) => Pending(queue, j) \/ queue.items[j].state = "unborn"
           /\ queue'.items[j].state = "unborn" => queue.items[j].state = "unborn"
    <2>1. ASSUME NEW i \in Items, NEW b \in BOOLEAN, CreateCoordination(i, b) PROVE <1>2
      <3>1. PICK p \in 1..MaxPosition : queue' = Inserted(queue, i, p, b)
        BY <2>1 DEF CreateCoordination
      <3>2. \A j \in Items : queue'.items[j].state =
                IF j = i THEN "pending" ELSE queue.items[j].state
        BY <1>1, <3>1, InsertedRows
      <3>3. queue.items[i].state = "unborn"
        BY <2>1 DEF CreateCoordination
      <3> QED  BY <3>2, <3>3 DEF Pending
    <2>2. ASSUME NEW i \in Items, ResolveNotice(i) PROVE <1>2
      <3>1. {i} \in SUBSET Items
        OBVIOUS
      <3> QED  BY <1>1, <2>2, <3>1, DeletedRows DEF ResolveNotice, Pending
    <2>3. ASSUME NEW S \in SUBSET Linked, RetireSender(S) PROVE <1>2
      <3> DEFINE D == {i \in S : ledger[i] \in {"pending", "dispatched"}}
      <3>1. D \in SUBSET Items
        BY QueueAssumption DEF QueueAssumption, Linked
      <3>2. queue' = Deleted(queue, D)
        BY <2>3 DEF RetireSender, RetiredFrom
      <3> HIDE DEF D
      <3> QED  BY <1>1, <3>1, <3>2, DeletedRows DEF Pending
    <2> QED  BY <2>1, <2>2, <2>3 DEF ManagerStep
  <1>3. Accounted'
    <2>1. \A j \in Items : queue.items[j].state = "unborn" => accepted[j] <= faults
      BY <1>1 DEF QueueInv, Born
    <2> QED  BY <1>1, <1>2, <2>1 DEF QueueInv, Accounted, Pending
  <1>4. Delivering' /\ Born'
    BY <1>1, <1>2 DEF QueueInv, Delivering, Born, Pending
  <1> QED  BY <1>3, <1>4 DEF Safe

\* An outcome that is not recorded is a fault, and pays for one more delivery.
LEMMA ActorSafe == QueueInv /\ ActorStep => Safe'
  <1> SUFFICES ASSUME QueueInv, ActorStep PROVE Safe'
    OBVIOUS
  <1>1. /\ queue \in View /\ view \in View /\ ledger \in [Items -> LedgerState]
        /\ faults \in Nat /\ \A i \in Items : accepted[i] \in Nat
        /\ None \notin Items
    BY QueueAssumption DEF QueueAssumption, QueueInv, TypeOK
  <1>2. sending = None =>
          /\ reply = "none"
          /\ \A i \in Items :
                Pending(queue, i) \/ Pending(view, i) => accepted[i] <= faults
    BY <1>1 DEF QueueInv, Delivering, Accounted
  <1>3. CASE Sync
    BY <1>1, <1>2, <1>3, EditSafe DEF Sync, Ready, otherCommandVars
  <1>4. CASE DeliveryReturns
    <2>1. PICK saved \in BOOLEAN, reread \in BOOLEAN :
            LET S == IF saved THEN {sending} ELSE {}
            IN /\ faults' = IF ~saved \/ ~reread THEN faults + 1 ELSE faults
               /\ queue' = Upserted(queue, view, S, Outcome(reply))
               /\ view' = IF reread THEN queue' ELSE view
      BY <1>4 DEF DeliveryReturns
    <2> DEFINE S == IF saved THEN {sending} ELSE {}
               o == Outcome(reply)
    <2>2. S \in SUBSET Items
      BY <1>4 DEF DeliveryReturns, QueueInv, TypeOK
    <2>3. o \in {"dispatched", "failed"} /\ o \in RowState
      BY DEF Outcome, RowState
    <2>4. /\ queue' = Upserted(queue, view, S, o)
          /\ view' = IF reread THEN queue' ELSE view
          /\ faults' = IF ~saved \/ ~reread THEN faults + 1 ELSE faults
          /\ saved => sending \in S
          /\ S \subseteq {sending}
      BY <2>1
    <2> HIDE DEF S, o
    <2>5. \A i \in Items : queue'.items[i].state =
              IF i \in S THEN o ELSE queue.items[i].state
      BY <1>1, <2>2, <2>3, <2>4, UpsertedRows
    <2>6. /\ sending \in Items /\ sending' = None /\ reply' = "none"
          /\ accepted' = accepted
      BY <1>4 DEF DeliveryReturns, QueueInv, TypeOK
    <2>7. \A i \in Items : accepted[i] <= 1 + faults
      BY DEF QueueInv, Accounted
    <2>8. \A i \in Items : i # sending /\ (Pending(queue', i) \/ Pending(view', i))
              => accepted[i] <= faults
      BY <2>3, <2>4, <2>5 DEF QueueInv, Accounted, Pending
    <2>9. Pending(queue', sending) \/ Pending(view', sending) => faults' = faults + 1
      BY <2>3, <2>4, <2>5, <2>6 DEF Pending
    <2>10. faults <= faults'
      BY <1>1, <2>4
    <2>11. \A i \in Items : Pending(queue', i) \/ Pending(view', i)
              => accepted[i] <= faults'
      BY <1>1, <2>4, <2>7, <2>8, <2>9
    <2>12. Accounted'
      BY <1>1, <2>4, <2>6, <2>7, <2>11 DEF Accounted, Pending
    <2>13. Delivering'
      BY <2>6 DEF Delivering
    <2>14. Born'
      BY <1>1, <2>3, <2>4, <2>5, <2>6 DEF QueueInv, Born
    <2> QED  BY <2>12, <2>13, <2>14 DEF Safe
  <1>5. CASE ApplyEvent
    <2>1. /\ sending = None /\ alive' /\ reply' = "none" /\ accepted' = accepted
      BY <1>2, <1>5 DEF ApplyEvent, Ready
    <2>2. CASE ReadEvent /\ Head(events) \in {"idle", "aborted"}
      <3>1. /\ TypeOK /\ faults <= faults
            /\ DrainAfter(faults, StatusAfter(Head(events)), queue, ledger, view)
        BY <1>1, <2>2 DEF ReadEvent, Drain, QueueInv
      <3>2. \A i \in Items : accepted[i] <= 1 + faults
        BY DEF QueueInv, Accounted
      <3>3. \A i \in Items : queue.items[i].state = "unborn" =>
              accepted[i] = 0 /\ view.items[i].state = "unborn"
        BY DEF QueueInv, Born
      <3> QED  BY <1>1, <1>2, <2>1, <3>1, <3>2, <3>3, DrainSafe
    <2>3. CASE \/ ReadEvent /\ Head(events) \notin {"idle", "aborted"}
               \/ DropEvent
      <3>1. /\ UNCHANGED <<queue, view, sending>>
            /\ faults' \in Nat /\ faults <= faults'
        BY <1>1, <2>3 DEF ReadEvent, DropEvent
      <3> QED  BY <1>1, <1>2, <2>1, <3>1 DEF QueueInv, Safe, Accounted, Delivering, Born, Pending
    <2> QED  BY <1>5, <2>2, <2>3 DEF ApplyEvent
  <1> QED  BY <1>3, <1>4, <1>5 DEF ActorStep

\* Handing over uses up the one delivery the item in flight had left.
LEMMA RuntimeSafe == QueueInv /\ RuntimeStep => Safe'
  <1> SUFFICES ASSUME QueueInv, RuntimeStep PROVE Safe'
    OBVIOUS
  <1>1. CASE RuntimeAccepts
    <2>1. /\ sending \in Items /\ sending # None /\ reply = "none" /\ reply' # "none"
          /\ accepted' = [accepted EXCEPT ![sending] = @ + 1]
          /\ UNCHANGED <<queue, view, sending, alive, faults>>
      BY <1>1 DEF RuntimeAccepts, Accept, QueueInv, TypeOK
    <2>2. accepted \in [Items -> Nat] /\ faults \in Nat
      BY DEF QueueInv, TypeOK
    <2>3. accepted[sending] <= faults
      BY <2>1 DEF QueueInv, Accounted
    <2>4. Accounted'
      BY <2>1, <2>2, <2>3 DEF QueueInv, Accounted, Pending
    <2>5. Delivering'
      BY <2>1 DEF QueueInv, Delivering, Pending
    <2>6. queue.items[sending].state # "unborn"
      BY <2>1 DEF QueueInv, Delivering, Born, Pending
    <2>7. Born'
      BY <2>1, <2>2, <2>6 DEF QueueInv, Born
    <2> QED  BY <2>4, <2>5, <2>7 DEF Safe
  <1>2. CASE RuntimeRejects
    BY <1>2 DEF RuntimeRejects, durableVars, runtimeVars, ghostVars, QueueInv,
                Safe, Accounted, Delivering, Born, Pending
  <1>3. ASSUME \/ \E w \in Work : TurnStart(w)
               \/ TurnEnd \/ TurnError
        PROVE  Safe'
    <2>1. UNCHANGED <<queue, view, sending, reply, alive, accepted, faults>>
      BY <1>3 DEF TurnStart, TurnEnd, TurnError, durableVars, actorVars, ghostVars
    <2> QED  BY <2>1 DEF QueueInv, Safe, Accounted, Delivering, Born, Pending
  <1> QED  BY <1>1, <1>2, <1>3 DEF RuntimeStep

\* A crash pays for the delivery it may have interrupted; a restart reads only
\* rows that are accounted for.
LEMMA LifecycleSafe == QueueInv /\ LifecycleStep => Safe'
  <1> SUFFICES ASSUME QueueInv, LifecycleStep PROVE Safe'
    OBVIOUS
  <1>1. /\ queue \in View /\ ledger \in [Items -> LedgerState]
        /\ faults \in Nat /\ \A i \in Items : accepted[i] \in Nat
        /\ None \notin Items
    BY QueueAssumption DEF QueueAssumption, QueueInv, TypeOK
  <1>2. sending = None => \A i \in Items : Pending(queue, i) => accepted[i] <= faults
    BY <1>1 DEF QueueInv, Accounted
  <1>3. /\ \A i \in Items : accepted[i] <= 1 + faults
        /\ \A i \in Items : queue.items[i].state = "unborn" => accepted[i] = 0
    BY DEF QueueInv, Accounted, Born
  <1>4. ASSUME Gone, accepted' = accepted, faults' \in Nat, faults <= faults',
               \A i \in Items : Pending(queue', i) =>
                    Pending(queue, i) /\ accepted[i] <= faults',
               \A i \in Items : queue'.items[i].state = "unborn" =>
                    queue.items[i].state = "unborn"
        PROVE  Safe'
    <2>1. /\ sending' = None /\ reply' = "none"
          /\ \A i \in Items : view'.items[i].state = "unborn"
      BY <1>4 DEF Gone, Unborn
    <2>2. Accounted'
      BY <1>1, <1>3, <1>4, <2>1 DEF Accounted, Pending
    <2>3. Delivering' /\ Born'
      BY <1>3, <1>4, <2>1 DEF Delivering, Born
    <2> QED  BY <2>2, <2>3 DEF Safe
  <1>5. ASSUME ExpireNotices
        PROVE  /\ \A i \in Items : Pending(queue', i) => Pending(queue, i)
               /\ \A i \in Items : queue'.items[i].state = "unborn" =>
                    queue.items[i].state = "unborn"
    <2> DEFINE S == {i \in {j \in Notices \ read : ledger[j] # "none"} :
                        ledger[i] \in LinkedState}
    <2>1. S \in SUBSET Items
      BY QueueAssumption DEF QueueAssumption
    <2>2. queue' = Deleted(queue, S)
      BY <1>5 DEF ExpireNotices
    <2> HIDE DEF S
    <2> QED  BY <1>1, <2>1, <2>2, DeletedRows DEF Pending
  <1>6. CASE Close
    BY <1>1, <1>2, <1>4, <1>6 DEF Close, Ready, durableVars, ghostVars, Pending
  <1>7. CASE QuitAndStart
    <2>1. sending = None
      BY <1>7 DEF QuitAndStart, QueueInv, Delivering
    <2>2. accepted' = accepted /\ faults' = faults /\ Gone /\ ExpireNotices
      BY <1>7 DEF QuitAndStart, ghostVars
    <2> QED  BY <1>1, <1>2, <1>4, <1>5, <2>1, <2>2
  <1>8. CASE CrashAndStart
    <2>1. accepted' = accepted /\ faults' = faults + 1 /\ Gone /\ ExpireNotices
      BY <1>8 DEF CrashAndStart
    <2> QED  BY <1>1, <1>3, <1>4, <1>5, <2>1
  <1>9. CASE Restore
    <2>1. PICK told \in BOOLEAN, loaded \in BOOLEAN : LoadQueue(told, loaded)
      BY <1>9 DEF Restore
    <2> DEFINE S == IF told THEN Reconciled(queue, ledger) ELSE {}
               q == Upserted(queue, queue, S, "completed")
               led == Synchronized(ledger, S, "completed")
               v == IF loaded THEN q ELSE view
               n == faults + (IF told THEN 0 ELSE 1) + (IF loaded THEN 0 ELSE 1)
    <2>2. S \in SUBSET Items /\ DrainAfter(n, "idle", q, led, v) /\ n \in Nat /\ faults <= n
      BY <1>1, <2>1 DEF Reconciled, InState, LoadQueue
    <2>3. sending = None /\ reply' = "none" /\ alive' /\ accepted' = accepted /\ TypeOK
      BY <1>9 DEF Restore, QueueInv, Delivering
    <2> HIDE DEF S, n
    <2>4. /\ q \in View
          /\ \A i \in Items : q.items[i].state =
                IF i \in S THEN "completed" ELSE queue.items[i].state
      BY <1>1, <2>2, CompletedRows
    <2>5. led \in [Items -> LedgerState]
      BY <1>1, <2>2, LedgerStates
    <2>6. /\ v \in View
          /\ \A i \in Items : Pending(q, i) \/ Pending(v, i) => accepted[i] <= faults
          /\ \A i \in Items : q.items[i].state = "unborn" =>
               accepted[i] = 0 /\ v.items[i].state = "unborn"
      <3>1. \A i \in Items : Pending(q, i) => accepted[i] <= faults
        BY <1>2, <2>3, <2>4 DEF Pending
      <3>2. \A i \in Items : q.items[i].state = "unborn" =>
               accepted[i] = 0 /\ view.items[i].state = "unborn"
        BY <1>3, <2>4 DEF QueueInv, Born
      <3>3. view \in View /\ \A i \in Items : Pending(view, i) => accepted[i] <= faults
        BY <1>1, <2>3 DEF QueueInv, Accounted, TypeOK
      <3> HIDE DEF q
      <3> QED  BY <2>4, <3>1, <3>2, <3>3
    <2> HIDE DEF q, led, v
    <2> QED  BY <1>3, <2>2, <2>3, <2>4, <2>5, <2>6, DrainSafe
  <1>10. CASE Install
    BY <1>10 DEF Install, durableVars, runtimeVars, ghostVars, QueueInv, Safe,
                 Accounted, Delivering, Born, Pending
  <1>11. CASE RetireOwn
    <2>1. /\ UNCHANGED <<view, sending, reply, alive, accepted, faults>>
      BY <1>11 DEF RetireOwn, actorVars, ghostVars
    <2>2. \A i \in Items :
             /\ Pending(queue', i) => Pending(queue, i)
             /\ queue'.items[i].state = "unborn" => queue.items[i].state = "unborn"
      BY <1>1, <1>11, RetiredStates DEF Pending
    <2> QED  BY <1>1, <2>1, <2>2 DEF QueueInv, Safe, Accounted, Delivering, Born, Pending
  <1> QED  BY <1>6, <1>7, <1>8, <1>9, <1>10, <1>11 DEF LifecycleStep

\* drain_queue and complete_dispatched: the runtime accepts no follow-up more
\* often than once plus once for every crash or failed database call, for any
\* number of items, tasks and faults.
THEOREM HandedOverOnce == Spec => []AtMostOnce
  <1>1. Init => QueueInv
    BY InitType, InitSafe DEF QueueInv, Safe
  <1>2. QueueInv /\ [Next]_vars => QueueInv'
    <2>1. QueueInv /\ UNCHANGED vars => QueueInv'
      BY DEF vars, durableVars, actorVars, runtimeVars, ghostVars, QueueInv,
             TypeOK, Accounted, Delivering, Born, Pending
    <2>2. QueueInv /\ Next => TypeOK'
      BY UserType, ManagerType, ActorType, RuntimeType, LifecycleType
         DEF Next, QueueInv
    <2>3. QueueInv /\ Next => Safe'
      BY UserSafe, ManagerSafe, ActorSafe, RuntimeSafe, LifecycleSafe DEF Next
    <2> QED  BY <2>1, <2>2, <2>3 DEF QueueInv, Safe
  <1>3. QueueInv => AtMostOnce
    BY DEF QueueInv, Accounted, AtMostOnce
  <1> QED  BY <1>1, <1>2, <1>3, PTL DEF Spec
-----------------------------------------------------------------------------
(***************************************************************************)
(* What the tables say.                                                    *)
(*                                                                         *)
(* Each of these properties depends on the actor's copy of the rows,       *)
(* because that is what is written back, and on the prompts under way,     *)
(* because they turn up in the transcript.  Records says of the tables,    *)
(* the copy and the prompts what survives everything; Sound says what      *)
(* holds in addition as long as no database call failed, crashes or not.   *)
(***************************************************************************)

Texts == 0..MaxEdits

\* The prompts the runtime was given, as far as they may be or get on record.
Given == history \cup inbox \cup turn

MatchedIn(q, led) ==
    \A i \in Items : led[i] \in LinkedState =>
        i \in Stored(q) /\ led[i] = LedgerOf(q.items[i].state)

OpenIn(q, led) == \A i \in Linked : Pending(q, i) => led[i] \in LinkedState

TrueIn(q) ==
    \A i \in Items : q.items[i].state \in {"dispatched", "completed"} => accepted[i] > 0

FreshIn(v, q) ==
    \A i \in Items : Pending(v, i) /\ i \in Stored(q) => v.items[i] = q.items[i]

KnownIn(v, q) ==
    \A i \in Items : q.items[i].state = "dispatched" => v.items[i].state = "dispatched"

OneIn(q) ==
    \A i, j \in InState(q, "dispatched") :
        ~q.items[i].steer /\ ~q.items[j].steer => i = j

\* No prompt of a row that waits was given to the runtime before.
NewIn(q) ==
    \A i \in Linked, t \in Texts : Pending(q, i) => <<i, t>> \notin Given

Sound ==
    /\ FreshIn(view, queue)
    /\ alive => KnownIn(view, queue)
    /\ OneIn(queue)
    /\ sending # None /\ ~view.items[sending].steer => InState(queue, "dispatched") = {}
    /\ alive => \A i \in Linked, t \in Texts :
         (Pending(queue, i) \/ Pending(view, i)) /\ <<i, t>> \in Given =>
            i = sending /\ reply # "none" /\ t = view.items[i].text
    /\ ~alive => \A i \in Linked, t \in Texts :
         Pending(queue, i) /\ <<i, t>> \in history => t = queue.items[i].text

GivenTrue == \A i \in Items, t \in Texts : <<i, t>> \in Given => accepted[i] > 0

Records ==
    /\ MatchedIn(queue, ledger) /\ OpenIn(queue, ledger)
    /\ TrueIn(queue) /\ TrueIn(view)
    /\ sending # None /\ reply = "ok" => accepted[sending] > 0
    /\ GivenTrue
    /\ crashes <= faults
    /\ ~alive => /\ inbox = {} /\ turn = {}
                 /\ \A i \in Items : view.items[i].state = "unborn"
    /\ faults = crashes => Sound

RecordInv == QueueInv /\ Records

-----------------------------------------------------------------------------
(* Rows written back.                                                      *)

\* What is written to rows and ledger together agrees afterwards.
LEMMA MatchedUpsert ==
    ASSUME NEW q \in View, NEW v \in View, NEW led \in [Items -> LedgerState],
           NEW S \in SUBSET Items, NEW s \in {"completed", "dispatched", "failed"},
           MatchedIn(q, led), OpenIn(q, led)
    PROVE  /\ MatchedIn(Upserted(q, v, S, s), Synchronized(led, S, s))
           /\ OpenIn(Upserted(q, v, S, s), Synchronized(led, S, s))
  <1> DEFINE r == Upserted(q, v, S, s)
             l == Synchronized(led, S, s)
  <1>1. s \in RowState /\ LedgerOf(s) \in LinkedState
    BY DEF RowState, LedgerOf, LinkedState
  <1>2. \A i \in Items : r.items[i].state = IF i \in S THEN s ELSE q.items[i].state
    BY <1>1, UpsertedRows
  <1>3. \A i \in Items : l[i] = IF i \in S /\ led[i] \in LinkedState
                                THEN LedgerOf(s) ELSE led[i]
    BY DEF Synchronized
  <1> HIDE DEF r, l
  <1>4. MatchedIn(r, l)
    BY <1>1, <1>2, <1>3 DEF MatchedIn, Stored
  <1>5. OpenIn(r, l)
    BY <1>1, <1>2, <1>3, QueueAssumption DEF OpenIn, Pending, Linked, QueueAssumption
  <1> QED  BY <1>4, <1>5 DEF r, l

-----------------------------------------------------------------------------
(* What draining does to the records.                                      *)

\* Without a fault, whatever the copy calls dispatched is completed when idle, and
\* the copy is read again.
LEMMA DrainMoves ==
    ASSUME NEW n \in Nat, NEW s, NEW q \in View, NEW v \in View,
           NEW led \in [Items -> LedgerState], DrainAfter(n, s, q, led, v)
    PROVE  \E kept \in SUBSET Retired(s, v) :
             /\ queue' = Upserted(q, v, kept, "completed")
             /\ ledger' = Synchronized(led, kept, "completed")
             /\ view' = v \/ view' = queue'
             /\ faults' \in {n, n + 1}
             /\ faults' = n =>
                  /\ kept = Retired(s, v)
                  /\ Retired(s, v) # {} => view' = queue'
             /\ sending' = None \/ sending' \in Candidates(s, view')
  <1> DEFINE done == Retired(s, v)
  <1>1. PICK lost \in SUBSET done, reread \in BOOLEAN :
          LET kept == done \ lost
              q2   == Upserted(q, v, kept, "completed")
              v2   == IF done # {} /\ reread THEN q2 ELSE v
          IN /\ faults' = IF lost # {} \/ ~reread THEN n + 1 ELSE n
             /\ queue' = q2
             /\ ledger' = Synchronized(led, kept, "completed")
             /\ view' = v2
             /\ IF v2.paused \/ Candidates(s, v2) = {}
                THEN sending' = None
                ELSE sending' \in Candidates(s, v2)
    BY DEF DrainAfter
  <1> DEFINE kept == done \ lost
  <1>2. n + 1 # n
    OBVIOUS
  <1>3. kept \in SUBSET done
    OBVIOUS
  <1>4. faults' = n => lost = {} /\ reread
    BY <1>1, <1>2
  <1>5. view' = v \/ view' = queue'
    BY <1>1
  <1>6. sending' = None \/ sending' \in Candidates(s, view')
    BY <1>1
  <1>7. faults' = n => kept = done /\ (done # {} => view' = queue')
    BY <1>1, <1>4
  <1>8. /\ queue' = Upserted(q, v, kept, "completed")
        /\ ledger' = Synchronized(led, kept, "completed")
        /\ faults' \in {n, n + 1}
    BY <1>1
  <1> QED  BY <1>3, <1>5, <1>6, <1>7, <1>8

\* Draining keeps the records, on rows, ledger and copy that agree and of which
\* no prompt that waits was given to the runtime.
LEMMA DrainKeeps ==
    ASSUME TypeOK, NEW n \in Nat, NEW s, NEW q \in View, NEW v \in View,
           NEW led \in [Items -> LedgerState], DrainAfter(n, s, q, led, v),
           UNCHANGED <<history, inbox, turn, accepted, crashes>>,
           reply' = "none", alive',
           MatchedIn(q, led), OpenIn(q, led), TrueIn(q), TrueIn(v), GivenTrue,
           crashes <= n,
           n = crashes =>
             FreshIn(v, q) /\ KnownIn(v, q) /\ OneIn(q) /\ NewIn(q) /\ NewIn(v)
    PROVE  Records'
  <1>1. PICK kept \in SUBSET Retired(s, v) :
             /\ queue' = Upserted(q, v, kept, "completed")
             /\ ledger' = Synchronized(led, kept, "completed")
             /\ view' = v \/ view' = queue'
             /\ faults' \in {n, n + 1}
             /\ faults' = n =>
                  /\ kept = Retired(s, v)
                  /\ Retired(s, v) # {} => view' = queue'
             /\ sending' = None \/ sending' \in Candidates(s, view')
    BY DrainMoves
  <1>2. /\ kept \in SUBSET Items /\ "completed" \in RowState
        /\ \A i \in kept : v.items[i].state = "dispatched"
        /\ kept # {} => s = "idle"
    BY DEF Retired, InState, RowState
  <1>3. /\ \A i \in kept : /\ queue'.items[i].state = "completed"
                           /\ queue'.items[i].steer = v.items[i].steer
        /\ \A i \in Items \ kept : queue'.items[i] = q.items[i]
    <2> DEFINE r == Upserted(q, v, kept, "completed")
    <2>1. queue' = r
      BY <1>1
    <2>2. kept \in SUBSET Items /\ "completed" \in RowState
      BY <1>2
    <2>3. /\ \A i \in kept : /\ r.items[i].state = "completed"
                             /\ r.items[i].steer = v.items[i].steer
          /\ \A i \in Items \ kept : r.items[i] = q.items[i]
      BY <2>2, CompletedRows
    <2> HIDE DEF r
    <2> QED  BY <2>1, <2>3
  <1>4. MatchedIn(queue', ledger') /\ OpenIn(queue', ledger')
    BY <1>1, <1>2, MatchedUpsert
  <1>5. TrueIn(queue)'
    BY <1>2, <1>3 DEF TrueIn
  <1>6. TrueIn(view)'
    BY <1>1, <1>5 DEF TrueIn
  <1>7. crashes' <= faults' /\ (faults' = crashes' => n = crashes /\ faults' = n)
    BY <1>1 DEF TypeOK
  <1>8. GivenTrue'
    BY DEF GivenTrue, Given
  <1>9. ASSUME faults' = crashes' PROVE Sound'
    <2>1. /\ FreshIn(v, q) /\ KnownIn(v, q) /\ OneIn(q) /\ NewIn(q) /\ NewIn(v)
          /\ kept = Retired(s, v)
          /\ Retired(s, v) # {} => view' = queue'
      BY <1>1, <1>7, <1>9
    <2>2. view' # queue' => kept = {} /\ view' = v
      BY <1>1, <2>1
    <2>3. FreshIn(view, queue)'
      BY <1>3, <2>1, <2>2 DEF FreshIn, Pending, Stored
    <2>4. KnownIn(view, queue)'
      BY <1>3, <2>1, <2>2 DEF KnownIn
    <2>5. InState(queue', "dispatched") \subseteq InState(q, "dispatched") \ kept
      BY <1>2, <1>3 DEF InState
    <2>6. OneIn(queue)'
      BY <1>3, <2>1, <2>5 DEF OneIn, InState
    <2>7. ASSUME sending' # None, ~view'.items[sending'].steer
          PROVE  InState(queue, "dispatched")' = {}
      <3>1. s = "idle"
        BY <1>1, <2>7 DEF Candidates, Eligible
      <3>2. InState(q, "dispatched") \subseteq kept
        BY <2>1, <3>1 DEF KnownIn, InState, Retired
      <3> QED  BY <2>5, <3>2 DEF InState
    <2>8. ASSUME NEW i \in Linked, NEW t \in Texts, Pending(queue', i) \/ Pending(view', i)
          PROVE  <<i, t>> \notin Given'
      <3>1. i \in Items
        BY QueueAssumption DEF QueueAssumption, Linked
      <3>2. Pending(q, i) \/ Pending(v, i)
        BY <1>1, <1>2, <1>3, <2>8, <3>1 DEF Pending
      <3>3. Given' = Given
        BY DEF Given
      <3> QED  BY <2>1, <3>2, <3>3 DEF NewIn
    <2> QED
      BY <2>3, <2>4, <2>6, <2>7, <2>8 DEF Sound, Pending
  <1> QED  BY <1>4, <1>5, <1>6, <1>7, <1>8, <1>9 DEF Records, MatchedIn, OpenIn

-----------------------------------------------------------------------------
(* Commands.                                                               *)

\* Rows stay, or go before they were delivered; what is new is not linked.
Edited(q, led) ==
    /\ \A i \in Items :
        \/ /\ q.items[i].state = queue.items[i].state
           /\ q.items[i].steer = queue.items[i].steer
        \/ Pending(queue, i) /\ q.items[i].state = "gone"
        \/ queue.items[i].state = "unborn" /\ Pending(q, i) /\ i \notin Linked
    /\ \A i \in Items : led[i] \in LinkedState =>
        led[i] = ledger[i] /\ q.items[i].state = queue.items[i].state
    /\ \A i \in Linked : Pending(q, i) => led[i] = ledger[i]

\* A command that only edits keeps the records, whether or not it fails.
LEMMA EditKeeps ==
    ASSUME RecordInv, sending = None, alive, NEW q \in View,
           NEW led \in [Items -> LedgerState], AfterEdit(q, led), Edited(q, led),
           UNCHANGED <<history, inbox, turn, accepted, crashes, alive, reply>>
    PROVE  Records'
  <1>1. /\ TypeOK /\ Records /\ reply = "none"
        /\ Linked \subseteq Items
    BY QueueAssumption DEF RecordInv, QueueInv, Delivering, QueueAssumption, Linked
  <1>2. MatchedIn(q, led) /\ OpenIn(q, led)
    <2>1. MatchedIn(q, led)
      BY <1>1 DEF Records, MatchedIn, Edited, Stored
    <2>2. OpenIn(q, led)
      BY <1>1 DEF Records, OpenIn, Edited, Pending
    <2> QED  BY <2>1, <2>2
  <1>3. TrueIn(q)
    BY <1>1 DEF Records, TrueIn, Edited, Pending
  <1>4. GivenTrue /\ crashes <= faults
    BY <1>1 DEF Records
  <1>5. CASE Drain(status, q, led, q)
    <2>1. ASSUME faults = crashes PROVE OneIn(q) /\ NewIn(q)
      <3>1. Sound
        BY <1>1, <2>1 DEF Records
      <3>2. OneIn(q)
        BY <3>1 DEF Sound, OneIn, InState, Edited, Pending
      <3>3. ASSUME NEW i \in Linked, Pending(q, i) PROVE Pending(queue, i)
        BY <1>1, <3>3 DEF Edited, Pending
      <3>4. NewIn(q)
        BY <1>1, <3>1, <3>3 DEF Sound, NewIn
      <3> QED  BY <3>2, <3>4
    <2>2. FreshIn(q, q) /\ KnownIn(q, q)
      BY DEF FreshIn, KnownIn
    <2>3. faults \in Nat /\ DrainAfter(faults, status, q, led, q)
      BY <1>1, <1>5 DEF Drain, TypeOK
    <2> QED  BY <1>1, <1>2, <1>3, <1>4, <2>1, <2>2, <2>3, DrainKeeps
  <1>6. CASE EditFails(q, led)
    <2>1. /\ queue' = q /\ ledger' = led /\ view' = view /\ sending' = None
          /\ faults' = faults + 1
      BY <1>6 DEF EditFails
    <2>2. faults \in Nat /\ crashes \in Nat
      BY <1>1 DEF TypeOK
    <2>3. crashes' <= faults' /\ faults' # crashes'
      BY <1>4, <2>1, <2>2
    <2>4. MatchedIn(queue', ledger') /\ OpenIn(queue', ledger')
      BY <1>2, <2>1
    <2>5. TrueIn(queue)' /\ TrueIn(view)'
      BY <1>1, <1>3, <2>1 DEF Records, TrueIn
    <2>6. GivenTrue'
      BY <1>4 DEF GivenTrue, Given
    <2> QED  BY <2>1, <2>3, <2>4, <2>5, <2>6 DEF Records, MatchedIn, OpenIn
  <1> QED  BY <1>5, <1>6 DEF AfterEdit

\* What deletes pending rows unlinks them.
LEMMA DeletionEdits ==
    ASSUME RecordInv, NEW S \in SUBSET Items,
           NEW why \in {"cancelled", "resolved", "expired"}
    PROVE  /\ Deleted(queue, S) \in View
           /\ Unlinked(queue, ledger, S, why) \in [Items -> LedgerState]
           /\ Edited(Deleted(queue, S), Unlinked(queue, ledger, S, why))
  <1>1. queue \in View /\ ledger \in [Items -> LedgerState]
    BY DEF RecordInv, QueueInv, TypeOK
  <1>2. why \in LedgerState /\ why \notin LinkedState
    BY DEF LedgerState, LinkedState
  <1> DEFINE q == Deleted(queue, S)
             led == Unlinked(queue, ledger, S, why)
  <1>3. /\ q \in View
        /\ \A i \in Items : q.items[i].state =
              IF i \in S /\ Pending(queue, i) THEN "gone" ELSE queue.items[i].state
    BY <1>1, DeletedRows
  <1>4. led \in [Items -> LedgerState]
    BY <1>1, <1>2, LedgerStates
  <1>5. \A i \in Items : ~(i \in S /\ Pending(queue, i)) => q.items[i] = queue.items[i]
    BY <1>1 DEF Deleted, View, Pending
  <1>6. \A i \in Items : led[i] = IF i \in S /\ ledger[i] \in LinkedState /\ Pending(queue, i)
                                  THEN why ELSE ledger[i]
    BY DEF Unlinked, Pending
  <1> HIDE DEF q, led
  <1>7. Linked \subseteq Items
    BY QueueAssumption DEF QueueAssumption, Linked
  <1>8. Edited(q, led)
    <2>1. \A i \in Items :
            \/ /\ q.items[i].state = queue.items[i].state
               /\ q.items[i].steer = queue.items[i].steer
            \/ Pending(queue, i) /\ q.items[i].state = "gone"
      BY <1>3, <1>5
    <2>2. \A i \in Items : led[i] \in LinkedState =>
            led[i] = ledger[i] /\ q.items[i].state = queue.items[i].state
      BY <1>2, <1>3, <1>6
    <2>3. \A i \in Linked : Pending(q, i) => led[i] = ledger[i]
      BY <1>3, <1>6, <1>7 DEF Pending
    <2> QED  BY <2>1, <2>2, <2>3 DEF Edited
  <1> QED  BY <1>3, <1>4, <1>8 DEF q, led

\* A command of the developer that touches the rows.
Edits ==
    \E q \in View, led \in [Items -> LedgerState] :
        /\ Ready /\ AfterEdit(q, led) /\ Edited(q, led)
        /\ UNCHANGED <<otherCommandVars, poked>>

\* Commands of the developer edit the rows or leave them alone.
LEMMA UserEdits == RecordInv /\ UserStep => Edits \/ SendDirect \/ Cancel
  <1> SUFFICES ASSUME RecordInv, UserStep, ~SendDirect, ~Cancel PROVE Edits
    OBVIOUS
  <1>1. /\ queue \in View /\ ledger \in [Items -> LedgerState] /\ Records
        /\ \A i \in Items : queue.items[i] \in Row
    BY DEF RecordInv, QueueInv, TypeOK, View
  <1>2. ASSUME NEW q \in View, NEW led \in [Items -> LedgerState], Command(q, led),
               Edited(q, led)
        PROVE  Edits
    BY <1>2 DEF Command, Edits
  <1>3. ASSUME NEW q \in View,
               \A i \in Items : /\ q.items[i].state = queue.items[i].state
                                /\ q.items[i].steer = queue.items[i].steer
        PROVE  Edited(q, ledger)
    BY <1>3 DEF Edited
  <1>4. ASSUME NEW i \in Items, NEW b \in BOOLEAN, Enqueue(i, b) PROVE Edits
    <2>1. PICK p \in 1..MaxPosition : Command(Inserted(queue, i, p, b), ledger)
      BY <1>4 DEF Enqueue
    <2> DEFINE q == Inserted(queue, i, p, b)
    <2>2. /\ q \in View
          /\ \A j \in Items : q.items[j].state =
                IF j = i THEN "pending" ELSE queue.items[j].state
      BY <1>1, InsertedRows
    <2>3. \A j \in Items : j # i => q.items[j] = queue.items[j]
      BY <1>1 DEF Inserted, View
    <2>4. queue.items[i].state = "unborn" /\ i \notin Linked
      BY <1>4 DEF Enqueue
    <2>5. ledger[i] \notin LinkedState
      BY <1>1, <2>4 DEF Records, MatchedIn, Stored
    <2> HIDE DEF q
    <2>6. Edited(q, ledger)
      BY <2>2, <2>3, <2>4, <2>5 DEF Edited, Pending
    <2> QED  BY <1>1, <1>2, <2>1, <2>2, <2>6 DEF q
  <1>5. ASSUME NEW i \in Items, UpdateText(i) PROVE Edits
    <2> DEFINE q == [queue EXCEPT !.items[i].text = @ + 1]
    <2>1. /\ q \in View
          /\ \A j \in Items : /\ q.items[j].state = queue.items[j].state
                              /\ q.items[j].steer = queue.items[j].steer
      <3>1. queue.items[i].text < MaxEdits
        BY <1>5 DEF UpdateText
      <3>2. queue.items[i].text + 1 \in 0..MaxEdits
        BY <1>1, <3>1, QueueAssumption DEF QueueAssumption, Row
      <3> QED  BY <1>1, <3>2 DEF View, Row
    <2> QED  BY <1>1, <1>2, <1>3, <1>5, <2>1 DEF UpdateText
  <1>6. ASSUME NEW i \in Items, Remove(i) PROVE Edits
    <2>1. {i} \in SUBSET Items
      OBVIOUS
    <2> QED  BY <1>2, <1>6, <2>1, DeletionEdits DEF Remove
  <1>7. ASSUME Clear PROVE Edits
    <2>1. CASE Command(Deleted(queue, Items), Unlinked(queue, ledger, Items, "cancelled"))
      BY <1>2, <2>1, DeletionEdits
    <2>2. ASSUME NEW S \in SUBSET InState(queue, "pending"), Ready,
                 EditFails(Deleted(queue, S), Unlinked(queue, ledger, S, "cancelled")),
                 UNCHANGED <<otherCommandVars, poked>>
          PROVE  Edits
      <3>1. S \in SUBSET Items
        BY DEF InState
      <3>2. AfterEdit(Deleted(queue, S), Unlinked(queue, ledger, S, "cancelled"))
        BY <2>2 DEF AfterEdit
      <3> QED  BY <2>2, <3>1, <3>2, DeletionEdits DEF Edits
    <2> QED  BY <1>7, <2>1, <2>2 DEF Clear
  <1>8. ASSUME NEW S \in SUBSET Items, Reorder(S) PROVE Edits
    <2>1. PICK rank \in [S -> 1..MaxPosition] :
             Command([queue EXCEPT !.items = [i \in Items |->
                        IF i \in S THEN [queue.items[i] EXCEPT !.pos = rank[i]]
                        ELSE queue.items[i]]], ledger)
      BY <1>8 DEF Reorder
    <2> DEFINE row(i) == IF i \in S THEN [queue.items[i] EXCEPT !.pos = rank[i]]
                         ELSE queue.items[i]
               q == [queue EXCEPT !.items = [i \in Items |-> row(i)]]
    <2>2. q \in View /\ \A i \in Items : q.items[i].state = queue.items[i].state
      BY <1>1, RankedRows
    <2>3. \A i \in Items : row(i).steer = queue.items[i].steer
      BY <1>1 DEF Row
    <2>4. q.items = [i \in Items |-> row(i)]
      BY <1>1 DEF View
    <2>5. \A i \in Items : q.items[i].steer = queue.items[i].steer
      BY <2>3, <2>4
    <2>6. Command(q, ledger)
      BY <2>1
    <2> HIDE DEF q
    <2> QED  BY <1>1, <1>2, <1>3, <2>2, <2>5, <2>6
  <1>9. ASSUME NEW b \in BOOLEAN, SetPaused(b) PROVE Edits
    <2>1. /\ [queue EXCEPT !.paused = b] \in View
          /\ [queue EXCEPT !.paused = b].items = queue.items
      BY <1>1 DEF View
    <2> QED  BY <1>1, <1>2, <1>3, <1>9, <2>1 DEF SetPaused
  <1>10. \A S \in SUBSET Stored(queue) : S \in SUBSET Items
    BY DEF Stored
  <1> QED  BY <1>4, <1>5, <1>6, <1>7, <1>8, <1>9, <1>10 DEF UserStep

\* Commands of the developer keep the records.
LEMMA UserKeeps == RecordInv /\ UserStep => Records'
  <1> SUFFICES ASSUME RecordInv, UserStep PROVE Records'
    OBVIOUS
  <1>1. Records
    BY DEF RecordInv
  <1>2. CASE Edits
    BY <1>2, EditKeeps DEF Edits, Ready, otherCommandVars, runtimeVars
  <1>3. CASE SendDirect \/ Cancel
    <2>1. /\ UNCHANGED <<queue, ledger, history, view, alive, sending, reply, accepted,
                         faults, crashes>>
          /\ alive
      BY <1>3 DEF SendDirect, Cancel, Ready, durableVars, actorVars, ghostVars
    <2>2. ASSUME NEW i \in Items, NEW t \in Texts, <<i, t>> \in Given'
          PROVE  <<i, t>> \in Given
      <3>1. <<i, t>> # Direct
        BY DirectIsNoPrompt DEF Prompt, Texts
      <3> QED  BY <1>3, <2>2, <3>1 DEF SendDirect, Cancel, Given, durableVars
    <2>3. GivenTrue'
      BY <1>1, <2>1, <2>2 DEF Records, GivenTrue
    <2>4. Linked \subseteq Items
      BY QueueAssumption DEF QueueAssumption, Linked
    <2>5. ASSUME Sound PROVE Sound'
      BY <2>1, <2>2, <2>4, <2>5 DEF Sound, FreshIn, KnownIn, OneIn, InState, Pending, Stored
    <2> QED  BY <1>1, <2>1, <2>3, <2>5 DEF Records, MatchedIn, OpenIn, TrueIn, Pending, Stored
  <1> QED  BY <1>2, <1>3, UserEdits

-----------------------------------------------------------------------------
(* The session manager and the runtime.                                    *)

\* A row written or withdrawn by another task keeps the records: the copy knows
\* nothing of a new one, and the runtime was given none of its prompts.
LEMMA ManagerKeeps == RecordInv /\ ManagerStep => Records'
  <1> SUFFICES ASSUME RecordInv, ManagerStep PROVE Records'
    OBVIOUS
  <1>1. /\ queue \in View /\ ledger \in [Items -> LedgerState] /\ Records /\ Born
        /\ Linked \subseteq Items /\ \A j \in Items : accepted[j] \in Nat
    BY QueueAssumption DEF RecordInv, QueueInv, TypeOK, QueueAssumption, Linked
  <1>2. UNCHANGED <<history, view, alive, sending, reply, inbox, turn, accepted, faults, crashes>>
    BY DEF ManagerStep, CreateCoordination, ResolveNotice, RetireSender, actorVars,
           runtimeVars, ghostVars
  <1>3. /\ MatchedIn(queue', ledger') /\ OpenIn(queue', ledger')
        /\ \A j \in Items :
             \/ queue'.items[j] = queue.items[j]
             \/ queue'.items[j].state = "gone"
             \/ queue.items[j].state = "unborn" /\ Pending(queue', j)
    <2>1. ASSUME NEW i \in Items, NEW b \in BOOLEAN, CreateCoordination(i, b) PROVE <1>3
      <3>1. PICK p \in 1..MaxPosition : queue' = Inserted(queue, i, p, b)
        BY <2>1 DEF CreateCoordination
      <3>2. \A j \in Items : queue'.items[j].state =
                IF j = i THEN "pending" ELSE queue.items[j].state
        BY <1>1, <3>1, InsertedRows
      <3>3. \A j \in Items : j # i => queue'.items[j] = queue.items[j]
        BY <1>1, <3>1 DEF Inserted, View
      <3>4. /\ queue.items[i].state = "unborn"
            /\ ledger' = [ledger EXCEPT ![i] = "pending"]
        BY <2>1 DEF CreateCoordination
      <3>5. MatchedIn(queue', ledger')
        BY <1>1, <3>2, <3>4 DEF Records, MatchedIn, Stored, LedgerOf
      <3>6. OpenIn(queue', ledger')
        BY <1>1, <3>2, <3>4 DEF Records, OpenIn, Pending, LinkedState
      <3> QED  BY <3>2, <3>3, <3>4, <3>5, <3>6 DEF Pending
    <2>2. ASSUME NEW i \in Items, ResolveNotice(i) PROVE <1>3
      <3>1. {i} \in SUBSET Items
        OBVIOUS
      <3>2. /\ queue' = Deleted(queue, {i})
            /\ ledger' = Unlinked(queue, ledger, {i}, "resolved")
        BY <2>2 DEF ResolveNotice
      <3>3. Edited(queue', ledger')
        BY <3>1, <3>2, DeletionEdits
      <3>4. MatchedIn(queue', ledger')
        BY <1>1, <3>3 DEF Records, MatchedIn, Edited, Stored
      <3>5. OpenIn(queue', ledger')
        BY <1>1, <3>3 DEF Records, OpenIn, Edited, Pending
      <3>6. \A j \in Items : queue'.items[j] =
               IF j \in {i} /\ Pending(queue, j) THEN [Unborn EXCEPT !.state = "gone"]
               ELSE queue.items[j]
        BY <1>1, <3>2 DEF Deleted, View, Pending
      <3>7. [Unborn EXCEPT !.state = "gone"].state = "gone"
        BY DEF Unborn
      <3> QED  BY <3>4, <3>5, <3>6, <3>7
    <2>3. ASSUME NEW S \in SUBSET Linked, RetireSender(S) PROVE <1>3
      <3> DEFINE D == {i \in S : ledger[i] \in {"pending", "dispatched"}}
      <3>1. /\ \A j \in Items : queue'.items[j] =
                 IF j \in D /\ Pending(queue, j) THEN [Unborn EXCEPT !.state = "gone"]
                 ELSE queue.items[j]
            /\ \A j \in Items : ledger'[j] = IF j \in S /\ ledger[j] = "pending"
                                             THEN "retired" ELSE ledger[j]
        BY <1>1, <2>3 DEF RetireSender, RetiredFrom, Deleted, View, Pending
      <3>2. \A j \in Items : j \in D <=> j \in S /\ ledger[j] \in {"pending", "dispatched"}
        OBVIOUS
      <3> HIDE DEF D
      <3>3. [Unborn EXCEPT !.state = "gone"].state = "gone"
        BY DEF Unborn
      <3>4. \A j \in Items : ledger[j] \in LinkedState /\ Pending(queue, j) => ledger[j] = "pending"
        BY <1>1 DEF Records, MatchedIn, LedgerOf, Pending
      <3>5. MatchedIn(queue', ledger')
        <4>1. \A j \in Items : ledger'[j] \in LinkedState =>
                 ledger'[j] = ledger[j] /\ queue'.items[j] = queue.items[j]
          BY <3>1, <3>2, <3>4 DEF LinkedState
        <4> QED  BY <1>1, <4>1 DEF Records, MatchedIn, Stored
      <3>6. OpenIn(queue', ledger')
        <4>1. \A j \in Linked : Pending(queue', j) => Pending(queue, j) /\ j \notin D
          BY <1>1, <3>1, <3>3 DEF Pending
        <4> QED  BY <1>1, <3>1, <3>2, <3>4, <4>1 DEF Records, OpenIn
      <3> QED  BY <3>1, <3>3, <3>5, <3>6
    <2> QED  BY <2>1, <2>2, <2>3 DEF ManagerStep
  <1>4. TrueIn(queue)' /\ TrueIn(view)' /\ GivenTrue'
    BY <1>1, <1>2, <1>3 DEF Records, TrueIn, GivenTrue, Given, Pending
  <1>5. \A j \in Items : queue.items[j].state = "unborn" =>
           /\ view.items[j].state = "unborn"
           /\ \A t \in Texts : <<j, t>> \notin Given
    BY <1>1 DEF Records, GivenTrue, Born
  <1>6. ASSUME Sound PROVE Sound'
    <2>1. FreshIn(view, queue)'
      BY <1>2, <1>3, <1>5, <1>6 DEF Sound, FreshIn, Pending, Stored
    <2>2. /\ (alive => KnownIn(view, queue))'
          /\ \A j \in Items : queue'.items[j].state = "dispatched"
                => queue'.items[j] = queue.items[j]
      BY <1>2, <1>3, <1>6 DEF Sound, KnownIn, Pending
    <2>3. OneIn(queue)' /\ InState(queue', "dispatched") \subseteq InState(queue, "dispatched")
      BY <1>6, <2>2 DEF Sound, OneIn, InState
    <2>4. \A j \in Items : Pending(queue', j) =>
             \/ Pending(queue, j) /\ queue'.items[j] = queue.items[j]
             \/ \A t \in Texts : <<j, t>> \notin Given
      BY <1>3, <1>5 DEF Pending
    <2>5. Given' = Given /\ history \subseteq Given
      BY <1>2 DEF Given
    <2>6. (sending # None /\ ~view.items[sending].steer => InState(queue, "dispatched") = {})'
      BY <1>2, <1>6, <2>3 DEF Sound, InState
    <2>7. (alive => \A j \in Linked, t \in Texts :
             (Pending(queue, j) \/ Pending(view, j)) /\ <<j, t>> \in Given =>
                j = sending /\ reply # "none" /\ t = view.items[j].text)'
      <3>1. Pending(view, sending)' = Pending(view, sending)
        BY <1>2 DEF Pending
      <3>2. SUFFICES ASSUME alive, NEW j \in Linked, NEW t \in Texts,
                            Pending(queue', j) \/ Pending(view', j), <<j, t>> \in Given
                     PROVE  j = sending /\ reply # "none" /\ t = view.items[j].text
        BY <1>2, <2>5 DEF Pending
      <3>3. Pending(queue, j) \/ Pending(view, j)
        BY <1>1, <1>2, <2>4, <3>2 DEF Pending
      <3> QED  BY <1>6, <3>2, <3>3 DEF Sound
    <2>8. (~alive => \A j \in Linked, t \in Texts :
             Pending(queue, j) /\ <<j, t>> \in history => t = queue.items[j].text)'
      BY <1>1, <1>2, <1>6, <2>4, <2>5 DEF Sound, Pending
    <2> QED  BY <2>1, <2>2, <2>3, <2>6, <2>7, <2>8 DEF Sound
  <1> QED  BY <1>1, <1>2, <1>3, <1>4, <1>6 DEF Records, MatchedIn, OpenIn, Pending, Stored

\* The item in flight is the only one whose prompt is given, and only once.
LEMMA RuntimeKeeps == RecordInv /\ RuntimeStep => Records'
  <1> SUFFICES ASSUME RecordInv, RuntimeStep PROVE Records'
    OBVIOUS
  <1>1. /\ TypeOK /\ Delivering /\ Records /\ Linked \subseteq Items
        /\ accepted \in [Items -> Nat] /\ None \notin Items
    BY QueueAssumption DEF RecordInv, QueueInv, TypeOK, QueueAssumption, Linked
  <1>2. /\ UNCHANGED <<queue, ledger, view, alive, sending, faults, crashes>>
        /\ alive
    BY DEF RuntimeStep, RuntimeAccepts, RuntimeRejects, TurnStart, TurnEnd, TurnError,
           Accept, durableVars, actorVars, runtimeVars, ghostVars
  <1>3. ASSUME accepted' = accepted, reply' = reply \/ reply' = "error",
               reply' = "none" => reply = "none",
               \A i \in Items, t \in Texts : <<i, t>> \in Given' => <<i, t>> \in Given
        PROVE  Records'
    <2>1. TrueIn(queue)' /\ TrueIn(view)' /\ GivenTrue'
      BY <1>1, <1>2, <1>3 DEF Records, TrueIn, GivenTrue
    <2>2. ASSUME Sound PROVE Sound'
      BY <1>1, <1>2, <1>3, <2>2 DEF Sound, FreshIn, KnownIn, OneIn, InState, Pending, Stored
    <2> QED
      BY <1>1, <1>2, <1>3, <2>1, <2>2 DEF Records, MatchedIn, OpenIn, Pending, Stored
  <1>4. CASE RuntimeAccepts
    <2> DEFINE text == view.items[sending].text
    <2>1. /\ sending \in Items /\ sending # None /\ reply = "none" /\ reply' # "none"
          /\ accepted' = [accepted EXCEPT ![sending] = @ + 1]
          /\ Pending(view, sending)
      BY <1>1, <1>4 DEF RuntimeAccepts, Accept, TypeOK, Delivering
    <2>2. Given' \subseteq Given \cup {<<sending, text>>}
      BY <1>4 DEF RuntimeAccepts, Accept, Given, Recorded
    <2>3. /\ accepted'[sending] > 0
          /\ \A i \in Items : accepted[i] > 0 => accepted'[i] > 0
      BY <1>1, <2>1
    <2>4. TrueIn(queue)' /\ TrueIn(view)'
      BY <1>1, <1>2, <2>3 DEF Records, TrueIn
    <2>5. GivenTrue'
      <3>1. \A i \in Items, t \in Texts : <<i, t>> = <<sending, text>> => i = sending
        OBVIOUS
      <3> QED  BY <1>1, <2>2, <2>3, <3>1 DEF Records, GivenTrue
    <2>6. ASSUME Sound PROVE Sound'
      <3>1. ASSUME NEW i \in Linked, NEW t \in Texts,
                   Pending(queue, i) \/ Pending(view, i), <<i, t>> \in Given'
            PROVE  i = sending /\ t = text
        <4>1. <<i, t>> \notin Given
          BY <1>2, <2>1, <2>6, <3>1 DEF Sound
        <4> QED  BY <2>2, <3>1, <4>1
      <3>2. (\A i \in Linked, t \in Texts :
               (Pending(queue, i) \/ Pending(view, i)) /\ <<i, t>> \in Given =>
                 i = sending /\ reply # "none" /\ t = view.items[i].text)'
        BY <1>2, <2>1, <3>1 DEF Pending
      <3> QED
        BY <1>2, <2>6, <3>2 DEF Sound, FreshIn, KnownIn, OneIn, InState, Pending, Stored
    <2> QED
      BY <1>1, <1>2, <2>1, <2>3, <2>4, <2>5, <2>6 DEF Records, MatchedIn, OpenIn, Pending, Stored
  <1>5. CASE RuntimeRejects
    BY <1>3, <1>5 DEF RuntimeRejects, Given, runtimeVars, durableVars, ghostVars
  <1>6. ASSUME NEW w \in Work, TurnStart(w) PROVE Records'
    <2>1. Given' = Given
      BY <1>6 DEF TurnStart, Given, Recorded
    <2> QED  BY <1>3, <1>6, <2>1 DEF TurnStart, actorVars, ghostVars
  <1>7. CASE TurnEnd
    BY <1>3, <1>7 DEF TurnEnd, Given, actorVars, durableVars, ghostVars
  <1>8. CASE TurnError
    BY <1>3, <1>8 DEF TurnError, Given, actorVars, durableVars, ghostVars
  <1> QED  BY <1>4, <1>5, <1>6, <1>7, <1>8 DEF RuntimeStep

-----------------------------------------------------------------------------
(* The actor.                                                              *)

\* The actor's own steps keep the records: an outcome is written for an item the
\* runtime was given, and an idle session retires what it knows it delivered.
LEMMA ActorKeeps == RecordInv /\ ActorStep => Records'
  <1> SUFFICES ASSUME RecordInv, ActorStep PROVE Records'
    OBVIOUS
  <1>1. /\ TypeOK /\ Delivering /\ Records /\ Linked \subseteq Items
        /\ queue \in View /\ view \in View /\ ledger \in [Items -> LedgerState]
        /\ faults \in Nat /\ crashes \in Nat
    BY QueueAssumption DEF RecordInv, QueueInv, TypeOK, QueueAssumption, Linked
  <1>2. CASE Sync
    <2>1. Edited(queue, ledger)
      BY DEF Edited
    <2> QED
      BY <1>1, <1>2, <2>1, EditKeeps DEF Sync, Ready, otherCommandVars, runtimeVars
  <1>3. CASE DeliveryReturns
    <2>1. PICK saved \in BOOLEAN, reread \in BOOLEAN :
            LET S == IF saved THEN {sending} ELSE {}
            IN /\ faults' = IF ~saved \/ ~reread THEN faults + 1 ELSE faults
               /\ queue' = Upserted(queue, view, S, Outcome(reply))
               /\ ledger' = Synchronized(ledger, S, Outcome(reply))
               /\ view' = IF reread THEN queue' ELSE view
      BY <1>3 DEF DeliveryReturns
    <2> DEFINE S == IF saved THEN {sending} ELSE {}
               o == Outcome(reply)
    <2>2. /\ UNCHANGED <<history, inbox, turn, accepted, crashes, alive>>
          /\ alive /\ sending # None /\ sending \in Items /\ sending' = None /\ reply' = "none"
      BY <1>1, <1>3 DEF DeliveryReturns, TypeOK, runtimeVars
    <2>3. /\ S \in SUBSET Items /\ S \subseteq {sending}
          /\ o \in {"dispatched", "failed"} /\ o \in RowState
          /\ o = "dispatched" => reply = "ok"
      BY <2>2 DEF Outcome, RowState
    <2>4. /\ queue' = Upserted(queue, view, S, o)
          /\ ledger' = Synchronized(ledger, S, o)
          /\ view' = queue' \/ view' = view
          /\ faults' \in {faults, faults + 1}
          /\ faults' = faults => view' = queue' /\ sending \in S
      BY <1>1, <2>1
    <2> HIDE DEF S, o
    <2>5. /\ \A i \in S : /\ queue'.items[i].state = o
                          /\ queue'.items[i].steer = view.items[i].steer
          /\ \A i \in Items \ S : queue'.items[i] = queue.items[i]
      <3> DEFINE r == Upserted(queue, view, S, o)
      <3>1. /\ \A i \in S : /\ r.items[i].state = o
                            /\ r.items[i].steer = view.items[i].steer
            /\ \A i \in Items \ S : r.items[i] = queue.items[i]
        BY <1>1, <2>3, UpsertedItems
      <3> QED  BY <2>4, <3>1
    <2>6. MatchedIn(queue', ledger') /\ OpenIn(queue', ledger')
      BY <1>1, <2>3, <2>4, MatchedUpsert DEF Records
    <2>7. TrueIn(queue)' /\ TrueIn(view)' /\ GivenTrue'
      <3>1. o = "dispatched" => accepted[sending] > 0
        BY <1>1, <2>2, <2>3 DEF Records
      <3>2. TrueIn(queue)'
        BY <1>1, <2>2, <2>3, <2>5, <3>1 DEF Records, TrueIn
      <3>3. TrueIn(view)'
        BY <1>1, <2>2, <2>4, <3>2 DEF Records, TrueIn
      <3> QED  BY <1>1, <2>2, <3>2, <3>3 DEF Records, GivenTrue, Given
    <2>8. crashes' <= faults' /\ (faults' = crashes' => faults = crashes /\ faults' = faults)
      BY <1>1, <2>2, <2>4 DEF Records
    <2>9. ASSUME faults' = crashes' PROVE Sound'
      <3>1. Sound /\ view' = queue' /\ sending \in S
        BY <1>1, <2>4, <2>8, <2>9 DEF Records
      <3>2. FreshIn(view, queue)' /\ KnownIn(view, queue)'
        BY <3>1 DEF FreshIn, KnownIn
      <3>3. OneIn(queue)'
        <4>1. CASE view.items[sending].steer
          BY <2>3, <2>5, <3>1, <4>1 DEF Sound, OneIn, InState
        <4>2. CASE ~view.items[sending].steer
          <5>1. InState(queue, "dispatched") = {}
            BY <2>2, <3>1, <4>2 DEF Sound
          <5>2. InState(queue', "dispatched") \subseteq {sending}
            BY <2>3, <2>5, <5>1 DEF InState
          <5> QED  BY <5>2 DEF OneIn
        <4> QED  BY <4>1, <4>2
      <3>4. ASSUME NEW i \in Linked, NEW t \in Texts, Pending(queue', i)
            PROVE  <<i, t>> \notin Given
        <4>1. i \in Items /\ i # sending /\ Pending(queue, i)
          BY <1>1, <2>3, <2>5, <3>1, <3>4 DEF Pending
        <4> QED  BY <2>2, <3>1, <4>1 DEF Sound
      <3>5. Given' = Given
        BY <2>2 DEF Given
      <3> QED  BY <2>2, <3>1, <3>2, <3>3, <3>4, <3>5 DEF Sound, Pending
    <2> QED  BY <2>2, <2>6, <2>7, <2>8, <2>9 DEF Records, MatchedIn, OpenIn, Pending, Stored
  <1>4. CASE ApplyEvent
    <2>1. /\ UNCHANGED <<history, inbox, turn, accepted, crashes, alive, reply>>
          /\ alive /\ sending = None /\ reply = "none"
      BY <1>1, <1>4 DEF ApplyEvent, Ready, Delivering
    <2>2. CASE ReadEvent /\ Head(events) \in {"idle", "aborted"}
      <3>1. DrainAfter(faults, StatusAfter(Head(events)), queue, ledger, view)
        BY <2>2 DEF ReadEvent, Drain
      <3>2. ASSUME faults = crashes
            PROVE  /\ FreshIn(view, queue) /\ KnownIn(view, queue) /\ OneIn(queue)
                   /\ NewIn(queue) /\ NewIn(view)
        <4>1. Sound
          BY <1>1, <3>2 DEF Records
        <4>2. NewIn(queue) /\ NewIn(view)
          <5>1. ASSUME NEW i \in Linked PROVE i # sending
            BY <1>1, <2>1, <5>1, QueueAssumption DEF QueueAssumption
          <5> QED  BY <2>1, <4>1, <5>1 DEF Sound, NewIn
        <4> QED  BY <2>1, <4>1, <4>2 DEF Sound
      <3> QED  BY <1>1, <2>1, <3>1, <3>2, DrainKeeps DEF Records
    <2>3. CASE \/ ReadEvent /\ Head(events) \notin {"idle", "aborted"}
               \/ DropEvent
      <3>1. /\ UNCHANGED <<queue, ledger, view, sending>>
            /\ crashes <= faults' /\ (faults' = crashes => faults = crashes)
        BY <1>1, <2>3 DEF ReadEvent, DropEvent, Records
      <3>2. Given' = Given
        BY <2>1 DEF Given
      <3>3. Sound => Sound'
        BY <2>1, <3>1, <3>2 DEF Sound, FreshIn, KnownIn, OneIn, InState, Pending, Stored
      <3> QED
        BY <1>1, <2>1, <3>1, <3>2, <3>3 DEF Records, MatchedIn, OpenIn, TrueIn, GivenTrue, Pending, Stored
    <2> QED  BY <1>4, <2>2, <2>3 DEF ApplyEvent
  <1> QED  BY <1>2, <1>3, <1>4 DEF ActorStep

-----------------------------------------------------------------------------
(* Closing, crashing, restoring.                                           *)

\* Notices that expire are withdrawn and unlinked together.
LEMMA ExpiryKeeps ==
    ASSUME RecordInv, ExpireNotices
    PROVE  /\ MatchedIn(queue', ledger') /\ OpenIn(queue', ledger')
           /\ \A i \in Items : \/ queue'.items[i] = queue.items[i]
                               \/ queue'.items[i].state = "gone"
  <1> DEFINE stale == {i \in Notices \ read : ledger[i] # "none"}
             S == {i \in stale : ledger[i] \in LinkedState}
  <1>1. /\ queue \in View /\ ledger \in [Items -> LedgerState] /\ Records
        /\ stale \subseteq Items /\ S \in SUBSET Items /\ Linked \subseteq Items
    BY QueueAssumption DEF RecordInv, QueueInv, TypeOK, QueueAssumption, Linked
  <1>2. /\ queue' = Deleted(queue, S)
        /\ ledger' = [i \in Items |-> IF i \in stale THEN "expired" ELSE ledger[i]]
    BY DEF ExpireNotices
  <1>3. \A i \in Items : i \in S <=> i \in stale /\ ledger[i] \in LinkedState
    OBVIOUS
  <1> HIDE DEF S, stale
  <1>4. \A i \in Items : queue'.items[i] =
           IF i \in S /\ Pending(queue, i) THEN [Unborn EXCEPT !.state = "gone"]
           ELSE queue.items[i]
    BY <1>1, <1>2 DEF Deleted, View, Pending
  <1>5. [Unborn EXCEPT !.state = "gone"].state = "gone"
    BY DEF Unborn
  <1>6. \A i \in Items : ledger'[i] = IF i \in stale THEN "expired" ELSE ledger[i]
    BY <1>2
  <1>7. MatchedIn(queue', ledger')
    <2>1. "expired" \notin LinkedState
      BY DEF LinkedState
    <2>2. \A i \in Items : ledger'[i] \in LinkedState =>
             ledger'[i] = ledger[i] /\ queue'.items[i] = queue.items[i]
      BY <1>3, <1>4, <1>6, <2>1
    <2> QED  BY <1>1, <2>2 DEF Records, MatchedIn, Stored
  <1>8. OpenIn(queue', ledger')
    <2>1. \A i \in Linked : Pending(queue', i) => Pending(queue, i) /\ i \notin S
      BY <1>1, <1>4, <1>5 DEF Pending
    <2> QED  BY <1>1, <1>3, <1>6, <2>1 DEF Records, OpenIn
  <1> QED  BY <1>4, <1>5, <1>7, <1>8

\* An actor that goes leaves behind rows that tell what became of its prompts: one
\* that may have been given and was not recorded still has the text it was given.
LEMMA GoneKeeps ==
    ASSUME RecordInv, Gone, MatchedIn(queue', ledger'), OpenIn(queue', ledger'),
           \A i \in Items : \/ queue'.items[i] = queue.items[i]
                            \/ queue'.items[i].state = "gone",
           UNCHANGED <<history, accepted>>,
           \/ UNCHANGED <<faults, crashes>>
           \/ faults' = faults + 1 /\ crashes' = crashes + 1
    PROVE  Records'
  <1>1. /\ Records /\ Delivering /\ Linked \subseteq Items
        /\ faults \in Nat /\ crashes \in Nat
    BY QueueAssumption DEF RecordInv, QueueInv, TypeOK, QueueAssumption, Linked
  <1>2. /\ ~alive' /\ sending' = None /\ inbox' = {} /\ turn' = {}
        /\ \A i \in Items : view'.items[i].state = "unborn"
    BY DEF Gone, Unborn
  <1>3. TrueIn(queue)' /\ TrueIn(view)' /\ GivenTrue'
    BY <1>1, <1>2 DEF Records, TrueIn, GivenTrue, Given
  <1>4. crashes' <= faults' /\ (faults' = crashes' => faults = crashes)
    BY <1>1 DEF Records
  <1>5. ASSUME faults = crashes PROVE Sound'
    <2>1. Sound
      BY <1>1, <1>5 DEF Records
    <2>2. FreshIn(view, queue)'
      BY <1>2 DEF FreshIn, Pending
    <2>3. OneIn(queue)'
      BY <2>1 DEF Sound, OneIn, InState
    <2>4. ASSUME NEW i \in Linked, NEW t \in Texts, Pending(queue', i), <<i, t>> \in history
          PROVE  t = queue'.items[i].text
      <3>1. Pending(queue, i) /\ queue'.items[i] = queue.items[i]
        BY <1>1, <2>4 DEF Pending
      <3>2. CASE alive
        <4>1. i = sending /\ sending # None /\ t = view.items[i].text
          BY <2>1, <2>4, <3>1, <3>2, <1>1, QueueAssumption
             DEF Sound, Given, QueueAssumption
        <4>2. Pending(view, i) /\ i \in Stored(queue)
          BY <1>1, <3>1, <4>1 DEF Delivering, Pending, Stored
        <4>3. view.items[i] = queue.items[i]
          BY <1>1, <2>1, <4>2 DEF Sound, FreshIn
        <4> QED  BY <3>1, <4>1, <4>3
      <3>3. CASE ~alive
        BY <2>1, <2>4, <3>1, <3>3 DEF Sound
      <3> QED  BY <3>2, <3>3
    <2> QED  BY <1>2, <2>2, <2>3, <2>4 DEF Sound, Pending
  <1> QED  BY <1>2, <1>3, <1>4, <1>5 DEF Records, MatchedIn, OpenIn, Pending, Stored

\* Closing, crashing and restoring keep the records.
LEMMA LifecycleKeeps == RecordInv /\ LifecycleStep => Records'
  <1> SUFFICES ASSUME RecordInv, LifecycleStep PROVE Records'
    OBVIOUS
  <1>1. /\ TypeOK /\ Delivering /\ Records /\ Linked \subseteq Items
        /\ queue \in View /\ ledger \in [Items -> LedgerState]
    BY QueueAssumption DEF RecordInv, QueueInv, TypeOK, QueueAssumption, Linked
  <1>2. CASE Close
    <2>1. UNCHANGED <<queue, ledger, history, accepted, faults, crashes>> /\ Gone
      BY <1>2 DEF Close, durableVars, ghostVars
    <2>2. MatchedIn(queue', ledger') /\ OpenIn(queue', ledger')
      BY <1>1, <2>1 DEF Records
    <2> QED  BY <2>1, <2>2, GoneKeeps
  <1>3. CASE QuitAndStart
    BY <1>3, ExpiryKeeps, GoneKeeps DEF QuitAndStart, ghostVars
  <1>4. CASE CrashAndStart
    BY <1>4, ExpiryKeeps, GoneKeeps DEF CrashAndStart
  <1>5. CASE Restore
    <2>1. PICK told \in BOOLEAN, loaded \in BOOLEAN : LoadQueue(told, loaded)
      BY <1>5 DEF Restore
    <2> DEFINE S == IF told THEN Reconciled(queue, ledger) ELSE {}
               q == Upserted(queue, queue, S, "completed")
               led == Synchronized(ledger, S, "completed")
               v == IF loaded THEN q ELSE view
               n == faults + (IF told THEN 0 ELSE 1) + (IF loaded THEN 0 ELSE 1)
    <2>2. /\ S \in SUBSET Items /\ "completed" \in RowState
          /\ \A i \in S : <<i, queue.items[i].text>> \in history
      BY DEF Reconciled, InState, RowState
    <2>3. told => \A i \in Items : Pending(queue, i) /\ ledger[i] \in LinkedState
               /\ <<i, queue.items[i].text>> \in history => i \in S
      BY DEF Reconciled, InState, Pending
    <2>4. DrainAfter(n, "idle", q, led, v)
      BY <2>1 DEF LoadQueue
    <2>5. /\ n \in Nat /\ crashes <= n
          /\ n = crashes => faults = crashes /\ told /\ v = q
      BY <1>1 DEF TypeOK, Records
    <2>6. /\ UNCHANGED <<history, inbox, turn, accepted, crashes, reply>>
          /\ ~alive /\ alive' /\ sending = None /\ reply = "none"
          /\ inbox = {} /\ turn = {} /\ \A i \in Items : view.items[i].state = "unborn"
      BY <1>1, <1>5 DEF Restore, runtimeVars, Delivering, Records
    <2> HIDE DEF S, n
    <2>7. q \in View
      BY <1>1, <2>2, CompletedRows
    <2>8. led \in [Items -> LedgerState] /\ v \in View
      BY <1>1, <2>2, <2>7, LedgerStates DEF TypeOK
    <2>9. MatchedIn(q, led) /\ OpenIn(q, led)
      BY <1>1, <2>2, MatchedUpsert DEF Records
    <2>10. /\ \A i \in S : q.items[i].state = "completed"
           /\ \A i \in Items \ S : q.items[i] = queue.items[i]
      BY <1>1, <2>2, CompletedRows
    <2> HIDE DEF q, led
    <2>11. TrueIn(q) /\ TrueIn(v)
      <3>1. ASSUME NEW i \in S PROVE accepted[i] > 0
        <4>1. queue.items[i].text \in Texts
          BY <1>1, <2>2 DEF View, Row, Texts
        <4> QED  BY <1>1, <2>2, <4>1 DEF Records, GivenTrue, Given
      <3>2. TrueIn(q)
        BY <1>1, <2>10, <3>1 DEF Records, TrueIn
      <3> QED  BY <1>1, <3>2 DEF Records, TrueIn
    <2>12. ASSUME faults = crashes, told PROVE OneIn(q) /\ NewIn(q)
      <3>1. Sound
        BY <1>1, <2>12 DEF Records
      <3>2. OneIn(q)
        BY <2>10, <3>1 DEF Sound, OneIn, InState
      <3>3. ASSUME NEW i \in Linked, NEW t \in Texts, Pending(q, i), <<i, t>> \in Given
            PROVE  FALSE
        <4>1. i \in Items /\ i \notin S /\ Pending(queue, i) /\ <<i, t>> \in history
          BY <1>1, <2>6, <2>10, <3>3 DEF Pending, Given
        <4>2. t = queue.items[i].text
          BY <2>6, <3>1, <4>1 DEF Sound
        <4>3. ledger[i] \in LinkedState
          BY <1>1, <4>1 DEF Records, OpenIn
        <4> QED  BY <2>3, <2>12, <4>1, <4>2, <4>3
      <3> QED  BY <3>2, <3>3 DEF NewIn
    <2>13. FreshIn(q, q) /\ KnownIn(q, q) /\ GivenTrue
      BY <1>1 DEF FreshIn, KnownIn, Records
    <2> HIDE DEF v
    <2>14. n = crashes =>
             FreshIn(v, q) /\ KnownIn(v, q) /\ OneIn(q) /\ NewIn(q) /\ NewIn(v)
      BY <2>5, <2>12, <2>13
    <2> QED
      BY <1>1, <2>4, <2>5, <2>6, <2>7, <2>8, <2>9, <2>11, <2>13, <2>14, DrainKeeps
  <1>6. CASE Install
    <2>1. UNCHANGED <<queue, ledger, history, view, alive, sending, reply, inbox, turn,
                      accepted, faults, crashes>>
      BY <1>6 DEF Install, durableVars, runtimeVars, ghostVars
    <2>2. Given' = Given
      BY <2>1 DEF Given
    <2> QED
      BY <1>1, <2>1, <2>2 DEF Records, MatchedIn, OpenIn, TrueIn, GivenTrue, Pending, Stored,
                              Sound, FreshIn, KnownIn, OneIn, InState
  <1>7. CASE RetireOwn
    <2>1. PICK D \in SUBSET Items :
            /\ \A i \in Items : i \in D <=> i \in Linked /\ ledger[i] \in {"pending", "dispatched"}
            /\ \A i \in Items : ledger'[i] = IF i \in D THEN "retired" ELSE ledger[i]
      BY <1>7, RetiredRows
    <2>2. /\ UNCHANGED <<history, view, alive, sending, reply, inbox, turn, accepted, faults,
                         crashes>>
          /\ ~alive
      BY <1>7 DEF RetireOwn, actorVars, runtimeVars, ghostVars
    <2>3. \A i \in Items :
            /\ i \notin D => queue'.items[i] = queue.items[i]
            /\ \/ queue'.items[i] = queue.items[i]
               \/ queue'.items[i].state \in {"gone", "failed"}
            /\ i \in D /\ Pending(queue, i) => queue'.items[i].state = "gone"
      <3>1. \A i \in Items :
             IF ledger[i] = "dispatched" /\ i \in Linked
                /\ queue.items[i].state = "dispatched"
             THEN queue'.items[i].state = "failed"
             ELSE IF ledger[i] \in {"pending", "dispatched"} /\ i \in Linked
                     /\ Pending(queue, i)
             THEN queue'.items[i].state = "gone"
             ELSE queue'.items[i] = queue.items[i]
        BY <1>1, <1>7, RetiredStates
      <3> QED  BY <2>1, <3>1 DEF Pending
    <2>4. MatchedIn(queue', ledger')
      <3>1. \A i \in Items : ledger'[i] \in LinkedState =>
               ledger'[i] = ledger[i] /\ queue'.items[i] = queue.items[i]
        BY <2>1, <2>3 DEF LinkedState
      <3> QED  BY <1>1, <3>1 DEF Records, MatchedIn, Stored
    <2>5. \A i \in Items : Pending(queue', i) \/ queue'.items[i].state \in {"dispatched", "completed"}
            => queue'.items[i] = queue.items[i]
      BY <2>3 DEF Pending
    <2>6. \A i \in Linked : ~Pending(queue', i)
      <3> SUFFICES ASSUME NEW i \in Linked, Pending(queue', i) PROVE FALSE
        OBVIOUS
      <3>1. Pending(queue, i) /\ i \in Items
        BY <1>1, <2>5 DEF Pending
      <3>2. ledger[i] = "pending"
        BY <1>1, <3>1 DEF Records, OpenIn, MatchedIn, LedgerOf, Pending
      <3>3. queue'.items[i].state = "gone"
        BY <2>1, <2>3, <3>1, <3>2
      <3> QED  BY <3>3 DEF Pending
    <2>7. OpenIn(queue', ledger')
      BY <2>6 DEF OpenIn
    <2>8. TrueIn(queue)' /\ TrueIn(view)' /\ GivenTrue'
      BY <1>1, <2>2, <2>5 DEF Records, TrueIn, GivenTrue, Given
    <2>9. ASSUME Sound PROVE Sound'
      <3>1. FreshIn(view, queue)'
        BY <1>1, <2>2 DEF Records, FreshIn, Pending
      <3>2. OneIn(queue)'
        BY <2>5, <2>9 DEF Sound, OneIn, InState
      <3> QED  BY <1>1, <2>2, <2>6, <3>1, <3>2 DEF Sound, Delivering
    <2> QED  BY <1>1, <2>2, <2>4, <2>7, <2>8, <2>9 DEF Records, MatchedIn, OpenIn, Pending, Stored
  <1> QED  BY <1>2, <1>3, <1>4, <1>5, <1>6, <1>7 DEF LifecycleStep

-----------------------------------------------------------------------------
(* Theorems.                                                               *)

\* A new session has no rows and was given nothing.
LEMMA InitRecords == Init => Records
  <1> SUFFICES ASSUME Init PROVE Records
    OBVIOUS
  <1>1. \A i \in Items : /\ queue.items[i].state = "unborn"
                         /\ view.items[i].state = "unborn" /\ ledger[i] = "none"
    BY DEF Init, Unborn
  <1>2. Given = {} /\ alive /\ sending = None /\ crashes <= faults
    BY DEF Init, Given
  <1>3. Linked \subseteq Items
    BY QueueAssumption DEF QueueAssumption, Linked
  <1>4. Sound
    BY <1>1, <1>2, <1>3 DEF Sound, FreshIn, KnownIn, OneIn, InState, Pending
  <1> QED
    BY <1>1, <1>2, <1>3, <1>4 DEF Records, MatchedIn, OpenIn, TrueIn, GivenTrue, Pending,
                                  LinkedState

\* The records are kept by every step, for every set of items and every bound.
THEOREM RecordsKept == Spec => []RecordInv
  <1>1. Init => RecordInv
    BY InitType, InitSafe, InitRecords DEF RecordInv, QueueInv, Safe
  <1>2. RecordInv /\ [Next]_vars => RecordInv'
    <2>1. QueueInv /\ Next => QueueInv'
      BY UserType, ManagerType, ActorType, RuntimeType, LifecycleType,
         UserSafe, ManagerSafe, ActorSafe, RuntimeSafe, LifecycleSafe
         DEF Next, QueueInv, Safe
    <2>2. RecordInv /\ Next => Records'
      BY UserKeeps, ManagerKeeps, ActorKeeps, RuntimeKeeps, LifecycleKeeps DEF Next
    <2>3. RecordInv /\ UNCHANGED vars => RecordInv'
      <3> SUFFICES ASSUME RecordInv, UNCHANGED vars PROVE RecordInv'
        OBVIOUS
      <3>1. QueueInv'
        BY DEF vars, durableVars, actorVars, runtimeVars, ghostVars, RecordInv, QueueInv,
               TypeOK, Accounted, Delivering, Born, Pending
      <3>2. Records'
        BY DEF vars, durableVars, actorVars, runtimeVars, ghostVars, RecordInv, Records,
               MatchedIn, OpenIn, TrueIn, GivenTrue, Given, Pending, Stored, Sound, FreshIn,
               KnownIn, OneIn, InState
      <3> QED  BY <3>1, <3>2 DEF RecordInv
    <2> QED  BY <2>1, <2>2, <2>3 DEF RecordInv
  <1> QED  BY <1>1, <1>2, PTL DEF Spec

\* What the table calls dispatched or completed was handed to the runtime, whatever
\* failed, crashed and was restored in between.
THEOREM DeliveriesAreReal == Spec => []NoPhantomDelivery
  <1>1. RecordInv => NoPhantomDelivery
    BY DEF RecordInv, Records, TrueIn, NoPhantomDelivery
  <1> QED  BY <1>1, RecordsKept, PTL

\* The copy the actor delivers from is current about every row that is still there.
THEOREM CopyIsCurrent == Spec => []CachedPendingIsCurrent
  <1>1. RecordInv => CachedPendingIsCurrent
    <2> SUFFICES ASSUME RecordInv, faults = crashes PROVE FreshIn(view, queue)
      BY DEF CachedPendingIsCurrent, FreshIn, Pending
    <2> QED  BY DEF RecordInv, Records, Sound
  <1> QED  BY <1>1, RecordsKept, PTL

\* The coordination ledger says what the queue says, as long as they are linked.
THEOREM TablesAgree == Spec => []LedgerMatchesQueue
  <1>1. RecordInv => LedgerMatchesQueue
    BY DEF RecordInv, Records, MatchedIn, LedgerMatchesQueue
  <1> QED  BY <1>1, RecordsKept, PTL

\* No message whose prompt is in the runtime's transcript is handed over again,
\* however often the process dies, as long as the database works.
THEOREM TranscriptTrusted == Spec => TranscriptNotRepeated
  <1>1. RecordInv /\ [Next]_vars =>
          [faults = crashes => \A i \in Linked :
              <<i, view.items[i].text>> \in history => accepted'[i] = accepted[i]]_vars
    <2> SUFFICES ASSUME RecordInv, Next, faults = crashes, NEW i \in Linked,
                        <<i, view.items[i].text>> \in history
                 PROVE  accepted'[i] = accepted[i]
      BY DEF vars
    <2>1. CASE RuntimeAccepts
      <3>1. /\ alive /\ reply = "none" /\ sending # None
            /\ accepted' = [accepted EXCEPT ![sending] = @ + 1]
            /\ accepted \in [Items -> Nat] /\ i \in Items
            /\ view.items[i].text \in Texts
        BY <2>1, QueueAssumption
           DEF RuntimeAccepts, Accept, RecordInv, QueueInv, TypeOK, QueueAssumption, Linked,
               View, Row, Texts
      <3>2. Pending(view, sending)
        BY <3>1 DEF RecordInv, QueueInv, Delivering
      <3>3. i # sending
        BY <3>1, <3>2 DEF RecordInv, Records, Sound, Given
      <3> QED  BY <3>1, <3>3
    <2>2. CASE ~RuntimeAccepts
      <3>1. accepted' = accepted
        BY <2>2 DEF Next, UserStep, ManagerStep, ActorStep, RuntimeStep, LifecycleStep,
             Enqueue, UpdateText, Remove, Reorder, SetPaused, Clear, Command, SendDirect,
             Cancel, CreateCoordination, ResolveNotice, RetireSender, Sync, DeliveryReturns,
             ApplyEvent, RuntimeRejects, TurnStart, TurnEnd, TurnError, Close, RetireOwn,
             QuitAndStart, CrashAndStart, Restore, Install, otherCommandVars, ghostVars
      <3> QED  BY <3>1
    <2> QED  BY <2>1, <2>2
  <1> QED  BY <1>1, RecordsKept, PTL DEF Spec, TranscriptNotRepeated

-----------------------------------------------------------------------------
(***************************************************************************)
(* The queue implements FollowUps.                                         *)
(*                                                                         *)
(* A step of the queue writes rows back as the actor's copy has them, so   *)
(* what it may do to a row depends on how far the copy can be from the     *)
(* table.  RecordInv says that only where no database call failed; CopyIn  *)
(* says what is left of it after a failure: a row the copy calls pending   *)
(* may have been withdrawn or answered meanwhile, never finished, and one  *)
(* it calls dispatched was dispatched.                                     *)
(***************************************************************************)

\* The row of i may be written back as pending, though it is not.
Blind(q, i) ==
    \/ q.items[i].state = "gone" /\ (i \in Linked \/ faults > 0)
    \/ q.items[i].state \in {"dispatched", "failed"} /\ faults > 0

CopyIn(v, q) ==
    \A i \in Items :
        /\ Pending(v, i) => Pending(q, i) \/ Blind(q, i)
        /\ v.items[i].state = "dispatched" =>
             q.items[i].state \in {"dispatched", "completed"}

CopyInv == RecordInv /\ CopyIn(view, queue)

\* What a step may do to the row of i, and to how often it was handed over.
MovesTo(q, i) ==
    \/ q.items[i].state = queue.items[i].state
    \/ queue.items[i].state = "unborn" /\ Pending(q, i)
    \/ Pending(queue, i) /\ q.items[i].state = "gone"
    \/ /\ Pending(queue, i) \/ Blind(queue, i)
       /\ \/ q.items[i].state = "dispatched" /\ accepted[i] > 0
          \/ q.items[i].state = "failed"
    \/ /\ queue.items[i].state = "dispatched" \/ (Pending(queue, i) /\ faults > 0)
       /\ q.items[i].state = "completed" /\ accepted[i] > 0
    \/ i \in Linked /\ queue.items[i].state = "dispatched" /\ q.items[i].state = "failed"

HandsOver(i) ==
    \/ accepted'[i] = accepted[i]
    \/ /\ Pending(queue, i) \/ Blind(queue, i)
       /\ accepted[i] <= faults /\ accepted'[i] = accepted[i] + 1

Promised ==
    /\ CopyIn(view, queue)'
    /\ faults' \in Nat /\ faults' >= faults
    /\ \A i \in Items : MovesTo(queue', i) /\ HandsOver(i)

\* A step that leaves rows, copy and hand-overs alone, whatever it fails at, is none of FollowUps' business.
LEMMA QuietPromised ==
    ASSUME CopyInv, UNCHANGED <<queue, view, accepted>>, faults' \in Nat, faults' >= faults
    PROVE  Promised
  <1>1. faults \in Nat
    BY DEF CopyInv, RecordInv, QueueInv, TypeOK
  <1> QED  BY <1>1 DEF CopyInv, CopyIn, Promised, MovesTo, HandsOver, Pending, Blind

\* Draining completes rows that the copy calls dispatched, and the copy it leaves
\* behind is as close to the table as the one it started from.
LEMMA DrainPromised ==
    ASSUME CopyInv, NEW n \in Nat, faults <= n, NEW s, NEW q \in View, NEW v \in View,
           NEW led \in [Items -> LedgerState], DrainAfter(n, s, q, led, v),
           accepted' = accepted, CopyIn(v, q), TrueIn(v),
           \A i \in Items : /\ MovesTo(q, i)
                            /\ q.items[i].state = "dispatched" =>
                                 queue.items[i].state = "dispatched"
    PROVE  Promised
  <1>1. TypeOK /\ faults \in Nat
    BY DEF CopyInv, RecordInv, QueueInv, TypeOK
  <1>2. /\ \A i \in Items : \/ queue'.items[i].state = q.items[i].state
                            \/ /\ queue'.items[i].state = "completed"
                               /\ v.items[i].state = "dispatched"
        /\ view' = v \/ view' = queue'
        /\ faults' \in Nat /\ faults <= faults'
    BY <1>1, DrainStep
  <1>3. faults' \in Nat /\ faults' >= faults
    BY <1>1, <1>2
  <1>4. CopyIn(view, queue)'
    <2>1. CASE view' = queue'
      BY <2>1 DEF CopyIn
    <2>2. CASE view' = v
      BY <1>1, <1>2, <1>3, <2>2 DEF CopyIn, Pending, Blind
    <2> QED  BY <1>2, <2>1, <2>2
  <1>5. ASSUME NEW i \in Items PROVE MovesTo(queue', i)
    <2>1. CASE queue'.items[i].state = q.items[i].state
      BY <2>1 DEF MovesTo, Pending
    <2>2. CASE /\ queue'.items[i].state = "completed"
               /\ v.items[i].state = "dispatched"
               /\ q.items[i].state # "completed"
      <3>1. q.items[i].state = "dispatched" /\ accepted[i] > 0
        BY <2>2 DEF CopyIn, TrueIn
      <3> QED  BY <2>2, <3>1 DEF MovesTo
    <2> QED  BY <1>2, <2>1, <2>2
  <1> QED  BY <1>3, <1>4, <1>5 DEF Promised, HandsOver

\* So does the tail of a command; when the command fails, the copy is behind by
\* what it deleted or added, and a fault is on record.
LEMMA EditPromised ==
    ASSUME CopyInv, sending = None, NEW q \in View,
           NEW led \in [Items -> LedgerState], AfterEdit(q, led), Edited(q, led),
           accepted' = accepted
    PROVE  Promised
  <1>1. /\ Records /\ Born /\ faults \in Nat /\ CopyIn(view, queue)
    BY DEF CopyInv, RecordInv, QueueInv, TypeOK
  <1>2. \A i \in Items : /\ MovesTo(q, i)
                         /\ q.items[i].state = "dispatched" =>
                              queue.items[i].state = "dispatched"
    BY DEF Edited, MovesTo, Pending
  <1>3. CASE Drain(status, q, led, q)
    <2>1. CopyIn(q, q)
      BY DEF CopyIn
    <2>2. TrueIn(q)
      BY <1>1 DEF Records, TrueIn, Edited, Pending
    <2>3. faults <= faults /\ DrainAfter(faults, status, q, led, q)
      BY <1>1, <1>3 DEF Drain
    <2> QED  BY <1>1, <1>2, <2>1, <2>2, <2>3, DrainPromised
  <1>4. CASE EditFails(q, led)
    <2>1. queue' = q /\ view' = view /\ faults' = faults + 1
      BY <1>4 DEF EditFails
    <2>2. CopyIn(view, queue)'
      BY <1>1, <2>1 DEF CopyIn, Edited, Pending, Blind, Born
    <2> QED  BY <1>1, <1>2, <2>1, <2>2 DEF Promised, HandsOver
  <1> QED  BY <1>3, <1>4 DEF AfterEdit

\* Commands of the developer only edit rows.
LEMMA UserPromised == CopyInv /\ UserStep => Promised
  <1> SUFFICES ASSUME CopyInv, UserStep PROVE Promised
    OBVIOUS
  <1>1. CASE Edits
    BY <1>1, EditPromised DEF Edits, Ready, otherCommandVars
  <1>2. CASE SendDirect \/ Cancel
    <2>1. faults \in Nat /\ UNCHANGED <<queue, view, faults, accepted>>
      BY <1>2 DEF SendDirect, Cancel, durableVars, actorVars, ghostVars, CopyInv, RecordInv,
                  QueueInv, TypeOK
    <2> QED  BY <2>1, QuietPromised
  <1> QED  BY <1>1, <1>2, UserEdits DEF CopyInv

\* Rows other tasks write are new ones; of the others they only withdraw.
LEMMA ManagerStates ==
    ASSUME queue \in View, ManagerStep
    PROVE  \A j \in Items :
             \/ queue'.items[j].state = queue.items[j].state
             \/ queue.items[j].state = "unborn" /\ Pending(queue', j)
             \/ Pending(queue, j) /\ queue'.items[j].state = "gone" /\ j \in Linked
  <1> DEFINE Stay == \A j \in Items :
               \/ queue'.items[j].state = queue.items[j].state
               \/ queue.items[j].state = "unborn" /\ Pending(queue', j)
               \/ Pending(queue, j) /\ queue'.items[j].state = "gone" /\ j \in Linked
  <1> HIDE DEF Stay
  <1>1. ASSUME NEW i \in Items, NEW b \in BOOLEAN, CreateCoordination(i, b) PROVE Stay
    <2>1. PICK p \in 1..MaxPosition : queue' = Inserted(queue, i, p, b)
      BY <1>1 DEF CreateCoordination
    <2>2. queue.items[i].state = "unborn"
      BY <1>1 DEF CreateCoordination
    <2> QED  BY <2>1, <2>2, InsertedRows DEF Stay, Pending
  <1>2. ASSUME NEW i \in Items, ResolveNotice(i) PROVE Stay
    <2>1. {i} \in SUBSET Items /\ i \in Linked /\ queue' = Deleted(queue, {i})
      BY <1>2 DEF ResolveNotice, Linked
    <2> QED  BY <2>1, DeletedRows DEF Stay
  <1>3. ASSUME NEW S \in SUBSET Linked, RetireSender(S) PROVE Stay
    <2> DEFINE D == {i \in S : ledger[i] \in {"pending", "dispatched"}}
    <2>1. D \in SUBSET Items /\ D \subseteq Linked
      BY QueueAssumption DEF QueueAssumption, Linked
    <2>2. queue' = Deleted(queue, D)
      BY <1>3 DEF RetireSender, RetiredFrom
    <2> HIDE DEF D
    <2> QED  BY <2>1, <2>2, DeletedRows DEF Stay
  <1> QED  BY <1>1, <1>2, <1>3 DEF Stay, ManagerStep

\* Another task adds a row of which the copy knows nothing, or withdraws linked rows.
LEMMA ManagerPromised == CopyInv /\ ManagerStep => Promised
  <1> SUFFICES ASSUME CopyInv, ManagerStep PROVE Promised
    OBVIOUS
  <1>1. queue \in View /\ Born /\ CopyIn(view, queue) /\ faults \in Nat
    BY DEF CopyInv, RecordInv, QueueInv, TypeOK
  <1>2. UNCHANGED <<view, accepted, faults>>
    BY DEF ManagerStep, CreateCoordination, ResolveNotice, RetireSender, actorVars, ghostVars
  <1>3. \A j \in Items :
           \/ queue'.items[j].state = queue.items[j].state
           \/ queue.items[j].state = "unborn" /\ Pending(queue', j)
           \/ Pending(queue, j) /\ queue'.items[j].state = "gone" /\ j \in Linked
    BY <1>1, ManagerStates
  <1>4. CopyIn(view, queue)'
    BY <1>1, <1>2, <1>3 DEF CopyIn, Born, Pending, Blind
  <1>5. \A j \in Items : MovesTo(queue', j)
    BY <1>3 DEF MovesTo
  <1> QED  BY <1>1, <1>2, <1>4, <1>5 DEF Promised, HandsOver

\* An outcome is recorded for the item in flight, which the copy calls pending; if
\* the copy then stays behind, a fault is on record.
LEMMA ActorPromised == CopyInv /\ ActorStep => Promised
  <1> SUFFICES ASSUME CopyInv, ActorStep PROVE Promised
    OBVIOUS
  <1>1. /\ queue \in View /\ view \in View /\ ledger \in [Items -> LedgerState]
        /\ faults \in Nat /\ RecordInv /\ Records /\ Delivering /\ Born
        /\ CopyIn(view, queue) /\ TrueIn(view)
    BY DEF CopyInv, RecordInv, QueueInv, TypeOK, Records
  <1>2. CASE Sync
    <2>1. Edited(queue, ledger)
      BY DEF Edited
    <2> QED  BY <1>1, <1>2, <2>1, EditPromised DEF Sync, Ready, otherCommandVars
  <1>3. CASE DeliveryReturns
    <2>1. PICK saved \in BOOLEAN, reread \in BOOLEAN :
            LET S == IF saved THEN {sending} ELSE {}
            IN /\ faults' = IF ~saved \/ ~reread THEN faults + 1 ELSE faults
               /\ queue' = Upserted(queue, view, S, Outcome(reply))
               /\ view' = IF reread THEN queue' ELSE view
      BY <1>3 DEF DeliveryReturns
    <2> DEFINE S == IF saved THEN {sending} ELSE {}
               o == Outcome(reply)
    <2>2. /\ sending \in Items /\ accepted' = accepted /\ Pending(view, sending)
          /\ S \subseteq {sending} /\ S \in SUBSET Items
          /\ o \in {"dispatched", "failed"} /\ o \in RowState
          /\ o = "dispatched" => accepted[sending] > 0
      BY <1>1, <1>3 DEF DeliveryReturns, CopyInv, RecordInv, QueueInv, TypeOK, Delivering,
                        Records, Outcome, RowState
    <2>3. /\ queue' = Upserted(queue, view, S, o)
          /\ view' = queue' \/ (view' = view /\ faults' = faults + 1)
          /\ faults' \in {faults, faults + 1}
      BY <2>1
    <2> HIDE DEF S, o
    <2>4. \A i \in Items : queue'.items[i].state =
              IF i \in S THEN o ELSE queue.items[i].state
      BY <1>1, <2>2, <2>3, UpsertedRows
    <2>5. CopyIn(view, queue)'
      <3>1. CASE view' = queue'
        BY <3>1 DEF CopyIn
      <3>2. CASE view' = view /\ faults' = faults + 1
        BY <1>1, <2>2, <2>4, <3>2 DEF CopyIn, Pending, Blind
      <3> QED  BY <2>3, <3>1, <3>2
    <2>6. \A i \in Items : MovesTo(queue', i)
      BY <1>1, <2>2, <2>4 DEF MovesTo, CopyIn
    <2> QED  BY <1>1, <2>2, <2>3, <2>5, <2>6 DEF Promised, HandsOver
  <1>4. CASE ApplyEvent
    <2>1. accepted' = accepted
      BY <1>4 DEF ApplyEvent
    <2>2. CASE ReadEvent /\ Head(events) \in {"idle", "aborted"}
      <3>1. faults <= faults /\ DrainAfter(faults, StatusAfter(Head(events)), queue, ledger, view)
        BY <1>1, <2>2 DEF ReadEvent, Drain
      <3>2. \A i \in Items : MovesTo(queue, i)
        BY DEF MovesTo
      <3> QED  BY <1>1, <2>1, <3>1, <3>2, DrainPromised
    <2>3. CASE \/ ReadEvent /\ Head(events) \notin {"idle", "aborted"}
               \/ DropEvent
      <3>1. UNCHANGED <<queue, view>> /\ faults' \in Nat /\ faults' >= faults
        BY <1>1, <2>3 DEF ReadEvent, DropEvent
      <3> QED  BY <2>1, <3>1, QuietPromised
    <2> QED  BY <1>4, <2>2, <2>3 DEF ApplyEvent
  <1> QED  BY <1>2, <1>3, <1>4 DEF ActorStep

\* The runtime takes the item in flight, which the copy calls pending, and has not
\* taken more often than there were faults.
LEMMA RuntimePromised == CopyInv /\ RuntimeStep => Promised
  <1> SUFFICES ASSUME CopyInv, RuntimeStep PROVE Promised
    OBVIOUS
  <1>1. CASE RuntimeAccepts
    <2>1. /\ sending \in Items /\ sending # None /\ reply = "none"
          /\ accepted' = [accepted EXCEPT ![sending] = @ + 1]
          /\ UNCHANGED <<queue, view, faults>>
      BY <1>1 DEF RuntimeAccepts, Accept, CopyInv, RecordInv, QueueInv, TypeOK
    <2>2. accepted \in [Items -> Nat] /\ Accounted /\ Delivering /\ CopyIn(view, queue)
      BY DEF CopyInv, RecordInv, QueueInv, TypeOK
    <2>3. accepted[sending] <= faults /\ (Pending(queue, sending) \/ Blind(queue, sending))
      BY <2>1, <2>2 DEF Accounted, Delivering, CopyIn
    <2>4. \A i \in Items : HandsOver(i)
      BY <2>1, <2>2, <2>3 DEF HandsOver
    <2>5. CopyIn(view, queue)'
      BY <2>1, <2>2 DEF CopyIn, Pending, Blind
    <2>6. faults \in Nat
      BY DEF CopyInv, RecordInv, QueueInv, TypeOK
    <2> QED  BY <2>1, <2>4, <2>5, <2>6 DEF Promised, MovesTo
  <1>2. CASE \/ RuntimeRejects \/ TurnEnd \/ TurnError
             \/ \E w \in Work : TurnStart(w)
    <2>1. faults \in Nat /\ UNCHANGED <<queue, view, faults, accepted>>
      BY <1>2 DEF RuntimeRejects, TurnEnd, TurnError, TurnStart, durableVars, actorVars,
                  ghostVars, CopyInv, RecordInv, QueueInv, TypeOK
    <2> QED  BY <2>1, QuietPromised
  <1> QED  BY <1>1, <1>2 DEF RuntimeStep

\* The copy goes with the actor, and a restart reads it anew; what the transcript
\* shows was taken is completed, which only a fault left pending.
LEMMA LifecyclePromised == CopyInv /\ LifecycleStep => Promised
  <1> SUFFICES ASSUME CopyInv, LifecycleStep PROVE Promised
    OBVIOUS
  <1>1. /\ queue \in View /\ ledger \in [Items -> LedgerState] /\ faults \in Nat
        /\ RecordInv /\ Records /\ Accounted /\ Delivering
        /\ None \notin Items /\ accepted \in [Items -> Nat]
    BY QueueAssumption DEF CopyInv, RecordInv, QueueInv, TypeOK, QueueAssumption
  <1>2. ASSUME Gone, accepted' = accepted, faults' \in {faults, faults + 1},
               \A i \in Items :
                   \/ queue'.items[i].state = queue.items[i].state
                   \/ Pending(queue, i) /\ queue'.items[i].state = "gone"
        PROVE  Promised
    <2>1. \A i \in Items : view'.items[i].state = "unborn"
      BY <1>2 DEF Gone, Unborn
    <2>2. CopyIn(view, queue)'
      BY <2>1 DEF CopyIn, Pending
    <2> QED  BY <1>1, <1>2, <2>2 DEF Promised, MovesTo, HandsOver
  <1>3. ASSUME ExpireNotices
        PROVE  \A i \in Items :
                   \/ queue'.items[i].state = queue.items[i].state
                   \/ Pending(queue, i) /\ queue'.items[i].state = "gone"
    <2> DEFINE S == {i \in {j \in Notices \ read : ledger[j] # "none"} :
                        ledger[i] \in LinkedState}
    <2>1. S \in SUBSET Items
      BY QueueAssumption DEF QueueAssumption
    <2>2. queue' = Deleted(queue, S)
      BY <1>3 DEF ExpireNotices
    <2> HIDE DEF S
    <2> QED  BY <1>1, <2>1, <2>2, DeletedRows
  <1>4. CASE Close
    BY <1>2, <1>4 DEF Close, durableVars, ghostVars
  <1>5. CASE QuitAndStart
    BY <1>2, <1>3, <1>5 DEF QuitAndStart, ghostVars
  <1>6. CASE CrashAndStart
    BY <1>2, <1>3, <1>6 DEF CrashAndStart
  <1>7. CASE Restore
    <2>1. PICK told \in BOOLEAN, loaded \in BOOLEAN : LoadQueue(told, loaded)
      BY <1>7 DEF Restore
    <2> DEFINE S == IF told THEN Reconciled(queue, ledger) ELSE {}
               q == Upserted(queue, queue, S, "completed")
               led == Synchronized(ledger, S, "completed")
               v == IF loaded THEN q ELSE view
               n == faults + (IF told THEN 0 ELSE 1) + (IF loaded THEN 0 ELSE 1)
    <2>2. /\ S \in SUBSET Items
          /\ \A i \in S : /\ queue.items[i].state \in {"pending", "dispatched"}
                          /\ <<i, queue.items[i].text>> \in history
      BY DEF Reconciled, InState
    <2>3. DrainAfter(n, "idle", q, led, v) /\ n \in Nat /\ faults <= n
      BY <1>1, <2>1 DEF LoadQueue
    <2>4. /\ sending = None /\ accepted' = accepted
          /\ view \in View /\ \A i \in Items : view.items[i].state = "unborn"
      BY <1>1, <1>7 DEF Restore, Delivering, Records, CopyInv, RecordInv, QueueInv, TypeOK
    <2> HIDE DEF S, n
    <2>5. /\ q \in View
          /\ \A i \in Items : q.items[i].state =
                IF i \in S THEN "completed" ELSE queue.items[i].state
      BY <1>1, <2>2, CompletedRows
    <2>6. led \in [Items -> LedgerState] /\ v \in View
      BY <1>1, <2>2, <2>4, <2>5, LedgerStates
    <2> HIDE DEF q, led
    <2>7. ASSUME NEW i \in S PROVE accepted[i] > 0
      <3>1. queue.items[i].text \in Texts
        BY <1>1, <2>2 DEF View, Row, Texts
      <3> QED  BY <1>1, <2>2, <3>1 DEF Records, GivenTrue, Given
    <2>8. ASSUME NEW i \in S, Pending(queue, i) PROVE faults > 0
      <3>1. accepted[i] <= faults /\ accepted[i] \in Nat
        BY <1>1, <2>2, <2>4, <2>8 DEF Accounted
      <3> QED  BY <1>1, <2>7, <3>1
    <2>9. \A i \in Items : /\ MovesTo(q, i)
                           /\ q.items[i].state = "dispatched" =>
                                queue.items[i].state = "dispatched"
      BY <2>2, <2>5, <2>7, <2>8 DEF MovesTo, Pending
    <2>10. CopyIn(v, q)
      BY <2>4 DEF CopyIn, Pending
    <2>11. TrueIn(v)
      BY <1>1, <2>5, <2>7 DEF Records, TrueIn
    <2> HIDE DEF v
    <2> QED  BY <2>3, <2>4, <2>5, <2>6, <2>9, <2>10, <2>11, DrainPromised
  <1>8. CASE Install
    <2>1. UNCHANGED <<queue, view, faults, accepted>>
      BY <1>8 DEF Install, durableVars, runtimeVars, ghostVars
    <2> QED  BY <1>1, <2>1, QuietPromised
  <1>9. CASE RetireOwn
    <2>1. UNCHANGED <<view, alive, faults, accepted>> /\ ~alive
      BY <1>9 DEF RetireOwn, actorVars, ghostVars
    <2>2. \A i \in Items : MovesTo(queue', i)
      <3> SUFFICES ASSUME NEW i \in Items PROVE MovesTo(queue', i)
        OBVIOUS
      <3>1. IF ledger[i] = "dispatched" /\ i \in Linked
                /\ queue.items[i].state = "dispatched"
            THEN queue'.items[i].state = "failed"
            ELSE IF ledger[i] \in {"pending", "dispatched"} /\ i \in Linked
                    /\ Pending(queue, i)
            THEN queue'.items[i].state = "gone"
            ELSE queue'.items[i] = queue.items[i]
        BY <1>1, <1>9, RetiredStates
      <3> QED  BY <3>1 DEF MovesTo
    <2>3. CopyIn(view, queue)'
      BY <1>1, <2>1 DEF Records, CopyIn, Pending
    <2> QED  BY <1>1, <2>1, <2>2, <2>3 DEF Promised, HandsOver
  <1> QED  BY <1>4, <1>5, <1>6, <1>7, <1>8, <1>9 DEF LifecycleStep

\* What a step may do is a step of FollowUps.
LEMMA PromisedSteps ==
    ASSUME CopyInv, TypeOK', Promised
    PROVE  Promise!Next
  <1> DEFINE stage == [i \in Items |-> queue.items[i].state]
  <1>1. /\ \A i \in Items : stage[i] = queue.items[i].state
        /\ \A i \in Items : stage'[i] = queue'.items[i].state
    OBVIOUS
  <1>2. stage' \in [Items -> Promise!Stage]
    BY DEF TypeOK, View, Row, RowState, Promise!Stage
  <1>3. accepted' \in [Items -> Nat] /\ faults' \in Nat /\ faults' >= faults
    BY DEF TypeOK, Promised
  <1>4. \A i \in Items : Promise!WrittenBlindly(i) <=> Blind(queue, i)
    BY <1>1 DEF Promise!WrittenBlindly, Blind
  <1>5. ASSUME NEW i \in Items
        PROVE  \/ stage'[i] = stage[i] \/ Promise!Adds(i) \/ Promise!Withdraws(i)
               \/ Promise!Records(i) \/ Promise!Finishes(i) \/ Promise!Abandons(i)
    <2>1. MovesTo(queue', i)
      BY DEF Promised
    <2> QED
      BY <1>1, <1>4, <2>1 DEF MovesTo, Pending, Promise!Adds, Promise!Withdraws,
                              Promise!Records, Promise!Finishes, Promise!Abandons
  <1>6. ASSUME NEW i \in Items PROVE accepted'[i] = accepted[i] \/ Promise!Takes(i)
    <2>1. HandsOver(i)
      BY DEF Promised
    <2> QED  BY <1>1, <1>4, <2>1 DEF HandsOver, Pending, Promise!Takes
  <1> QED  BY <1>2, <1>3, <1>5, <1>6 DEF Promise!Next

\* What a step may do, all of them together.
LEMMA StepPromised == CopyInv /\ Next => Promised
  BY UserPromised, ManagerPromised, ActorPromised, RuntimePromised, LifecyclePromised DEF Next

\* The copy stays as close to the table as CopyIn says.
THEOREM CopyKept == Spec => []CopyInv
  <1>1. Init => CopyIn(view, queue)
    BY DEF Init, CopyIn
  <1>2. CopyInv /\ [Next]_vars => CopyIn(view, queue)'
    <2>1. CASE Next
      BY <2>1, StepPromised DEF Promised
    <2>2. CASE UNCHANGED vars
      BY <2>2 DEF vars, durableVars, actorVars, ghostVars, CopyInv, CopyIn, Pending, Blind
    <2> QED  BY <2>1, <2>2
  <1> QED  BY <1>1, <1>2, RecordsKept, PTL DEF Spec, CopyInv

\* THEOREM: the queue, with its actor, the copy of its rows, the mailbox, foreign
\* tasks, the runtime, crashes and failed database calls, implements FollowUps: an
\* item is delivered from pending, handed over before it is called dispatched, never
\* returns to pending, and what is completed or withdrawn stays so, save for a loss.
THEOREM QueueImplementsPromise == Spec => PromiseKept
  <1>1. Init => Promise!Init
    <2>1. Init => \A i \in Items : queue.items[i].state = "unborn"
      BY DEF Init, Unborn
    <2> QED  BY <2>1 DEF Init, Promise!Init
  <1>2. CopyInv /\ CopyInv' /\ [Next]_vars => [Promise!Next]_(Promise!vars)
    <2>1. CASE Next
      BY <2>1, StepPromised, PromisedSteps DEF CopyInv, RecordInv, QueueInv
    <2>2. CASE UNCHANGED vars
      BY <2>2 DEF vars, durableVars, actorVars, ghostVars, Promise!vars
    <2> QED  BY <2>1, <2>2
  <1> QED  BY <1>1, <1>2, CopyKept, PTL DEF Spec, PromiseKept, Promise!Spec

-----------------------------------------------------------------------------
(***************************************************************************)
(* No row of a turn is completed before the actor read that it began.      *)
(* The actor completes rows when it is idle, or reads that the runtime is; *)
(* so behind either, while a turn runs, there must be the beginning of a   *)
(* turn it has not read yet (TurnAhead).                                   *)
(***************************************************************************)

TurnAhead ==
    faults = crashes /\ turn # {} =>
        /\ status = "idle" => \E k \in 1..Len(events) : events[k] = "turn"
        /\ \A k \in 1..Len(events) : events[k] = "idle" =>
             \E m \in 1..Len(events) : m > k /\ events[m] = "turn"

\* A turn that begins, ends, fails or is read about leaves it so.
LEMMA TurnsAhead == CopyInv /\ TurnAhead /\ Next => TurnAhead'
  <1> SUFFICES ASSUME CopyInv, TurnAhead, Next, turn' # {} PROVE TurnAhead'
    BY DEF TurnAhead
  <1>1. /\ faults \in Nat /\ crashes \in Nat /\ crashes <= faults
        /\ events \in Seq(Event)
        /\ ~alive => turn = {}
        /\ faults' \in Nat /\ faults' >= faults
    BY StepPromised DEF CopyInv, RecordInv, QueueInv, TypeOK, Records, Promised
  <1>2. ASSUME crashes' = crashes, turn # {}, UNCHANGED <<status, events>>
        PROVE  TurnAhead'
    BY <1>1, <1>2 DEF TurnAhead
  <1>3. CASE UserStep
    <2>1. CASE Edits \/ SendDirect
      BY <1>2, <2>1 DEF Edits, otherCommandVars, runtimeVars, SendDirect, actorVars, ghostVars
    <2>2. CASE Cancel
      BY <2>2 DEF Cancel
    <2> QED  BY <1>3, <2>1, <2>2, UserEdits DEF CopyInv
  <1>4. CASE ManagerStep
    BY <1>2, <1>4 DEF ManagerStep, CreateCoordination, ResolveNotice, RetireSender, actorVars,
                      runtimeVars, ghostVars
  <1>5. CASE Sync \/ DeliveryReturns
    BY <1>2, <1>5 DEF Sync, DeliveryReturns, otherCommandVars, runtimeVars
  <1>6. CASE ApplyEvent
    <2>1. /\ events # <<>> /\ events' = Tail(events) /\ turn' = turn /\ crashes' = crashes
      BY <1>6 DEF ApplyEvent
    <2>2. /\ Len(events) \in Nat /\ Len(events) > 0 /\ Len(events') = Len(events) - 1
          /\ Head(events) = events[1]
          /\ \A k \in 1..Len(events') : events'[k] = events[k + 1]
      BY <1>1, <2>1
    <2>3. SUFFICES ASSUME faults' = crashes' PROVE TurnAhead'
      BY DEF TurnAhead
    <2>4. faults = crashes /\ ReadEvent
      BY <1>1, <1>6, <2>1, <2>3 DEF ApplyEvent, DropEvent
    <2>5. ASSUME NEW k \in 1..Len(events), events[k] = "idle"
          PROVE  \E m \in 1..Len(events') : m > k - 1 /\ events'[m] = "turn"
      <3>1. PICK m \in 1..Len(events) : m > k /\ events[m] = "turn"
        BY <2>1, <2>4, <2>5 DEF TurnAhead
      <3>2. m - 1 \in 1..Len(events') /\ m - 1 > k - 1 /\ events'[m - 1] = events[m]
        BY <2>2, <3>1
      <3> QED  BY <3>1, <3>2
    <2>6. status' = "idle" => \E k \in 1..Len(events') : events'[k] = "turn"
      <3>1. Head(events) \in Event
        BY <1>1, <2>1
      <3>2. status' = "idle" => events[1] = "idle" /\ 1 \in 1..Len(events)
        BY <2>2, <2>4, <3>1 DEF ReadEvent, StatusAfter, Event
      <3> QED  BY <2>5, <3>2
    <2>7. \A k \in 1..Len(events') : events'[k] = "idle" =>
             \E m \in 1..Len(events') : m > k /\ events'[m] = "turn"
      <3> SUFFICES ASSUME NEW k \in 1..Len(events'), events'[k] = "idle"
                   PROVE  \E m \in 1..Len(events') : m > k /\ events'[m] = "turn"
        OBVIOUS
      <3>1. k + 1 \in 1..Len(events) /\ events[k + 1] = "idle" /\ (k + 1) - 1 = k
        BY <2>2
      <3> QED  BY <2>5, <3>1
    <2> QED  BY <2>6, <2>7 DEF TurnAhead
  <1>7. CASE RuntimeAccepts \/ RuntimeRejects
    BY <1>2, <1>7 DEF RuntimeAccepts, Accept, RuntimeRejects, runtimeVars, ghostVars
  <1>8. ASSUME NEW w \in Work, TurnStart(w) PROVE TurnAhead'
    <2>1. events' = Append(events, "turn")
      BY <1>8 DEF TurnStart
    <2>2. /\ Len(events) \in Nat /\ Len(events') = Len(events) + 1
          /\ events'[Len(events) + 1] = "turn"
      BY <1>1, <2>1
    <2>3. \A k \in 1..Len(events') : events'[k] = "idle" =>
             Len(events) + 1 \in 1..Len(events') /\ Len(events) + 1 > k
      BY <2>2
    <2> QED  BY <2>2, <2>3 DEF TurnAhead
  <1>9. CASE TurnError
    <2>1. /\ events' = Append(events, "error") /\ turn # {}
          /\ UNCHANGED <<status, faults, crashes>>
      BY <1>9 DEF TurnError, actorVars, ghostVars
    <2>2. /\ Len(events) \in Nat /\ Len(events') = Len(events) + 1
          /\ \A k \in 1..Len(events) : events'[k] = events[k]
          /\ events'[Len(events) + 1] = "error"
      BY <1>1, <2>1
    <2>3. \A k \in 1..Len(events') : events'[k] = "idle" =>
             k \in 1..Len(events) /\ events[k] = "idle"
      BY <2>2
    <2>4. \A k \in 1..Len(events) : k \in 1..Len(events')
      BY <2>2
    <2> QED  BY <2>1, <2>2, <2>3, <2>4 DEF TurnAhead
  <1>10. CASE TurnEnd \/ Close \/ QuitAndStart \/ CrashAndStart
    BY <1>10 DEF TurnEnd, Close, QuitAndStart, CrashAndStart, Gone
  <1>11. CASE Restore \/ RetireOwn
    BY <1>1, <1>11 DEF Restore, RetireOwn, runtimeVars
  <1>12. CASE Install
    BY <1>2, <1>12 DEF Install, runtimeVars, ghostVars
  <1> QED
    BY <1>3, <1>4, <1>5, <1>6, <1>7, <1>8, <1>9, <1>10, <1>11, <1>12
       DEF Next, ActorStep, RuntimeStep, LifecycleStep

\* Draining completes rows of an idle session only.
LEMMA DrainRetires ==
    ASSUME NEW n \in Nat, NEW s, NEW q \in View, NEW v \in View,
           NEW led \in [Items -> LedgerState], DrainAfter(n, s, q, led, v),
           NEW i \in Items, queue'.items[i].state # q.items[i].state
    PROVE  Retired(s, v) # {}
  <1>1. PICK kept \in SUBSET Retired(s, v) : queue' = Upserted(q, v, kept, "completed")
    BY DrainMoves
  <1>2. kept \in SUBSET Items
    BY DEF Retired, InState
  <1>3. i \in kept
    BY <1>1, <1>2, CompletedRows
  <1> QED  BY <1>3

\* What a step completes of a running turn, it completes ahead of its beginning.
LEMMA TurnRetires ==
    ASSUME CopyInv, TurnAhead, Next, faults = crashes, NEW i \in Items, turn # {},
           queue.items[i].state = "dispatched", queue'.items[i].state = "completed"
    PROVE  \E k \in 1..Len(events) : events[k] = "turn"
  <1>1. /\ queue \in View /\ view \in View /\ ledger \in [Items -> LedgerState]
        /\ faults \in Nat /\ events \in Seq(Event)
        /\ ~alive => turn = {}
    BY DEF CopyInv, RecordInv, QueueInv, TypeOK, Records
  <1>2. ASSUME NEW q \in View, NEW led \in [Items -> LedgerState], AfterEdit(q, led),
               q.items[i].state = "dispatched"
        PROVE  status = "idle"
    <2>1. DrainAfter(faults, status, q, led, q)
      BY <1>2 DEF AfterEdit, EditFails, Drain
    <2>2. queue'.items[i].state # q.items[i].state
      BY <1>2
    <2>3. Retired(status, q) # {}
      BY <1>1, <2>1, <2>2, DrainRetires
    <2> QED  BY <2>3 DEF Retired
  <1>3. status = "idle" => \E k \in 1..Len(events) : events[k] = "turn"
    BY DEF TurnAhead
  <1>4. CASE UserStep
    <2>1. CASE Edits
      <3>1. PICK q \in View, led \in [Items -> LedgerState] :
              AfterEdit(q, led) /\ Edited(q, led)
        BY <2>1 DEF Edits
      <3>2. q.items[i].state = "dispatched"
        BY <3>1 DEF Edited, Pending
      <3> QED  BY <1>2, <1>3, <3>1, <3>2
    <2>2. CASE SendDirect \/ Cancel
      BY <2>2 DEF SendDirect, Cancel, durableVars
    <2> QED  BY <1>4, <2>1, <2>2, UserEdits DEF CopyInv
  <1>5. CASE ManagerStep
    BY <1>1, <1>5, ManagerStates DEF Pending
  <1>6. CASE Sync
    BY <1>1, <1>2, <1>3, <1>6 DEF Sync
  <1>7. CASE DeliveryReturns
    <2>1. PICK saved \in BOOLEAN :
            queue' = Upserted(queue, view, IF saved THEN {sending} ELSE {}, Outcome(reply))
      BY <1>7 DEF DeliveryReturns
    <2> DEFINE S == IF saved THEN {sending} ELSE {}
               o == Outcome(reply)
    <2>2. /\ S \in SUBSET Items /\ o \in RowState /\ o # "completed"
      BY <1>7 DEF DeliveryReturns, CopyInv, RecordInv, QueueInv, TypeOK, Outcome, RowState
    <2>3. queue' = Upserted(queue, view, S, o)
      BY <2>1
    <2> HIDE DEF S, o
    <2>4. queue'.items[i].state = IF i \in S THEN o ELSE queue.items[i].state
      BY <1>1, <2>2, <2>3, UpsertedRows
    <2> QED  BY <2>2, <2>4
  <1>8. CASE ApplyEvent
    <2>1. ReadEvent /\ Head(events) \in {"idle", "aborted"} /\ events # <<>>
      BY <1>8 DEF ApplyEvent, ReadEvent, DropEvent
    <2>2. DrainAfter(faults, StatusAfter(Head(events)), queue, ledger, view)
      BY <2>1 DEF ReadEvent, Drain
    <2>3. StatusAfter(Head(events)) = "idle"
      <3>1. queue'.items[i].state # queue.items[i].state
        OBVIOUS
      <3>2. Retired(StatusAfter(Head(events)), view) # {}
        BY <1>1, <2>2, <3>1, DrainRetires
      <3> QED  BY <3>2 DEF Retired
    <2>4. events[1] = "idle" /\ 1 \in 1..Len(events)
      <3>1. Head(events) # "aborted"
        BY <2>3 DEF StatusAfter
      <3> QED  BY <1>1, <2>1, <3>1
    <2> QED  BY <2>4 DEF TurnAhead
  <1>9. CASE RuntimeStep
    BY <1>9 DEF RuntimeStep, RuntimeAccepts, RuntimeRejects, TurnStart, TurnEnd, TurnError,
                durableVars
  <1>10. CASE LifecycleStep
    <2>1. CASE ExpireNotices
      <3> DEFINE S == {j \in {l \in Notices \ read : ledger[l] # "none"} :
                          ledger[j] \in LinkedState}
      <3>1. S \in SUBSET Items
        BY QueueAssumption DEF QueueAssumption
      <3>2. queue' = Deleted(queue, S)
        BY <2>1 DEF ExpireNotices
      <3> HIDE DEF S
      <3> QED  BY <1>1, <3>1, <3>2, DeletedRows
    <2>2. CASE Close \/ Install
      BY <2>2 DEF Close, Install, durableVars
    <2>3. CASE RetireOwn \/ Restore
      BY <1>1, <2>3 DEF RetireOwn, Restore
    <2> QED  BY <1>10, <2>1, <2>2, <2>3 DEF LifecycleStep, QuitAndStart, CrashAndStart
  <1> QED
    BY <1>4, <1>5, <1>6, <1>7, <1>8, <1>9, <1>10 DEF Next, ActorStep

\* THEOREM: as long as the database works, no row whose prompt a turn works on is
\* completed once the actor has read of that turn, however commands, pokes, aborts,
\* crashes and restores interleave.
THEOREM TurnsRunOut == Spec => RetiredAfterTurn
  <1>1. Init => TurnAhead
    BY DEF Init, TurnAhead
  <1>2. CopyInv /\ TurnAhead /\ [Next]_vars => TurnAhead'
    <2>1. CASE UNCHANGED vars
      BY <2>1 DEF vars, actorVars, runtimeVars, ghostVars, TurnAhead
    <2> QED  BY <2>1, TurnsAhead
  <1>3. CopyInv /\ TurnAhead /\ [Next]_vars =>
          [faults = crashes =>
            \A w \in turn \ {Direct} :
            /\ queue.items[w[1]].state = "dispatched"
            /\ queue'.items[w[1]].state = "completed"
            => "turn" \in Range(events)]_vars
    <2> SUFFICES ASSUME CopyInv, TurnAhead, Next, faults = crashes,
                        NEW w \in turn \ {Direct},
                        queue.items[w[1]].state = "dispatched",
                        queue'.items[w[1]].state = "completed"
                 PROVE  "turn" \in Range(events)
      BY DEF vars
    <2>1. w[1] \in Items
      BY DEF CopyInv, RecordInv, QueueInv, TypeOK, Work, Prompt
    <2>2. PICK k \in 1..Len(events) : events[k] = "turn"
      BY <2>1, TurnRetires
    <2>3. events \in Seq(Event)
      BY DEF CopyInv, RecordInv, QueueInv, TypeOK
    <2>4. k \in DOMAIN events /\ events[k] = "turn"
      BY <2>2, <2>3
    <2> QED  BY <2>4, Zenon DEF Range
  <1> QED  BY <1>1, <1>2, <1>3, CopyKept, PTL DEF Spec, RetiredAfterTurn

=============================================================================
