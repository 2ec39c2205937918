------------------------ MODULE ListenerPool_proofs ------------------------
(***************************************************************************)
(* Proofs about ListenerPool, for any number of listeners, any connection  *)
(* limit (0, no limit, included), any backlog and any number of arriving   *)
(* connections.                                                            *)
(*                                                                         *)
(* The inductive invariant is the conjunction of the four checked          *)
(* invariants.  None is inductive alone: that a return of                  *)
(* uh_poll_listeners at its first test forgets nobody follows from         *)
(* CounterCovers, and that the decrement of n_blocked keeps it a natural   *)
(* number (TypeOK) follows from CounterCovers too.                         *)
(***************************************************************************)
EXTENDS ListenerPool, FiniteSetTheorems, TLAPS

IInv == TypeOK /\ NoLostWakeup /\ CounterCovers /\ RegisteredIffUnblocked

USE NListenersAssumption, MaxConnectionsAssumption, NArrivalsAssumption

(* The blocked listeners are finitely many.                                *)
LEMMA BlockedFinite ==
    IsFiniteSet(Blocked) /\ Cardinality(Blocked) \in Nat
<1>1. IsFiniteSet(Listeners)
  BY FS_Interval DEF Listeners
<1>2. Blocked \in SUBSET Listeners
  BY DEF Blocked
<1> QED
  BY <1>1, <1>2, FS_Subset, FS_CardinalityType

(* Blocking a listener, blocked before or not, keeps the counter at least  *)
(* the number of blocked listeners.                                        *)
LEMMA BlockCovers ==
    ASSUME NEW l \in Listeners, TypeOK, CounterCovers, Block(l)
    PROVE  CounterCovers'
<1>1. Blocked' = Blocked \cup {l}
  BY DEF TypeOK, Block, Blocked
<1>2. Cardinality(Blocked \cup {l})
        = IF l \in Blocked THEN Cardinality(Blocked) ELSE Cardinality(Blocked) + 1
  BY BlockedFinite, FS_AddElement
<1> QED
  BY <1>1, <1>2, BlockedFinite DEF TypeOK, CounterCovers, Block

(* Unblocking a blocked listener removes one from both sides.              *)
LEMMA UnblockCovers ==
    ASSUME NEW l \in Listeners, TypeOK, CounterCovers, blocked[l], Unblock(l)
    PROVE  CounterCovers' /\ n_blocked' \in Nat
<1>1. l \in Blocked
  BY DEF Blocked
<1>2. Blocked' = Blocked \ {l}
  BY DEF TypeOK, Unblock, Blocked
<1>3. Cardinality(Blocked') = Cardinality(Blocked) - 1
  BY <1>1, <1>2, BlockedFinite, FS_RemoveElement
<1>4. Cardinality(Blocked') \in Nat
  BY <1>2, BlockedFinite, FS_RemoveElement, FS_CardinalityType
<1> QED
  BY <1>3, <1>4, BlockedFinite DEF TypeOK, CounterCovers, Unblock

(* Accepting never lowers the count and stays within the types.            *)
LEMMA AcceptMonotone ==
    ASSUME TypeOK, NEW l \in Listeners, NEW k \in 0..pending[l], AcceptAll(l, k)
    PROVE  /\ n_clients' \in Nat
           /\ n_clients' >= n_clients
           /\ pending' \in [Listeners -> Nat]
  BY DEF TypeOK, AcceptAll

(* At the start nothing is blocked.                                      *)
LEMMA InitIInv == Init => IInv
<1> SUFFICES ASSUME Init PROVE IInv
  OBVIOUS
<1>1. TypeOK
  <2>1. blocked \in [Listeners -> BOOLEAN] /\ pending \in [Listeners -> Nat]
    BY DEF Init
  <2>2. cursor \in 0..NListeners /\ n_blocked \in Nat /\ n_clients \in Nat
    BY DEF Init
  <2> QED
    BY <2>1, <2>2 DEF Init, TypeOK
<1>2. Blocked = {}
  BY DEF Init, Blocked
<1>3. NoLostWakeup
  BY <1>2 DEF NoLostWakeup
<1>4. CounterCovers
  BY <1>2, FS_EmptySet DEF CounterCovers, Init
<1>5. RegisteredIffUnblocked
  BY DEF Init, RegisteredIffUnblocked
<1> QED
  BY <1>1, <1>3, <1>4, <1>5 DEF IInv

(* Every callback and every step of the walk preserve the invariant.     *)
LEMMA NextIInv == IInv /\ [Next]_vars => IInv'
<1> SUFFICES ASSUME IInv, [Next]_vars PROVE IInv'
  OBVIOUS
<1> USE DEF IInv
<1>1. ASSUME NEW l \in Listeners, Arrive(l) PROVE IInv'
  <2>1. TypeOK'
    BY <1>1 DEF Arrive, TypeOK
  <2>2. Blocked' = Blocked
    BY <1>1 DEF Arrive, Blocked
  <2> QED
    BY <1>1, <2>1, <2>2
       DEF Arrive, NoLostWakeup, CounterCovers, RegisteredIffUnblocked
<1>2. ASSUME NEW l \in Listeners, NewClientEvent(l) PROVE IInv'
  <2>1. PICK k \in 0..pending[l] : AcceptAll(l, k)
    BY <1>2 DEF NewClientEvent
  <2>2. /\ n_clients' \in Nat
        /\ n_clients' >= n_clients
        /\ pending' \in [Listeners -> Nat]
    BY <2>1, AcceptMonotone
  <2>3. CASE MustBlock(n_clients')
    <3>1. Block(l)
      BY <1>2, <2>3 DEF NewClientEvent
    <3>2. TypeOK'
      BY <1>2, <2>2, <3>1 DEF NewClientEvent, TypeOK, Block
    <3>3. NoLostWakeup'
      BY <2>3 DEF NoLostWakeup, MustBlock, Full
    <3>4. RegisteredIffUnblocked'
      BY <3>1 DEF Block, RegisteredIffUnblocked, TypeOK
    <3> QED
      BY <3>1, <3>2, <3>3, <3>4, BlockCovers
  <2>4. CASE ~MustBlock(n_clients')
    <3>1. UNCHANGED <<registered, n_blocked, blocked, poll_timer, cursor, outside>>
      BY <1>2, <2>4 DEF NewClientEvent
    <3>2. TypeOK'
      BY <2>2, <3>1 DEF TypeOK
    <3>3. Blocked' = Blocked
      BY <3>1 DEF Blocked
    <3>4. NoLostWakeup'
      BY <2>2, <3>1, <3>3 DEF NoLostWakeup, TypeOK
    <3> QED
      BY <3>1, <3>2, <3>3, <3>4 DEF CounterCovers, RegisteredIffUnblocked
  <2> QED
    BY <2>3, <2>4
<1>3. ASSUME ClientClose PROVE IInv'
  <2>1. TypeOK'
    BY <1>3 DEF ClientClose, TypeOK
  <2>2. Blocked' = Blocked
    BY <1>3 DEF ClientClose, Blocked
  <2> QED
    BY <1>3, <2>1, <2>2
       DEF ClientClose, NoLostWakeup, CounterCovers, RegisteredIffUnblocked
<1>4. ASSUME PollTimer PROVE IInv'
  <2>1. TypeOK'
    <3>1. cursor' = 0 \/ cursor' = 1
      BY <1>4 DEF PollTimer
    <3>2. cursor' \in 0..NListeners
      BY <3>1
    <3>3. poll_timer' = FALSE
      BY <1>4 DEF PollTimer
    <3> QED
      BY <1>4, <3>2, <3>3 DEF PollTimer, TypeOK
  <2>2. Blocked' = Blocked
    BY <1>4 DEF PollTimer, Blocked
  <2>3. NoLostWakeup'
    <3>1. CASE n_blocked = 0
      <4>1. Cardinality(Blocked) = 0
        BY <3>1, BlockedFinite DEF CounterCovers
      <4>2. Blocked = {}
        BY <4>1, BlockedFinite, FS_EmptySet
      <4> QED
        BY <2>2, <4>2 DEF NoLostWakeup
    <3>2. CASE Full(n_clients)
      BY <1>4, <3>2 DEF PollTimer, NoLostWakeup, Full
    <3>3. CASE n_blocked # 0 /\ ~Full(n_clients)
      <4>1. cursor' = 1
        BY <1>4, <3>3 DEF PollTimer
      <4> QED
        BY <4>1 DEF NoLostWakeup, Blocked, Listeners
    <3> QED
      BY <3>1, <3>2, <3>3
  <2> QED
    BY <1>4, <2>1, <2>2, <2>3
       DEF PollTimer, CounterCovers, RegisteredIffUnblocked
<1>5. ASSUME PollSkip PROVE IInv'
  <2>1. TypeOK'
    BY <1>5 DEF PollSkip, NextCursor, TypeOK
  <2>2. Blocked' = Blocked
    BY <1>5 DEF PollSkip, Blocked
  <2>3. cursor \notin Blocked
    BY <1>5 DEF PollSkip, Blocked
  <2>4. NoLostWakeup'
    BY <1>5, <2>2, <2>3
       DEF PollSkip, NextCursor, NoLostWakeup, TypeOK, Blocked, Listeners
  <2> QED
    BY <1>5, <2>1, <2>2, <2>4
       DEF PollSkip, CounterCovers, RegisteredIffUnblocked
<1>6. ASSUME PollRefill PROVE IInv'
  <2>1. cursor \in Listeners
    BY <1>6 DEF PollRefill, TypeOK, Listeners
  <2>2. PICK k \in 0..pending[cursor] : AcceptAll(cursor, k)
    BY <1>6 DEF PollRefill
  <2>3. /\ n_clients' \in Nat
        /\ pending' \in [Listeners -> Nat]
    BY <2>1, <2>2, AcceptMonotone
  <2>4. Block(cursor)
    BY <1>6 DEF PollRefill
  <2>5. TypeOK'
    <3>1. cursor' = 0 /\ UNCHANGED <<poll_timer, outside>>
      BY <1>6 DEF PollRefill
    <3> QED
      BY <2>1, <2>3, <2>4, <3>1 DEF TypeOK, Block
  <2>6. NoLostWakeup'
    BY <1>6 DEF PollRefill, MustBlock, Full, NoLostWakeup
  <2>7. RegisteredIffUnblocked'
    BY <2>1, <2>4 DEF Block, RegisteredIffUnblocked, TypeOK
  <2> QED
    BY <2>1, <2>4, <2>5, <2>6, <2>7, BlockCovers
<1>7. ASSUME PollUnblock PROVE IInv'
  <2>1. cursor \in Listeners
    BY <1>7 DEF PollUnblock, TypeOK, Listeners
  <2>2. PICK k \in 0..pending[cursor] : AcceptAll(cursor, k)
    BY <1>7 DEF PollUnblock
  <2>3. /\ n_clients' \in Nat
        /\ n_clients' >= n_clients
        /\ pending' \in [Listeners -> Nat]
    BY <2>1, <2>2, AcceptMonotone
  <2>4. Unblock(cursor) /\ blocked[cursor]
    BY <1>7 DEF PollUnblock
  <2>5. CounterCovers' /\ n_blocked' \in Nat
    BY <2>1, <2>4, UnblockCovers
  <2>6. TypeOK'
    BY <1>7, <2>1, <2>3, <2>4, <2>5
       DEF PollUnblock, NextCursor, TypeOK, Unblock, Listeners
  <2>7. Blocked' = Blocked \ {cursor}
    BY <2>1, <2>4 DEF Unblock, Blocked, TypeOK
  <2>8. NoLostWakeup'
    <3> SUFFICES ASSUME NEW l \in Blocked'
                 PROVE  \/ n_clients' >= MaxConnections
                        \/ poll_timer'
                        \/ cursor' \in 1..l
      BY DEF NoLostWakeup
    <3>1. l \in Blocked /\ l # cursor /\ l \in 1..NListeners
      BY <2>7 DEF Blocked, Listeners
    <3>2. poll_timer' = poll_timer /\ cursor' = NextCursor
      BY <1>7 DEF PollUnblock
    <3>3. CASE n_clients >= MaxConnections
      BY <2>3, <3>3 DEF TypeOK
    <3>4. CASE poll_timer
      BY <3>2, <3>4
    <3>5. CASE cursor \in 1..l
      BY <3>1, <3>2, <3>5 DEF NextCursor, TypeOK
    <3> QED
      BY <3>1, <3>3, <3>4, <3>5 DEF NoLostWakeup
  <2>9. RegisteredIffUnblocked'
    BY <2>1, <2>4 DEF Unblock, RegisteredIffUnblocked, TypeOK
  <2> QED
    BY <2>5, <2>6, <2>8, <2>9
<1>8. CASE UNCHANGED vars
  BY <1>8 DEF vars, TypeOK, NoLostWakeup, CounterCovers,
              RegisteredIffUnblocked, Blocked
<1> QED
  BY <1>1, <1>2, <1>3, <1>4, <1>5, <1>6, <1>7, <1>8 DEF Next, Poll

(* The inductive invariant holds in every reachable state.                 *)
THEOREM Invariance == Spec => []IInv
<1>1. Init => IInv
  BY InitIInv
<1>2. IInv /\ [Next]_vars => IInv'
  BY NextIInv
<1> QED
  BY <1>1, <1>2, PTL DEF Spec

(* Type correctness: in particular n_blocked never goes below zero.        *)
THEOREM TypeCorrect == Spec => []TypeOK
<1>1. IInv => TypeOK
  BY DEF IInv
<1> QED
  BY <1>1, Invariance, PTL

(* A blocked listener is never forgotten by the event loop.                *)
THEOREM BlockedIsWoken == Spec => []NoLostWakeup
<1>1. IInv => NoLostWakeup
  BY DEF IInv
<1> QED
  BY <1>1, Invariance, PTL

(* The counter read as "is any listener blocked" covers all of them.       *)
THEOREM CounterIsCovering == Spec => []CounterCovers
<1>1. IInv => CounterCovers
  BY DEF IInv
<1> QED
  BY <1>1, Invariance, PTL

(* The blocked flag and the event loop's registrations agree.              *)
THEOREM FlagMatchesEventLoop == Spec => []RegisteredIffUnblocked
<1>1. IInv => RegisteredIffUnblocked
  BY DEF IInv
<1> QED
  BY <1>1, Invariance, PTL
=============================================================================
