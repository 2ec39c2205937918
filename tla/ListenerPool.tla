---------------------------- MODULE ListenerPool ----------------------------
(***************************************************************************)
(* The listening sockets of src/listen.c and the connection count they     *)
(* share with src/client.c.                                                *)
(*                                                                         *)
(* All of it runs on the one event-loop thread.  What is concurrent is the *)
(* outside: remote peers put connections in the kernel's accept queues at  *)
(* any time, also while uh_poll_listeners walks its list, so that walk is  *)
(* one step per listener and Arrive may happen between two of them.        *)
(*                                                                         *)
(* An operator Op_Bug just before Op is Op with a bug it might have had;   *)
(* nothing uses it but the experiments that confirm a property notices.    *)
(***************************************************************************)
EXTENDS Naturals, FiniteSets

CONSTANTS
    NListeners,      \* number of sockets bind_listener_sockets has appended
    MaxConnections,  \* conf->max_connections; config_parse never sets it, so 0
                     \* at this commit: then nothing is ever blocked
    Backlog,         \* second argument of listen(2), UH_LIMIT_CLIENTS
    NArrivals        \* bound: number of connections peers ever make

ASSUME NListenersAssumption == NListeners \in Nat \ {0}
ASSUME MaxConnectionsAssumption == MaxConnections \in Nat
ASSUME BacklogAssumption == Backlog \in Nat
ASSUME NArrivalsAssumption == NArrivals \in Nat

VARIABLES
    blocked,     \* blocked[l]: the flag of the listener structure
    registered,  \* the listeners whose descriptor is in the event loop
    n_blocked,   \* the static counter of listen.c
    n_clients,   \* the global counter of client.c
    poll_timer,  \* TRUE iff the static poll_timer of unblock_listeners is armed
    cursor,      \* the listener uh_poll_listeners visits next, 0 outside of it
    pending,     \* pending[l]: connections waiting in the accept queue of l
    outside      \* connections peers have yet to make

vars == <<blocked, registered, n_blocked, n_clients, poll_timer, cursor,
          pending, outside>>

Listeners == 1..NListeners

Blocked == {l \in Listeners : blocked[l]}

TypeOK ==
    /\ blocked \in [Listeners -> BOOLEAN]
    /\ registered \in SUBSET Listeners
    /\ n_blocked \in Nat
    /\ n_clients \in Nat
    /\ poll_timer \in BOOLEAN
    /\ cursor \in 0..NListeners
    /\ pending \in [Listeners -> Nat]
    /\ outside \in Nat

(* Every socket is bound, setup_listeners has registered it and uloop_run  *)
(* has not dispatched anything yet.                                        *)
Init ==
    /\ blocked = [l \in Listeners |-> FALSE]
    /\ registered = Listeners
    /\ n_blocked = 0
    /\ n_clients = 0
    /\ poll_timer = FALSE
    /\ cursor = 0
    /\ pending = [l \in Listeners |-> 0]
    /\ outside = NArrivals

-----------------------------------------------------------------------------

(* A peer connects: the kernel queues it, whatever the program is doing.   *)
Arrive(l) ==
    /\ outside > 0
    /\ pending[l] < Backlog
    /\ pending' = [pending EXCEPT ![l] = @ + 1]
    /\ outside' = outside - 1
    /\ UNCHANGED <<blocked, registered, n_blocked, n_clients, poll_timer, cursor>>

(* A full server, as both comparisons of listen.c test it.                 *)
Full(n) == n >= MaxConnections

(* The loop of new_client_event around accept_client takes connections     *)
(* until one accept fails: on the empty queue, or earlier on an error of   *)
(* accept(2).  k is the number it got.                                     *)
AcceptAll(l, k) ==
    /\ pending' = [pending EXCEPT ![l] = @ - k]
    /\ n_clients' = n_clients + k

(* The test at the end of new_client_event, on the count it now sees; no   *)
(* limit is configured when max_connections is 0.                          *)
MustBlock(n) == MaxConnections > 0 /\ Full(n)

(* What that test guards.  It counts l again if l is blocked already.      *)
Block_Uncounted(l) ==
    /\ registered' = registered \ {l}
    /\ blocked' = [blocked EXCEPT ![l] = TRUE]
    /\ UNCHANGED n_blocked
Block(l) ==
    /\ registered' = registered \ {l}
    /\ n_blocked' = n_blocked + 1
    /\ blocked' = [blocked EXCEPT ![l] = TRUE]

Unblock_Unregistered(l) ==
    /\ n_blocked' = n_blocked - 1
    /\ blocked' = [blocked EXCEPT ![l] = FALSE]
    /\ UNCHANGED registered
Unblock(l) ==
    /\ n_blocked' = n_blocked - 1
    /\ blocked' = [blocked EXCEPT ![l] = FALSE]
    /\ registered' = registered \cup {l}

(* The descriptor of a registered listener is readable.                    *)
NewClientEvent(l) ==
    /\ cursor = 0
    /\ l \in registered
    /\ pending[l] > 0
    /\ \E k \in 0..pending[l] : AcceptAll(l, k)
    /\ IF MustBlock(n_clients')
       THEN Block(l)
       ELSE UNCHANGED <<registered, n_blocked, blocked>>
    /\ UNCHANGED <<poll_timer, cursor, outside>>

(* The end of client_close: the count drops and unblock_listeners arms the *)
(* poll timer (again, if it was armed).                                    *)
ClientClose_Silent ==
    /\ cursor = 0
    /\ n_clients > 0
    /\ n_clients' = n_clients - 1
    /\ UNCHANGED <<poll_timer, blocked, registered, n_blocked, cursor, pending,
                   outside>>
ClientClose ==
    /\ cursor = 0
    /\ n_clients > 0
    /\ n_clients' = n_clients - 1
    /\ poll_timer' = TRUE
    /\ UNCHANGED <<blocked, registered, n_blocked, cursor, pending, outside>>

(* uh_poll_listeners is entered: it returns at once, or starts its walk.   *)
PollTimer ==
    /\ cursor = 0
    /\ poll_timer
    /\ poll_timer' = FALSE
    /\ cursor' = IF (n_blocked = 0 /\ MaxConnections > 0) \/ Full(n_clients)
                 THEN 0
                 ELSE 1
    /\ UNCHANGED <<blocked, registered, n_blocked, n_clients, pending, outside>>

(* The next element of the list, or its end.                               *)
NextCursor_PastEnd == cursor + 1
NextCursor_FirstOnly == 0
NextCursor == IF cursor = NListeners THEN 0 ELSE cursor + 1

(* The walk passes a listener that is not blocked.                         *)
PollSkip ==
    /\ cursor > 0
    /\ ~blocked[cursor]
    /\ cursor' = NextCursor
    /\ UNCHANGED <<blocked, registered, n_blocked, n_clients, poll_timer,
                   pending, outside>>

(* The walk visits a blocked listener: its callback new_client_event       *)
(* accepts what is pending and blocks it (once more) if that fills the     *)
(* server, in which case the walk ends.                                    *)
PollRefill ==
    /\ cursor > 0
    /\ blocked[cursor]
    /\ \E k \in 0..pending[cursor] : AcceptAll(cursor, k)
    /\ MustBlock(n_clients')
    /\ Block(cursor)
    /\ cursor' = 0
    /\ UNCHANGED <<poll_timer, outside>>

(* Otherwise the listener goes back to the event loop.                     *)
PollUnblock ==
    /\ cursor > 0
    /\ blocked[cursor]
    /\ \E k \in 0..pending[cursor] : AcceptAll(cursor, k)
    /\ ~Full(n_clients')
    /\ Unblock(cursor)
    /\ cursor' = NextCursor
    /\ UNCHANGED <<poll_timer, outside>>

Poll == PollTimer \/ PollSkip \/ PollRefill \/ PollUnblock

Next ==
    \/ \E l \in Listeners : Arrive(l) \/ NewClientEvent(l)
    \/ ClientClose
    \/ Poll

Spec == Init /\ [][Next]_vars

(* The event loop never stops dispatching: an armed timer fires, a walk    *)
(* continues.  Connections close in the end, see Closes of Connection.     *)
Fairness == WF_vars(Poll) /\ WF_vars(ClientClose)

FairSpec == Spec /\ Fairness

-----------------------------------------------------------------------------

(* A blocked listener is never forgotten: as long as one is blocked, the   *)
(* server is full (so a close must come, and arms the timer), or the poll  *)
(* timer is armed, or the walk is on and has not passed that listener.     *)
(* This is what unblock_listeners at the end of client_close is for.       *)
NoLostWakeup ==
    \A l \in Blocked :
        \/ n_clients >= MaxConnections
        \/ poll_timer
        \/ cursor \in 1..l

(* n_blocked is only read as "is any listener blocked": it must not be     *)
(* zero while one is, or uh_poll_listeners returns without looking.  It is *)
(* at least their number; it may be larger, because the walk counts a      *)
(* listener it finds blocked a second time.                                *)
CounterCovers == n_blocked >= Cardinality(Blocked)

(* The flag and the event loop agree: a listener is out of the event loop  *)
(* exactly while it is marked blocked, so no socket is left deaf.          *)
RegisteredIffUnblocked ==
    \A l \in Listeners : l \in registered <=> ~blocked[l]

(* Blocking is temporary: once peers stop arriving (here they do, after    *)
(* NArrivals connections) every listener returns to the event loop for     *)
(* good, so the last close wakes all of them.                              *)
QuietUnblocks == <>[](registered = Listeners)
=============================================================================
