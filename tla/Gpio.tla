-------------------------------- MODULE Gpio --------------------------------
(***************************************************************************)
(* src/gpio/gpio.c: the GPIO functions that the threads of the program     *)
(* call at the same time, and the pulse threads it starts.                 *)
(*                                                                         *)
(* There is no lock.  What keeps two threads off one pin is the kernel:    *)
(* writing a pin to /sys/class/gpio/export fails when it is exported       *)
(* already, so that gpio_reserve works as a try-lock and gpio_release as   *)
(* its unlock, across the program's own threads.  Every access to sysfs is *)
(* an action of its own.                                                   *)
(*                                                                         *)
(* An operator Op_Bug just before Op is Op with a bug it might have had;   *)
(* nothing uses it but the experiments that confirm a property notices.    *)
(***************************************************************************)
EXTENDS Naturals, FiniteSets

CONSTANTS
    Pins,          \* the pins gpio_config exposes
    Inputs,        \* the pins setup_button_inputs reserves for good
    Threads,       \* the threads that call gpio.c
    Disturbances,  \* which of "direction", "spawn", "restart" may happen
    MaxRestarts    \* bound: number of restarts

ASSUME InputsAssumption == Inputs \subseteq Pins

VARIABLES
    exported,  \* kernel: the pins that have a directory in /sys/class/gpio
    dir,       \* kernel: the direction of each pin
    level,     \* kernel: the level a pin drives while it is an output
    job,       \* job[t]: the call thread t is in, past its gpio_reserve
    pulse,     \* pulse[p]: the pulse thread of pin p
    restarts   \* number of restarts so far

vars == <<exported, dir, level, job, pulse, restarts>>

Directions == {"in", "out"}
Levels == {"high", "low"}

NoJob == [fn |-> "none"]
Job == [fn : {"write", "read", "pulse"}, pin : Pins, arg : Levels,
        pc : {"dir", "set", "get", "spawn", "release"}]

NoPulse == [pc |-> "none"]
Pulse == [pc : {"dir", "active", "inactive", "release"}, active : Levels]

TypeOK ==
    /\ exported \in SUBSET Pins
    /\ dir \in [Pins -> Directions]
    /\ level \in [Pins -> Levels]
    /\ job \in [Threads -> Job \cup {NoJob}]
    /\ pulse \in [Pins -> Pulse \cup {NoPulse}]
    /\ restarts \in Nat

(* setup_button_inputs has run on a freshly booted board.                  *)
Init ==
    /\ exported = Inputs
    /\ dir = [p \in Pins |-> "in"]
    /\ level = [p \in Pins |-> "low"]
    /\ job = [t \in Threads |-> NoJob]
    /\ pulse = [p \in Pins |-> NoPulse]
    /\ restarts = 0
-----------------------------------------------------------------------------
(* The files of sysfs.                                                     *)

(* Writing direction: "out" also drives the pin low.                       *)
WriteDirection(p, d) ==
    IF p \in exported
    THEN /\ dir' = [dir EXCEPT ![p] = d]
         /\ level' = IF d = "out" THEN [level EXCEPT ![p] = "low"] ELSE level
    ELSE UNCHANGED <<dir, level>>

(* Writing value is refused on an input.                                   *)
CanWriteValue(p) == p \in exported /\ dir[p] = "out"

WriteValue(p, v) ==
    level' = IF CanWriteValue(p) THEN [level EXCEPT ![p] = v] ELSE level

Opposite(v) == IF v = "high" THEN "low" ELSE "high"
-----------------------------------------------------------------------------
(* The calls of thread t.                                                  *)

Goto(t, pc) == job' = [job EXCEPT ![t].pc = pc]
Return(t) == job' = [job EXCEPT ![t] = NoJob]

AfterReserve_Skips(fn) == IF fn = "write" THEN "dir" ELSE fn
AfterReserve(fn) ==
    CASE fn = "write" -> "dir" [] fn = "read" -> "get" [] fn = "pulse" -> "spawn"

(* gpio_reserve, with which gpio_write_and_close, gpio_read_and_close,     *)
(* gpio_pulse and each pin of gpio_get_overview begin.  When it fails the  *)
(* call has no effect at all.                                              *)
Reserved_Unchecked(p) == TRUE
Reserved(p) == p \notin exported

Reserve(t, fn, p, v) ==
    /\ job[t] = NoJob
    /\ IF Reserved(p)
       THEN /\ exported' = exported \cup {p}
            /\ job' = [job EXCEPT ![t] =
                          [fn |-> fn, pin |-> p, arg |-> v, pc |-> AfterReserve(fn)]]
       ELSE UNCHANGED <<exported, job>>
    /\ UNCHANGED <<dir, level, pulse, restarts>>

At(t, pc) == job[t] # NoJob /\ job[t].pc = pc

(* gpio_write_and_close makes the pin an output.                           *)
SetOutput(t) ==
    /\ At(t, "dir")
    /\ WriteDirection(job[t].pin, "out")
    /\ IF job[t].pin \in exported THEN Goto(t, "set") ELSE Return(t)
    /\ UNCHANGED <<exported, pulse, restarts>>

(* Then it sets the state; if that fails it returns without gpio_release.  *)
SetState_Keeps(t) ==
    /\ At(t, "set")
    /\ WriteValue(job[t].pin, job[t].arg)
    /\ Return(t)
    /\ UNCHANGED <<exported, dir, pulse, restarts>>
SetState(t) ==
    /\ At(t, "set")
    /\ WriteValue(job[t].pin, job[t].arg)
    /\ IF CanWriteValue(job[t].pin) THEN Goto(t, "release") ELSE Return(t)
    /\ UNCHANGED <<exported, dir, pulse, restarts>>

(* gpio_get_state, and gpio_get_direction in gpio_get_overview.            *)
GetState(t) ==
    /\ At(t, "get")
    /\ Goto(t, "release")
    /\ UNCHANGED <<exported, dir, level, pulse, restarts>>

(* gpio_release at the end.                                                *)
Release(t) ==
    /\ At(t, "release")
    /\ exported' = exported \ {job[t].pin}
    /\ Return(t)
    /\ UNCHANGED <<dir, level, pulse, restarts>>

(* gpio_pulse starts the thread that owns the reservation from now on.     *)
Spawn(t) ==
    /\ At(t, "spawn")
    /\ pulse' = [pulse EXCEPT ![job[t].pin] = [pc |-> "dir", active |-> job[t].arg]]
    /\ Return(t)
    /\ UNCHANGED <<exported, dir, level, restarts>>

(* pthread_create fails: gpio_pulse returns false.                         *)
SpawnFails(t) ==
    /\ "spawn" \in Disturbances
    /\ At(t, "spawn")
    /\ Return(t)
    /\ UNCHANGED <<exported, dir, level, pulse, restarts>>

(* gpio_put_direction of the API calls gpio_set_direction with no          *)
(* reservation: it takes effect on any exported pin.                       *)
SetDirection(t, p, d) ==
    /\ "direction" \in Disturbances
    /\ job[t] = NoJob
    /\ WriteDirection(p, d)
    /\ UNCHANGED <<exported, job, pulse, restarts>>

CallStep(t) ==
    SetOutput(t) \/ SetState(t) \/ GetState(t) \/ Release(t) \/ Spawn(t) \/ SpawnFails(t)
-----------------------------------------------------------------------------
(* The pulse thread of pin p: _gpio_pulse ignores every result.            *)

PulseAt(p, pc) == pulse[p] # NoPulse /\ pulse[p].pc = pc

PulseOutput(p) ==
    /\ PulseAt(p, "dir")
    /\ WriteDirection(p, "out")
    /\ pulse' = [pulse EXCEPT ![p].pc = "active"]
    /\ UNCHANGED <<exported, job, restarts>>

PulseOn(p) ==
    /\ PulseAt(p, "active")
    /\ WriteValue(p, pulse[p].active)
    /\ pulse' = [pulse EXCEPT ![p].pc = "inactive"]
    /\ UNCHANGED <<exported, dir, job, restarts>>

PulseOff_Low(p) ==
    /\ PulseAt(p, "inactive")
    /\ WriteValue(p, "low")
    /\ pulse' = [pulse EXCEPT ![p].pc = "release"]
    /\ UNCHANGED <<exported, dir, job, restarts>>
PulseOff(p) ==
    /\ PulseAt(p, "inactive")
    /\ WriteValue(p, Opposite(pulse[p].active))
    /\ pulse' = [pulse EXCEPT ![p].pc = "release"]
    /\ UNCHANGED <<exported, dir, job, restarts>>

PulseEnd_Unreleased(p) ==
    /\ PulseAt(p, "release")
    /\ pulse' = [pulse EXCEPT ![p] = NoPulse]
    /\ UNCHANGED <<exported, dir, level, job, restarts>>
PulseEnd(p) ==
    /\ PulseAt(p, "release")
    /\ exported' = exported \ {p}
    /\ pulse' = [pulse EXCEPT ![p] = NoPulse]
    /\ UNCHANGED <<dir, level, job, restarts>>

PulseStep(p) == PulseOutput(p) \/ PulseOn(p) \/ PulseOff(p) \/ PulseEnd(p)
-----------------------------------------------------------------------------
(* The process dies and is started again: the kernel's state survives, and *)
(* setup_button_inputs, before any thread runs, releases and reserves its  *)
(* pins and makes them inputs.                                             *)
Restart ==
    /\ "restart" \in Disturbances
    /\ restarts < MaxRestarts
    /\ restarts' = restarts + 1
    /\ exported' = exported \cup Inputs
    /\ dir' = [p \in Pins |-> IF p \in Inputs THEN "in" ELSE dir[p]]
    /\ job' = [t \in Threads |-> NoJob]
    /\ pulse' = [p \in Pins |-> NoPulse]
    /\ UNCHANGED level

Next ==
    \/ \E t \in Threads :
          \/ \E fn \in {"write", "read", "pulse"}, p \in Pins, v \in Levels :
                Reserve(t, fn, p, v)
          \/ \E p \in Pins, d \in Directions : SetDirection(t, p, d)
          \/ CallStep(t)
    \/ \E p \in Pins : PulseStep(p)
    \/ Restart

Spec == Init /\ [][Next]_vars

(* Every thread is scheduled: a call and a pulse go on once begun.         *)
FairSpec ==
    /\ Spec
    /\ \A t \in Threads : WF_vars(CallStep(t))
    /\ \A p \in Pins : WF_vars(PulseStep(p))
-----------------------------------------------------------------------------
(* Who is using pin p: the threads in a call on it, and its pulse thread.  *)
Callers(p) == {t \in Threads : job[t] # NoJob /\ job[t].pin = p}

InUse(p) == Callers(p) # {} \/ pulse[p] # NoPulse

(* The export file is a lock: at most one thread of the program uses a     *)
(* pin, a thread in a call or a pulse thread, and while one does the pin   *)
(* stays exported: no other thread's gpio_release takes it away.           *)
Exclusive ==
    \A p \in Pins :
        /\ \A t, u \in Callers(p) : t = u
        /\ pulse[p] # NoPulse => Callers(p) = {}
        /\ InUse(p) => p \in exported

(* No call of any thread, however it fails, unexports a button: the panel  *)
(* can always read it.                                                     *)
ButtonsStayReserved == Inputs \subseteq exported

(* A pin that is neither a button nor in use is free to be reserved: no    *)
(* call leaves one exported behind it.                                     *)
NothingOrphaned == \A p \in exported \ Inputs : InUse(p)

(* When a pulse is over the pin is back at its inactive level.             *)
PulseLeavesInactive ==
    \A p \in Pins : PulseAt(p, "release") => level[p] = Opposite(pulse[p].active)

(* Whoever reserves a pin gives it back.                                   *)
AlwaysReleased == \A p \in Pins \ Inputs : p \in exported ~> p \notin exported
=============================================================================
