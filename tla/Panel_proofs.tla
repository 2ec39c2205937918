---------------------------- MODULE Panel_proofs ----------------------------
(***************************************************************************)
(* Proofs about Gpio, for any pins, buttons, threads and disturbances, and *)
(* about Panel, for any board.                                             *)
(*                                                                         *)
(* Gpio: the export file is a lock although nothing in gpio.c was written  *)
(* as one.  Exclusive is restated over pairs of threads as OneOwner, which *)
(* is what the steps preserve.  ButtonsStayReserved is not inductive by    *)
(* itself: a call on a button would release it at its end.  None ever      *)
(* starts, as the button is exported, and ButtonsUnused says so.  What a   *)
(* call and a pulse leave behind depends on what interferes with them: the *)
(* theorems at the end name the disturbances they exclude.                 *)
(*                                                                         *)
(* Panel: every step of the panel is a step or a stutter of Gpio, so what  *)
(* is shown of Gpio holds of the panel too.                                *)
(* OneTogglePerPress needs more: an unpressed BTN_SCORE has to be read as  *)
(* unpressed and nothing else may be.  So the buttons stay inputs, which   *)
(* the API's direction request would break (hence the assumption), and a   *)
(* scan that remembers the button up has really been there (SawItUp).      *)
(* The score light is the mode's as long as nobody else may reserve it     *)
(* (LightIsOwn): a request for it in the wrong moment makes the longrunner *)
(* skip its write for good.                                                *)
(***************************************************************************)
EXTENDS Panel, TLAPS


InCall(t) == job[t] # NoJob

OneOwner ==
    /\ \A t, u \in Threads :
          InCall(t) /\ InCall(u) /\ job[t].pin = job[u].pin => t = u
    /\ \A t \in Threads :
          InCall(t) => job[t].pin \in exported /\ pulse[job[t].pin] = NoPulse
    /\ \A p \in Pins : pulse[p] # NoPulse => p \in exported

ButtonsUnused ==
    /\ \A t \in Threads : InCall(t) => job[t].pin \notin Inputs
    /\ \A p \in Inputs : pulse[p] = NoPulse

IInv == TypeOK /\ OneOwner /\ ButtonsStayReserved /\ ButtonsUnused

USE InputsAssumption

(* A call and a pulse are told from their absence by their fields.         *)
LEMMA Records ==
    /\ \A j \in Job : j # NoJob
    /\ \A s \in Pulse : s # NoPulse
<1>1. \A j \in Job : j.fn # "none"
  BY DEF Job
<1>2. \A s \in Pulse : s.pc # "none"
  BY DEF Pulse
<1> QED
  BY <1>1, <1>2 DEF NoJob, NoPulse

(* What a thread past its reservation is.                                  *)
LEMMA AtType ==
    ASSUME TypeOK, NEW t \in Threads, NEW pc, At(t, pc)
    PROVE  job[t] \in Job /\ InCall(t) /\ job[t].pin \in Pins /\ job[t].arg \in Levels
<1>1. job[t] \in Job
  BY DEF TypeOK, At
<1> QED
  BY <1>1, Records DEF Job, InCall

(* Moving on in a call, or returning from it, keeps the table of calls     *)
(* well typed, keeps every pin where it is, and starts no call.            *)
LEMMA MovesType ==
    ASSUME TypeOK, NEW t \in Threads, job[t] \in Job,
           (\E pc \in {"set", "release"} : Goto(t, pc)) \/ Return(t)
    PROVE  /\ job' \in [Threads -> Job \cup {NoJob}]
           /\ \A u \in Threads : InCall(u)' => InCall(u) /\ job'[u].pin = job[u].pin
           /\ Return(t) => ~InCall(t)'
<1>1. CASE \E pc \in {"set", "release"} : Goto(t, pc)
  <2>1. PICK pc \in {"set", "release"} : Goto(t, pc)
    BY <1>1
  <2>2. [job[t] EXCEPT !.pc = pc] \in Job /\ [job[t] EXCEPT !.pc = pc].pin = job[t].pin
    BY DEF Job
  <2>3. job' = [job EXCEPT ![t] = [job[t] EXCEPT !.pc = pc]]
    BY <2>1 DEF Goto
  <2>4. job' \in [Threads -> Job \cup {NoJob}]
    BY <2>2, <2>3 DEF TypeOK
  <2>5. \A u \in Threads : job'[u] = IF u = t THEN [job[t] EXCEPT !.pc = pc] ELSE job[u]
    BY <2>3 DEF TypeOK
  <2>6. \A u \in Threads : InCall(u)' => InCall(u) /\ job'[u].pin = job[u].pin
    BY <2>2, <2>5, Records DEF InCall
  <2>7. Return(t) => ~InCall(t)'
    BY DEF Return, InCall, TypeOK
  <2> QED
    BY <2>4, <2>6, <2>7
<1>2. CASE Return(t)
  BY <1>2 DEF Return, InCall, TypeOK
<1> QED
  BY <1>1, <1>2

(* Writing a file of sysfs keeps directions and levels well typed.         *)
LEMMA SysfsTypes ==
    ASSUME TypeOK, NEW p \in Pins
    PROVE  /\ \A d \in Directions : WriteDirection(p, d) =>
                 dir' \in [Pins -> Directions] /\ level' \in [Pins -> Levels]
           /\ \A v \in Levels : WriteValue(p, v) => level' \in [Pins -> Levels]
<1>1. "low" \in Levels
  BY DEF Levels
<1>2. ASSUME NEW d \in Directions, WriteDirection(p, d)
      PROVE  dir' \in [Pins -> Directions] /\ level' \in [Pins -> Levels]
  BY <1>1, <1>2 DEF WriteDirection, TypeOK
<1>3. ASSUME NEW v \in Levels, WriteValue(p, v)
      PROVE  level' \in [Pins -> Levels]
  BY <1>3 DEF WriteValue, TypeOK
<1> QED
  BY <1>2, <1>3

(* A step of a call or pulse that starts nothing and unexports nothing.    *)
LEMMA HoldingKeeps ==
    ASSUME IInv, TypeOK', exported' = exported,
           \A u \in Threads : InCall(u)' => InCall(u) /\ job'[u].pin = job[u].pin,
           \A p \in Pins : pulse'[p] # NoPulse => pulse[p] # NoPulse
    PROVE  IInv'
<1>1. OneOwner'
  <2>1. \A t \in Threads : InCall(t) => job[t].pin \in Pins
    BY Records DEF IInv, TypeOK, InCall, Job
  <2>2. \A t, u \in Threads :
           InCall(t)' /\ InCall(u)' /\ job'[t].pin = job'[u].pin => t = u
    BY DEF IInv, OneOwner
  <2>3. \A t \in Threads : InCall(t)' =>
           job'[t].pin \in exported' /\ pulse'[job'[t].pin] = NoPulse
    BY <2>1 DEF IInv, OneOwner
  <2>4. \A p \in Pins : pulse'[p] # NoPulse => p \in exported'
    BY DEF IInv, OneOwner
  <2> QED
    BY <2>2, <2>3, <2>4 DEF OneOwner, InCall
<1>2. ButtonsStayReserved'
  BY DEF IInv, ButtonsStayReserved
<1>3. ButtonsUnused'
  <2>1. \A t \in Threads : InCall(t)' => job'[t].pin \notin Inputs
    BY DEF IInv, ButtonsUnused
  <2>2. \A p \in Inputs : pulse'[p] = NoPulse
    BY DEF IInv, ButtonsUnused
  <2> QED
    BY <2>1, <2>2 DEF ButtonsUnused, InCall
<1> QED
  BY <1>1, <1>2, <1>3 DEF IInv

(* gpio_reserve gives a pin an owner only while nobody has it.             *)
LEMMA ReserveKeeps ==
    ASSUME IInv, NEW t \in Threads, NEW fn \in {"write", "read", "pulse"},
           NEW p \in Pins, NEW v \in Levels, Reserve(t, fn, p, v)
    PROVE  IInv'
<1>1. CASE ~Reserved(p)
  <2>1. UNCHANGED vars
    BY <1>1 DEF Reserve, vars
  <2> QED
    BY <2>1 DEF IInv, TypeOK, OneOwner, ButtonsStayReserved, ButtonsUnused, InCall, vars
<1>2. CASE Reserved(p)
  <2> DEFINE new == [fn |-> fn, pin |-> p, arg |-> v, pc |-> AfterReserve(fn)]
  <2>1. new \in Job /\ new.pin = p /\ new # NoJob
    <3>1. AfterReserve(fn) \in {"dir", "get", "spawn"}
      BY DEF AfterReserve
    <3>2. new \in Job
      BY <3>1 DEF Job
    <3> QED
      BY <3>2, Records
  <2>2. /\ p \notin exported
        /\ exported' = exported \cup {p}
        /\ job' = [job EXCEPT ![t] = new]
        /\ UNCHANGED <<dir, level, pulse, restarts>>
    BY <1>2 DEF Reserve, Reserved
  <2> HIDE DEF new
  <2>3. \A u \in Threads : job'[u] = IF u = t THEN new ELSE job[u]
    BY <2>2 DEF IInv, TypeOK
  <2>4. TypeOK'
    BY <2>1, <2>2 DEF IInv, TypeOK
  <2>5. OneOwner'
    <3>1. \A u, w \in Threads :
             InCall(u)' /\ InCall(w)' /\ job'[u].pin = job'[w].pin => u = w
      BY <2>1, <2>2, <2>3 DEF IInv, OneOwner, InCall
    <3>2. \A u \in Threads : InCall(u)' =>
             job'[u].pin \in exported' /\ pulse'[job'[u].pin] = NoPulse
      BY <2>1, <2>2, <2>3 DEF IInv, OneOwner, InCall
    <3>3. \A q \in Pins : pulse'[q] # NoPulse => q \in exported'
      BY <2>2 DEF IInv, OneOwner
    <3> QED
      BY <3>1, <3>2, <3>3 DEF OneOwner, InCall
  <2>6. ButtonsStayReserved'
    BY <2>2 DEF IInv, ButtonsStayReserved
  <2>7. ButtonsUnused'
    BY <2>1, <2>2, <2>3 DEF IInv, ButtonsStayReserved, ButtonsUnused, InCall
  <2> QED
    BY <2>4, <2>5, <2>6, <2>7 DEF IInv
<1> QED
  BY <1>1, <1>2

(* gpio_release takes away only the pin of the call it ends.               *)
LEMMA ReleaseKeeps ==
    ASSUME IInv, NEW t \in Threads, Release(t)
    PROVE  IInv'
<1>1. job[t] \in Job /\ InCall(t)
  BY AtType DEF Release, IInv
<1>2. /\ exported' = exported \ {job[t].pin}
      /\ UNCHANGED <<dir, level, pulse, restarts>>
  BY DEF Release
<1>3. /\ job' \in [Threads -> Job \cup {NoJob}]
      /\ \A u \in Threads : InCall(u)' => InCall(u) /\ job'[u].pin = job[u].pin
      /\ ~InCall(t)'
  BY <1>1, MovesType DEF Release, IInv
<1>4. TypeOK'
  BY <1>2, <1>3 DEF IInv, TypeOK
<1>5. OneOwner'
  <2>1. \A u, w \in Threads :
           InCall(u)' /\ InCall(w)' /\ job'[u].pin = job'[w].pin => u = w
    BY <1>3 DEF IInv, OneOwner
  <2>2. \A u \in Threads : InCall(u)' =>
           job'[u].pin \in exported' /\ pulse'[job'[u].pin] = NoPulse
    BY <1>1, <1>2, <1>3 DEF IInv, OneOwner
  <2>3. \A p \in Pins : pulse'[p] # NoPulse => p \in exported'
    BY <1>1, <1>2 DEF IInv, OneOwner
  <2> QED
    BY <2>1, <2>2, <2>3 DEF OneOwner, InCall
<1>6. ButtonsStayReserved'
  BY <1>1, <1>2 DEF IInv, ButtonsStayReserved, ButtonsUnused
<1>7. ButtonsUnused'
  <2>1. \A u \in Threads : InCall(u)' => job'[u].pin \notin Inputs
    BY <1>3 DEF IInv, ButtonsUnused
  <2> QED
    BY <1>2, <2>1 DEF IInv, ButtonsUnused, InCall
<1> QED
  BY <1>4, <1>5, <1>6, <1>7 DEF IInv

(* gpio_pulse hands its pin over to the pulse thread.                      *)
LEMMA SpawnKeeps ==
    ASSUME IInv, NEW t \in Threads, Spawn(t)
    PROVE  IInv'
<1> DEFINE new == [pc |-> "dir", active |-> job[t].arg]
<1>1. job[t] \in Job /\ InCall(t) /\ job[t].pin \in Pins /\ job[t].arg \in Levels
  BY AtType DEF Spawn, IInv
<1>2. /\ pulse' = [pulse EXCEPT ![job[t].pin] = new]
      /\ UNCHANGED <<exported, dir, level, restarts>>
  BY DEF Spawn
<1>3. /\ job' \in [Threads -> Job \cup {NoJob}]
      /\ \A u \in Threads : InCall(u)' => InCall(u) /\ job'[u].pin = job[u].pin
      /\ ~InCall(t)'
  BY <1>1, MovesType DEF Spawn, IInv
<1>4. new \in Pulse
  BY <1>1 DEF Pulse
<1> HIDE DEF new
<1>5. \A p \in Pins : pulse'[p] = IF p = job[t].pin THEN new ELSE pulse[p]
  BY <1>2 DEF IInv, TypeOK
<1>6. TypeOK'
  BY <1>1, <1>2, <1>3, <1>4 DEF IInv, TypeOK
<1>7. OneOwner'
  <2>1. \A u, w \in Threads :
           InCall(u)' /\ InCall(w)' /\ job'[u].pin = job'[w].pin => u = w
    BY <1>3 DEF IInv, OneOwner
  <2>2. \A u \in Threads : InCall(u) => job[u].pin \in Pins
    BY Records DEF IInv, TypeOK, InCall, Job
  <2>3. \A u \in Threads : InCall(u)' =>
           job'[u].pin \in exported' /\ pulse'[job'[u].pin] = NoPulse
    BY <1>1, <1>2, <1>3, <1>5, <2>2 DEF IInv, OneOwner
  <2>4. \A p \in Pins : pulse'[p] # NoPulse => p \in exported'
    BY <1>1, <1>2, <1>5 DEF IInv, OneOwner
  <2> QED
    BY <2>1, <2>3, <2>4 DEF OneOwner, InCall
<1>8. ButtonsStayReserved'
  BY <1>2 DEF IInv, ButtonsStayReserved
<1>9. ButtonsUnused'
  <2>1. \A u \in Threads : InCall(u)' => job'[u].pin \notin Inputs
    BY <1>3 DEF IInv, ButtonsUnused
  <2>2. \A p \in Inputs : pulse'[p] = NoPulse
    BY <1>1, <1>5 DEF IInv, ButtonsUnused
  <2> QED
    BY <2>1, <2>2 DEF ButtonsUnused, InCall
<1> QED
  BY <1>6, <1>7, <1>8, <1>9 DEF IInv

(* The other steps of a call hold on to the pin or leave it exported.      *)
LEMMA CallKeeps ==
    ASSUME IInv, NEW t \in Threads, CallStep(t)
    PROVE  IInv'
<1> USE DEF IInv
<1>1. CASE SetOutput(t)
  <2>1. job[t] \in Job /\ job[t].pin \in Pins
    BY <1>1, AtType DEF SetOutput
  <2>2. (\E pc \in {"set", "release"} : Goto(t, pc)) \/ Return(t)
    BY <1>1 DEF SetOutput
  <2>3. dir' \in [Pins -> Directions] /\ level' \in [Pins -> Levels]
    <3>1. "out" \in Directions
      BY DEF Directions
    <3> QED
      BY <1>1, <2>1, <3>1, SysfsTypes DEF SetOutput
  <2>4. TypeOK'
    BY <1>1, <2>1, <2>2, <2>3, MovesType DEF SetOutput, TypeOK
  <2> QED
    BY <1>1, <2>1, <2>2, <2>4, MovesType, HoldingKeeps DEF SetOutput
<1>2. CASE SetState(t)
  <2>1. job[t] \in Job /\ job[t].pin \in Pins /\ job[t].arg \in Levels
    BY <1>2, AtType DEF SetState
  <2>2. (\E pc \in {"set", "release"} : Goto(t, pc)) \/ Return(t)
    BY <1>2 DEF SetState
  <2>3. level' \in [Pins -> Levels]
    BY <1>2, <2>1, SysfsTypes DEF SetState
  <2>4. TypeOK'
    BY <1>2, <2>1, <2>2, <2>3, MovesType DEF SetState, TypeOK
  <2> QED
    BY <1>2, <2>1, <2>2, <2>4, MovesType, HoldingKeeps DEF SetState
<1>3. CASE GetState(t)
  <2>1. job[t] \in Job
    BY <1>3, AtType DEF GetState
  <2>2. (\E pc \in {"set", "release"} : Goto(t, pc)) \/ Return(t)
    BY <1>3 DEF GetState
  <2>3. TypeOK'
    BY <1>3, <2>1, <2>2, MovesType DEF GetState, TypeOK
  <2> QED
    BY <1>3, <2>1, <2>2, <2>3, MovesType, HoldingKeeps DEF GetState
<1>4. CASE SpawnFails(t)
  <2>1. job[t] \in Job
    BY <1>4, AtType DEF SpawnFails
  <2>2. TypeOK'
    BY <1>4, <2>1, MovesType DEF SpawnFails, TypeOK
  <2> QED
    BY <1>4, <2>1, <2>2, MovesType, HoldingKeeps DEF SpawnFails
<1>5. CASE Release(t)
  BY <1>5, ReleaseKeeps
<1>6. CASE Spawn(t)
  BY <1>6, SpawnKeeps
<1> QED
  BY <1>1, <1>2, <1>3, <1>4, <1>5, <1>6 DEF CallStep

(* The pulse thread keeps its pin until its own gpio_release.              *)
LEMMA PulseKeeps ==
    ASSUME IInv, NEW p \in Pins, PulseStep(p)
    PROVE  IInv'
<1> USE DEF IInv
<1>1. pulse[p] \in Pulse /\ pulse[p] # NoPulse /\ pulse[p].active \in Levels
  BY DEF PulseStep, PulseOutput, PulseOn, PulseOff, PulseEnd, PulseAt, TypeOK, Pulse
<1>2. \A pc \in {"active", "inactive", "release"} :
         [pulse[p] EXCEPT !.pc = pc] \in Pulse
  BY <1>1 DEF Pulse
<1>3. ASSUME NEW pc \in {"active", "inactive", "release"},
             pulse' = [pulse EXCEPT ![p].pc = pc]
      PROVE  /\ pulse' \in [Pins -> Pulse \cup {NoPulse}]
             /\ \A q \in Pins : pulse'[q] # NoPulse => pulse[q] # NoPulse
  BY <1>1, <1>2, <1>3 DEF TypeOK
<1>4. CASE PulseOutput(p)
  <2>1. dir' \in [Pins -> Directions] /\ level' \in [Pins -> Levels]
    <3>1. "out" \in Directions
      BY DEF Directions
    <3> QED
      BY <1>4, <3>1, SysfsTypes DEF PulseOutput
  <2>2. TypeOK'
    BY <1>3, <1>4, <2>1 DEF PulseOutput, TypeOK
  <2> QED
    BY <1>3, <1>4, <2>2, HoldingKeeps DEF PulseOutput, InCall
<1>5. CASE PulseOn(p)
  <2>1. level' \in [Pins -> Levels]
    BY <1>1, <1>5, SysfsTypes DEF PulseOn
  <2>2. TypeOK'
    BY <1>3, <1>5, <2>1 DEF PulseOn, TypeOK
  <2> QED
    BY <1>3, <1>5, <2>2, HoldingKeeps DEF PulseOn, InCall
<1>6. CASE PulseOff(p)
  <2>1. Opposite(pulse[p].active) \in Levels
    BY DEF Opposite, Levels
  <2>2. level' \in [Pins -> Levels]
    BY <1>6, <2>1, SysfsTypes DEF PulseOff
  <2>3. TypeOK'
    BY <1>3, <1>6, <2>2 DEF PulseOff, TypeOK
  <2> QED
    BY <1>3, <1>6, <2>3, HoldingKeeps DEF PulseOff, InCall
<1>7. CASE PulseEnd(p)
  <2>1. /\ exported' = exported \ {p}
        /\ pulse' = [pulse EXCEPT ![p] = NoPulse]
        /\ UNCHANGED <<dir, level, job, restarts>>
    BY <1>7 DEF PulseEnd
  <2>2. TypeOK'
    BY <2>1 DEF TypeOK
  <2>3. \A t \in Threads : InCall(t) => job[t].pin \in Pins /\ job[t].pin # p
    BY <1>1, Records DEF TypeOK, InCall, Job, OneOwner
  <2>4. OneOwner'
    <3>1. \A t \in Threads : InCall(t)' =>
             job'[t].pin \in exported' /\ pulse'[job'[t].pin] = NoPulse
      BY <2>1, <2>3 DEF OneOwner, InCall, TypeOK
    <3>2. \A q \in Pins : pulse'[q] # NoPulse => q \in exported'
      BY <2>1 DEF OneOwner, TypeOK
    <3> QED
      BY <2>1, <3>1, <3>2 DEF OneOwner, InCall
  <2>5. ButtonsStayReserved'
    BY <1>1, <2>1 DEF ButtonsStayReserved, ButtonsUnused
  <2>6. ButtonsUnused'
    BY <2>1 DEF ButtonsUnused, InCall, TypeOK
  <2> QED
    BY <2>2, <2>4, <2>5, <2>6
<1> QED
  BY <1>4, <1>5, <1>6, <1>7 DEF PulseStep

(* A restart leaves the pins it found exported; nobody owns any.           *)
LEMMA RestartKeeps ==
    ASSUME IInv, Restart
    PROVE  IInv'
<1> USE DEF IInv
<1>1. /\ exported' = exported \cup Inputs
      /\ dir' = [p \in Pins |-> IF p \in Inputs THEN "in" ELSE dir[p]]
      /\ job' = [t \in Threads |-> NoJob]
      /\ pulse' = [p \in Pins |-> NoPulse]
      /\ restarts' = restarts + 1
      /\ level' = level
  BY DEF Restart
<1>2. \A t \in Threads : ~InCall(t)'
  BY <1>1 DEF InCall
<1>3. TypeOK'
  <2>1. "in" \in Directions
    BY DEF Directions
  <2>2. dir' \in [Pins -> Directions]
    BY <1>1, <2>1 DEF TypeOK
  <2> QED
    BY <1>1, <2>2 DEF TypeOK
<1>4. OneOwner' /\ ButtonsStayReserved' /\ ButtonsUnused'
  BY <1>1, <1>2 DEF OneOwner, ButtonsStayReserved, ButtonsUnused, InCall
<1> QED
  BY <1>3, <1>4

(* IInv is an inductive invariant of the GPIO functions.                   *)
THEOREM Invariance == Spec => []IInv
<1>1. Init => IInv
  <2> SUFFICES ASSUME Init PROVE IInv
    OBVIOUS
  <2>1. TypeOK
    BY DEF Init, TypeOK, Directions, Levels
  <2>2. OneOwner /\ ButtonsStayReserved /\ ButtonsUnused
    BY DEF Init, OneOwner, ButtonsStayReserved, ButtonsUnused, InCall
  <2> QED
    BY <2>1, <2>2 DEF IInv
<1>2. IInv /\ [Next]_vars => IInv'
  <2> SUFFICES ASSUME IInv, [Next]_vars PROVE IInv'
    OBVIOUS
  <2>1. ASSUME NEW t \in Threads, NEW fn \in {"write", "read", "pulse"},
               NEW p \in Pins, NEW v \in Levels, Reserve(t, fn, p, v)
        PROVE  IInv'
    BY <2>1, ReserveKeeps
  <2>2. ASSUME NEW t \in Threads, NEW p \in Pins, NEW d \in Directions,
               SetDirection(t, p, d)
        PROVE  IInv'
    <3>1. TypeOK'
      BY <2>2, SysfsTypes DEF SetDirection, IInv, TypeOK
    <3> QED
      BY <2>2, <3>1, HoldingKeeps DEF SetDirection, InCall
  <2>3. ASSUME NEW t \in Threads, CallStep(t) PROVE IInv'
    BY <2>3, CallKeeps
  <2>4. ASSUME NEW p \in Pins, PulseStep(p) PROVE IInv'
    BY <2>4, PulseKeeps
  <2>5. CASE Restart
    BY <2>5, RestartKeeps
  <2>6. CASE UNCHANGED vars
    BY <2>6 DEF IInv, TypeOK, OneOwner, ButtonsStayReserved, ButtonsUnused, InCall, vars
  <2> QED
    BY <2>1, <2>2, <2>3, <2>4, <2>5, <2>6 DEF Next
<1> QED
  BY <1>1, <1>2, PTL DEF Spec

(* Type correctness: no call and no pulse thread leaves its own steps.     *)
THEOREM TypeCorrect == Spec => []TypeOK
<1>1. IInv => TypeOK
  BY DEF IInv
<1> QED
  BY <1>1, Invariance, PTL

(* At most one thread uses a pin, and no other call unexports it           *)
(* meanwhile, whatever fails and whatever a restart finds exported.        *)
THEOREM ExportIsALock == Spec => []Exclusive
<1>1. IInv => Exclusive
  <2> SUFFICES ASSUME IInv PROVE Exclusive
    OBVIOUS
  <2>1. \A p \in Pins : \A t \in Callers(p) :
           t \in Threads /\ InCall(t) /\ job[t].pin = p
    BY DEF Callers, InCall
  <2> QED
    BY <2>1 DEF IInv, OneOwner, Exclusive, InUse
<1> QED
  BY <1>1, Invariance, PTL

(* The buttons setup_button_inputs reserved are never unexported, whatever *)
(* pins the API is asked for.                                              *)
THEOREM ButtonsReadable == Spec => []ButtonsStayReserved
<1>1. IInv => ButtonsStayReserved
  BY DEF IInv
<1> QED
  BY <1>1, Invariance, PTL
-----------------------------------------------------------------------------
(* A call that sets a level, and a pulse past its first step, drive an     *)
(* output: only a direction request could have turned it back.             *)
Driven ==
    /\ \A t \in Threads : At(t, "set") => dir[job[t].pin] = "out"
    /\ \A p \in Pins : pulse[p] # NoPulse /\ pulse[p].pc # "dir" => dir[p] = "out"

(* The steps of a call write only to a pin that has no pulse.              *)
LEMMA CallsOffPulses ==
    ASSUME IInv, NEW t \in Threads, CallStep(t)
    PROVE  /\ job[t].pin \in exported /\ pulse[job[t].pin] = NoPulse /\ job[t].pin \in Pins
           /\ \A p \in Pins \ {job[t].pin} : dir'[p] = dir[p] /\ level'[p] = level[p]
           /\ dir[job[t].pin] = "out" => dir'[job[t].pin] = "out"
<1>1. InCall(t) /\ job[t].pin \in Pins
  BY AtType DEF IInv, CallStep, SetOutput, SetState, GetState, Release, Spawn, SpawnFails
<1>2. job[t].pin \in exported /\ pulse[job[t].pin] = NoPulse
  BY <1>1 DEF IInv, OneOwner
<1>3. \/ UNCHANGED <<dir, level>>
      \/ WriteDirection(job[t].pin, "out")
      \/ WriteValue(job[t].pin, job[t].arg) /\ UNCHANGED dir
  BY DEF CallStep, SetOutput, SetState, GetState, Release, Spawn, SpawnFails
<1>4. dir \in [Pins -> Directions] /\ level \in [Pins -> Levels]
  BY DEF IInv, TypeOK
<1> QED
  BY <1>1, <1>2, <1>3, <1>4 DEF WriteDirection, WriteValue

(* What a step of a call makes of the table of calls.                      *)
LEMMA CallsMove ==
    ASSUME IInv, NEW t \in Threads, CallStep(t)
    PROVE  /\ \A u \in Threads \ {t} : job'[u] = job[u]
           /\ InCall(t)' => InCall(t) /\ job'[t].pin = job[t].pin
           /\ InCall(t)' /\ job'[t].pc = "set" => SetOutput(t)
<1>1. job \in [Threads -> Job \cup {NoJob}] /\ job[t] \in Job /\ InCall(t)
  BY AtType DEF IInv, TypeOK, CallStep, SetOutput, SetState, GetState, Release, Spawn, SpawnFails
<1>2. ASSUME NEW pc, Goto(t, pc)
      PROVE  /\ \A u \in Threads \ {t} : job'[u] = job[u]
             /\ job'[t].pin = job[t].pin /\ job'[t].pc = pc
  BY <1>1, <1>2 DEF Goto, Job
<1>3. ASSUME Return(t)
      PROVE  (\A u \in Threads \ {t} : job'[u] = job[u]) /\ ~InCall(t)'
  BY <1>1, <1>3 DEF Return, InCall
<1>4. CASE SetOutput(t)
  BY <1>1, <1>2, <1>3, <1>4 DEF SetOutput
<1>5. CASE CallStep(t) /\ ~SetOutput(t)
  <2>1. Goto(t, "release") \/ Return(t)
    BY <1>5 DEF CallStep, SetState, GetState, Release, Spawn, SpawnFails
  <2> QED
    BY <1>1, <1>2, <1>3, <2>1
<1> QED
  BY <1>4, <1>5

(* Every step of a call keeps the pins in use driven.                    *)
LEMMA CallsKeepDriven ==
    ASSUME IInv, Driven, PulseLeavesInactive, NEW t \in Threads, CallStep(t)
    PROVE  Driven' /\ PulseLeavesInactive'
<1> DEFINE pin == job[t].pin
<1>1. \A p \in Pins : pulse'[p] = pulse[p] \/ (p = pin /\ pulse'[p].pc = "dir")
  <2>1. CASE Spawn(t)
    <3>1. pulse \in [Pins -> Pulse \cup {NoPulse}]
      BY DEF IInv, TypeOK
    <3> QED
      BY <2>1, <3>1 DEF Spawn
  <2> QED
    BY <2>1 DEF CallStep, SetOutput, SetState, GetState, Release, SpawnFails
<1>2. \A u \in Threads : InCall(u) => job[u].pin \in Pins
  BY Records DEF IInv, TypeOK, InCall, Job
<1>3. \A p \in Pins : dir[p] = "out" => dir'[p] = "out"
  BY CallsOffPulses
<1>4. \A u \in Threads : At(u, "set")' => dir'[job'[u].pin] = "out"
  <2>1. ASSUME NEW u \in Threads \ {t}, At(u, "set")' PROVE dir'[job'[u].pin] = "out"
    <3>1. job'[u] = job[u] /\ At(u, "set")
      BY <2>1, CallsMove DEF At
    <3> QED
      BY <1>2, <1>3, <3>1 DEF Driven, At, InCall
  <2>2. ASSUME At(t, "set")' PROVE dir'[job'[t].pin] = "out"
    <3>1. SetOutput(t) /\ job'[t].pin = pin
      BY <2>2, CallsMove DEF At, InCall
    <3>2. pin \in exported /\ pin \in Pins
      BY CallsOffPulses
    <3>3. dir \in [Pins -> Directions]
      BY DEF IInv, TypeOK
    <3> QED
      BY <3>1, <3>2, <3>3 DEF SetOutput, WriteDirection
  <2> QED
    BY <2>1, <2>2
<1>5. \A p \in Pins : pulse'[p] # NoPulse /\ pulse'[p].pc # "dir" => dir'[p] = "out"
  BY <1>1, <1>3 DEF Driven
<1>6. ASSUME NEW p \in Pins, PulseAt(p, "release")'
      PROVE  level'[p] = Opposite(pulse'[p].active)
  <2>1. pulse'[p] = pulse[p] /\ PulseAt(p, "release") /\ p # pin
    BY <1>1, <1>6, CallsOffPulses DEF PulseAt
  <2> QED
    BY <2>1, CallsOffPulses DEF PulseLeavesInactive
<1> QED
  BY <1>4, <1>5, <1>6 DEF Driven, PulseLeavesInactive

(* So does one of a pulse, which ends with its pin inactive.             *)
LEMMA PulsesKeepDriven ==
    ASSUME IInv, Driven, PulseLeavesInactive, NEW p \in Pins, PulseStep(p)
    PROVE  Driven' /\ PulseLeavesInactive'
<1>1. /\ pulse \in [Pins -> Pulse \cup {NoPulse}]
      /\ dir \in [Pins -> Directions] /\ level \in [Pins -> Levels]
  BY DEF IInv, TypeOK
<1>2. pulse[p] # NoPulse /\ pulse[p] \in Pulse /\ p \in exported
  BY <1>1 DEF IInv, OneOwner, PulseStep, PulseOutput, PulseOn, PulseOff, PulseEnd, PulseAt
<1>3. /\ \A q \in Pins \ {p} : pulse'[q] = pulse[q] /\ dir'[q] = dir[q] /\ level'[q] = level[q]
      /\ dir[p] = "out" => dir'[p] = "out"
      /\ job' = job
  BY <1>1 DEF PulseStep, PulseOutput, PulseOn, PulseOff, PulseEnd, WriteDirection, WriteValue
<1>4. \A t \in Threads : At(t, "set")' => dir'[job'[t].pin] = "out"
  <2>1. \A t \in Threads : InCall(t) => job[t].pin \in Pins
    BY Records DEF IInv, TypeOK, InCall, Job
  <2> QED
    BY <1>3, <2>1 DEF Driven, At, InCall
<1>5. /\ pulse'[p] # NoPulse /\ pulse'[p].pc # "dir" => dir'[p] = "out"
      /\ PulseAt(p, "release")' => level'[p] = Opposite(pulse'[p].active)
  <2>1. CASE PulseOutput(p)
    BY <1>1, <1>2, <2>1 DEF PulseOutput, WriteDirection, PulseAt, Pulse
  <2>2. CASE PulseOn(p)
    BY <1>1, <1>2, <2>2 DEF PulseOn, PulseAt, Pulse, Driven
  <2>3. CASE PulseOff(p)
    <3>1. dir[p] = "out" /\ dir' = dir
      BY <1>2, <2>3 DEF PulseOff, PulseAt, Driven
    <3>2. pulse'[p].active = pulse[p].active
      BY <1>1, <1>2, <2>3 DEF PulseOff, Pulse
    <3>3. level'[p] = Opposite(pulse[p].active)
      BY <1>1, <1>2, <2>3, <3>1 DEF PulseOff, WriteValue, CanWriteValue
    <3> QED
      BY <3>1, <3>2, <3>3
  <2>4. CASE PulseEnd(p)
    <3>1. pulse'[p] = NoPulse
      BY <1>1, <2>4 DEF PulseEnd
    <3> QED
      BY <3>1 DEF PulseAt
  <2> QED
    BY <2>1, <2>2, <2>3, <2>4 DEF PulseStep
<1> QED
  BY <1>3, <1>4, <1>5 DEF Driven, PulseLeavesInactive, PulseAt

(* So does every step, if no request sets a direction.                   *)
LEMMA DrivenKept ==
    ASSUME IInv, Driven, PulseLeavesInactive, "direction" \notin Disturbances, [Next]_vars
    PROVE  Driven' /\ PulseLeavesInactive'
<1>1. ASSUME NEW t \in Threads, NEW fn \in {"write", "read", "pulse"},
             NEW p \in Pins, NEW v \in Levels, Reserve(t, fn, p, v)
      PROVE  Driven' /\ PulseLeavesInactive'
  <2>1. UNCHANGED <<dir, level, pulse>> /\ job[t] = NoJob
    BY <1>1 DEF Reserve
  <2>2. \A u \in Threads : At(u, "set")' => job'[u] = job[u]
    BY <1>1 DEF IInv, TypeOK, Reserve, AfterReserve, At
  <2> QED
    BY <2>1, <2>2 DEF Driven, PulseLeavesInactive, At, PulseAt
<1>2. ASSUME NEW t \in Threads, NEW p \in Pins, NEW d \in Directions, SetDirection(t, p, d)
      PROVE  FALSE
  BY <1>2 DEF SetDirection
<1>3. CASE Restart
  <2>1. (\A t \in Threads : job'[t] = NoJob) /\ (\A p \in Pins : pulse'[p] = NoPulse)
    BY <1>3 DEF Restart
  <2> QED
    BY <2>1 DEF Driven, PulseLeavesInactive, At, PulseAt
<1>4. CASE UNCHANGED vars
  BY <1>4 DEF vars, Driven, PulseLeavesInactive, At, PulseAt
<1> QED
  BY <1>1, <1>2, <1>3, <1>4, CallsKeepDriven, PulsesKeepDriven DEF Next

(* Then pins in use are driven at all times.                             *)
LEMMA DrivenAlways ==
    ASSUME "direction" \notin Disturbances
    PROVE  Spec => [](Driven /\ PulseLeavesInactive)
<1>1. Init => Driven /\ PulseLeavesInactive
  BY DEF Init, Driven, PulseLeavesInactive, At, PulseAt
<1>2. IInv /\ Driven /\ PulseLeavesInactive /\ [Next]_vars => Driven' /\ PulseLeavesInactive'
  BY DrivenKept
<1> QED
  BY <1>1, <1>2, Invariance, PTL DEF Spec

(* Without direction requests a pulse leaves its pin at the inactive       *)
(* level, whatever calls, failures and restarts come in between.           *)
THEOREM PulsesComeBack ==
    ASSUME "direction" \notin Disturbances
    PROVE  Spec => []PulseLeavesInactive
<1>1. Spec => [](Driven /\ PulseLeavesInactive)
  BY DrivenAlways
<1> QED
  BY <1>1, PTL
-----------------------------------------------------------------------------
(* The pins that are exported and no button are those in use.              *)
LEMMA UseIsHeld ==
    NothingOrphaned <=>
      \A p \in exported \ Inputs :
         (\E t \in Threads : InCall(t) /\ job[t].pin = p) \/ pulse[p] # NoPulse
BY DEF NothingOrphaned, InUse, Callers, InCall

(* A call gives its pin back or passes it on, as it can set every level.   *)
LEMMA CallsLeaveNothing ==
    ASSUME IInv, Driven, NothingOrphaned, "spawn" \notin Disturbances,
           NEW t \in Threads, CallStep(t)
    PROVE  NothingOrphaned'
<1> DEFINE pin == job[t].pin
<1>1. job[t] \in Job /\ InCall(t) /\ pin \in exported /\ pin \in Pins
  BY AtType, CallsOffPulses
     DEF IInv, CallStep, SetOutput, SetState, GetState, Release, Spawn, SpawnFails
<1>2. \A u \in Threads \ {t} : job'[u] = job[u]
  BY CallsMove
<1>3. ASSUME exported' = exported, pulse' = pulse, NEW pc, Goto(t, pc) PROVE NothingOrphaned'
  <2>1. job' = [job EXCEPT ![t] = [job[t] EXCEPT !.pc = pc]]
    BY <1>3 DEF Goto
  <2>2. [job[t] EXCEPT !.pc = pc].pin = pin /\ [job[t] EXCEPT !.pc = pc] # NoJob
    <3>1. [job[t] EXCEPT !.pc = pc].fn = job[t].fn /\ job[t].fn # "none"
      BY <1>1 DEF Job
    <3> QED
      BY <1>1, <3>1 DEF Job, NoJob
  <2>3. InCall(t)' /\ job'[t].pin = pin
    BY <2>1, <2>2 DEF IInv, TypeOK, InCall
  <2> QED
    BY <1>2, <1>3, <2>3, UseIsHeld DEF InCall, NothingOrphaned, InUse, Callers
<1>4. CASE SetOutput(t)
  BY <1>1, <1>3, <1>4 DEF SetOutput
<1>5. CASE SetState(t)
  <2>1. CanWriteValue(pin)
    BY <1>1, <1>5 DEF SetState, Driven, CanWriteValue
  <2> QED
    BY <1>3, <1>5, <2>1 DEF SetState
<1>6. CASE GetState(t)
  BY <1>3, <1>6 DEF GetState
<1>7. CASE Release(t)
  <2>1. exported' = exported \ {pin} /\ pulse' = pulse
    BY <1>7 DEF Release
  <2> QED
    BY <1>2, <2>1, UseIsHeld DEF InCall, NothingOrphaned, InUse, Callers
<1>8. CASE Spawn(t)
  <2>1. exported' = exported
        /\ pulse' = [pulse EXCEPT ![pin] = [pc |-> "dir", active |-> job[t].arg]]
    BY <1>8 DEF Spawn
  <2>2. pulse'[pin] # NoPulse /\ \A p \in Pins \ {pin} : pulse'[p] = pulse[p]
    BY <1>1, <2>1, Records DEF IInv, TypeOK, NoPulse
  <2>3. exported \subseteq Pins
    BY DEF IInv, TypeOK
  <2> QED
    BY <1>2, <2>1, <2>2, <2>3, UseIsHeld DEF InCall, NothingOrphaned, InUse, Callers
<1>9. CASE SpawnFails(t)
  BY <1>9 DEF SpawnFails
<1> QED
  BY <1>4, <1>5, <1>6, <1>7, <1>8, <1>9 DEF CallStep

(* Without disturbances a step leaves no pin reserved for nobody.        *)
LEMMA NothingLeft ==
    ASSUME IInv, Driven, NothingOrphaned, Disturbances = {}, [Next]_vars
    PROVE  NothingOrphaned'
<1> USE DEF NothingOrphaned, InUse, Callers
<1>1. ASSUME NEW t \in Threads, NEW fn \in {"write", "read", "pulse"},
             NEW p \in Pins, NEW v \in Levels, Reserve(t, fn, p, v)
      PROVE  NothingOrphaned'
  <2>1. CASE ~Reserved(p)
    BY <1>1, <2>1 DEF Reserve
  <2>2. CASE Reserved(p)
    <3> DEFINE new == [fn |-> fn, pin |-> p, arg |-> v, pc |-> AfterReserve(fn)]
    <3>1. new.pin = p /\ new # NoJob
      <4>1. new.fn = fn /\ fn # "none"
        OBVIOUS
      <4> QED
        BY <4>1 DEF NoJob
    <3>2. exported' = exported \cup {p} /\ job' = [job EXCEPT ![t] = new] /\ pulse' = pulse
      BY <1>1, <2>2 DEF Reserve
    <3> HIDE DEF new
    <3>3. job'[t] = new /\ \A u \in Threads \ {t} : job'[u] = job[u]
      BY <3>2 DEF IInv, TypeOK
    <3>4. job[t] = NoJob
      BY <1>1 DEF Reserve
    <3> QED
      BY <3>1, <3>2, <3>3, <3>4
  <2> QED
    BY <2>1, <2>2
<1>2. ASSUME NEW t \in Threads, NEW p \in Pins, NEW d \in Directions, SetDirection(t, p, d)
      PROVE  FALSE
  BY <1>2 DEF SetDirection
<1>3. ASSUME NEW t \in Threads, CallStep(t) PROVE NothingOrphaned'
  BY <1>3, CallsLeaveNothing
<1>4. ASSUME NEW p \in Pins, PulseStep(p) PROVE NothingOrphaned'
  <2>1. pulse \in [Pins -> Pulse \cup {NoPulse}] /\ exported \subseteq Pins
    BY DEF IInv, TypeOK
  <2>2. job' = job /\ \A q \in Pins \ {p} : pulse'[q] = pulse[q]
    BY <1>4, <2>1 DEF PulseStep, PulseOutput, PulseOn, PulseOff, PulseEnd
  <2>3. CASE PulseEnd(p)
    BY <2>1, <2>2, <2>3 DEF PulseEnd
  <2>4. CASE ~PulseEnd(p)
    <3>1. exported' = exported
      BY <1>4, <2>4 DEF PulseStep, PulseOutput, PulseOn, PulseOff
    <3>2. PICK pc \in {"active", "inactive", "release"} : pulse' = [pulse EXCEPT ![p].pc = pc]
      BY <1>4, <2>4 DEF PulseStep, PulseOutput, PulseOn, PulseOff
    <3>3. pulse[p] \in Pulse
      BY <1>4, <2>1 DEF PulseStep, PulseOutput, PulseOn, PulseOff, PulseEnd, PulseAt
    <3>4. pulse'[p] \in Pulse
      BY <2>1, <3>2, <3>3 DEF Pulse
    <3> QED
      BY <2>1, <2>2, <3>1, <3>4, Records
  <2> QED
    BY <2>3, <2>4
<1>5. CASE Restart
  BY <1>5 DEF Restart
<1>6. CASE UNCHANGED vars
  BY <1>6 DEF vars
<1> QED
  BY <1>1, <1>2, <1>3, <1>4, <1>5, <1>6 DEF Next

(* While no request changes a direction, no thread fails to start and the  *)
(* program does not restart, every pin a call exported is given back, for  *)
(* any pins and threads.                                                   *)
THEOREM NothingLeaks ==
    ASSUME Disturbances = {}
    PROVE  Spec => []NothingOrphaned
<1>1. Init => NothingOrphaned
  BY DEF Init, NothingOrphaned
<1>2. IInv /\ Driven /\ NothingOrphaned /\ [Next]_vars => NothingOrphaned'
  BY NothingLeft
<1>3. Spec => [](Driven /\ PulseLeavesInactive)
  BY DrivenAlways
<1> QED
  BY <1>1, <1>2, <1>3, Invariance, PTL DEF Spec

-----------------------------------------------------------------------------
(* The panel.                                                              *)

USE ThreadsAssumption, PinsAssumption, CallsAssumption

ButtonsAreInputs == \A p \in Inputs : dir[p] = "in"

SawItUp == status_score_last = "low" => letgo

(* The panel uses the pins only through gpio.c.                            *)
LEMMA StepsAreGpioSteps ==
    ASSUME PanelNext \/ UNCHANGED panelVars
    PROVE  [Next]_vars
<1>1. \A v \in {ModeLevel} : v \in Levels
  BY DEF ModeLevel, Levels
<1>2. CASE \E b \in Inputs : Press(b) \/ LetGo(b)
  BY <1>2 DEF Press, LetGo
<1>3. CASE Scan
  <2>1. CASE ShowMode
    <3>1. Reserve(btnlight, "write", LIGHT_SCORE, ModeLevel)
      BY <2>1 DEF ShowMode
    <3>2. btnlight \in Threads /\ LIGHT_SCORE \in Pins /\ ModeLevel \in Levels
      BY <1>1
    <3>3. \E t \in Threads : \E fn \in {"write", "read", "pulse"}, p \in Pins, v \in Levels :
             Reserve(t, fn, p, v)
      BY <3>1, <3>2
    <3> QED
      BY <3>3 DEF Next
  <2>2. CASE CallStep(btnlight)
    BY <2>2 DEF Next
  <2>3. CASE SelectScore \/ ToggleMode \/ NextScan
    BY <2>3 DEF SelectScore, ToggleMode, NextScan
  <2> QED
    BY <1>3, <2>1, <2>2, <2>3 DEF Scan
<1>4. CASE Blink
  <2>1. "high" \in Levels /\ reader \in Threads /\ LIGHT_STATUS \in Pins
    BY DEF Levels
  <2>2. CASE Reserve(reader, "pulse", LIGHT_STATUS, "high")
    BY <2>1, <2>2 DEF Next
  <2> QED
    BY <1>4, <2>1, <2>2 DEF Blink, Next
<1>5. CASE ApiRequest
  <2>1. CASE ApiRead
    BY <2>1 DEF ApiRead, Levels, Next
  <2>2. CASE ApiWrite
    BY <2>2 DEF ApiWrite, Next
  <2>3. CASE ApiPulse
    BY <2>3 DEF ApiPulse, Next
  <2>4. CASE ApiDirection
    BY <2>4 DEF ApiDirection, Next
  <2>5. CASE CallStep(loop)
    BY <2>5 DEF Next
  <2> QED
    BY <1>5, <2>1, <2>2, <2>3, <2>4, <2>5 DEF ApiRequest
<1>6. CASE Pulses
  BY <1>6 DEF Pulses, Next
<1>7. CASE PanelRestart
  BY <1>7 DEF PanelRestart, Next
<1>8. CASE UNCHANGED panelVars
  BY <1>8 DEF panelVars
<1> QED
  BY <1>2, <1>3, <1>4, <1>5, <1>6, <1>7, <1>8 DEF PanelNext

(* The panel with its three threads is an instance of the GPIO functions.  *)
THEOREM PanelUsesGpio == PanelSpec => Spec
<1>1. PanelInit => Init
  BY DEF PanelInit
<1>2. [PanelNext]_panelVars => [Next]_vars
  BY StepsAreGpioSteps
<1> QED
  BY <1>1, <1>2, PTL DEF PanelSpec, Spec

(* On the panel, too, one thread at a time uses a pin.                     *)
THEOREM PanelExclusive == PanelSpec => []Exclusive
  BY PanelUsesGpio, ExportIsALock, PTL

(* Nothing the API is asked for takes the buttons away from the panel.     *)
THEOREM PanelKeepsButtons == PanelSpec => []ButtonsStayReserved
  BY PanelUsesGpio, ButtonsReadable, PTL

(* Without direction requests the GPIO functions keep the buttons inputs:  *)
(* a call or a pulse turns only the pin it reserved into an output.        *)
LEMMA DirectionsKept ==
    ASSUME IInv, ButtonsAreInputs, "direction" \notin Disturbances, [Next]_vars
    PROVE  ButtonsAreInputs'
<1> USE DEF IInv, ButtonsAreInputs
<1>1. ASSUME NEW p \in Pins, p \notin Inputs, WriteDirection(p, "out")
      PROVE  ButtonsAreInputs'
  BY <1>1 DEF WriteDirection, TypeOK
<1>2. ASSUME NEW t \in Threads, SetOutput(t) PROVE ButtonsAreInputs'
  <2>1. job[t].pin \in Pins /\ job[t].pin \notin Inputs
    BY <1>2, AtType DEF SetOutput, ButtonsUnused
  <2> QED
    BY <1>1, <1>2, <2>1 DEF SetOutput
<1>3. ASSUME NEW p \in Pins, PulseOutput(p) PROVE ButtonsAreInputs'
  <2>1. p \notin Inputs
    BY <1>3 DEF PulseOutput, PulseAt, ButtonsUnused
  <2> QED
    BY <1>1, <1>3, <2>1 DEF PulseOutput
<1>4. CASE Restart
  BY <1>4 DEF Restart
<1>5. ASSUME NEW t \in Threads, CallStep(t), ~SetOutput(t) PROVE dir' = dir
  BY <1>5 DEF CallStep, SetState, GetState, Release, Spawn, SpawnFails
<1>6. ASSUME NEW p \in Pins, PulseStep(p), ~PulseOutput(p) PROVE dir' = dir
  BY <1>6 DEF PulseStep, PulseOn, PulseOff, PulseEnd
<1>7. ASSUME NEW t \in Threads, NEW fn \in {"write", "read", "pulse"},
             NEW p \in Pins, NEW v \in Levels, Reserve(t, fn, p, v)
      PROVE  dir' = dir
  BY <1>7 DEF Reserve
<1>8. ASSUME NEW t \in Threads, NEW p \in Pins, NEW d \in Directions,
             SetDirection(t, p, d)
      PROVE  FALSE
  BY <1>8 DEF SetDirection
<1>9. CASE UNCHANGED vars
  BY <1>9 DEF vars
<1> QED
  BY <1>2, <1>3, <1>4, <1>5, <1>6, <1>7, <1>8, <1>9 DEF Next

(* While the buttons are exported inputs, a scan reads BTN_SCORE as it is. *)
LEMMA ReadsTheButton ==
    ASSUME ButtonsStayReserved, ButtonsAreInputs
    PROVE  IsHigh(BTN_SCORE) <=> BTN_SCORE \in pressed
  BY DEF ButtonsStayReserved, ButtonsAreInputs, IsHigh

(* What the longrunner remembers of BTN_SCORE happened.                    *)
LEMMA SawItUpKept ==
    ASSUME IInv, ButtonsAreInputs, SawItUp, PanelNext \/ UNCHANGED panelVars
    PROVE  SawItUp'
<1> USE DEF SawItUp
<1>1. CASE ToggleMode
  <2>1. IsHigh(BTN_SCORE) <=> BTN_SCORE \in pressed
    BY ReadsTheButton DEF IInv
  <2>2. CASE IsHigh(BTN_SCORE)
    <3>1. status_score_last' = "high"
      BY <1>1, <2>2 DEF ToggleMode
    <3> QED
      BY <3>1
  <2>3. CASE ~IsHigh(BTN_SCORE)
    <3>1. ~RisingEdge(IsHigh(BTN_SCORE))
      BY <2>3 DEF RisingEdge
    <3>2. letgo' = (letgo \/ BTN_SCORE \notin pressed)
      BY <1>1, <3>1 DEF ToggleMode
    <3> QED
      BY <2>1, <2>3, <3>2
  <2> QED
    BY <2>2, <2>3
<1>2. CASE PanelRestart
  BY <1>2 DEF PanelRestart
<1>3. CASE \E b \in Inputs : Press(b) \/ LetGo(b)
  <2>1. PICK b \in Inputs : Press(b) \/ LetGo(b)
    BY <1>3
  <2>2. CASE Press(b)
    BY <2>2 DEF Press, panel
  <2>3. CASE LetGo(b)
    <3>1. status_score_last' = status_score_last
      BY <2>3 DEF LetGo
    <3>2. letgo' = (letgo \/ b = BTN_SCORE)
      BY <2>3 DEF LetGo
    <3> QED
      BY <3>1, <3>2
  <2> QED
    BY <2>1, <2>2, <2>3
<1>4. CASE Scan /\ ~ToggleMode
  BY <1>4 DEF Scan, SelectScore, ShowMode, NextScan, panel
<1>5. CASE Blink \/ ApiRequest \/ Pulses
  BY <1>5 DEF Blink, ApiRequest, Pulses, panel
<1>6. CASE UNCHANGED panelVars
  BY <1>6 DEF panelVars, panel
<1> QED
  BY <1>1, <1>2, <1>3, <1>4, <1>5, <1>6 DEF PanelNext

(* A scan changes the mode only after BTN_SCORE was seen up; a restart,    *)
(* which also changes it, is counted.                                      *)
LEMMA TogglesAreEarned ==
    ASSUME TypeOK, SawItUp, PanelNext \/ UNCHANGED panelVars,
           status_score' # status_score
    PROVE  restarts' # restarts \/ letgo
<1>1. CASE ToggleMode
  <2>1. RisingEdge(IsHigh(BTN_SCORE))
    BY <1>1 DEF ToggleMode
  <2> QED
    BY <2>1 DEF RisingEdge, SawItUp
<1>2. CASE PanelRestart
  BY <1>2 DEF PanelRestart, Restart, TypeOK
<1>3. CASE \E b \in Inputs : Press(b) \/ LetGo(b)
  BY <1>3 DEF Press, LetGo, panel
<1>4. CASE Scan /\ ~ToggleMode
  BY <1>4 DEF Scan, SelectScore, ShowMode, NextScan, panel
<1>5. CASE Blink \/ ApiRequest \/ Pulses
  BY <1>5 DEF Blink, ApiRequest, Pulses, panel
<1>6. CASE UNCHANGED panelVars
  BY <1>6 DEF panelVars, panel
<1> QED
  BY <1>1, <1>2, <1>3, <1>4, <1>5, <1>6 DEF PanelNext

(* Unless a direction request reconfigures the buttons, the score mode     *)
(* changes at most once for every press of BTN_SCORE.                      *)
THEOREM TogglesOncePerPress ==
    ASSUME "direction" \notin Disturbances
    PROVE  PanelSpec => OneTogglePerPress
<1> DEFINE Kept == IInv /\ ButtonsAreInputs /\ SawItUp
           Earned == status_score' # status_score => restarts' # restarts \/ letgo
<1>1. PanelInit => ButtonsAreInputs /\ SawItUp
  BY DEF PanelInit, Init, ButtonsAreInputs, SawItUp
<1>2. IInv /\ ButtonsAreInputs /\ SawItUp /\ [PanelNext]_panelVars
         => ButtonsAreInputs' /\ SawItUp'
  BY StepsAreGpioSteps, DirectionsKept, SawItUpKept
<1>3. IInv /\ SawItUp /\ [PanelNext]_panelVars => [Earned]_panelVars
  BY TogglesAreEarned DEF IInv
<1>4. PanelSpec => []IInv
  BY PanelUsesGpio, Invariance, PTL
<1> QED
  BY <1>1, <1>2, <1>3, <1>4, PTL DEF PanelSpec, OneTogglePerPress
-----------------------------------------------------------------------------
PanelTypes ==
    /\ pressed \subseteq Inputs
    /\ status_score \in BOOLEAN
    /\ status_score_last \in Levels
    /\ last_score \in Scores
    /\ scan \in {"score", "mode", "light", "writing"}
    /\ button \in Scores
    /\ letgo \in BOOLEAN

(* Every step of the panel keeps its variables in their types.           *)
LEMMA PanelTypesKept ==
    ASSUME PanelTypes, PanelNext \/ UNCHANGED panelVars
    PROVE  PanelTypes'
<1> USE DEF PanelTypes
<1>1. Len(Buttons) \in Nat /\ 1 \in Scores
  BY DEF Scores
<1>2. CASE \E b \in Inputs : Press(b) \/ LetGo(b)
  BY <1>2 DEF Press, LetGo, panel
<1>3. CASE SelectScore
  <2>1. last_score' \in {last_score, button} /\ button' \in {1, button + 1}
    BY <1>3 DEF SelectScore
  <2>2. button' = button + 1 => button < Len(Buttons) \/ button + 1 = 1
    BY <1>3 DEF SelectScore
  <2>3. button' \in Scores
    BY <1>1, <2>1, <2>2 DEF Scores
  <2> QED
    BY <1>3, <2>1, <2>3 DEF SelectScore
<1>4. CASE ToggleMode
  BY <1>4 DEF ToggleMode, Levels
<1>5. CASE ShowMode \/ NextScan
  BY <1>5 DEF ShowMode, NextScan
<1>6. CASE CallStep(btnlight) /\ UNCHANGED <<pressed, panel>>
  BY <1>6 DEF panel
<1>7. CASE Blink \/ ApiRequest \/ Pulses
  BY <1>7 DEF Blink, ApiRequest, Pulses, panel
<1>8. CASE PanelRestart
  BY <1>1, <1>8 DEF PanelRestart, Levels
<1>9. CASE UNCHANGED panelVars
  BY <1>9 DEF panelVars, panel
<1> QED
  BY <1>2, <1>3, <1>4, <1>5, <1>6, <1>7, <1>8, <1>9 DEF PanelNext, Scan

(* The panel and its pins keep their types, with any number of buttons.    *)
THEOREM PanelTypeCorrect == PanelSpec => []PanelTypeOK
<1>1. PanelInit => PanelTypes
  <2>1. 1 \in Scores
    BY DEF Scores
  <2> QED
    BY <2>1 DEF PanelInit, PanelTypes, Levels
<1>2. PanelTypes /\ [PanelNext]_panelVars => PanelTypes'
  BY PanelTypesKept
<1>3. TypeOK /\ PanelTypes => PanelTypeOK
  BY DEF PanelTypes, PanelTypeOK
<1> QED
  BY <1>1, <1>2, <1>3, PanelUsesGpio, TypeCorrect, PTL DEF PanelSpec
-----------------------------------------------------------------------------
(* The score light.  Until the first restart it is exported only while the *)
(* longrunner writes it, and a write that has begun ends with the light at *)
(* the level of the mode; nobody else has the light meanwhile.             *)
LightIsOwn == LIGHT_SCORE \notin ApiPins \cup Inputs \cup {LIGHT_STATUS}

ShowsMode ==
    /\ scan = "writing"
    /\ job[btnlight].pin = LIGHT_SCORE /\ job[btnlight].arg = ModeLevel
    /\ job[btnlight].pc \in {"dir", "set", "release"}
    /\ job[btnlight].pc # "dir" => dir[LIGHT_SCORE] = "out"
    /\ job[btnlight].pc = "release" => level[LIGHT_SCORE] = ModeLevel

LightKept ==
    /\ pulse[LIGHT_SCORE] = NoPulse
    /\ \A t \in Threads : InCall(t) /\ job[t].pin = LIGHT_SCORE => t = btnlight
    /\ LIGHT_SCORE \in exported => InCall(btnlight)
    /\ InCall(btnlight) => ShowsMode
    /\ ~InCall(btnlight) /\ scan # "light" => (Lit(LIGHT_SCORE) <=> status_score)

(* A step of others: the light stays as it is and the longrunner is where  *)
(* it was.                                                                 *)
LEMMA OthersKeepLight ==
    ASSUME LightKept, UNCHANGED <<status_score, scan>>, job'[btnlight] = job[btnlight],
           dir'[LIGHT_SCORE] = dir[LIGHT_SCORE], level'[LIGHT_SCORE] = level[LIGHT_SCORE],
           pulse'[LIGHT_SCORE] = pulse[LIGHT_SCORE],
           LIGHT_SCORE \in exported' => LIGHT_SCORE \in exported,
           \A t \in Threads : InCall(t)' /\ job'[t].pin = LIGHT_SCORE =>
              InCall(t) /\ job[t].pin = LIGHT_SCORE
    PROVE  LightKept'
BY DEF LightKept, ShowsMode, InCall, Lit, ModeLevel

(* A call of another thread, on another pin.                               *)
LEMMA OtherCallsKeepLight ==
    ASSUME IInv, LightKept, NEW t \in Threads \ {btnlight}, CallStep(t),
           UNCHANGED <<status_score, scan>>
    PROVE  LightKept'
<1>1. InCall(t) /\ job[t].pin \in Pins
  BY AtType DEF IInv, CallStep, SetOutput, SetState, GetState, Release, Spawn, SpawnFails
<1>2. job[t].pin # LIGHT_SCORE
  BY <1>1 DEF LightKept
<1>3. dir'[LIGHT_SCORE] = dir[LIGHT_SCORE] /\ level'[LIGHT_SCORE] = level[LIGHT_SCORE]
  BY <1>2, CallsOffPulses
<1>4. /\ job'[btnlight] = job[btnlight]
      /\ \A u \in Threads : InCall(u)' /\ job'[u].pin = LIGHT_SCORE =>
            InCall(u) /\ job[u].pin = LIGHT_SCORE
  BY CallsMove DEF InCall
<1>5. /\ pulse'[LIGHT_SCORE] = pulse[LIGHT_SCORE]
      /\ LIGHT_SCORE \in exported' => LIGHT_SCORE \in exported
  BY <1>1, <1>2 DEF IInv, TypeOK, CallStep, SetOutput, SetState, GetState, Release, Spawn,
                    SpawnFails
<1> QED
  BY <1>3, <1>4, <1>5, OthersKeepLight

(* Another thread reserves another pin than the light.                   *)
LEMMA OtherReservesKeepLight ==
    ASSUME IInv, LightKept, NEW t \in Threads \ {btnlight}, NEW fn, NEW v,
           NEW p \in Pins \ {LIGHT_SCORE}, Reserve(t, fn, p, v), UNCHANGED <<status_score, scan>>
    PROVE  LightKept'
<1>1. UNCHANGED <<dir, level, pulse>> /\ (LIGHT_SCORE \in exported' => LIGHT_SCORE \in exported)
  BY DEF Reserve
<1>2. \A u \in Threads : job'[u] = job[u] \/ (u = t /\ job'[u].pin = p)
  BY DEF Reserve, IInv, TypeOK
<1> QED
  BY <1>1, <1>2, OthersKeepLight DEF InCall

(* The longrunner's own write.                                             *)
LEMMA WriteKeepsLight ==
    ASSUME IInv, LightKept, CallStep(btnlight), UNCHANGED <<status_score, scan>>
    PROVE  LightKept'
<1>1. /\ job[btnlight] \in Job /\ InCall(btnlight) /\ ShowsMode
      /\ LIGHT_SCORE \in exported /\ job \in [Threads -> Job \cup {NoJob}]
      /\ dir \in [Pins -> Directions] /\ level \in [Pins -> Levels]
  <2>1. job[btnlight] \in Job /\ InCall(btnlight)
    BY AtType DEF IInv, CallStep, SetOutput, SetState, GetState, Release, Spawn, SpawnFails
  <2> QED
    BY <2>1 DEF LightKept, ShowsMode, IInv, OneOwner, TypeOK
<1>2. \A u \in Threads \ {btnlight} : ~(InCall(u)' /\ job'[u].pin = LIGHT_SCORE)
  BY CallsMove DEF InCall, LightKept
<1>3. ASSUME NEW pc, Goto(btnlight, pc)
      PROVE  /\ job'[btnlight].pin = LIGHT_SCORE /\ job'[btnlight].arg = ModeLevel
             /\ job'[btnlight].pc = pc /\ InCall(btnlight)'
  <2>1. job'[btnlight] = [job[btnlight] EXCEPT !.pc = pc]
    BY <1>1, <1>3 DEF Goto
  <2>2. job'[btnlight].fn # "none"
    BY <1>1, <2>1 DEF Job
  <2> QED
    BY <1>1, <2>1, <2>2 DEF Job, ShowsMode, InCall, NoJob
<1>4. CASE SetOutput(btnlight)
  <2>1. Goto(btnlight, "set") /\ WriteDirection(LIGHT_SCORE, "out") /\ UNCHANGED <<exported, pulse>>
    BY <1>1, <1>4 DEF SetOutput, ShowsMode
  <2>2. dir'[LIGHT_SCORE] = "out"
    BY <1>1, <2>1 DEF WriteDirection
  <2> QED
    BY <1>1, <1>2, <1>3, <2>1, <2>2 DEF LightKept, ShowsMode, ModeLevel, InCall
<1>5. CASE SetState(btnlight)
  <2>1. dir[LIGHT_SCORE] = "out" /\ CanWriteValue(LIGHT_SCORE)
    BY <1>1, <1>5 DEF SetState, At, ShowsMode, CanWriteValue
  <2>2. Goto(btnlight, "release") /\ UNCHANGED <<exported, dir, pulse>>
    BY <1>1, <1>5, <2>1 DEF SetState, ShowsMode
  <2>3. level'[LIGHT_SCORE] = ModeLevel
    BY <1>1, <1>5, <2>1 DEF SetState, WriteValue, ShowsMode
  <2> QED
    BY <1>1, <1>2, <1>3, <2>1, <2>2, <2>3 DEF LightKept, ShowsMode, ModeLevel, InCall
<1>6. CASE Release(btnlight)
  <2>1. /\ exported' = exported \ {LIGHT_SCORE} /\ UNCHANGED <<dir, level, pulse>>
        /\ job'[btnlight] = NoJob
    BY <1>1, <1>6 DEF Release, Return, ShowsMode
  <2>2. dir[LIGHT_SCORE] = "out" /\ level[LIGHT_SCORE] = ModeLevel
    BY <1>1, <1>6 DEF Release, At, ShowsMode
  <2>3. Lit(LIGHT_SCORE)' <=> status_score'
    BY <2>1, <2>2 DEF Lit, ModeLevel
  <2> QED
    BY <1>2, <2>1, <2>3 DEF LightKept, InCall
<1> QED
  BY <1>1, <1>4, <1>5, <1>6 DEF CallStep, GetState, Spawn, SpawnFails, At, ShowsMode

(* The longrunner begins to write the light to the mode.                 *)
LEMMA ShowModeKeepsLight ==
    ASSUME IInv, LightKept, ShowMode
    PROVE  LightKept'
<1> DEFINE new == [fn |-> "write", pin |-> LIGHT_SCORE, arg |-> ModeLevel,
                   pc |-> AfterReserve("write")]
<1>1. ~InCall(btnlight) /\ Reserved(LIGHT_SCORE)
  BY DEF ShowMode, LightKept, ShowsMode, Reserved
<1>2. /\ job' = [job EXCEPT ![btnlight] = new] /\ scan' = "writing"
      /\ UNCHANGED <<dir, level, pulse, status_score>>
  BY <1>1 DEF ShowMode, Reserve
<1>3. /\ new.pin = LIGHT_SCORE /\ new.arg = ModeLevel /\ new.pc = "dir" /\ new.fn = "write"
  BY DEF AfterReserve
<1> HIDE DEF new
<1>4. job'[btnlight] = new /\ \A u \in Threads \ {btnlight} : job'[u] = job[u]
  BY <1>2 DEF IInv, TypeOK
<1>5. InCall(btnlight)'
  BY <1>3, <1>4 DEF InCall, NoJob
<1> QED
  BY <1>2, <1>3, <1>4, <1>5 DEF LightKept, ShowsMode, ModeLevel, InCall

(* So until a restart no step parts the light from the mode.             *)
LEMMA LightKeptByAll ==
    ASSUME LightIsOwn, IInv, LightKept, PanelNext \/ UNCHANGED panelVars, restarts' = 0,
           restarts \in Nat
    PROVE  LightKept'
<1>1. CASE \E b \in Inputs : Press(b) \/ LetGo(b)
  BY <1>1, OthersKeepLight DEF Press, LetGo, panel, vars, InCall
<1>2. CASE SelectScore \/ NextScan
  BY <1>2 DEF SelectScore, NextScan, vars, LightKept, ShowsMode, InCall, Lit, ModeLevel
<1>3. CASE ToggleMode
  <2>1. ~InCall(btnlight) /\ UNCHANGED vars
    BY <1>3 DEF ToggleMode, LightKept, ShowsMode
  <2>2. scan' # "light" => status_score' = status_score
    BY <1>3 DEF ToggleMode
  <2> QED
    BY <1>3, <2>1, <2>2 DEF ToggleMode, vars, LightKept, InCall, Lit
<1>4. CASE ShowMode
  BY <1>4, ShowModeKeepsLight
<1>5. CASE CallStep(btnlight) /\ UNCHANGED <<pressed, panel>>
  BY <1>5, WriteKeepsLight DEF panel
<1>6. CASE Blink
  <2>1. UNCHANGED <<status_score, scan>>
    BY <1>6 DEF Blink, panel
  <2>2. CASE Reserve(reader, "pulse", LIGHT_STATUS, "high")
    BY <2>1, <2>2, OtherReservesKeepLight DEF LightIsOwn
  <2>3. CASE CallStep(reader)
    BY <2>1, <2>3, OtherCallsKeepLight
  <2> QED
    BY <1>6, <2>2, <2>3 DEF Blink
<1>7. CASE ApiRequest
  <2>1. UNCHANGED <<status_score, scan>>
    BY <1>7 DEF ApiRequest, panel
  <2>2. CASE ApiRead \/ ApiWrite \/ ApiPulse
    <3>1. PICK fn \in {"read", "write", "pulse"}, p \in ApiPins, v \in Levels \cup {"low"} :
             Reserve(loop, fn, p, v)
      BY <2>2 DEF ApiRead, ApiWrite, ApiPulse
    <3> QED
      BY <2>1, <3>1, OtherReservesKeepLight DEF LightIsOwn
  <2>3. CASE ApiDirection
    <3>1. PICK p \in ApiPins, d \in Directions : SetDirection(loop, p, d)
      BY <2>3 DEF ApiDirection
    <3>2. p # LIGHT_SCORE /\ dir \in [Pins -> Directions] /\ level \in [Pins -> Levels]
      BY <3>1 DEF LightIsOwn, IInv, TypeOK
    <3>3. dir'[LIGHT_SCORE] = dir[LIGHT_SCORE] /\ level'[LIGHT_SCORE] = level[LIGHT_SCORE]
      BY <3>1, <3>2 DEF SetDirection, WriteDirection
    <3> QED
      BY <2>1, <3>1, <3>3, OthersKeepLight DEF SetDirection, InCall
  <2>4. CASE CallStep(loop)
    BY <2>1, <2>4, OtherCallsKeepLight
  <2> QED
    BY <1>7, <2>2, <2>3, <2>4 DEF ApiRequest
<1>8. CASE Pulses
  <2>1. UNCHANGED <<status_score, scan>>
    BY <1>8 DEF Pulses, panel
  <2>2. PICK p \in Pins : PulseStep(p)
    BY <1>8 DEF Pulses
  <2>3. p # LIGHT_SCORE
    BY <2>2 DEF LightKept, PulseStep, PulseOutput, PulseOn, PulseOff, PulseEnd, PulseAt
  <2>4. /\ job' = job
        /\ dir'[LIGHT_SCORE] = dir[LIGHT_SCORE] /\ level'[LIGHT_SCORE] = level[LIGHT_SCORE]
        /\ pulse'[LIGHT_SCORE] = pulse[LIGHT_SCORE]
        /\ LIGHT_SCORE \in exported' => LIGHT_SCORE \in exported
    BY <2>2, <2>3 DEF IInv, TypeOK, PulseStep, PulseOutput, PulseOn, PulseOff, PulseEnd,
                      WriteDirection, WriteValue
  <2> QED
    BY <2>1, <2>4, OthersKeepLight DEF InCall
<1>9. CASE PanelRestart
  BY <1>9 DEF PanelRestart, Restart
<1>10. CASE UNCHANGED panelVars
  BY <1>10, OthersKeepLight DEF panelVars, panel, vars, InCall
<1> QED
  BY <1>1, <1>2, <1>3, <1>4, <1>5, <1>6, <1>7, <1>8, <1>9, <1>10 DEF PanelNext, Scan

(* Until the program restarts the score light shows the score mode, if no  *)
(* request names it, whatever requests do with all the other pins.         *)
THEOREM LightShowsTheMode ==
    ASSUME LightIsOwn
    PROVE  PanelSpec => []LightFollowsModeSinceBoot
<1> DEFINE LightInv == restarts = 0 => LightKept
<1>1. PanelInit => LightInv
  BY DEF PanelInit, Init, LightKept, LightIsOwn, InCall, Lit
<1>2. IInv /\ LightInv /\ [PanelNext]_panelVars => LightInv'
  <2> SUFFICES ASSUME IInv, LightInv, [PanelNext]_panelVars, restarts' = 0 PROVE LightKept'
    OBVIOUS
  <2>1. restarts \in Nat
    BY DEF IInv, TypeOK
  <2>2. restarts' = restarts \/ restarts' = restarts + 1
    BY StepsAreGpioSteps DEF Next, Reserve, SetDirection, CallStep, SetOutput, SetState, GetState,
       Release, Spawn, SpawnFails, PulseStep, PulseOutput, PulseOn, PulseOff, PulseEnd, Restart,
       vars
  <2>3. restarts = 0
    BY <2>1, <2>2
  <2> QED
    BY <2>1, <2>3, LightKeptByAll
<1>3. LightInv => LightFollowsModeSinceBoot
  BY DEF LightFollowsModeSinceBoot, LightFollowsMode, LightKept, ShowsMode
<1>4. PanelSpec => []IInv
  BY PanelUsesGpio, Invariance, PTL
<1> QED
  BY <1>1, <1>2, <1>3, <1>4, PTL DEF PanelSpec
=============================================================================
