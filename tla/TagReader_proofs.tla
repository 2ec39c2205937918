-------------------------- MODULE TagReader_proofs --------------------------
(***************************************************************************)
(* Proofs about TagReader, for any tags and any number of requests and     *)
(* faults.                                                                 *)
(*                                                                         *)
(* Why no old tag is posted: from the acknowledgement of its LIST on, the  *)
(* longrunner can only be given an answer the chip made since              *)
(* (ChipIsFresh, RawIsFresh), because a new command drops the old answer   *)
(* and an answer that came before the acknowledgement is refused.  While   *)
(* it copies that answer, checks it and copies the uid out of it, nothing  *)
(* else writes the uid of the buffer (BufferIsFresh), because the shorter  *)
(* reads do not reach it, unless a request for a tag is under way.         *)
(***************************************************************************)
EXTENDS TagReader, TLAPS

USE TagsAssumption, ThreadsAssumption, BoundsAssumption

(* A call of thread t as its job allows it: where it is in the job, and    *)
(* that a uid is only looked at after LIST.                                *)
Calls == [job : Jobs, step : 1..3, raw : Buffers, part : 1..5,
          got : SUBSET (Tags \cup {none}),
          pc : {"idle", "open", "address", "fill", "send", "ack", "read",
                "load", "check", "copy", "more", "post"}]

InCommand == {"fill", "send", "ack", "read", "load", "check", "copy", "more", "post"}

WellFormed(t, c) ==
    /\ c \in Calls
    /\ c.step = 1 \/ c.step <= Len(Plan(c.job))
    /\ c.pc = "idle" <=> c.job = "none"
    /\ c.pc \in {"open", "address"} => c.job \in {"boot", "init"} /\ c.step = 1
    /\ c.pc \in InCommand => c.step <= Len(Plan(c.job))
    /\ c.pc \in {"copy", "more", "post"} => Plan(c.job)[c.step] = "LIST"
    /\ c.pc # "load" => c.part = 1
    /\ c.pc = "load" => c.part <= Reach(Plan(c.job)[c.step])
    /\ t = reader => c.job \in {"none", "scan"}
    /\ t = loop => c.job # "scan" /\ c.pc # "post"

CallsAreWellFormed ==
    /\ call \in [Threads -> Calls]
    /\ \A t \in Threads : WellFormed(t, call[t])

(* The longrunner is at its LIST.                                          *)
Listing == call[reader].job = "scan" /\ call[reader].step = 2

Fresh(tag) == tag \in seen \cup {none}

FieldIsSeen == Listing /\ call[reader].pc # "fill" => Fresh(field)

ChipIsFresh == Listing /\ call[reader].pc = "read" => Fresh(chip.uid)

RawIsFresh ==
    Listing /\ call[reader].pc = "load" =>
        Fresh(call[reader].raw.first) /\ call[reader].raw.rest = call[reader].raw.first

(* No request for a tag is under way.                                      *)
Apart ==
    Listing /\ call[reader].pc # "fill" /\ "taguid" \notin met =>
        call[loop].job # "taguid"

BufferIsFresh ==
    Listing /\ "taguid" \notin met =>
        /\ call[reader].pc = "load" /\ call[reader].part = 5 =>
               buf.first = call[reader].raw.first
        /\ call[reader].pc \in {"check", "copy", "more"} =>
               Fresh(buf.first) /\ buf.rest = buf.first
        /\ call[reader].pc = "more" => buf.first # none /\ call[reader].got = {buf.first}

(* Only an answer carries a tag.                                           *)
OnlyAnswersCarryTags == chip.state \in {"received", "ack", "working"} => chip.uid = none

Freshness ==
    /\ OnlyAnswersCarryTags /\ FieldIsSeen /\ ChipIsFresh /\ RawIsFresh
    /\ Apart /\ BufferIsFresh /\ OnlyTagRequestsMixTags

IInv == TypeOK /\ CallsAreWellFormed /\ Freshness
-----------------------------------------------------------------------------
(* The plans and the calls that follow them.                               *)

(* How many commands each job has.                                       *)
LEMMA PlanLengths ==
    /\ Len(Plan("none")) = 0 /\ Len(Plan("init")) = 0
    /\ Len(Plan("boot")) = 1 /\ Len(Plan("version")) = 1
    /\ Len(Plan("taguid")) = 3 /\ Len(Plan("scan")) = 2
  BY DEF Plan

(* They are commands; the second one of a scan asks for tags.            *)
LEMMA PlanCommands ==
    /\ \A job \in Jobs : \A i \in 1..3 : i <= Len(Plan(job)) => Plan(job)[i] \in Commands
    /\ \A i \in {1, 2} : Plan("scan")[i] = "LIST" <=> i = 2
  BY DEF Plan, Jobs, Commands

(* A frame is a state of the buffer.                                     *)
LEMMA FramesAreBuffers ==
    \A answer \in Answers, uid \in Tags \cup {none} :
        /\ FrameOf(answer, uid) \in Buffers
        /\ FrameOf(answer, uid).seven = answer
        /\ FrameOf(answer, uid).first = uid /\ FrameOf(answer, uid).rest = uid
  BY DEF FrameOf, Buffers

(* A call that begins is at its first command.                           *)
LEMMA NewCalls ==
    /\ NoCall \in Calls /\ NoCall.step = 1 /\ NoCall.job = "none" /\ NoCall.pc = "idle"
    /\ NoCall.part = 1
    /\ \A job \in Jobs :
          /\ Begin(job) \in Calls /\ Begin(job).job = job /\ Begin(job).step = 1
          /\ Begin(job).pc = IF job \in {"boot", "init"} THEN "open" ELSE "fill"
          /\ Begin(job).part = 1
<1>1. NoFrame \in Buffers
  BY FramesAreBuffers DEF NoFrame, Answers
<1>2. /\ NoCall \in Calls /\ NoCall.step = 1 /\ NoCall.job = "none" /\ NoCall.pc = "idle"
      /\ NoCall.part = 1
  BY <1>1 DEF NoCall, Calls, Jobs
<1>3. ASSUME NEW job \in Jobs
      PROVE  /\ Begin(job) \in Calls /\ Begin(job).job = job /\ Begin(job).step = 1
             /\ Begin(job).pc = IF job \in {"boot", "init"} THEN "open" ELSE "fill"
             /\ Begin(job).part = 1
  BY <1>2 DEF Begin, Calls
<1> QED
  BY <1>2, <1>3

(* Each thread begins calls of its own jobs.                             *)
LEMMA NewCallsWellFormed ==
    /\ \A t \in Threads : WellFormed(t, NoCall) /\ WellFormed(t, Restarted(t))
    /\ WellFormed(reader, Begin("scan"))
    /\ \A job \in Jobs \ {"none", "scan"} : WellFormed(loop, Begin(job))
<1>1. \A t \in Threads : WellFormed(t, NoCall)
  BY NewCalls DEF WellFormed, InCommand
<1>2. WellFormed(reader, Begin("scan"))
  <2>1. /\ Begin("scan") \in Calls /\ Begin("scan").job = "scan"
        /\ Begin("scan").step = 1 /\ Begin("scan").pc = "fill" /\ Begin("scan").part = 1
    BY NewCalls DEF Jobs
  <2> QED
    BY <2>1, PlanLengths DEF WellFormed, InCommand
<1>3. ASSUME NEW job \in Jobs \ {"none", "scan"} PROVE WellFormed(loop, Begin(job))
  <2>1. /\ Begin(job) \in Calls /\ Begin(job).job = job /\ Begin(job).step = 1
        /\ Begin(job).pc = IF job \in {"boot", "init"} THEN "open" ELSE "fill"
        /\ Begin(job).part = 1
    BY NewCalls
  <2>2. 1 <= Len(Plan(job)) \/ job = "init"
    BY PlanLengths DEF Jobs, Requested
  <2> QED
    BY <2>1, <2>2 DEF WellFormed, InCommand
<1> QED
  BY <1>1, <1>2, <1>3 DEF Restarted

(* A thread that moves to another point of its command.                    *)
LEMMA MoveKeeps ==
    ASSUME CallsAreWellFormed, NEW t \in Threads,
           NEW p \in {"address", "fill", "send", "ack", "read", "check", "copy"},
           call' = [call EXCEPT ![t].pc = p], call[t].pc # "load",
           IF p = "address" THEN call[t].pc = "open"
           ELSE call[t].step <= Len(Plan(call[t].job)) /\ call[t].job # "none",
           p = "copy" => Cmd(t) = "LIST"
    PROVE  CallsAreWellFormed'
<1>1. call[t] \in Calls /\ WellFormed(t, call[t])
  BY DEF CallsAreWellFormed
<1>2. call' = [call EXCEPT ![t] = [call[t] EXCEPT !.pc = p]]
  OBVIOUS
<1>3. [call[t] EXCEPT !.pc = p] \in Calls
  BY <1>1 DEF Calls
<1>4. WellFormed(t, [call[t] EXCEPT !.pc = p])
  BY <1>1, <1>3 DEF WellFormed, Calls, InCommand, Cmd
<1>5. call' \in [Threads -> Calls]
  BY <1>2, <1>3 DEF CallsAreWellFormed
<1>6. \A u \in Threads : WellFormed(u, call'[u])
  BY <1>2, <1>4 DEF CallsAreWellFormed
<1> QED
  BY <1>5, <1>6 DEF CallsAreWellFormed, WellFormed

(* A thread that comes to a well-formed call.                            *)
LEMMA SetKeeps ==
    ASSUME CallsAreWellFormed, NEW t \in Threads, NEW c, WellFormed(t, c),
           call' = [call EXCEPT ![t] = c]
    PROVE  /\ CallsAreWellFormed'
           /\ call'[t] = c
           /\ \A u \in Threads \ {t} : call'[u] = call[u]
<1>1. c \in Calls
  BY DEF WellFormed
<1>2. /\ call' \in [Threads -> Calls]
      /\ call'[t] = c
      /\ \A u \in Threads \ {t} : call'[u] = call[u]
  BY <1>1 DEF CallsAreWellFormed
<1>3. \A u \in Threads : WellFormed(u, call'[u])
  BY <1>2 DEF CallsAreWellFormed
<1> QED
  BY <1>2, <1>3 DEF CallsAreWellFormed, WellFormed

(* A call that fails ends for its own thread only.                       *)
LEMMA FailKeeps ==
    ASSUME CallsAreWellFormed, NEW t \in Threads, Fail(t)
    PROVE  /\ CallsAreWellFormed'
           /\ call'[t] = Restarted(t)
           /\ \A u \in Threads \ {t} : call'[u] = call[u]
<1>1. Restarted(t) \in Calls /\ WellFormed(t, Restarted(t))
  BY NewCallsWellFormed DEF WellFormed
<1>2. /\ call' \in [Threads -> Calls]
      /\ call'[t] = Restarted(t)
      /\ \A u \in Threads \ {t} : call'[u] = call[u]
  BY <1>1 DEF CallsAreWellFormed, Fail
<1>3. \A u \in Threads : WellFormed(u, call'[u])
  BY <1>1, <1>2 DEF CallsAreWellFormed
<1> QED
  BY <1>2, <1>3 DEF CallsAreWellFormed, WellFormed

(* A command that succeeds leads to the next one or the end of the job.  *)
LEMMA SucceedKeeps ==
    ASSUME CallsAreWellFormed, NEW t \in Threads, Succeed(t),
           call[t].pc \in {"address", "check"}
    PROVE  /\ CallsAreWellFormed'
           /\ \/ call'[reader] = call[reader]
              \/ call'[reader] = Begin("scan")
              \/ call'[reader].pc = "fill"
<1>1. call[t] \in Calls /\ WellFormed(t, call[t])
  BY DEF CallsAreWellFormed
<1>2. CASE GoesOn(call[t])
  <2> DEFINE c == [call[t] EXCEPT !.step = @ + 1, !.pc = "fill"]
  <2>1. call' = [call EXCEPT ![t] = c]
    BY <1>2 DEF Succeed
  <2>2. call[t].step + 1 <= Len(Plan(call[t].job)) /\ Len(Plan(call[t].job)) \in 0..3
    BY <1>1, <1>2, PlanLengths DEF GoesOn, Calls, Jobs, Requested
  <2>3. c \in Calls
    <3>1. call[t].step \in 1..3
      BY <1>1 DEF Calls
    <3>2. ASSUME NEW i \in 1..3, NEW n \in 0..3, i + 1 <= n PROVE i + 1 \in 1..3
      BY <3>2
    <3>3. call[t].step + 1 \in 1..3
      BY <2>2, <3>1, <3>2
    <3> QED
      BY <1>1, <3>3 DEF Calls
  <2>4. /\ c.step = call[t].step + 1 /\ c.job = call[t].job /\ c.pc = "fill"
        /\ c.part = 1
    BY <1>1 DEF Calls, WellFormed
  <2>5. call[t].job # "none"
    BY <2>2, PlanLengths, <1>1 DEF Calls
  <2>6. WellFormed(t, c)
    BY <1>1, <2>2, <2>3, <2>4, <2>5 DEF WellFormed
  <2>7. /\ call' \in [Threads -> Calls]
        /\ \A u \in Threads : WellFormed(u, call'[u])
    BY <2>1, <2>3, <2>6 DEF CallsAreWellFormed
  <2>8. call'[reader] = call[reader] \/ call'[reader].pc = "fill"
    BY <2>1, <2>4 DEF CallsAreWellFormed, Threads
  <2> QED
    BY <2>7, <2>8 DEF CallsAreWellFormed, WellFormed
<1>3. CASE ~GoesOn(call[t])
  <2>1. CASE call[t].job = "boot"
    <3>1. t = loop
      BY <1>1, <2>1 DEF WellFormed, Threads
    <3>2. call' = [call EXCEPT ![t] = NoCall, ![reader] = Begin("scan")]
      BY <1>3, <2>1 DEF Succeed
    <3>3. /\ call' \in [Threads -> Calls]
          /\ call'[loop] = NoCall /\ call'[reader] = Begin("scan")
      BY <3>1, <3>2, NewCalls DEF CallsAreWellFormed, Threads, Jobs
    <3>4. \A u \in Threads : WellFormed(u, call'[u])
      BY <3>3, NewCallsWellFormed DEF Threads
    <3> QED
      BY <3>3, <3>4 DEF CallsAreWellFormed, WellFormed
  <2>2. CASE call[t].job # "boot"
    <3>1. Fail(t)
      BY <1>3, <2>2 DEF Succeed, Fail
    <3> QED
      BY <3>1, FailKeeps DEF Restarted, Threads
  <2> QED
    BY <2>1, <2>2
<1> QED
  BY <1>2, <1>3
-----------------------------------------------------------------------------
(* TypeOK and CallsAreWellFormed.                                          *)

(* Well-formed calls are calls, at one of their commands.                *)
LEMMA CallTypes == CallsAreWellFormed =>
    /\ call \in [Threads -> Calls]
    /\ \A t \in Threads : call[t].step = 1 \/ call[t].step <= Len(Plan(call[t].job))
  BY DEF CallsAreWellFormed, WellFormed

(* In a command there is one; the longrunner asks for tags with it.      *)
LEMMA CmdTypes ==
    ASSUME CallsAreWellFormed, NEW t \in Threads, call[t].pc \in InCommand
    PROVE  /\ Cmd(t) \in Commands
           /\ t = reader => call[t].job = "scan" /\ (Cmd(t) = "LIST" <=> Listing)
<1>1. WellFormed(t, call[t]) /\ call[t] \in Calls
  BY DEF CallsAreWellFormed
<1>2. call[t].job # "none"
  BY <1>1 DEF WellFormed, InCommand
<1>3. Cmd(t) \in Commands
  BY <1>1, PlanCommands DEF WellFormed, Calls, Cmd
<1>4. ASSUME t = reader PROVE call[t].job = "scan" /\ (Cmd(t) = "LIST" <=> Listing)
  <2>1. call[t].job = "scan"
    BY <1>1, <1>2, <1>4 DEF WellFormed
  <2>2. call[t].step \in {1, 2}
    <3>1. Plan(call[t].job) = Plan("scan")
      BY <2>1
    <3>2. Len(Plan(call[t].job)) = 2
      BY <3>1, PlanLengths
    <3> QED
      BY <1>1, <3>2 DEF WellFormed, Calls
  <2>3. Cmd(t) = Plan("scan")[call[t].step]
    BY <2>1 DEF Cmd
  <2>4. Cmd(t) = "LIST" <=> call[t].step = 2
    BY <2>2, <2>3, PlanCommands
  <2> QED
    BY <1>4, <2>1, <2>4 DEF Listing
<1> QED
  BY <1>3, <1>4

(* A frame that is read is of one tag, and of the chip's if it says so.  *)
LEMMA ReadDataSteps ==
    ASSUME TypeOK, CallsAreWellFormed, NEW t \in Threads, ReadData(t)
    PROVE  /\ CallsAreWellFormed'
           /\ \A u \in Threads \ {t} : call'[u] = call[u]
           /\ call'[t].pc = "load" /\ call'[t].part = 1
           /\ call'[t].job = call[t].job /\ call'[t].step = call[t].step
           /\ call'[t].raw.first \in {chip.uid, none}
           /\ call'[t].raw.rest = call'[t].raw.first
           /\ call'[t].raw.seven = "LIST" =>
                  /\ chip.state = "answer" /\ chip.cmd = "LIST"
                  /\ call'[t].raw.first = chip.uid
<1> DEFINE uid == IF Frame = "LIST" THEN chip.uid ELSE none
<1> DEFINE raw == FrameOf(Frame, uid)
<1> DEFINE c == [call[t] EXCEPT !.pc = "load", !.raw = raw]
<1>1. call[t] \in Calls /\ WellFormed(t, call[t]) /\ call[t].pc = "read"
  BY DEF CallsAreWellFormed, ReadData
<1>2. Frame \in Answers /\ uid \in Tags \cup {none}
  BY DEF TypeOK, Frame, Answers
<1>3. raw \in Buffers /\ raw.seven = Frame /\ raw.first = uid /\ raw.rest = uid
  BY <1>2, FramesAreBuffers
<1>4. Frame = "LIST" => chip.state = "answer" /\ chip.cmd = "LIST"
  BY DEF ReadData, Ready, Frame
<1>5. /\ c \in Calls /\ c.pc = "load" /\ c.part = 1 /\ c.raw = raw
      /\ c.job = call[t].job /\ c.step = call[t].step
  BY <1>1, <1>3 DEF Calls, WellFormed
<1>6. c.part <= Reach(Plan(c.job)[c.step])
  BY <1>5 DEF Reach
<1>7. WellFormed(t, c)
  BY <1>1, <1>5, <1>6 DEF WellFormed, InCommand
<1>8. call' = [call EXCEPT ![t] = c]
  BY DEF ReadData
<1>9. /\ CallsAreWellFormed' /\ call'[t] = c
      /\ \A u \in Threads \ {t} : call'[u] = call[u]
  BY <1>7, <1>8, SetKeeps
<1> QED
  BY <1>3, <1>4, <1>5, <1>9

(* One part after the other is copied, as far as the read reaches.       *)
LEMMA LoadSteps ==
    ASSUME TypeOK, CallsAreWellFormed, NEW t \in Threads, Load(t)
    PROVE  /\ CallsAreWellFormed' /\ buf' \in Buffers
           /\ \A u \in Threads \ {t} : call'[u] = call[u]
           /\ call'[t].job = call[t].job /\ call'[t].step = call[t].step
           /\ buf'.seven = IF call[t].part = 3 THEN call[t].raw.seven ELSE buf.seven
           /\ buf'.first = IF call[t].part = 4 THEN call[t].raw.first ELSE buf.first
           /\ buf'.rest = IF call[t].part = 5 THEN call[t].raw.rest ELSE buf.rest
           /\ \/ /\ call'[t].pc = "load" /\ call'[t].raw = call[t].raw
                 /\ call'[t].part = call[t].part + 1
              \/ /\ call'[t].pc = "check"
                 /\ call[t].part = Reach(Cmd(t))
           /\ call[t].part <= Reach(Cmd(t)) /\ call[t].pc = "load"
<1> DEFINE i == call[t].part
<1> DEFINE raw == call[t].raw
<1>1. call[t] \in Calls /\ WellFormed(t, call[t]) /\ call[t].pc = "load"
  BY DEF CallsAreWellFormed, Load
<1>2. i \in 1..5 /\ raw \in Buffers /\ buf \in Buffers
  BY <1>1 DEF Calls, TypeOK
<1>3. i <= Reach(Cmd(t)) /\ Reach(Cmd(t)) \in {3, 5}
  BY <1>1 DEF WellFormed, Cmd, Reach
<1>4. buf' = [buf EXCEPT ![Parts[i]] = raw[Parts[i]]]
  BY DEF Load
<1>5. /\ buf' \in Buffers
      /\ buf'.seven = IF i = 3 THEN raw.seven ELSE buf.seven
      /\ buf'.first = IF i = 4 THEN raw.first ELSE buf.first
      /\ buf'.rest = IF i = 5 THEN raw.rest ELSE buf.rest
  <2> HIDE DEF i, raw
  <2>1. CASE i = 1
    <3>1. Parts[i] = "head"
      BY <2>1 DEF Parts
    <3> QED
      BY <1>2, <1>4, <2>1, <3>1 DEF Buffers
  <2>2. CASE i = 2
    <3>1. Parts[i] = "six"
      BY <2>2 DEF Parts
    <3> QED
      BY <1>2, <1>4, <2>2, <3>1 DEF Buffers
  <2>3. CASE i = 3
    <3>1. Parts[i] = "seven"
      BY <2>3 DEF Parts
    <3> QED
      BY <1>2, <1>4, <2>3, <3>1 DEF Buffers
  <2>4. CASE i = 4
    <3>1. Parts[i] = "first"
      BY <2>4 DEF Parts
    <3> QED
      BY <1>2, <1>4, <2>4, <3>1 DEF Buffers
  <2>5. CASE i = 5
    <3>1. Parts[i] = "rest"
      BY <2>5 DEF Parts
    <3> QED
      BY <1>2, <1>4, <2>5, <3>1 DEF Buffers
  <2> QED
    BY <1>2, <2>1, <2>2, <2>3, <2>4, <2>5
<1>6. CASE i < Reach(Cmd(t))
  <2> DEFINE c == [call[t] EXCEPT !.part = i + 1]
  <2>1. call' = [call EXCEPT ![t] = c]
    BY <1>6 DEF Load
  <2>2. i + 1 \in 1..5 /\ i + 1 <= Reach(Cmd(t))
    BY <1>2, <1>3, <1>6
  <2>3. /\ c \in Calls /\ c.pc = "load" /\ c.part = i + 1 /\ c.raw = raw
        /\ c.job = call[t].job /\ c.step = call[t].step
    <3>1. ASSUME NEW n \in 1..5, NEW d, d = [call[t] EXCEPT !.part = n]
          PROVE  /\ d \in Calls /\ d.pc = "load" /\ d.part = n /\ d.raw = call[t].raw
                 /\ d.job = call[t].job /\ d.step = call[t].step
      BY <1>1, <3>1 DEF Calls
    <3> QED
      BY <2>2, <3>1
  <2>4. c.part <= Reach(Plan(c.job)[c.step])
    BY <2>2, <2>3 DEF Cmd
  <2>5. WellFormed(t, c)
    BY <1>1, <2>3, <2>4 DEF WellFormed, InCommand
  <2>6. /\ CallsAreWellFormed' /\ call'[t] = c
        /\ \A u \in Threads \ {t} : call'[u] = call[u]
    BY <2>1, <2>5, SetKeeps
  <2> QED
    BY <1>1, <1>3, <1>5, <2>3, <2>6
<1>7. CASE ~(i < Reach(Cmd(t)))
  <2> DEFINE c == [call[t] EXCEPT !.pc = "check", !.part = 1, !.raw = NoFrame]
  <2>1. call' = [call EXCEPT ![t] = c]
    BY <1>7 DEF Load
  <2>2. NoFrame \in Buffers
    BY FramesAreBuffers DEF NoFrame, Answers
  <2>3. /\ c \in Calls /\ c.pc = "check" /\ c.part = 1
        /\ c.job = call[t].job /\ c.step = call[t].step
    <3>1. PICK n \in 1..5 : n = 1
      OBVIOUS
    <3>2. PICK f \in Buffers : f = NoFrame
      BY <2>2
    <3>3. c = [call[t] EXCEPT !.pc = "check", !.part = n, !.raw = f]
      BY <3>1, <3>2
    <3> HIDE DEF c
    <3>4. /\ c \in Calls /\ c.pc = "check" /\ c.part = n
          /\ c.job = call[t].job /\ c.step = call[t].step
      BY <1>1, <3>3 DEF Calls
    <3> QED
      BY <3>1, <3>4
  <2>4. WellFormed(t, c)
    BY <1>1, <2>3 DEF WellFormed, InCommand
  <2>5. /\ CallsAreWellFormed' /\ call'[t] = c
        /\ \A u \in Threads \ {t} : call'[u] = call[u]
    BY <2>1, <2>4, SetKeeps
  <2>6. i = Reach(Cmd(t))
    BY <1>2, <1>3, <1>7
  <2> QED
    BY <1>1, <1>3, <1>5, <2>3, <2>5, <2>6
<1> QED
  BY <1>6, <1>7

(* The longrunner copies the uid and posts it; a request returns it.     *)
LEMMA CopiedSteps ==
    ASSUME CallsAreWellFormed, NEW t \in Threads, NEW tags \in SUBSET (Tags \cup {none}),
           call[t].pc \in {"copy", "more"}, Copied(t, tags)
    PROVE  /\ CallsAreWellFormed'
           /\ \A u \in Threads \ {t} : call'[u] = call[u]
           /\ t = reader => /\ call'[t].pc = "post" /\ call'[t].got = tags
                            /\ call'[t].job = call[t].job /\ call'[t].step = call[t].step
<1>1. call[t] \in Calls /\ WellFormed(t, call[t])
  BY DEF CallsAreWellFormed
<1>2. CASE t = loop
  <2>1. Fail(t)
    BY <1>2 DEF Copied, Fail, Restarted
  <2> QED
    BY <1>2, <2>1, FailKeeps
<1>3. CASE t = reader
  <2> DEFINE c == [call[t] EXCEPT !.pc = "post", !.got = tags]
  <2>1. call' = [call EXCEPT ![t] = c]
    BY <1>3 DEF Copied
  <2>2. /\ c \in Calls /\ c.pc = "post" /\ c.got = tags /\ c.part = call[t].part
        /\ c.job = call[t].job /\ c.step = call[t].step
    BY <1>1 DEF Calls
  <2>3. WellFormed(t, c)
    BY <1>1, <1>3, <2>2 DEF WellFormed, InCommand
  <2> QED
    BY <2>1, <2>2, <2>3, SetKeeps
<1> QED
  BY <1>2, <1>3 DEF Threads

(* The first byte of it, unless it is empty.                             *)
LEMMA CopyUidSteps ==
    ASSUME TypeOK, CallsAreWellFormed, NEW t \in Threads, CopyUid(t)
    PROVE  /\ CallsAreWellFormed' /\ call[t].pc = "copy"
           /\ \A u \in Threads \ {t} : call'[u] = call[u]
           /\ t = reader =>
                /\ call'[t].job = call[t].job /\ call'[t].step = call[t].step
                /\ \/ buf.first # none /\ call'[t].pc = "more" /\ call'[t].got = {buf.first}
                   \/ buf.first = none /\ call'[t].pc = "post" /\ call'[t].got = {none}
<1>1. call[t] \in Calls /\ WellFormed(t, call[t]) /\ call[t].pc = "copy"
  BY DEF CallsAreWellFormed, CopyUid
<1>2. CASE buf.first = none
  <2>1. Copied(t, {none}) /\ {none} \in SUBSET (Tags \cup {none})
    BY <1>2 DEF CopyUid
  <2> QED
    BY <1>1, <1>2, <2>1, CopiedSteps
<1>3. CASE buf.first # none
  <2> DEFINE c == [call[t] EXCEPT !.pc = "more", !.got = {buf.first}]
  <2>1. call' = [call EXCEPT ![t] = c]
    BY <1>3 DEF CopyUid
  <2>2. buf.first \in Tags \cup {none}
    BY DEF TypeOK, Buffers
  <2>3. /\ c \in Calls /\ c.pc = "more" /\ c.got = {buf.first} /\ c.part = call[t].part
        /\ c.job = call[t].job /\ c.step = call[t].step
    BY <1>1, <2>2 DEF Calls
  <2>4. WellFormed(t, c)
    BY <1>1, <2>3 DEF WellFormed, InCommand
  <2>5. /\ CallsAreWellFormed' /\ call'[t] = c
        /\ \A u \in Threads \ {t} : call'[u] = call[u]
    BY <2>1, <2>4, SetKeeps
  <2> QED
    BY <1>1, <1>3, <2>3, <2>5
<1> QED
  BY <1>2, <1>3

(* And the others, for as long as the buffer says there are any.         *)
LEMMA CopyMoreSteps ==
    ASSUME TypeOK, CallsAreWellFormed, NEW t \in Threads, CopyMore(t)
    PROVE  /\ CallsAreWellFormed' /\ call[t].pc = "more"
           /\ \A u \in Threads \ {t} : call'[u] = call[u]
           /\ t = reader =>
                /\ call'[t].job = call[t].job /\ call'[t].step = call[t].step
                /\ call'[t].pc = "post"
                /\ call'[t].got = call[t].got \cup
                                     {IF buf.first = none THEN none ELSE buf.rest}
<1> DEFINE tags == call[t].got \cup {IF buf.first = none THEN none ELSE buf.rest}
<1>1. call[t] \in Calls /\ call[t].pc = "more" /\ buf \in Buffers
  BY DEF CallsAreWellFormed, CopyMore, TypeOK
<1>2. tags \in SUBSET (Tags \cup {none})
  BY <1>1 DEF Calls, Buffers
<1>3. Copied(t, tags)
  BY DEF CopyMore
<1> HIDE DEF tags
<1>4. /\ CallsAreWellFormed'
      /\ \A u \in Threads \ {t} : call'[u] = call[u]
      /\ t = reader => /\ call'[t].pc = "post" /\ call'[t].got = tags
                       /\ call'[t].job = call[t].job /\ call'[t].step = call[t].step
  BY <1>1, <1>2, <1>3, CopiedSteps
<1> QED
  BY <1>1, <1>4 DEF tags

(* Every step of a thread keeps the calls well formed.                   *)
LEMMA StepKeepsCalls ==
    ASSUME TypeOK, CallsAreWellFormed, NEW t \in Threads, Step(t)
    PROVE  CallsAreWellFormed'
<1>1. call[t] \in Calls /\ WellFormed(t, call[t])
  BY DEF CallsAreWellFormed
<1>2. CASE OpenBus(t)
  <2>1. CASE Fail(t)
    BY <2>1, FailKeeps
  <2>2. CASE call' = [call EXCEPT ![t].pc = "address"]
    BY <1>2, <2>2, MoveKeeps DEF OpenBus
  <2> QED
    BY <1>2, <2>1, <2>2 DEF OpenBus
<1>3. CASE SetAddress(t)
  <2>1. CASE Fail(t)
    BY <2>1, FailKeeps
  <2>2. CASE Succeed(t)
    BY <1>3, <2>2, SucceedKeeps DEF SetAddress
  <2>3. CASE Plan(call[t].job) # <<>> /\ call' = [call EXCEPT ![t].pc = "fill"]
    <3>1. call[t].job \in {"boot", "init"} /\ call[t].step = 1
      BY <1>1, <1>3 DEF WellFormed, SetAddress
    <3>2. Plan("init") = <<>>
      BY DEF Plan
    <3>3. call[t].job = "boot"
      BY <2>3, <3>1, <3>2
    <3>4. Plan(call[t].job) = Plan("boot")
      BY <3>3
    <3>5. Len(Plan(call[t].job)) = 1
      BY <3>4, PlanLengths
    <3>6. call[t].step <= Len(Plan(call[t].job)) /\ call[t].job # "none"
      <4>1. call[t].step <= Len(Plan(call[t].job))
        BY <3>1, <3>5
      <4>2. call[t].job # "none"
        BY <3>3
      <4> QED
        BY <4>1, <4>2
    <3>7. call' = [call EXCEPT ![t].pc = "fill"]
      BY <2>3
    <3> QED
      BY <1>3, <3>6, <3>7, MoveKeeps DEF SetAddress
  <2> QED
    BY <1>3, <2>1, <2>2, <2>3 DEF SetAddress
<1>4. ASSUME call[t].pc \in InCommand
      PROVE  call[t].step <= Len(Plan(call[t].job)) /\ call[t].job # "none"
  BY <1>1, <1>4 DEF WellFormed, InCommand
<1>5. CASE Fill(t)
  BY <1>4, <1>5, MoveKeeps DEF Fill, InCommand
<1>6. CASE Send(t)
  BY <1>4, <1>6, MoveKeeps DEF Send, InCommand
<1>7. CASE ReadAck(t)
  <2>1. CASE Fail(t)
    BY <2>1, FailKeeps
  <2>2. CASE call' = [call EXCEPT ![t].pc = "read"]
    BY <1>4, <1>7, <2>2, MoveKeeps DEF ReadAck, InCommand
  <2> QED
    BY <1>7, <2>1, <2>2 DEF ReadAck
<1>8. CASE ReadData(t)
  BY <1>8, ReadDataSteps
<1>9. CASE GiveUp(t)
  BY <1>9, FailKeeps DEF GiveUp
<1>10. CASE Check(t)
  <2>1. CASE Fail(t)
    BY <2>1, FailKeeps
  <2>2. CASE Succeed(t)
    BY <1>10, <2>2, SucceedKeeps DEF Check
  <2>3. CASE Cmd(t) = "LIST" /\ call' = [call EXCEPT ![t].pc = "copy"]
    BY <1>4, <1>10, <2>3, MoveKeeps DEF Check, InCommand
  <2> QED
    BY <1>10, <2>1, <2>2, <2>3 DEF Check
<1>11. CASE Load(t)
  BY <1>11, LoadSteps
<1>12. CASE CopyUid(t)
  BY <1>12, CopyUidSteps
<1>13. CASE CopyMore(t)
  BY <1>13, CopyMoreSteps
<1> QED
  BY <1>2, <1>3, <1>5, <1>6, <1>7, <1>8, <1>9, <1>10, <1>11, <1>12, <1>13 DEF Step

(* The variables other than the calls.                                     *)
DataTypes ==
    /\ field \in Tags \cup {none}
    /\ seen \subseteq Tags /\ met \subseteq Requested
    /\ chip \in [state : {"idle", "received", "ack", "working", "answer"},
                 cmd : Commands \cup {"other"}, uid : Tags \cup {none}]
    /\ bus \in {"closed", "dead", "ready"}
    /\ buf \in Buffers
    /\ requests \in 0..MaxRequests /\ faults \in 0..MaxFaults

(* Besides the calls the type invariant is about the data.               *)
LEMMA TypesSplit == CallsAreWellFormed => (TypeOK <=> DataTypes)
  BY CallTypes DEF TypeOK, DataTypes, Calls

(* The number of faults stays within its bound.                          *)
LEMMA FaultTypes ==
    ASSUME faults \in 0..MaxFaults, Fault \/ NoFault PROVE faults' \in 0..MaxFaults
  BY DEF Fault, NoFault

(* What the chip becomes when it is read and when it is written.         *)
LEMMA ChipSteps ==
    ASSUME DataTypes
    PROVE  /\ Taken => /\ chip'.uid = chip.uid
                       /\ chip' \in [state : {"idle", "received", "ack", "working", "answer"},
                                     cmd : Commands \cup {"other"}, uid : Tags \cup {none}]
           /\ \A c \in Commands \cup {"other"} : Receives(c) =>
                       /\ chip'.uid = none
                       /\ chip' \in [state : {"idle", "received", "ack", "working", "answer"},
                                     cmd : Commands \cup {"other"}, uid : Tags \cup {none}]
  BY DEF DataTypes, Taken, Receives

(* Every step of a thread keeps the data in their types.                 *)
LEMMA StepKeepsData ==
    ASSUME TypeOK, CallsAreWellFormed, NEW t \in Threads, Step(t) PROVE DataTypes'
<1>1. DataTypes
  BY TypesSplit
<1>2. CASE OpenBus(t)
  BY <1>1, <1>2, FaultTypes DEF DataTypes, OpenBus
<1>3. CASE SetAddress(t)
  BY <1>1, <1>3, FaultTypes DEF DataTypes, SetAddress
<1>4. CASE Fill(t)
  <2>1. Cmd(t) \in Commands
    BY <1>4, CmdTypes DEF Fill, InCommand
  <2>2. seen' \subseteq Tags /\ met' \subseteq Requested
    BY <1>1, <1>4 DEF DataTypes, Fill
  <2>3. buf' \in Buffers
    BY <1>1, <1>4, <2>1 DEF DataTypes, Fill, Buffers
  <2> QED
    BY <1>1, <1>4, <2>2, <2>3 DEF DataTypes, Fill
<1>5. CASE Send(t)
  <2>1. buf.head \in Commands \cup {"frame"}
    BY <1>1 DEF DataTypes, Buffers
  <2>2. chip' = chip \/ \E c \in Commands \cup {"other"} : Receives(c)
    BY <1>5, <2>1 DEF Send
  <2>3. DataTypes' \/ chip' = chip
    BY <1>1, <1>5, <2>2, ChipSteps, FaultTypes DEF DataTypes, Send
  <2> QED
    BY <1>1, <1>5, <2>3, FaultTypes DEF DataTypes, Send
<1>6. CASE ReadAck(t)
  BY <1>1, <1>6, ChipSteps DEF DataTypes, ReadAck
<1>7. CASE ReadData(t)
  BY <1>1, <1>7, ChipSteps DEF DataTypes, ReadData
<1>8. CASE GiveUp(t)
  BY <1>1, <1>8, FaultTypes DEF DataTypes, GiveUp
<1>9. CASE Check(t)
  BY <1>1, <1>9 DEF DataTypes, Check
<1>10. CASE Load(t)
  <2>1. buf' \in Buffers
    BY <1>10, LoadSteps
  <2> QED
    BY <1>1, <1>10, <2>1 DEF DataTypes, Load
<1>11. CASE CopyUid(t) \/ CopyMore(t)
  BY <1>1, <1>11 DEF DataTypes, CopyUid, CopyMore
<1> QED
  BY <1>2, <1>3, <1>4, <1>5, <1>6, <1>7, <1>8, <1>9, <1>10, <1>11 DEF Step
-----------------------------------------------------------------------------
(* Freshness.                                                              *)

(* Nothing is claimed of a longrunner that is not past the start of LIST.  *)
LEMMA ResetIsFresh ==
    ASSUME CallsAreWellFormed', OnlyAnswersCarryTags',
           call'[reader].pc = "fill" \/ call'[reader].job = "none"
    PROVE  Freshness'
<1>1. CASE call'[reader].pc = "fill"
  BY <1>1 DEF Freshness, FieldIsSeen, ChipIsFresh, RawIsFresh, Apart, BufferIsFresh,
              OnlyTagRequestsMixTags
<1>2. CASE call'[reader].job = "none"
  <2>1. call'[reader].pc = "idle" /\ call'[reader].job # "scan"
    BY <1>2 DEF CallsAreWellFormed, WellFormed, Threads
  <2> QED
    BY <2>1 DEF Freshness, FieldIsSeen, ChipIsFresh, RawIsFresh, Apart, BufferIsFresh,
                OnlyTagRequestsMixTags, Listing
<1> QED
  BY <1>1, <1>2

(* The longrunner always begins anew with a command.                     *)
LEMMA RestartedReader == Restarted(reader).pc = "fill" /\ Begin("scan").pc = "fill"
  BY NewCalls DEF Restarted, Jobs

(* What a step of a thread does to the chip and the histories.           *)
LEMMA StepMovesTags ==
    ASSUME TypeOK, CallsAreWellFormed, OnlyAnswersCarryTags, NEW t \in Threads, Step(t)
    PROVE  /\ OnlyAnswersCarryTags'
           /\ field' = field
           /\ chip'.uid \in {chip.uid, none}
           /\ t = loop => seen' = seen /\ met' = met
<1>1. DataTypes
  BY TypesSplit
<1>2. CASE OpenBus(t) \/ SetAddress(t) \/ GiveUp(t) \/ Load(t) \/ Check(t)
           \/ CopyUid(t) \/ CopyMore(t)
  BY <1>2 DEF OpenBus, SetAddress, GiveUp, Load, Check, CopyUid, CopyMore,
              OnlyAnswersCarryTags
<1>3. CASE Fill(t)
  BY <1>1, <1>3 DEF Fill, OnlyAnswersCarryTags, DataTypes
<1>4. CASE Send(t)
  <2>1. buf.head \in Commands \cup {"frame"}
    BY <1>1 DEF DataTypes, Buffers
  <2>2. chip' = chip \/ \E c \in Commands \cup {"other"} : Receives(c)
    BY <1>4, <2>1 DEF Send
  <2>3. chip' = chip \/ chip'.uid = none
    BY <1>1, <2>2, ChipSteps
  <2> QED
    BY <1>4, <2>3 DEF Send, OnlyAnswersCarryTags
<1>5. ASSUME Taken, Ready PROVE OnlyAnswersCarryTags'
  BY <1>1, <1>5 DEF Taken, Ready, OnlyAnswersCarryTags, DataTypes
<1>6. CASE ReadAck(t)
  BY <1>1, <1>5, <1>6, ChipSteps DEF ReadAck
<1>7. CASE ReadData(t)
  BY <1>1, <1>5, <1>7, ChipSteps DEF ReadData
<1> QED
  BY <1>2, <1>3, <1>4, <1>6, <1>7 DEF Step

(* Only a copy of a frame changes what is read of an answer.             *)
LEMMA StepKeepsAnswer ==
    ASSUME TypeOK, NEW t \in Threads, Step(t), ~Load(t)
    PROVE  buf'.seven = buf.seven /\ buf'.first = buf.first /\ buf'.rest = buf.rest
<1>1. CASE Fill(t)
  BY <1>1 DEF Fill, TypeOK, Buffers
<1>2. CASE UNCHANGED buf
  BY <1>2
<1> QED
  BY <1>1, <1>2 DEF Step, OpenBus, SetAddress, Send, ReadAck, ReadData, GiveUp, Check,
                    CopyUid, CopyMore

(* A copy of the event loop does not reach the uid, but for a tag.       *)
LEMMA LoopKeepsUid ==
    ASSUME TypeOK, CallsAreWellFormed, Step(loop), call[loop].job # "taguid"
    PROVE  buf'.first = buf.first /\ buf'.rest = buf.rest
<1>1. CASE ~Load(loop)
  BY <1>1, StepKeepsAnswer DEF Threads
<1>2. CASE Load(loop)
  <2>1. /\ call[loop] \in Calls /\ WellFormed(loop, call[loop])
        /\ call[loop].pc = "load"
    BY <1>2 DEF CallsAreWellFormed, Threads, Load
  <2>2. call[loop].job \in {"boot", "version", "init"}
    BY <2>1 DEF WellFormed, Calls, Jobs, Requested
  <2>3. call[loop].step <= Len(Plan(call[loop].job)) /\ call[loop].step \in 1..3
    BY <2>1 DEF WellFormed, InCommand, Calls
  <2>4. Cmd(loop) = "FW"
    <3>1. CASE call[loop].job = "init"
      <4>1. Len(Plan(call[loop].job)) = 0
        BY <3>1, PlanLengths
      <4> QED
        BY <2>3, <4>1
    <3>2. CASE call[loop].job # "init"
      <4>1. Plan(call[loop].job) = <<"FW">>
        BY <2>2, <3>2 DEF Plan
      <4>2. call[loop].step = 1
        BY <2>3, <4>1
      <4> QED
        BY <4>1, <4>2 DEF Cmd
    <3> QED
      BY <3>1, <3>2
  <2>5. Reach(Cmd(loop)) = 3
    BY <2>4 DEF Reach
  <2>6. call[loop].part \in 1..3
    BY <1>2, <2>1, <2>5, LoadSteps DEF Threads, Calls
  <2> QED
    BY <1>2, <2>6, LoadSteps DEF Threads
<1> QED
  BY <1>1, <1>2

(* The event loop leaves the longrunner where it is, or starts it.       *)
LEMMA LoopSteps ==
    ASSUME TypeOK, CallsAreWellFormed, Step(loop)
    PROVE  /\ \/ call'[reader] = call[reader]
              \/ call'[reader].pc = "fill" /\ call'[loop].job = "none"
           /\ call'[loop].job \in {call[loop].job, "none"}
<1>1. /\ call \in [Threads -> Calls] /\ call[loop] \in Calls
      /\ reader \in Threads /\ loop \in Threads /\ reader # loop
  BY DEF CallsAreWellFormed, Threads
<1>2. CASE Fail(loop)
  BY <1>1, <1>2, NewCalls DEF Fail, Restarted
<1>3. CASE Succeed(loop)
  <2>1. CASE GoesOn(call[loop])
    <3>1. call' = [call EXCEPT ![loop].step = @ + 1, ![loop].pc = "fill"]
      BY <1>3, <2>1 DEF Succeed
    <3>2. call'[loop].job = call[loop].job /\ call'[reader] = call[reader]
      BY <1>1, <3>1 DEF Calls
    <3> QED
      BY <3>2
  <2>2. CASE ~GoesOn(call[loop]) /\ call[loop].job = "boot"
    <3>1. call' = [call EXCEPT ![loop] = NoCall, ![reader] = Begin("scan")]
      BY <1>3, <2>2 DEF Succeed
    <3>2. call'[loop] = NoCall /\ call'[reader] = Begin("scan")
      BY <1>1, <3>1
    <3> QED
      BY <3>2, NewCalls, RestartedReader
  <2>3. CASE ~GoesOn(call[loop]) /\ call[loop].job # "boot"
    <3>1. call' = [call EXCEPT ![loop] = NoCall]
      BY <1>1, <1>3, <2>3 DEF Succeed, Restarted
    <3> QED
      BY <1>1, <3>1, NewCalls
  <2> QED
    BY <2>1, <2>2, <2>3
<1>4. CASE \E p : call' = [call EXCEPT ![loop].pc = p]
  BY <1>1, <1>4 DEF Calls
<1>5. CASE Load(loop) \/ ReadData(loop)
  BY <1>1, <1>5, LoadSteps, ReadDataSteps
<1>6. CASE \E tags : call' = [call EXCEPT ![loop].pc = "more", ![loop].got = tags]
  BY <1>1, <1>6 DEF Calls
<1>7. CASE \E tags : Copied(loop, tags)
  BY <1>1, <1>7, NewCalls DEF Copied
<1> QED
  BY <1>2, <1>3, <1>4, <1>5, <1>6, <1>7
     DEF Step, OpenBus, SetAddress, Fill, Send, ReadAck, GiveUp, Check, CopyUid, CopyMore

(* The longrunner leaves the event loop where it is.                     *)
LEMMA ReaderSteps ==
    ASSUME TypeOK, CallsAreWellFormed, Step(reader) PROVE call'[loop] = call[loop]
<1>1. /\ call \in [Threads -> Calls] /\ reader \in Threads /\ loop \in Threads
      /\ reader # loop /\ WellFormed(reader, call[reader])
  BY DEF CallsAreWellFormed, Threads
<1>2. CASE Fail(reader)
  BY <1>1, <1>2 DEF Fail
<1>3. CASE Succeed(reader)
  BY <1>1, <1>3 DEF Succeed, WellFormed
<1>4. CASE \E p : call' = [call EXCEPT ![reader].pc = p]
  BY <1>1, <1>4
<1>5. CASE Load(reader) \/ ReadData(reader)
  BY <1>1, <1>5, LoadSteps, ReadDataSteps
<1>6. CASE CopyUid(reader) \/ CopyMore(reader)
  BY <1>1, <1>6, CopyUidSteps, CopyMoreSteps
<1> QED
  BY <1>2, <1>3, <1>4, <1>5, <1>6
     DEF Step, OpenBus, SetAddress, Fill, Send, ReadAck, GiveUp, Check

(* A step of the event loop brings no tag to the longrunner, unless it is  *)
(* of a request for one.                                                   *)
LEMMA LoopKeepsFresh ==
    ASSUME IInv, Step(loop) PROVE Freshness'
<1>1. /\ CallsAreWellFormed' /\ OnlyAnswersCarryTags'
      /\ field' = field /\ seen' = seen /\ met' = met
      /\ chip'.uid \in {chip.uid, none}
  BY StepKeepsCalls, StepMovesTags DEF IInv, Freshness, Threads
<1>2. /\ call'[reader] = call[reader] \/ call'[reader].pc = "fill"
      /\ call'[loop].job \in {call[loop].job, "none"}
  BY LoopSteps DEF IInv
<1>3. CASE call'[reader].pc = "fill"
  BY <1>1, <1>3, ResetIsFresh
<1>4. CASE call'[reader] = call[reader] /\ call'[reader].pc # "fill"
  <2>1. FieldIsSeen' /\ ChipIsFresh' /\ RawIsFresh' /\ OnlyTagRequestsMixTags'
    BY <1>1, <1>4
       DEF IInv, Freshness, FieldIsSeen, ChipIsFresh, RawIsFresh, OnlyTagRequestsMixTags,
           Posted, Listing, Fresh
  <2>2. Apart'
    BY <1>1, <1>2, <1>4 DEF IInv, Freshness, Apart, Listing
  <2>3. BufferIsFresh'
    <3>1. CASE Listing /\ "taguid" \notin met
      <4>1. buf'.first = buf.first /\ buf'.rest = buf.rest
        BY <1>4, <3>1, LoopKeepsUid DEF IInv, Freshness, Apart
      <4> QED
        BY <1>1, <1>4, <4>1 DEF IInv, Freshness, BufferIsFresh, Listing, Fresh
    <3>2. CASE ~(Listing /\ "taguid" \notin met)
      BY <1>1, <1>4, <3>2 DEF BufferIsFresh, Listing
    <3> QED
      BY <3>1, <3>2
  <2> QED
    BY <1>1, <2>1, <2>2, <2>3 DEF Freshness
<1> QED
  BY <1>2, <1>3, <1>4

(* Of a step of the longrunner only what it touches need be looked at.   *)
LEMMA ReaderStays ==
    ASSUME IInv, Step(reader), Listing' <=> Listing, seen' = seen, met' = met,
           call[reader].pc # "fill", ChipIsFresh', RawIsFresh', BufferIsFresh',
           OnlyTagRequestsMixTags'
    PROVE  Freshness'
<1>1. OnlyAnswersCarryTags' /\ field' = field
  BY StepMovesTags DEF IInv, Freshness, Threads
<1>2. call'[loop] = call[loop]
  BY ReaderSteps DEF IInv
<1>3. FieldIsSeen' /\ Apart'
  BY <1>1, <1>2 DEF IInv, Freshness, FieldIsSeen, Apart, Fresh
<1> QED
  BY <1>1, <1>3 DEF Freshness

(* A step of the longrunner is given no tag from before it asked.        *)
LEMMA ReaderKeepsFresh ==
    ASSUME IInv, Step(reader) PROVE Freshness'
<1>1. /\ CallsAreWellFormed' /\ OnlyAnswersCarryTags'
      /\ field' = field
      /\ chip'.uid \in {chip.uid, none}
  BY StepKeepsCalls, StepMovesTags DEF IInv, Freshness, Threads
<1>2. /\ call \in [Threads -> Calls] /\ call[reader] \in Calls /\ reader \in Threads
      /\ WellFormed(reader, call[reader])
  BY DEF IInv, CallsAreWellFormed, Threads
<1>0. ASSUME call[reader].pc \in InCommand
      PROVE  /\ call[reader].job = "scan"
             /\ Cmd(reader) = "LIST" <=> Listing
             /\ Cmd(reader) \in Commands
  BY <1>0, <1>2, CmdTypes DEF IInv
<1>3. CASE call'[reader].pc = "fill"
  BY <1>1, <1>3, ResetIsFresh
<1>4. CASE Fail(reader)
  BY <1>2, <1>3, <1>4, RestartedReader DEF Fail
<1>5. CASE OpenBus(reader) \/ SetAddress(reader)
  BY <1>2, <1>5 DEF OpenBus, SetAddress, WellFormed
<1>6. CASE Fill(reader)
  <2>1. /\ call'[reader].pc = "send" /\ (Listing' <=> Listing)
        /\ call'[loop] = call[loop]
    BY <1>2, <1>6, ReaderSteps DEF Fill, Listing, Calls, IInv
  <2>2. Listing => seen' = {field} \ {none} /\ met' = {call[loop].job} \cap Requested
    BY <1>0, <1>6 DEF Fill, InCommand
  <2>3. Apart'
    BY <2>1, <2>2 DEF Apart, Requested
  <2> QED
    BY <1>1, <2>1, <2>2, <2>3
       DEF Freshness, FieldIsSeen, ChipIsFresh, RawIsFresh, BufferIsFresh,
           OnlyTagRequestsMixTags, Fresh
<1>7. CASE Send(reader)
  <2>1. /\ call'[reader].pc = "ack" /\ (Listing' <=> Listing) /\ seen' = seen
        /\ met' = met /\ call[reader].pc # "fill"
    BY <1>2, <1>7 DEF Send, Listing, Calls
  <2> QED
    BY <2>1, ReaderStays
       DEF ChipIsFresh, RawIsFresh, BufferIsFresh, OnlyTagRequestsMixTags
<1>8. CASE ReadAck(reader) /\ Frame = "ack"
  <2>1. /\ call'[reader].pc = "read" /\ (Listing' <=> Listing) /\ seen' = seen
        /\ met' = met /\ call[reader].pc # "fill"
    BY <1>2, <1>8 DEF ReadAck, Listing, Calls
  <2>2. chip.state = "ack"
    BY <1>8 DEF IInv, TypeOK, ReadAck, Frame, Commands
  <2>3. chip'.uid = none
    BY <1>1, <2>2 DEF IInv, Freshness, OnlyAnswersCarryTags
  <2> QED
    BY <2>1, <2>3, ReaderStays
       DEF ChipIsFresh, RawIsFresh, BufferIsFresh, OnlyTagRequestsMixTags, Fresh
<1>9. CASE ReadData(reader)
  <2>1. /\ call'[reader].pc = "load" /\ call'[reader].part = 1
        /\ call'[reader].job = call[reader].job /\ call'[reader].step = call[reader].step
        /\ call'[reader].raw.first \in {chip.uid, none}
        /\ call'[reader].raw.rest = call'[reader].raw.first
    BY <1>2, <1>9, ReadDataSteps DEF IInv
  <2>2. seen' = seen /\ met' = met /\ call[reader].pc = "read" /\ (Listing' <=> Listing)
    BY <1>9, <2>1 DEF ReadData, Listing
  <2>3. RawIsFresh'
    BY <2>1, <2>2 DEF IInv, Freshness, ChipIsFresh, RawIsFresh, Fresh
  <2> QED
    BY <2>1, <2>2, <2>3, ReaderStays
       DEF ChipIsFresh, BufferIsFresh, OnlyTagRequestsMixTags
<1>10. CASE Load(reader)
  <2>1. /\ call'[reader].job = call[reader].job /\ call'[reader].step = call[reader].step
        /\ buf'.first = IF call[reader].part = 4 THEN call[reader].raw.first ELSE buf.first
        /\ buf'.rest = IF call[reader].part = 5 THEN call[reader].raw.rest ELSE buf.rest
        /\ \/ /\ call'[reader].pc = "load" /\ call'[reader].raw = call[reader].raw
              /\ call'[reader].part = call[reader].part + 1
           \/ /\ call'[reader].pc = "check"
              /\ call[reader].part = Reach(Cmd(reader))
        /\ call[reader].pc = "load"
    BY <1>2, <1>10, LoadSteps DEF IInv
  <2>2. seen' = seen /\ met' = met /\ (Listing' <=> Listing)
    BY <1>10, <2>1 DEF Load, Listing
  <2>3. Listing => Reach(Cmd(reader)) = 5
    BY <1>0, <2>1 DEF InCommand, Reach
  <2>4. RawIsFresh'
    BY <2>1, <2>2 DEF IInv, Freshness, RawIsFresh, Fresh
  <2>5. call[reader].part \in 1..5
    BY <1>2 DEF Calls
  <2>6. BufferIsFresh'
    <3>1. CASE call'[reader].pc = "load" /\ call'[reader].part = call[reader].part + 1
      <4>1. call'[reader].part = 5 => call[reader].part = 4
        BY <2>5, <3>1
      <4> QED
        BY <2>1, <3>1, <4>1 DEF BufferIsFresh
    <3>2. CASE call'[reader].pc = "check"
      BY <2>1, <2>2, <2>3, <3>2
         DEF IInv, Freshness, RawIsFresh, BufferIsFresh, Fresh
    <3> QED
      BY <2>1, <3>1, <3>2
  <2> QED
    BY <2>1, <2>2, <2>4, <2>6, ReaderStays DEF ChipIsFresh, OnlyTagRequestsMixTags
<1>11. CASE Check(reader) /\ call' = [call EXCEPT ![reader].pc = "copy"]
  <2>1. /\ call'[reader].pc = "copy" /\ (Listing' <=> Listing) /\ seen' = seen
        /\ met' = met /\ call[reader].pc = "check" /\ buf' = buf
    BY <1>2, <1>11 DEF Check, Listing, Calls
  <2>2. BufferIsFresh'
    BY <2>1 DEF IInv, Freshness, BufferIsFresh, Fresh
  <2> QED
    BY <2>1, <2>2, ReaderStays DEF ChipIsFresh, RawIsFresh, OnlyTagRequestsMixTags
<1>12. CASE Succeed(reader) /\ call[reader].pc = "check"
  <2>1. call'[reader].pc = "fill" \/ call'[reader] = call[reader]
    BY <1>12, SucceedKeeps, RestartedReader DEF IInv, Threads
  <2>2. call'[reader] # call[reader]
    <3>1. CASE GoesOn(call[reader])
      BY <1>2, <1>12, <3>1 DEF Succeed, Calls
    <3>2. CASE ~GoesOn(call[reader])
      BY <1>2, <1>12, <3>2, RestartedReader DEF Succeed, WellFormed
    <3> QED
      BY <3>1, <3>2
  <2> QED
    BY <1>3, <2>1, <2>2
<1>13. CASE CopyUid(reader)
  <2>1. /\ call'[reader].job = call[reader].job /\ call'[reader].step = call[reader].step
        /\ \/ /\ buf.first # none /\ call'[reader].pc = "more"
              /\ call'[reader].got = {buf.first}
           \/ /\ buf.first = none /\ call'[reader].pc = "post"
              /\ call'[reader].got = {none}
        /\ call[reader].pc = "copy"
    BY <1>2, <1>13, CopyUidSteps DEF IInv
  <2>2. seen' = seen /\ met' = met /\ buf' = buf /\ (Listing' <=> Listing)
    BY <1>13, <2>1 DEF CopyUid, Listing
  <2>3. BufferIsFresh'
    BY <2>1, <2>2 DEF IInv, Freshness, BufferIsFresh, Fresh
  <2>4. OnlyTagRequestsMixTags'
    BY <2>1, <2>2 DEF OnlyTagRequestsMixTags, Posted
  <2> QED
    BY <2>1, <2>2, <2>3, <2>4, ReaderStays DEF ChipIsFresh, RawIsFresh
<1>14. CASE CopyMore(reader)
  <2>1. /\ call'[reader].job = call[reader].job /\ call'[reader].step = call[reader].step
        /\ call'[reader].pc = "post" /\ call[reader].pc = "more"
        /\ call'[reader].got = call[reader].got \cup
                                  {IF buf.first = none THEN none ELSE buf.rest}
    BY <1>2, <1>14, CopyMoreSteps DEF IInv
  <2>2. seen' = seen /\ met' = met /\ buf' = buf /\ (Listing' <=> Listing)
    BY <1>14, <2>1 DEF CopyMore, Listing
  <2>3. Listing
    BY <1>0, <1>2, <2>1 DEF WellFormed, Cmd, InCommand
  <2>4. OnlyTagRequestsMixTags'
    <3>1. ASSUME "taguid" \notin met
          PROVE  call'[reader].got = {buf.first} /\ buf.first \in seen \cup {none}
      BY <2>1, <2>3, <3>1 DEF IInv, Freshness, BufferIsFresh, Fresh
    <3> QED
      BY <2>2, <3>1 DEF OnlyTagRequestsMixTags, Posted
  <2> QED
    BY <2>1, <2>2, <2>4, ReaderStays DEF ChipIsFresh, RawIsFresh, BufferIsFresh
<1> QED
  BY <1>4, <1>5, <1>6, <1>7, <1>8, <1>9, <1>10, <1>11, <1>12, <1>13, <1>14
     DEF Step, ReadAck, GiveUp, Check
-----------------------------------------------------------------------------
(* The invariant.                                                          *)

(* At the start nobody has asked.                                        *)
LEMMA InitIInv == Init => IInv
<1> SUFFICES ASSUME Init PROVE IInv
  OBVIOUS
<1>1. call[loop] = Begin("boot") /\ call[reader] = NoCall
  BY DEF Init, Threads
<1>2. call \in [Threads -> Calls]
  BY NewCalls DEF Init, Threads, Jobs
<1>3. \A t \in Threads : WellFormed(t, call[t])
  BY <1>1, NewCallsWellFormed DEF Threads, Jobs
<1>4. CallsAreWellFormed
  BY <1>2, <1>3 DEF CallsAreWellFormed
<1>5. DataTypes
  <2>1. NoFrame \in Buffers
    BY FramesAreBuffers DEF NoFrame, Answers
  <2> QED
    BY <2>1 DEF Init, DataTypes, Commands
<1>6. OnlyAnswersCarryTags
  BY DEF Init, OnlyAnswersCarryTags
<1>7. /\ FieldIsSeen /\ ChipIsFresh /\ RawIsFresh /\ Apart /\ BufferIsFresh
      /\ OnlyTagRequestsMixTags
  BY <1>1, NewCalls DEF FieldIsSeen, ChipIsFresh, RawIsFresh, Apart, BufferIsFresh,
                        OnlyTagRequestsMixTags, Listing
<1> QED
  BY <1>4, <1>5, <1>6, <1>7, TypesSplit DEF IInv, Freshness

(* Every step of threads, chip and tags preserves the invariant.         *)
LEMMA NextIInv == IInv /\ [Next]_vars => IInv'
<1> SUFFICES ASSUME IInv, [Next]_vars PROVE IInv'
  OBVIOUS
<1> USE DEF IInv
<1>0. DataTypes /\ Freshness /\ CallsAreWellFormed
  BY TypesSplit
<1>1. ASSUME DataTypes', CallsAreWellFormed', Freshness' PROVE IInv'
  <2>1. /\ call' \in [Threads -> Calls]
        /\ \A t \in Threads : call'[t].step = 1 \/ call'[t].step <= Len(Plan(call'[t].job))
    BY <1>1 DEF CallsAreWellFormed, WellFormed
  <2> QED
    BY <1>1, <2>1 DEF TypeOK, DataTypes, Calls
<1>2. CASE UNCHANGED vars
  <2>1. DataTypes' /\ CallsAreWellFormed'
    BY <1>0, <1>2 DEF vars, DataTypes, CallsAreWellFormed, WellFormed
  <2>2. Freshness'
    BY <1>0, <1>2 DEF vars, Freshness, OnlyAnswersCarryTags, FieldIsSeen, ChipIsFresh,
                      RawIsFresh, Apart, BufferIsFresh, OnlyTagRequestsMixTags, Posted,
                      Listing, Fresh
  <2> QED
    BY <1>1, <2>1, <2>2
<1>3. ASSUME UNCHANGED call PROVE CallsAreWellFormed'
  BY <1>0, <1>3 DEF CallsAreWellFormed, WellFormed
<1>4. CASE MoveTag
  <2>1. DataTypes'
    BY <1>0, <1>4 DEF MoveTag, DataTypes
  <2>2. Freshness'
    BY <1>0, <1>4
       DEF MoveTag, Freshness, OnlyAnswersCarryTags, FieldIsSeen, ChipIsFresh,
           RawIsFresh, Apart, BufferIsFresh, OnlyTagRequestsMixTags, Posted, Listing, Fresh
  <2> QED
    BY <1>1, <1>3, <1>4, <2>1, <2>2 DEF MoveTag
<1>5. CASE Acknowledge
  <2>1. DataTypes' /\ chip'.uid = chip.uid /\ chip.state = "received"
    BY <1>0, <1>5 DEF Acknowledge, DataTypes
  <2>2. Freshness'
    BY <1>0, <1>5, <2>1
       DEF Acknowledge, Freshness, OnlyAnswersCarryTags, FieldIsSeen, ChipIsFresh,
           RawIsFresh, Apart, BufferIsFresh, OnlyTagRequestsMixTags, Posted, Listing, Fresh
  <2> QED
    BY <1>1, <1>3, <1>5, <2>1, <2>2 DEF Acknowledge
<1>6. CASE Answer
  <2>1. DataTypes' /\ chip'.uid \in {field, none} /\ chip'.state = "answer"
    BY <1>0, <1>6 DEF Answer, DataTypes
  <2>2. Freshness'
    BY <1>0, <1>6, <2>1
       DEF Answer, Freshness, OnlyAnswersCarryTags, FieldIsSeen, ChipIsFresh,
           RawIsFresh, Apart, BufferIsFresh, OnlyTagRequestsMixTags, Posted, Listing, Fresh
  <2> QED
    BY <1>1, <1>3, <1>6, <2>1, <2>2 DEF Answer
<1>7. ASSUME NEW t \in Threads, Step(t) PROVE IInv'
  BY <1>1, <1>7, StepKeepsData, StepKeepsCalls, LoopKeepsFresh, ReaderKeepsFresh DEF Threads
<1>8. CASE Post
  <2>1. DataTypes' /\ OnlyAnswersCarryTags'
    BY <1>0, <1>8 DEF Post, DataTypes, Freshness, OnlyAnswersCarryTags
  <2>2. Fail(reader)
    BY <1>8 DEF Post, Fail, Restarted
  <2>3. CallsAreWellFormed' /\ call'[reader].pc = "fill"
    BY <1>0, <2>2, FailKeeps, RestartedReader DEF Threads
  <2> QED
    BY <1>1, <2>1, <2>3, ResetIsFresh
<1>9. ASSUME NEW job \in Requested, Request(job) PROVE IInv'
  <2>1. DataTypes'
    BY <1>0, <1>9 DEF Request, DataTypes
  <2>2. Begin(job) \in Calls /\ WellFormed(loop, Begin(job))
    BY NewCalls, NewCallsWellFormed DEF Jobs, Requested
  <2>3. /\ call' \in [Threads -> Calls] /\ call'[loop] = Begin(job)
        /\ call'[reader] = call[reader]
    BY <1>0, <1>9, <2>2 DEF Request, CallsAreWellFormed, Threads
  <2>4. CallsAreWellFormed'
    BY <1>0, <2>2, <2>3 DEF CallsAreWellFormed, WellFormed, Threads
  <2>5. Apart'
    <3>1. call'[loop].job = job
      BY <2>3, NewCalls DEF Jobs
    <3> QED
      BY <1>9, <3>1 DEF Request, Apart
  <2>6. met \subseteq met' /\ seen' = seen
    BY <1>9 DEF Request
  <2>7. BufferIsFresh' /\ OnlyTagRequestsMixTags'
    BY <1>0, <1>9, <2>3, <2>6
       DEF Request, Freshness, BufferIsFresh, OnlyTagRequestsMixTags, Posted, Listing,
           Fresh
  <2>8. OnlyAnswersCarryTags' /\ FieldIsSeen' /\ ChipIsFresh' /\ RawIsFresh'
    BY <1>0, <1>9, <2>3
       DEF Request, Freshness, OnlyAnswersCarryTags, FieldIsSeen, ChipIsFresh,
           RawIsFresh, Listing, Fresh
  <2>9. Freshness'
    BY <2>5, <2>7, <2>8 DEF Freshness
  <2> QED
    BY <1>1, <2>1, <2>4, <2>9
<1> QED
  BY <1>2, <1>4, <1>5, <1>6, <1>7, <1>8, <1>9 DEF Next

(* The invariant of the tag reader.                                      *)
LEMMA Invariance == Spec => []IInv
<1>1. Init => IInv
  BY InitIInv
<1>2. IInv /\ [Next]_vars => IInv'
  BY NextIInv
<1> QED
  BY <1>1, <1>2, PTL DEF Spec

(* Every variable keeps its type: among it that no job runs past its plan  *)
(* of commands.                                                            *)
THEOREM TypeCorrect == Spec => []TypeOK
<1>1. IInv => TypeOK
  BY DEF IInv
<1> QED
  BY <1>1, Invariance, PTL

(* However the two threads mix up commands, acknowledgements, answers and  *)
(* the buffer, and wherever one is interrupted in a copy, the longrunner   *)
(* of stumon_longrunner.c posts neither a tag that was not at the antenna  *)
(* since it last asked nor a mixture of tags (it may post an empty one),   *)
(* unless a request for a tag was under way since then.                    *)
THEOREM OnlyTagRequestsMix == Spec => []OnlyTagRequestsMixTags
<1>1. IInv => OnlyTagRequestsMixTags
  BY DEF IInv, Freshness
<1> QED
  BY <1>1, Invariance, PTL
-----------------------------------------------------------------------------
(* While no request uses the reader, the longrunner is its only user, as   *)
(* the setup is over when it starts.  Then the buffer holds the uid of the *)
(* very answer that was checked.                                           *)

AnswersToListHaveTags ==
    chip.state = "answer" /\ chip.cmd = "LIST" => chip.uid # none

RawHasTag ==
    Listing /\ call[reader].pc = "load" /\ call[reader].raw.seven = "LIST" =>
        call[reader].raw.first # none

SetupComesFirst == call[loop].job = "boot" => call[reader].job = "none"

OneUser ==
    Listing /\ call[reader].pc # "fill" /\ met = {} => call[loop].job \notin Requested

TagChecked ==
    Listing /\ met = {} =>
        /\ call[reader].pc = "load" /\ call[reader].part > 3 =>
               buf.seven = call[reader].raw.seven
        /\ call[reader].pc = "check" /\ buf.seven = "LIST" => buf.first # none
        /\ call[reader].pc \in {"copy", "more"} => buf.first # none
        /\ call[reader].pc = "post" => call[reader].got # {none}

AloneInv ==
    AnswersToListHaveTags /\ RawHasTag /\ SetupComesFirst /\ OneUser /\ TagChecked

(* At the start nobody has asked.                                        *)
LEMMA InitAlone == Init => AloneInv
<1> SUFFICES ASSUME Init PROVE AloneInv
  OBVIOUS
<1>1. call[reader].job = "none"
  BY NewCalls DEF Init, Threads
<1>2. AnswersToListHaveTags
  BY DEF Init, AnswersToListHaveTags
<1> QED
  BY <1>1, <1>2 DEF AloneInv, RawHasTag, SetupComesFirst, OneUser, TagChecked, Listing

(* An answer to the question for tags has one, whoever reads it.         *)
LEMMA StepKeepsAnswers ==
    ASSUME IInv, AnswersToListHaveTags, NEW t \in Threads, Step(t)
    PROVE  AnswersToListHaveTags'
<1>1. DataTypes
  BY TypesSplit DEF IInv
<1>2. CASE UNCHANGED chip
  BY <1>2 DEF AnswersToListHaveTags
<1>3. CASE Taken /\ Ready
  BY <1>1, <1>3 DEF Taken, Ready, AnswersToListHaveTags, DataTypes
<1>4. CASE \E c : Receives(c)
  BY <1>4 DEF Receives, AnswersToListHaveTags
<1> QED
  BY <1>2, <1>3, <1>4
     DEF Step, OpenBus, SetAddress, Fill, Send, ReadAck, ReadData, Load, GiveUp, Check,
         CopyUid, CopyMore

(* A step of the event loop is of the setup, then the longrunner is not    *)
(* there yet, or of a request, then it is not alone.                       *)
LEMMA LoopKeepsAlone ==
    ASSUME IInv, AloneInv, Step(loop) PROVE AloneInv'
<1>1. /\ call \in [Threads -> Calls] /\ reader \in Threads /\ loop \in Threads
      /\ WellFormed(loop, call[loop]) /\ call[loop] \in Calls
  BY DEF IInv, CallsAreWellFormed, Threads
<1>2. call[loop].pc # "idle"
  BY DEF Step, OpenBus, SetAddress, Fill, Send, ReadAck, ReadData, Load, GiveUp, Waiting,
         Check, CopyUid, CopyMore
<1>3. call[loop].job \in Requested \cup {"boot"}
  BY <1>1, <1>2 DEF WellFormed, Calls, Jobs
<1>4. AnswersToListHaveTags' /\ met' = met
  BY <1>1, StepKeepsAnswers, StepMovesTags DEF AloneInv, IInv, Freshness
<1>5. /\ \/ call'[reader] = call[reader]
         \/ call'[reader].pc = "fill" /\ call'[loop].job = "none"
      /\ call'[loop].job \in {call[loop].job, "none"}
  BY LoopSteps DEF IInv
<1>6. CASE call'[reader].pc = "fill" /\ call'[loop].job = "none"
  BY <1>4, <1>6 DEF AloneInv, RawHasTag, SetupComesFirst, OneUser, TagChecked
<1>7. CASE call'[reader] = call[reader] /\ call[reader].pc = "fill"
  BY <1>4, <1>5, <1>7 DEF AloneInv, RawHasTag, SetupComesFirst, OneUser, TagChecked
<1>8. CASE call'[reader] = call[reader] /\ call[reader].pc # "fill"
  <2>1. ~(Listing' /\ met' = {})
    BY <1>3, <1>4, <1>8 DEF AloneInv, OneUser, SetupComesFirst, Listing
  <2>2. RawHasTag' /\ SetupComesFirst'
    BY <1>5, <1>8 DEF AloneInv, RawHasTag, SetupComesFirst, Listing
  <2> QED
    BY <1>4, <2>1, <2>2 DEF AloneInv, OneUser, TagChecked
<1> QED
  BY <1>5, <1>6, <1>7, <1>8

(* Alone, the longrunner has checked the tag that it posts.              *)
LEMMA ReaderKeepsAlone ==
    ASSUME IInv, AloneInv, Step(reader) PROVE AloneInv'
<1>1. /\ call \in [Threads -> Calls] /\ reader \in Threads /\ loop \in Threads
      /\ call[reader] \in Calls /\ WellFormed(reader, call[reader])
      /\ WellFormed(loop, call[loop]) /\ call[loop] \in Calls
  BY DEF IInv, CallsAreWellFormed, Threads
<1>2. call[reader].pc # "idle"
  BY DEF Step, OpenBus, SetAddress, Fill, Send, ReadAck, ReadData, Load, GiveUp, Waiting,
         Check, CopyUid, CopyMore
<1>3. call[reader].job = "scan" /\ call[loop].job # "boot"
  BY <1>1, <1>2 DEF AloneInv, SetupComesFirst, WellFormed
<1>4. AnswersToListHaveTags' /\ call'[loop] = call[loop]
  BY <1>1, StepKeepsAnswers, ReaderSteps DEF AloneInv, IInv
<1>5. ASSUME RawHasTag', TagChecked',
             call[reader].pc # "fill", Listing' <=> Listing, met' = met
      PROVE  AloneInv'
  BY <1>3, <1>4, <1>5 DEF AloneInv, SetupComesFirst, OneUser
<1>6. CASE call'[reader].pc = "fill"
  BY <1>3, <1>4, <1>6 DEF AloneInv, RawHasTag, SetupComesFirst, OneUser, TagChecked
<1>7. CASE Fill(reader)
  <2>1. call'[reader].pc = "send" /\ (Listing' <=> Listing) /\ call[reader].pc = "fill"
    BY <1>1, <1>7 DEF Fill, Listing, Calls
  <2>2. Cmd(reader) = "LIST" <=> Listing
    BY <1>1, <2>1, CmdTypes DEF IInv, InCommand
  <2>3. Listing => met' = {call[loop].job} \cap Requested
    BY <1>7, <2>2 DEF Fill
  <2>4. OneUser'
    BY <1>4, <2>1, <2>3 DEF OneUser
  <2> QED
    BY <1>3, <1>4, <2>1, <2>4 DEF AloneInv, RawHasTag, SetupComesFirst, TagChecked
<1>8. CASE Send(reader) \/ (ReadAck(reader) /\ Frame = "ack")
  <2>1. /\ call'[reader].pc \in {"ack", "read"} /\ (Listing' <=> Listing)
        /\ met' = met /\ call[reader].pc # "fill"
    BY <1>1, <1>8 DEF Send, ReadAck, Listing, Calls
  <2> QED
    BY <1>5, <2>1 DEF RawHasTag, TagChecked
<1>9. CASE ReadData(reader)
  <2>1. /\ call'[reader].pc = "load" /\ call'[reader].part = 1
        /\ call'[reader].job = call[reader].job /\ call'[reader].step = call[reader].step
        /\ call'[reader].raw.seven = "LIST" =>
               /\ chip.state = "answer" /\ chip.cmd = "LIST"
               /\ call'[reader].raw.first = chip.uid
    BY <1>1, <1>9, ReadDataSteps DEF IInv
  <2>2. met' = met /\ call[reader].pc = "read" /\ (Listing' <=> Listing)
    BY <1>9, <2>1 DEF ReadData, Listing
  <2>3. RawHasTag'
    BY <2>1 DEF AloneInv, AnswersToListHaveTags, RawHasTag
  <2> QED
    BY <1>5, <2>1, <2>2, <2>3 DEF TagChecked
<1>10. CASE Load(reader)
  <2> DEFINE i == call[reader].part
  <2> DEFINE raw == call[reader].raw
  <2>1. /\ call'[reader].job = call[reader].job /\ call'[reader].step = call[reader].step
        /\ buf'.seven = IF i = 3 THEN raw.seven ELSE buf.seven
        /\ buf'.first = IF i = 4 THEN raw.first ELSE buf.first
        /\ \/ /\ call'[reader].pc = "load" /\ call'[reader].raw = raw
              /\ call'[reader].part = i + 1
           \/ /\ call'[reader].pc = "check"
              /\ i = Reach(Cmd(reader))
        /\ call[reader].pc = "load" /\ i \in 1..5
    BY <1>1, <1>10, LoadSteps DEF IInv, Calls
  <2>2. met' = met /\ (Listing' <=> Listing)
    BY <1>10, <2>1 DEF Load, Listing
  <2>3. RawHasTag'
    BY <2>1, <2>2 DEF AloneInv, RawHasTag
  <2>4. TagChecked'
    <3>1. CASE call'[reader].pc = "load" /\ call'[reader].raw = raw
               /\ call'[reader].part = i + 1
      <4>1. ASSUME NEW k \in 1..5, k + 1 > 3, k # 3 PROVE k > 3
        BY <4>1
      <4>2. ASSUME Listing, met = {}, i + 1 > 3 PROVE buf'.seven = raw.seven
        BY <2>1, <4>1, <4>2 DEF AloneInv, TagChecked
      <4> QED
        BY <2>2, <3>1, <4>2 DEF TagChecked
    <3>2. CASE call'[reader].pc = "check" /\ i = Reach(Cmd(reader))
      <4>1. ASSUME Listing, met = {} PROVE i = 5
        <5>1. Cmd(reader) = "LIST"
          BY <1>1, <2>1, <4>1, CmdTypes DEF IInv, InCommand
        <5> QED
          BY <3>2, <5>1 DEF Reach
      <4>2. ASSUME Listing, met = {}
            PROVE  buf'.seven = raw.seven /\ buf'.first = raw.first
        <5>1. i = 5 /\ i > 3
          BY <4>1, <4>2
        <5>2. buf'.seven = buf.seven /\ buf'.first = buf.first
          BY <2>1, <5>1
        <5>3. buf.seven = raw.seven
          BY <2>1, <4>2, <5>1 DEF AloneInv, TagChecked
        <5>4. buf.first = raw.first
          BY <2>1, <4>2, <5>1 DEF IInv, Freshness, BufferIsFresh
        <5> QED
          BY <5>2, <5>3, <5>4
      <4> QED
        BY <2>1, <2>2, <3>2, <4>2 DEF AloneInv, RawHasTag, TagChecked
    <3> QED
      BY <2>1, <3>1, <3>2
  <2> QED
    BY <1>5, <2>1, <2>2, <2>3, <2>4
<1>11. CASE Check(reader) /\ call' = [call EXCEPT ![reader].pc = "copy"]
  <2>1. call'[reader].pc = "copy" /\ (Listing' <=> Listing) /\ buf' = buf
        /\ call[reader].pc = "check" /\ met' = met
    BY <1>1, <1>11 DEF Check, Listing, Calls
  <2>2. buf.seven = "LIST"
    <3>1. ~Succeed(reader)
      BY <1>1, <1>11, RestartedReader DEF Succeed, WellFormed, Calls
    <3>2. ~Fail(reader)
      BY <1>1, <1>11, RestartedReader DEF Fail, Calls
    <3> QED
      BY <1>11, <3>1, <3>2 DEF Check
  <2>3. TagChecked'
    BY <2>1, <2>2 DEF AloneInv, TagChecked
  <2> QED
    BY <1>5, <2>1, <2>3 DEF RawHasTag
<1>12. CASE CopyUid(reader)
  <2>1. /\ call'[reader].job = call[reader].job /\ call'[reader].step = call[reader].step
        /\ \/ /\ buf.first # none /\ call'[reader].pc = "more"
              /\ call'[reader].got = {buf.first}
           \/ /\ buf.first = none /\ call'[reader].pc = "post"
              /\ call'[reader].got = {none}
        /\ call[reader].pc = "copy"
    BY <1>1, <1>12, CopyUidSteps DEF IInv
  <2>2. met' = met /\ buf' = buf /\ (Listing' <=> Listing)
    BY <1>12, <2>1 DEF CopyUid, Listing
  <2>3. TagChecked'
    BY <2>1, <2>2 DEF AloneInv, TagChecked
  <2> QED
    BY <1>5, <2>1, <2>2, <2>3 DEF RawHasTag
<1>13. CASE CopyMore(reader)
  <2>1. /\ call'[reader].job = call[reader].job /\ call'[reader].step = call[reader].step
        /\ call'[reader].pc = "post" /\ call[reader].pc = "more"
        /\ call'[reader].got = call[reader].got \cup
                                  {IF buf.first = none THEN none ELSE buf.rest}
    BY <1>1, <1>13, CopyMoreSteps DEF IInv
  <2>2. met' = met /\ (Listing' <=> Listing)
    BY <1>13, <2>1 DEF CopyMore, Listing
  <2>3. TagChecked'
    <3>1. ASSUME Listing, met = {} PROVE call'[reader].got # {none}
      <4>1. buf.first # none /\ call[reader].got = {buf.first}
        BY <2>1, <3>1 DEF AloneInv, TagChecked, IInv, Freshness, BufferIsFresh
      <4> QED
        BY <2>1, <4>1
    <3> QED
      BY <2>1, <2>2, <3>1 DEF TagChecked
  <2> QED
    BY <1>5, <2>1, <2>2, <2>3 DEF RawHasTag
<1>14. CASE Fail(reader)
  BY <1>1, <1>6, <1>14, RestartedReader DEF Fail
<1>15. CASE Succeed(reader)
  BY <1>1, <1>6, <1>15, RestartedReader DEF Succeed, WellFormed, Calls
<1>16. CASE OpenBus(reader) \/ SetAddress(reader)
  BY <1>1, <1>3, <1>16 DEF OpenBus, SetAddress, WellFormed
<1> QED
  BY <1>7, <1>8, <1>9, <1>10, <1>11, <1>12, <1>13, <1>14, <1>15, <1>16
     DEF Step, ReadAck, GiveUp, Check

(* So every step preserves this.                                         *)
LEMMA NextAlone == IInv /\ AloneInv /\ [Next]_vars => AloneInv'
<1> SUFFICES ASSUME IInv, AloneInv, [Next]_vars PROVE AloneInv'
  OBVIOUS
<1>1. DataTypes
  BY TypesSplit DEF IInv
<1>2. ASSUME UNCHANGED <<call, buf, met>>, AnswersToListHaveTags' PROVE AloneInv'
  BY <1>2 DEF AloneInv, RawHasTag, SetupComesFirst, OneUser, TagChecked, Listing
<1>3. CASE UNCHANGED vars
  BY <1>2, <1>3 DEF vars, AloneInv, AnswersToListHaveTags
<1>4. CASE MoveTag
  BY <1>2, <1>4 DEF MoveTag, AloneInv, AnswersToListHaveTags
<1>5. CASE Acknowledge
  <2>1. chip'.state = "ack"
    BY <1>1, <1>5 DEF Acknowledge, DataTypes
  <2> QED
    BY <1>2, <1>5, <2>1 DEF Acknowledge, AnswersToListHaveTags
<1>6. CASE Answer
  <2>1. AnswersToListHaveTags'
    BY <1>1, <1>6 DEF Answer, Waits, AnswersToListHaveTags, DataTypes
  <2> QED
    BY <1>2, <1>6, <2>1 DEF Answer
<1>7. ASSUME NEW t \in Threads, Step(t) PROVE AloneInv'
  BY <1>7, LoopKeepsAlone, ReaderKeepsAlone DEF Threads
<1>8. CASE Post
  <2>1. /\ call'[reader] = Begin("scan") /\ call'[loop] = call[loop]
        /\ call[reader].pc = "post"
    BY <1>8, NewCalls DEF Post, IInv, CallsAreWellFormed, Threads, Jobs
  <2>2. call[reader].job # "none"
    BY <2>1 DEF IInv, CallsAreWellFormed, WellFormed, Threads
  <2> QED
    BY <1>8, <2>1, <2>2, RestartedReader
       DEF Post, AloneInv, AnswersToListHaveTags, RawHasTag, SetupComesFirst, OneUser,
           TagChecked
<1>9. ASSUME NEW job \in Requested, Request(job) PROVE AloneInv'
  <2>1. /\ call'[reader] = call[reader] /\ call'[loop].job = job /\ met' # {}
    BY <1>9, NewCalls DEF Request, IInv, CallsAreWellFormed, Threads, Jobs
  <2> QED
    BY <1>9, <2>1
       DEF Request, AloneInv, AnswersToListHaveTags, RawHasTag, SetupComesFirst, OneUser,
           TagChecked, Listing, Requested
<1> QED
  BY <1>3, <1>4, <1>5, <1>6, <1>7, <1>8, <1>9 DEF Next

(* If no request used the reader since the longrunner asked, the tag it    *)
(* posts is one that was at the antenna since then, whatever requests      *)
(* before that left in the chip and in the buffer.                         *)
THEOREM AloneItIsRight == Spec => []FreshWhileAlone
<1>1. Init => AloneInv
  BY InitAlone
<1>2. IInv /\ AloneInv /\ [Next]_vars => AloneInv'
  BY NextAlone
<1>3. IInv /\ AloneInv => FreshWhileAlone
  <2> SUFFICES ASSUME IInv, AloneInv, met = {}, call[reader].pc = "post"
               PROVE  \E tag \in seen : Posted(tag)
    BY DEF FreshWhileAlone, PostsTagInField
  <2>1. PICK tag \in seen \cup {none} : Posted(tag)
    BY DEF IInv, Freshness, OnlyTagRequestsMixTags
  <2>2. call[reader].got = {tag}
    BY <2>1 DEF Posted
  <2>3. Listing
    BY CmdTypes DEF IInv, CallsAreWellFormed, WellFormed, Cmd, InCommand, Threads
  <2>4. tag # none
    BY <2>2, <2>3 DEF AloneInv, TagChecked
  <2> QED
    BY <2>1, <2>4
<1> QED
  BY <1>1, <1>2, <1>3, Invariance, PTL DEF Spec
=============================================================================
