------------------------------ MODULE TagReader ------------------------------
(***************************************************************************)
(* The driver of the PN532 tag reader (src/rfid/pn532/rfid_pn532.c over    *)
(* src/combus/i2c.c), and its two users: the longrunner that posts tags    *)
(* (src/stumon/stumon_longrunner.c) and the requests of the JSON API       *)
(* (rfid_pn532_json_api.c), which run in the event loop.                   *)
(*                                                                         *)
(* A command is built in the global pn532_packetbuffer, sent, acknowledged *)
(* by the chip, and its answer is read into a buffer of the thread, copied *)
(* byte by byte into the same global one, and looked at there.  Nothing    *)
(* keeps the two users apart, also within a copy.  The chip answers a      *)
(* command late or never, and drops it for the next one.                   *)
(*                                                                         *)
(* An answer is named by the command it answers.  Of a frame the model     *)
(* keeps what the code looks at, and copies these parts one at a time:     *)
(* byte 0 (head), byte 6 (six), the bytes from 7 on (seven), and the uid   *)
(* with its length from 12 on, in two parts (first, rest), each with the   *)
(* tag it is of.                                                           *)
(***************************************************************************)
EXTENDS Integers, Sequences

CONSTANTS
    Tags, none,     \* the tags there are; no tag
    reader, loop,   \* the longrunner's thread and the event loop's
    MaxRequests,    \* bound on the requests of the API
    MaxFaults       \* bound on lost writes, failing reads and late chips

ASSUME TagsAssumption == none \notin Tags
ASSUME ThreadsAssumption == reader # loop
ASSUME BoundsAssumption == MaxRequests \in Nat /\ MaxFaults \in Nat

VARIABLES
    field,      \* the tag held at the antenna
    seen,       \* history: the tags there since the longrunner's last LIST
    met,        \* history: the requests that ran since the longrunner's last LIST
    chip,       \* what the PN532 is doing, with which command, for which tag
    bus,        \* _fds[0]: "closed", "dead" (no slave address set), "ready"
    buf,        \* pn532_packetbuffer
    call,       \* what each thread is doing
    requests, faults

vars == <<field, seen, met, chip, bus, buf, call, requests, faults>>

Threads == {reader, loop}

(* GetFirmwareVersion, SAMConfiguration, InListPassiveTarget.              *)
Commands == {"FW", "SAM", "LIST"}

(* The commands each job sends, one after the other while they succeed.    *)
(* "boot" is stumon_longrunner_init, "scan" a run of the longrunner, the   *)
(* others are requests.                                                    *)
Plan(job) ==
    CASE job = "scan"                -> <<"SAM", "LIST">>
      [] job = "taguid"              -> <<"FW", "SAM", "LIST">>
      [] job \in {"boot", "version"} -> <<"FW">>
      [] OTHER                       -> <<>>
Requested == {"init", "version", "taguid"}
Jobs == {"none", "boot", "scan"} \cup Requested

Cmd(t) == Plan(call[t].job)[call[t].step]

(* The parts of a frame, and how many of them the answer to a command is   *)
(* read for: 12 bytes for FW, 8 for SAM, 20 for LIST.                      *)
Parts == <<"head", "six", "seven", "first", "rest">>
Reach_Short(c) == 3
Reach_Long(c) == 5
Reach(c) == IF c = "LIST" THEN 5 ELSE 3

Answers == Commands \cup {"other", "ack"}
Buffers == [head : Commands \cup {"frame"}, six : Answers, seven : Answers,
            first : Tags \cup {none}, rest : Tags \cup {none}]
FrameOf(answer, uid) ==
    [head |-> "frame", six |-> answer, seven |-> answer, first |-> uid, rest |-> uid]
NoFrame == FrameOf("other", none)

(* A call: its job and command, where it is in it, the frame it copies and *)
(* the part that is next, and the tags that the uid it has is of.          *)
NoCall == [job |-> "none", step |-> 1, pc |-> "idle", raw |-> NoFrame, part |-> 1,
           got |-> {}]
Begin(job) ==
    [NoCall EXCEPT !.job = job, !.pc = IF job \in {"boot", "init"} THEN "open" ELSE "fill"]

TypeOK ==
    /\ field \in Tags \cup {none}
    /\ seen \subseteq Tags /\ met \subseteq Requested
    /\ chip \in [state : {"idle", "received", "ack", "working", "answer"},
                 cmd : Commands \cup {"other"}, uid : Tags \cup {none}]
    /\ bus \in {"closed", "dead", "ready"}
    /\ buf \in Buffers
    /\ call \in [Threads -> [job : Jobs, step : 1..3, raw : Buffers, part : 1..5,
                   got : SUBSET (Tags \cup {none}),
                   pc : {"idle", "open", "address", "fill", "send", "ack", "read",
                         "load", "check", "copy", "more", "post"}]]
    /\ \A t \in Threads : call[t].step = 1 \/ call[t].step <= Len(Plan(call[t].job))
    /\ requests \in 0..MaxRequests /\ faults \in 0..MaxFaults

(* The chip keeps its power when the program starts again, and may still   *)
(* be at anything.                                                         *)
Init ==
    /\ field \in Tags \cup {none}
    /\ seen = {} /\ met = {}
    /\ \/ chip = [state |-> "idle", cmd |-> "FW", uid |-> none]
       \/ \E t \in Tags : chip = [state |-> "answer", cmd |-> "LIST", uid |-> t]
       \/ \E s \in {"received", "ack", "working"}, c \in Commands :
              chip = [state |-> s, cmd |-> c, uid |-> none]
    /\ bus = "closed"
    /\ buf = NoFrame
    /\ call = [t \in Threads |-> IF t = loop THEN Begin("boot") ELSE NoCall]
    /\ requests = 0 /\ faults = 0

Fault == faults < MaxFaults /\ faults' = faults + 1
NoFault == UNCHANGED faults
-----------------------------------------------------------------------------
(* The tags and the chip.                                                  *)

MoveTag ==
    /\ field' \in (Tags \cup {none}) \ {field}
    /\ seen' = seen \cup ({field'} \ {none})
    /\ UNCHANGED <<met, chip, bus, buf, call, requests, faults>>

(* A command takes the place of the one before, whose answer is dropped.   *)
Receives(c) == chip' = [state |-> "received", cmd |-> c, uid |-> none]

Acknowledge ==
    /\ chip.state = "received"
    /\ chip' = [chip EXCEPT !.state = "ack"]
    /\ UNCHANGED <<field, seen, met, bus, buf, call, requests, faults>>

(* LIST waits for a tag, for ever if need be.                              *)
Waits == chip.state = "working" /\ chip.cmd = "LIST" /\ field = none

Answer ==
    /\ chip.state = "working" /\ ~Waits
    /\ chip' = [chip EXCEPT !.state = "answer",
                            !.uid = IF chip.cmd = "LIST" THEN field ELSE none]
    /\ UNCHANGED <<field, seen, met, bus, buf, call, requests, faults>>

(* What a read of the bus yields, and leaves behind: the acknowledgement   *)
(* or the answer, whichever is due.  It is gone after one read.            *)
Ready == bus = "ready" /\ chip.state \in {"ack", "answer"}
Frame == IF chip.state = "ack" THEN "ack" ELSE chip.cmd
Taken == chip' = [chip EXCEPT !.state = IF @ = "ack" THEN "working" ELSE "idle"]

(* The chip still has something to say to whoever waits for it.            *)
Owes == bus = "ready" /\ chip.state # "idle" /\ ~Waits
-----------------------------------------------------------------------------
(* The end of a command: the job goes on, or is over.  A longrunner that   *)
(* could not be set up is never added; one that was starts again for ever. *)

Restarted(t) == IF t = reader THEN Begin("scan") ELSE NoCall

Fail(t) == call' = [call EXCEPT ![t] = Restarted(t)]

GoesOn_OffByOne(c) == c.step <= Len(Plan(c.job))
GoesOn(c) == c.step < Len(Plan(c.job))

Succeed(t) ==
    \/ /\ GoesOn(call[t])
       /\ call' = [call EXCEPT ![t].step = @ + 1, ![t].pc = "fill"]
    \/ /\ ~GoesOn(call[t])
       /\ call' = IF call[t].job = "boot"
                    THEN [call EXCEPT ![t] = NoCall, ![reader] = Begin("scan")]
                    ELSE [call EXCEPT ![t] = Restarted(t)]
-----------------------------------------------------------------------------
(* rfid_pn532_init_i2c.  The new descriptor has no slave address at first; *)
(* when setting it fails, the closed descriptor stays in _fds.             *)

OpenBus(t) ==
    /\ call[t].pc = "open"
    /\ \/ /\ bus' = "dead"
          /\ call' = [call EXCEPT ![t].pc = "address"]
          /\ NoFault
       \/ Fail(t) /\ Fault /\ UNCHANGED bus
    /\ UNCHANGED <<field, seen, met, chip, buf, requests>>

SetAddress(t) ==
    /\ call[t].pc = "address"
    /\ \/ /\ bus' = "ready"
          /\ IF Plan(call[t].job) = <<>> THEN Succeed(t)
             ELSE call' = [call EXCEPT ![t].pc = "fill"]
          /\ NoFault
       \/ Fail(t) /\ Fault /\ UNCHANGED bus
    /\ UNCHANGED <<field, seen, met, chip, buf, requests>>

(* One command.  write_command sends what the buffer holds by then, and    *)
(* its result is ignored: a write can be lost.                             *)
Fill(t) ==
    /\ call[t].pc = "fill"
    /\ buf' = [buf EXCEPT !.head = Cmd(t)]
    /\ call' = [call EXCEPT ![t].pc = "send"]
    /\ IF t = reader /\ Cmd(t) = "LIST"
         THEN seen' = {field} \ {none} /\ met' = {call[loop].job} \cap Requested
         ELSE UNCHANGED <<seen, met>>
    /\ UNCHANGED <<field, chip, bus, requests, faults>>

Send(t) ==
    /\ call[t].pc = "send"
    /\ call' = [call EXCEPT ![t].pc = "ack"]
    /\ \/ /\ bus = "ready"
          /\ Receives(IF buf.head = "frame" THEN "other" ELSE buf.head)
          /\ NoFault
       \/ bus # "ready" /\ UNCHANGED chip /\ NoFault
       \/ bus = "ready" /\ UNCHANGED chip /\ Fault
    /\ UNCHANGED <<field, seen, met, bus, buf, requests>>

(* readack: any other frame is an error.                                   *)
ReadAck(t) ==
    /\ call[t].pc = "ack" /\ Ready
    /\ Taken
    /\ IF Frame = "ack" THEN call' = [call EXCEPT ![t].pc = "read"] ELSE Fail(t)
    /\ UNCHANGED <<field, seen, met, bus, buf, requests, faults>>

(* read_data: the frame is taken into raw[], then copied to the buffer.    *)
ReadData(t) ==
    /\ call[t].pc = "read" /\ Ready
    /\ Taken
    /\ LET uid == IF Frame = "LIST" THEN chip.uid ELSE none
       IN call' = [call EXCEPT ![t].pc = "load", ![t].raw = FrameOf(Frame, uid)]
    /\ UNCHANGED <<field, seen, met, bus, buf, requests, faults>>

Load(t) ==
    /\ call[t].pc = "load"
    /\ LET part == Parts[call[t].part]
       IN buf' = [buf EXCEPT ![part] = call[t].raw[part]]
    /\ call' = IF call[t].part < Reach(Cmd(t))
                 THEN [call EXCEPT ![t].part = @ + 1]
                 ELSE [call EXCEPT ![t].pc = "check", ![t].part = 1, ![t].raw = NoFrame]
    /\ UNCHANGED <<field, seen, met, chip, bus, requests, faults>>

(* Either of them gives up when its time is over, and at a failing read.   *)
Waiting_ForAck(t) == call[t].pc = "ack"
Waiting_ForData(t) == call[t].pc = "read"
Waiting(t) == call[t].pc \in {"ack", "read"}

GiveUp(t) ==
    /\ Waiting(t)
    /\ Fail(t)
    /\ IF Owes THEN Fault ELSE NoFault
    /\ UNCHANGED <<field, seen, met, chip, bus, buf, requests>>

(* What the answer is looked at for.  The frame of a version is compared   *)
(* by strncmp, which ends at byte 0, always zero; the version itself must  *)
(* not be zero, as it can be in an error or an acknowledgement.            *)
Check(t) ==
    /\ call[t].pc = "check"
    /\ \/ /\ \/ Cmd(t) = "FW" /\ buf.head = "frame"
             \/ Cmd(t) = "SAM" /\ buf.six = "SAM"
          /\ Succeed(t)
       \/ /\ Cmd(t) = "LIST" /\ buf.seven = "LIST"
          /\ call' = [call EXCEPT ![t].pc = "copy"]
       \/ /\ \/ Cmd(t) = "FW" /\ (buf.head # "frame" \/ buf.seven \notin Commands)
             \/ Cmd(t) = "SAM" /\ buf.six # "SAM"
             \/ Cmd(t) = "LIST" /\ buf.seven # "LIST"
          /\ Fail(t)
    /\ UNCHANGED <<field, seen, met, chip, bus, buf, requests, faults>>

(* The uid is copied byte by byte, for as long as the length in the buffer *)
(* says at each of them.                                                   *)
Copied(t, tags) ==
    call' = IF t = reader THEN [call EXCEPT ![t].pc = "post", ![t].got = tags]
            ELSE [call EXCEPT ![t] = NoCall]
CopyUid(t) ==
    /\ call[t].pc = "copy"
    /\ IF buf.first = none THEN Copied(t, {none})
       ELSE call' = [call EXCEPT ![t].pc = "more", ![t].got = {buf.first}]
    /\ UNCHANGED <<field, seen, met, chip, bus, buf, requests, faults>>
CopyMore(t) ==
    /\ call[t].pc = "more"
    /\ Copied(t, call[t].got \cup {IF buf.first = none THEN none ELSE buf.rest})
    /\ UNCHANGED <<field, seen, met, chip, bus, buf, requests, faults>>

(* The tag is posted, with the score or without, whether the post succeeds *)
(* or not.                                                                 *)
Post ==
    /\ call[reader].pc = "post"
    /\ call' = [call EXCEPT ![reader] = Begin("scan")]
    /\ UNCHANGED <<field, seen, met, chip, bus, buf, requests, faults>>

Request(job) ==
    /\ call[loop] = NoCall /\ requests < MaxRequests
    /\ requests' = requests + 1
    /\ met' = met \cup {job}
    /\ call' = [call EXCEPT ![loop] = Begin(job)]
    /\ UNCHANGED <<field, seen, chip, bus, buf, faults>>

Step(t) ==
    \/ OpenBus(t) \/ SetAddress(t) \/ Fill(t) \/ Send(t) \/ ReadAck(t)
    \/ ReadData(t) \/ Load(t) \/ GiveUp(t) \/ Check(t) \/ CopyUid(t) \/ CopyMore(t)

Next ==
    \/ MoveTag \/ Acknowledge \/ Answer
    \/ \E t \in Threads : Step(t)
    \/ Post
    \/ \E job \in Requested : Request(job)

Spec == Init /\ [][Next]_vars

(* The threads are scheduled, the chip acknowledges and answers.  The    *)
(* waits of a request have a timeout also while tags come and go.          *)
FairSpec ==
    /\ Spec
    /\ WF_vars(Step(reader) \/ Post) /\ SF_vars(Step(loop))
    /\ WF_vars(Acknowledge) /\ WF_vars(Answer)
-----------------------------------------------------------------------------
(* The longrunner posts a tag that was at the antenna since it last asked  *)
(* for one: rfid_pn532_read_passive_target_id is documented to return true *)
(* on success, with the card's UID, and false on error or timeout.         *)
Posted(tag) == call[reader].pc = "post" /\ call[reader].got = {tag}
PostsTagInField ==
    call[reader].pc = "post" => \E tag \in seen : Posted(tag)

(* It does if no request used the reader since the longrunner asked, what- *)
(* ever requests before it left in the chip and in the buffer, however     *)
(* late the chip is and whatever writes are lost.                          *)
FreshWhileAlone == met = {} => PostsTagInField

(* A request that sets up the bus or asks for the version in between can   *)
(* make it post an empty tag, but neither an old one nor a mixture of two: *)
(* their answers are not read as far as the uid.  Only a request for a tag *)
(* can do that, whose thread may be interrupted anywhere in its copy.      *)
OnlyTagRequestsMixTags ==
    call[reader].pc = "post" /\ "taguid" \notin met =>
        \E tag \in seen \cup {none} : Posted(tag)

(* Every request, and the setup before it, returns: the event loop is not  *)
(* held up for ever, even when the longrunner takes its frames away.       *)
RequestReturns == call[loop].job # "none" ~> call[loop].job = "none"

(* A tag that stays at the antenna is posted, again and again, although    *)
(* requests came in between and mixed up the commands: the longrunner      *)
(* always gets back into step with the chip.                               *)
TagIsPosted ==
    \A tag \in Tags :
        <>[](field = tag /\ call[reader].job = "scan" /\ bus = "ready")
            => []<>Posted(tag)
=============================================================================
