----------------------------- MODULE Connection -----------------------------
(***************************************************************************)
(* One client connection of src/client.c, from accept_client to            *)
(* client_close: the HTTP parser, the keep-alive and timeout logic and the *)
(* decision when the connection may be freed.                              *)
(*                                                                         *)
(* Every action is one callback that uloop dispatches for the connection,  *)
(* or one iteration of the loop of read_from_client, which nothing else    *)
(* can interrupt (reading).  The peer is free: it sends the requests of a  *)
(* script in segments of any size, pauses, half-closes, resets, and takes  *)
(* responses when it likes.                                                *)
(*                                                                         *)
(* The byte stream is a sequence of tokens: Crlf, and the texts between    *)
(* two of them.  A body is any number of tokens.  CLIENT_STATE_DATA and    *)
(* CLIENT_STATE_CLEANUP are never visible between two callbacks: every     *)
(* handler ends in request_done before it returns, and nothing takes a     *)
(* reference on a client.                                                  *)
(*                                                                         *)
(* An operator Op_Bug just before Op is Op with a bug it might have had;   *)
(* nothing uses it but the experiments that confirm a property notices.    *)
(***************************************************************************)
EXTENDS SequencesExt

CONSTANTS
    Scripts,    \* the sequences of requests a peer may send
    KeepAlive,  \* conf->keep_alive_time > 0
    BufLen      \* us->r.buffer_len, in tokens

Crlf == "crlf"

Methods == {"GET", "GET10", "PUT", "POST"}   \* GET10: GET with HTTP/1.0

(* A header line is named for what client_parse_header makes of it.        *)
Headers == {"host", "close", "expect100", "expectOther", "badLength",
            "safari", "msieOld", "noColon", "long"}

Tokens == Methods \cup Headers \cup {Crlf, "junk", "body"}

(* A header longer than the buffer is sent as that many tokens.            *)
HeaderBytes(h) ==
    (IF h = "long" THEN [i \in 1..BufLen |-> h] ELSE <<h>>) \o <<Crlf>>

RequestBytes(r) ==
    <<r.line, Crlf>>
    \o FlattenSeq([i \in 1..Len(r.headers) |-> HeaderBytes(r.headers[i])])
    \o <<Crlf>> \o r.body

ScriptBytes(script) ==
    FlattenSeq([k \in 1..Len(script) |-> RequestBytes(script[k])])

(* A peer whose requests can be told apart by this parser, which takes the *)
(* length of no body into account: the body of a POST, which is its last   *)
(* request, is on one line, and no other request has one.  Stray empty     *)
(* lines may follow a request.                                             *)
Conformant(script) ==
    /\ script \in Seq([line : Methods \cup {"junk"}, headers : Seq(Headers),
                       body : Seq(Tokens)])
    /\ \A k \in 1..Len(script) :
          IF script[k].line = "POST"
          THEN k = Len(script) /\ ~Contains(script[k].body, Crlf)
          ELSE script[k].body \in Seq({Crlf})

ASSUME ScriptsAssumption ==
    \A script \in Scripts : ScriptBytes(script) \in Seq(Tokens)
ASSUME KeepAliveAssumption == KeepAlive \in BOOLEAN
ASSUME BufLenAssumption == BufLen \in Nat \ {0}

VARIABLES
    script,    \* the requests the peer set out to send
    wire,      \* what it has not sent yet
    buf,       \* the read buffer of the stream, us->r
    state,     \* cl->state
    request,   \* cl->request
    requests,  \* cl->requests
    hdr,       \* cl->hdr, without the URL
    postdata,  \* cl->postdata, NoData while ispostdata is false
    timer,     \* cl->timeout: whether it is armed, and its callback
    eof,       \* us->eof
    pending,   \* us->w.data_bytes > 0
    failed,    \* us->write_error
    notify,    \* the stream's deferred state change is queued
    reading,   \* inside the loop of read_from_client
    live,      \* not freed by client_close
    answers    \* history: the responses written, in order

peerVars   == <<script, wire>>
parseVars  == <<state, request, requests, hdr, postdata>>
streamVars == <<eof, pending, failed>>
vars == <<peerVars, buf, parseVars, timer, streamVars, notify, reading, live,
          answers>>

NoData == <<"none">>

NoRequest == [line |-> "none", close |-> FALSE, expect |-> FALSE, ua |-> "other"]

Request == [line : Methods \cup {"none"}, close : BOOLEAN, expect : BOOLEAN,
            ua : {"other", "safari", "msieOld"}]

Timers == [armed : BOOLEAN, cb : {"poll", "timeout"}]

States == {"INIT", "HEADER", "DONE", "CLOSE"}

TypeOK ==
    /\ script \in Scripts
    /\ wire \in Seq(Tokens)
    /\ buf \in Seq(Tokens) /\ Len(buf) <= BufLen
    /\ state \in States
    /\ request \in Request
    /\ requests \in Nat
    /\ hdr \in Seq(Tokens)
    /\ postdata \in Seq(Tokens) \cup {NoData}
    /\ timer \in Timers
    /\ eof \in BOOLEAN /\ pending \in BOOLEAN /\ failed \in BOOLEAN
    /\ notify \in BOOLEAN /\ reading \in BOOLEAN /\ live \in BOOLEAN

(* accept_client has just returned: poll_connection armed the poll timer.  *)
Init ==
    /\ script \in Scripts
    /\ wire = ScriptBytes(script)
    /\ buf = <<>>
    /\ state = "INIT"
    /\ request = NoRequest
    /\ requests = 0
    /\ hdr = <<>>
    /\ postdata = NoData
    /\ timer = [armed |-> TRUE, cb |-> "poll"]
    /\ eof = FALSE /\ pending = FALSE /\ failed = FALSE /\ notify = FALSE
    /\ reading = FALSE
    /\ live = TRUE
    /\ answers = <<>>
-----------------------------------------------------------------------------
(* Operators shared by the handlers.                                       *)

(* The deferred state change always follows close_connection.              *)
CloseConnection_NoNotify ==
    /\ state' = "CLOSE"
    /\ eof' = TRUE
    /\ UNCHANGED notify
CloseConnection ==
    /\ state' = "CLOSE"
    /\ eof' = TRUE
    /\ notify' = TRUE

(* Output goes to the socket at once, or what the socket does not take     *)
(* stays pending; it is queued behind what is pending already.             *)
Write == pending' \in {TRUE, pending}

Armed(cb) == [armed |-> TRUE, cb |-> cb]

(* The test of request_done, for the request r it ends.                    *)
Persists(r) == KeepAlive /\ ~r.close

(* request_done at the end of a request: t is the timer its handler left.  *)
RequestDone_NoPoll(r, t) ==
    IF Persists(r)
    THEN /\ state' = "INIT"
         /\ requests' = requests + 1
         /\ timer' = t
         /\ UNCHANGED <<eof, notify>>
    ELSE /\ CloseConnection
         /\ timer' = t
         /\ UNCHANGED requests
RequestDone(r, t) ==
    IF Persists(r)
    THEN /\ state' = "INIT"
         /\ requests' = requests + 1
         /\ timer' = Armed("poll")
         /\ UNCHANGED <<eof, notify>>
    ELSE /\ CloseConnection
         /\ timer' = t
         /\ UNCHANGED requests

(* header_error: send_client_error writes a page, re-arms the timer with   *)
(* the callback it has and calls request_done; then the connection is      *)
(* closed whatever request_done decided.  r is cl->request at that point.  *)
HeaderError(r) ==
    /\ answers' = Append(answers, [code |-> "error", line |-> "none",
                                   headers |-> <<>>, post |-> <<>>,
                                   keep |-> ~r.close])
    /\ Write
    /\ IF Persists(r)
       THEN requests' = requests + 1 /\ timer' = Armed("poll")
       ELSE UNCHANGED requests /\ timer' = Armed(timer.cb)
    /\ CloseConnection
    /\ request' = r

(* The first line of the buffer ends with the token at n.                  *)
LineEndsAt(n) == buf[n] = Crlf /\ \A m \in 1..(n - 1) : buf[m] # Crlf

HasLine == \E n \in 1..Len(buf) : buf[n] = Crlf

(* The buffer behind the token at n.                                       *)
After(n) == SubSeq(buf, n + 1, Len(buf))

(* The table read_cbs: the handler for a state, none from DONE on.         *)
Handler_Restart(s) ==
    CASE s \in {"INIT", "CLOSE"} -> "init" [] s = "HEADER" -> "header"
      [] OTHER -> "none"
Handler(s) ==
    CASE s = "INIT" -> "init" [] s = "HEADER" -> "header" [] OTHER -> "none"
-----------------------------------------------------------------------------
(* The loop of read_from_client: one action per iteration.                 *)

(* Nothing to read, no handler for the state, or no whole line yet.        *)
ReadEnds ==
    /\ reading
    /\ \/ buf = <<>>
       \/ Handler(state) = "none"
       \/ ~HasLine /\ Len(buf) < BufLen
    /\ reading' = FALSE
    /\ UNCHANGED <<peerVars, buf, parseVars, timer, streamVars, notify, live,
                   answers>>

(* A full buffer without a whole line.                                     *)
TooLarge ==
    /\ reading
    /\ Handler(state) # "none"
    /\ ~HasLine /\ Len(buf) = BufLen
    /\ HeaderError(request)
    /\ reading' = FALSE
    /\ UNCHANGED <<peerVars, buf, hdr, postdata, failed, live>>

(* client_init_handler skips an empty line.                                *)
BlankLine_Stops ==
    /\ reading
    /\ Handler(state) = "init"
    /\ buf # <<>> /\ LineEndsAt(1)
    /\ buf' = After(1)
    /\ reading' = FALSE
    /\ UNCHANGED <<peerVars, parseVars, timer, streamVars, notify, live, answers>>
BlankLine ==
    /\ reading
    /\ Handler(state) = "init"
    /\ buf # <<>> /\ LineEndsAt(1)
    /\ buf' = After(1)
    /\ UNCHANGED <<peerVars, parseVars, timer, streamVars, notify, reading,
                   live, answers>>

(* The request parse_client_request leaves behind for a supported line.    *)
NewRequest(method) ==
    [NoRequest EXCEPT !.line = method, !.close = (method \in {"GET10", "POST"})]

(* client_init_handler on a line of its own.  A line it cannot parse is    *)
(* answered 400, with the request cleared already (method or version not   *)
(* supported) or still that of the line before (fewer than three words).   *)
RequestLine(n) ==
    /\ reading
    /\ Handler(state) = "init"
    /\ n > 1 /\ LineEndsAt(n)
    /\ buf' = After(n)
    /\ hdr' = <<>>
    /\ IF n = 2 /\ buf[1] \in Methods
       THEN /\ request' = NewRequest(buf[1])
            /\ state' = "HEADER"
            /\ UNCHANGED <<requests, timer, eof, pending, notify, answers>>
       ELSE \E r \in {request, NoRequest} : HeaderError(r)
    /\ UNCHANGED <<peerVars, postdata, failed, reading, live>>

(* client_header_handler: when no line end follows in the buffer, what     *)
(* follows is kept as the post data.                                       *)
SavePostData_Once(n) ==
    postdata' = IF postdata # NoData \/ \E m \in (n + 1)..Len(buf) : buf[m] = Crlf
                THEN postdata
                ELSE After(n)
SavePostData(n) ==
    postdata' = IF \E m \in (n + 1)..Len(buf) : buf[m] = Crlf
                THEN postdata
                ELSE After(n)

(* The header on the line that ends at n; joined tokens have no colon.     *)
HeaderOf(n) == IF n = 2 THEN buf[1] ELSE "noColon"

WithHeader_WrongField(r, h) ==
    CASE h = "expect100" -> [r EXCEPT !.expect = TRUE]
      [] h \in {"close", "safari", "msieOld"} -> [r EXCEPT !.ua = h]
      [] OTHER -> r
WithHeader(r, h) ==
    CASE h = "close"     -> [r EXCEPT !.close = TRUE]
      [] h = "expect100" -> [r EXCEPT !.expect = TRUE]
      [] h \in {"safari", "msieOld"} -> [r EXCEPT !.ua = h]
      [] OTHER -> r

(* client_header_handler on a header line, with client_parse_header.       *)
HeaderLine(n) ==
    /\ reading
    /\ Handler(state) = "header"
    /\ n > 1 /\ LineEndsAt(n)
    /\ buf' = After(n)
    /\ SavePostData(n)
    /\ \/ /\ HeaderOf(n) = "noColon"
          /\ state' = "DONE"
          /\ UNCHANGED <<request, requests, hdr, timer, eof, pending, notify,
                         answers>>
       \/ /\ HeaderOf(n) \in {"expectOther", "badLength"}
          /\ HeaderError(request)
          /\ UNCHANGED hdr
       \/ /\ HeaderOf(n) \notin {"noColon", "expectOther", "badLength"}
          /\ request' = WithHeader(request, HeaderOf(n))
          /\ hdr' = Append(hdr, HeaderOf(n))
          /\ UNCHANGED <<state, requests, timer, eof, pending, notify, answers>>
    /\ UNCHANGED <<peerVars, failed, reading, live>>

(* client_header_complete gives up on some user agents.                    *)
CloseForAgent(r) ==
    [r EXCEPT !.close = \/ r.close
                        \/ r.ua = "safari"
                        \/ r.ua = "msieOld" /\ r.line = "POST"]

(* client_header_handler on the empty line: client_header_complete and     *)
(* uh_handle_request, whose handlers write one response and then call      *)
(* request_done.  A POST handler reads cl->postdata.                       *)
EndOfHeaders ==
    /\ reading
    /\ Handler(state) = "header"
    /\ buf # <<>> /\ LineEndsAt(1)
    /\ buf' = After(1)
    /\ SavePostData(1)
    /\ LET r == CloseForAgent(request)
       IN /\ request' = r
          /\ answers' = Append(answers,
                [code |-> "handled", line |-> r.line, headers |-> hdr,
                 post |-> IF r.line = "POST" THEN postdata' ELSE <<>>,
                 keep |-> ~r.close])
          /\ Write
          /\ RequestDone(r, [timer EXCEPT !.armed = FALSE])
    /\ UNCHANGED <<peerVars, hdr, failed, reading, live>>

ReadStep ==
    \/ ReadEnds
    \/ TooLarge
    \/ BlankLine
    \/ EndOfHeaders
    \/ \E n \in 1..Len(buf) : RequestLine(n) \/ HeaderLine(n)
-----------------------------------------------------------------------------
(* What uloop dispatches when no callback is running.                      *)

Idle == live /\ ~reading

(* Space in the read buffer; a full one blocks reading.                    *)
Room == BufLen - Len(buf)

(* The socket is readable: the next k tokens of the peer's stream.         *)
DataArrives ==
    /\ Idle
    /\ ~eof
    /\ \E k \in 1..Len(wire) :
          /\ k <= Room
          /\ buf' = buf \o SubSeq(wire, 1, k)
          /\ wire' = SubSeq(wire, k + 1, Len(wire))
    /\ reading' = TRUE
    /\ UNCHANGED <<script, parseVars, timer, streamVars, notify, live, answers>>

(* The peer has shut down its side, at any point of what it meant to send. *)
PeerEnds ==
    /\ Idle
    /\ ~eof
    /\ Room > 0
    /\ eof' = TRUE
    /\ notify' = TRUE
    /\ UNCHANGED <<peerVars, buf, parseVars, timer, pending, failed, reading,
                   live, answers>>

(* The connection breaks: the stream records a write error.                *)
PeerResets ==
    /\ Idle
    /\ ~failed
    /\ failed' = TRUE
    /\ notify' = TRUE
    /\ UNCHANGED <<peerVars, buf, parseVars, timer, eof, pending, reading,
                   live, answers>>

(* The peer takes the pending output.                                      *)
OutputDrains ==
    /\ Idle
    /\ pending /\ ~failed
    /\ pending' = FALSE
    /\ notify' = (notify \/ eof)
    /\ UNCHANGED <<peerVars, buf, parseVars, timer, eof, failed, reading, live,
                   answers>>

(* polling_event_handler.                                                  *)
PollFires ==
    /\ Idle
    /\ timer = Armed("poll")
    /\ timer' = Armed("timeout")
    /\ reading' = TRUE
    /\ UNCHANGED <<peerVars, buf, parseVars, streamVars, notify, live, answers>>

(* timeout_event_handler.                                                  *)
TimeoutFires ==
    /\ Idle
    /\ timer = Armed("timeout")
    /\ timer' = [timer EXCEPT !.armed = FALSE]
    /\ CloseConnection
    /\ UNCHANGED <<peerVars, buf, request, requests, hdr, postdata, pending,
                   failed, reading, live, answers>>

(* client_notify_state: the connection may be freed.                       *)
MayClose == failed \/ (eof /\ ~pending)

NotifyState ==
    /\ Idle
    /\ notify
    /\ notify' = FALSE
    /\ IF MayClose
       THEN /\ live' = FALSE
            /\ timer' = [timer EXCEPT !.armed = FALSE]
       ELSE UNCHANGED <<live, timer>>
    /\ UNCHANGED <<peerVars, buf, parseVars, streamVars, reading, answers>>

Next ==
    \/ ReadStep
    \/ DataArrives \/ PeerEnds \/ PeerResets \/ OutputDrains
    \/ PollFires \/ TimeoutFires \/ NotifyState

Spec == Init /\ [][Next]_vars

(* The event loop finishes the callback it is in and dispatches what is    *)
(* due.  It cannot make the peer do anything.                              *)
LoopFairness ==
    /\ WF_vars(ReadStep)
    /\ WF_vars(PollFires)
    /\ WF_vars(TimeoutFires)
    /\ WF_vars(NotifyState)

LoopSpec == Spec /\ LoopFairness

(* A peer that takes what it is sent.                                      *)
FairSpec == LoopSpec /\ WF_vars(OutputDrains)
-----------------------------------------------------------------------------
(* A connection never falls out of the event loop: between two callbacks   *)
(* its timer is armed, or a state change is queued, or it is closing and   *)
(* only waits for the peer to take its output (or for a write to fail).    *)
AlwaysScheduled ==
    Idle => timer.armed \/ notify \/ (state = "CLOSE" /\ pending)

(* No whole line is left unread between two callbacks, so a pipelined      *)
(* request never waits for more input or for a timer.                      *)
NoLineLeftBehind ==
    (Idle /\ state \in {"INIT", "HEADER"}) => ~HasLine

(* A decision to close is final: no later callback revives the connection  *)
(* or answers another request on it.                                       *)
CloseIsFinal ==
    [][state = "CLOSE" => state' = "CLOSE" /\ answers' = answers]_vars

(* Whatever a peer sends or leaves out, its connection is freed in the     *)
(* end, provided it takes the output: a timeout that finds output pending  *)
(* is not repeated (client.c:129).                                         *)
EventuallyFreed == <>~live

(* client.c keeps what follows the headers as the post data: the handler   *)
(* of a POST gets the body the peer sent with it.                          *)
PostDataIsBody ==
    \A i \in 1..Len(answers) :
        answers[i].line = "POST" => answers[i].post = script[i].body

(* The connection as its client sees it, see RequestResponse.              *)
Client == INSTANCE RequestResponse
          WITH open <- live /\ state \in {"INIT", "HEADER"}

(* The parser, the buffer and the timers implement that view.              *)
ServesInOrder == Client!Spec
=============================================================================
