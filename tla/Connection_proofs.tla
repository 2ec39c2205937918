------------------------- MODULE Connection_proofs -------------------------
(***************************************************************************)
(* Proofs about Connection, for every set of scripts, keep-alive on or     *)
(* off, and every buffer size.                                             *)
(*                                                                         *)
(* AlwaysScheduled is not inductive: a state change that finds output      *)
(* pending is used up without effect, so the disjunct notify alone does    *)
(* not last.  Scheduled says which of the reasons holds when: until it     *)
(* decides to close, a connection keeps its timer armed; from then on it   *)
(* has a state change queued or output pending, whose drain queues one.    *)
(*                                                                         *)
(* The second half proves the refinement of RequestResponse.  Its          *)
(* invariant InSync says what is left of the stream, in the buffer and on  *)
(* the wire together: between two requests, the requests that have no      *)
(* answer yet; within the headers of one, the headers not parsed yet, and  *)
(* cl->hdr and cl->request are what the others make of them.  From is the  *)
(* stream of the requests, or headers, that are left.                      *)
(***************************************************************************)
EXTENDS Connection, SequenceLemmas

Scheduled ==
    live => IF state = "CLOSE" THEN eof /\ (notify \/ pending) ELSE timer.armed

ReadsWhileLive == reading => live

IInv == /\ TypeOK
        /\ Scheduled
        /\ ReadsWhileLive
        /\ NoLineLeftBehind

USE BufLenAssumption

(* What is left of the buffer behind a token is a buffer again.            *)
LEMMA AfterType ==
    ASSUME TypeOK, NEW n \in 1..Len(buf)
    PROVE  /\ After(n) \in Seq(Tokens)
           /\ Len(After(n)) <= BufLen
<1>1. buf \in Seq(Tokens) /\ Len(buf) \in Nat /\ n \in Nat
  BY LenProperties DEF TypeOK
<1>2. After(n) \in Seq(Tokens)
  BY <1>1 DEF After
<1>3. Len(After(n)) = Len(buf) - n
  BY <1>1 DEF After
<1> QED
  BY <1>1, <1>2, <1>3 DEF TypeOK

(* The records the parser builds are requests.                             *)
LEMMA RequestTypes ==
    /\ NoRequest \in Request
    /\ \A m \in Methods : NewRequest(m) \in Request
    /\ \A r \in Request, h \in Tokens : WithHeader(r, h) \in Request
    /\ \A r \in Request : CloseForAgent(r) \in Request
<1>1. NoRequest \in Request
  BY DEF NoRequest, Request
<1>2. ASSUME NEW m \in Methods PROVE NewRequest(m) \in Request
  <2>1. ASSUME NEW c \in BOOLEAN
        PROVE  [NoRequest EXCEPT !.line = m, !.close = c] \in Request
    BY DEF NoRequest, Request
  <2>2. (m \in {"GET10", "POST"}) \in BOOLEAN
    OBVIOUS
  <2> QED
    BY <2>1, <2>2 DEF NewRequest
<1>3. \A r \in Request, h \in Tokens : WithHeader(r, h) \in Request
  BY DEF WithHeader, Request
<1>4. ASSUME NEW r \in Request PROVE CloseForAgent(r) \in Request
  <2>1. ASSUME NEW c \in BOOLEAN PROVE [r EXCEPT !.close = c] \in Request
    BY DEF Request
  <2>2. (r.close \/ r.ua = "safari" \/ (r.ua = "msieOld" /\ r.line = "POST"))
           \in BOOLEAN
    OBVIOUS
  <2> QED
    BY <2>1, <2>2 DEF CloseForAgent
<1> QED
  BY <1>1, <1>2, <1>3, <1>4

(* Arming and cancelling give timers.                                      *)
LEMMA TimerTypes ==
    /\ \A cb \in {"poll", "timeout"} : Armed(cb) \in Timers /\ Armed(cb).armed = TRUE
    /\ \A t \in Timers : [t EXCEPT !.armed = FALSE] \in Timers
  BY DEF Armed, Timers

(* An error response leaves a well-typed, closing connection with a state  *)
(* change queued.                                                          *)
LEMMA HeaderErrorCloses ==
    ASSUME TypeOK, NEW r \in Request, HeaderError(r)
    PROVE  /\ state' = "CLOSE" /\ eof' = TRUE /\ notify' = TRUE
           /\ request' \in Request /\ requests' \in Nat
           /\ timer' \in Timers
           /\ pending' \in BOOLEAN
<1>1. state' = "CLOSE" /\ eof' = TRUE /\ notify' = TRUE /\ request' \in Request
  BY DEF HeaderError, CloseConnection
<1>2. timer.cb \in {"poll", "timeout"} /\ requests \in Nat
  BY DEF TypeOK, Timers
<1>3. requests' \in Nat /\ timer' \in Timers
  BY <1>2, TimerTypes DEF HeaderError
<1>4. pending' \in BOOLEAN
  BY DEF HeaderError, Write, TypeOK
<1> QED
  BY <1>1, <1>3, <1>4

(* The end of a request re-arms the timer or closes.                       *)
LEMMA RequestDoneSchedules ==
    ASSUME TypeOK, NEW r \in Request, RequestDone(r, [timer EXCEPT !.armed = FALSE])
    PROVE  /\ \/ state' = "INIT" /\ timer'.armed /\ eof' = eof /\ notify' = notify
              \/ state' = "CLOSE" /\ eof' = TRUE /\ notify' = TRUE
           /\ timer' \in Timers
           /\ requests' \in Nat
<1>1. timer \in Timers /\ requests \in Nat
  BY DEF TypeOK
<1>2. CASE Persists(r)
  BY <1>1, <1>2, TimerTypes DEF RequestDone
<1>3. CASE ~Persists(r)
  BY <1>1, <1>3, TimerTypes DEF RequestDone, CloseConnection
<1> QED
  BY <1>2, <1>3

(* A new connection has its timer armed.                                 *)
LEMMA InitIInv == Init => IInv
<1> SUFFICES ASSUME Init PROVE IInv
  OBVIOUS
<1>1. TypeOK
  <2>1. wire \in Seq(Tokens)
    BY ScriptsAssumption DEF Init
  <2>2. buf \in Seq(Tokens) /\ hdr \in Seq(Tokens) /\ Len(buf) <= BufLen
    BY DEF Init
  <2>3. timer \in Timers /\ request \in Request
    BY RequestTypes DEF Init, Timers
  <2> QED
    BY <2>1, <2>2, <2>3 DEF Init, TypeOK, States
<1> QED
  BY <1>1 DEF Init, IInv, Scheduled, ReadsWhileLive, NoLineLeftBehind,
              HasLine, Idle

(* An iteration of the read loop starts on a live, reading connection, and *)
(* unless it is closing with its timer armed.                              *)
LEMMA ParsingFacts ==
    ASSUME IInv, reading, Handler(state) # "none"
    PROVE  live /\ state # "CLOSE" /\ timer.armed
  BY DEF IInv, ReadsWhileLive, Scheduled, Handler

(* While the read loop runs on a live connection, the part of IInv about   *)
(* idle connections is vacuous.                                            *)
LEMMA WhileReading ==
    ASSUME TypeOK', Scheduled', reading', live'
    PROVE  IInv'
  BY DEF IInv, ReadsWhileLive, NoLineLeftBehind, Idle

(* A turn of the read loop preserves the invariant.                      *)
LEMMA ReadStepIInv == IInv /\ ReadStep => IInv'
<1> SUFFICES ASSUME IInv, ReadStep PROVE IInv'
  OBVIOUS
<1>0. TypeOK
  BY DEF IInv
<1>1. CASE ReadEnds
  <2>1. TypeOK'
    BY <1>0, <1>1 DEF ReadEnds, TypeOK, peerVars, parseVars, streamVars
  <2>2. (state \in {"INIT", "HEADER"}) => ~HasLine
    BY <1>0, <1>1 DEF ReadEnds, HasLine, Handler, TypeOK
  <2> QED
    BY <1>1, <2>1, <2>2
       DEF ReadEnds, IInv, Scheduled, ReadsWhileLive, NoLineLeftBehind, HasLine,
           peerVars, parseVars, streamVars
<1>2. CASE TooLarge
  <2>1. live /\ state # "CLOSE"
    BY <1>2, ParsingFacts DEF TooLarge
  <2>2. HeaderError(request) /\ request \in Request
    BY <1>0, <1>2 DEF TooLarge, TypeOK
  <2>3. /\ state' = "CLOSE" /\ eof' = TRUE /\ notify' = TRUE
        /\ request' \in Request /\ requests' \in Nat
        /\ timer' \in Timers
        /\ pending' \in BOOLEAN
    BY <1>0, <2>2, HeaderErrorCloses
  <2>4. TypeOK'
    BY <1>0, <1>2, <2>3 DEF TooLarge, TypeOK, States, peerVars
  <2> QED
    BY <1>2, <2>1, <2>3, <2>4
       DEF TooLarge, IInv, Scheduled, ReadsWhileLive, NoLineLeftBehind
<1>3. CASE BlankLine
  <2>1. live /\ state # "CLOSE" /\ timer.armed
    BY <1>3, ParsingFacts DEF BlankLine
  <2>2. 1 \in 1..Len(buf)
    BY <1>0, <1>3, EmptySeq, LenProperties DEF BlankLine, TypeOK
  <2>3. buf' \in Seq(Tokens) /\ Len(buf') <= BufLen
    BY <1>0, <1>3, <2>2, AfterType DEF BlankLine
  <2>4. TypeOK'
    BY <1>0, <1>3, <2>3 DEF BlankLine, TypeOK, peerVars, parseVars, streamVars
  <2>5. Scheduled' /\ reading' /\ live'
    BY <1>3, <2>1 DEF BlankLine, Scheduled, parseVars, streamVars
  <2> QED
    BY <2>4, <2>5, WhileReading
<1>4. CASE EndOfHeaders
  <2>1. live /\ state # "CLOSE" /\ timer.armed
    BY <1>4, ParsingFacts DEF EndOfHeaders
  <2>2. 1 \in 1..Len(buf)
    BY <1>0, <1>4, EmptySeq, LenProperties DEF EndOfHeaders, TypeOK
  <2>3. /\ buf' \in Seq(Tokens) /\ Len(buf') <= BufLen
        /\ postdata' \in Seq(Tokens) \cup {NoData}
    BY <1>0, <1>4, <2>2, AfterType DEF EndOfHeaders, SavePostData, TypeOK
  <2> DEFINE r == CloseForAgent(request)
  <2>4. r \in Request /\ request' = r
    BY <1>0, <1>4, RequestTypes DEF EndOfHeaders, TypeOK
  <2>5. RequestDone(r, [timer EXCEPT !.armed = FALSE]) /\ pending' \in BOOLEAN
    BY <1>0, <1>4 DEF EndOfHeaders, Write, TypeOK
  <2>6. /\ \/ state' = "INIT" /\ timer'.armed /\ eof' = eof /\ notify' = notify
           \/ state' = "CLOSE" /\ eof' = TRUE /\ notify' = TRUE
        /\ timer' \in Timers
        /\ requests' \in Nat
    BY <1>0, <2>4, <2>5, RequestDoneSchedules
  <2>7. TypeOK'
    BY <1>0, <1>4, <2>3, <2>4, <2>5, <2>6
       DEF EndOfHeaders, TypeOK, States, peerVars
  <2>8. Scheduled' /\ reading' /\ live'
    BY <1>4, <2>1, <2>6 DEF EndOfHeaders, Scheduled
  <2> QED
    BY <2>7, <2>8, WhileReading
<1>5. ASSUME NEW n \in 1..Len(buf), RequestLine(n) PROVE IInv'
  <2>1. live /\ state # "CLOSE" /\ timer.armed
    BY <1>5, ParsingFacts DEF RequestLine
  <2>2. buf' \in Seq(Tokens) /\ Len(buf') <= BufLen /\ hdr' \in Seq(Tokens)
    BY <1>0, <1>5, AfterType DEF RequestLine
  <2>3. CASE n = 2 /\ buf[1] \in Methods
    <3>1. /\ request' \in Request /\ state' = "HEADER"
          /\ UNCHANGED <<requests, timer, eof, pending, notify>>
      BY <1>5, <2>3, RequestTypes DEF RequestLine
    <3>2. TypeOK'
      BY <1>0, <1>5, <2>2, <3>1 DEF RequestLine, TypeOK, States, peerVars
    <3>3. Scheduled' /\ reading' /\ live'
      BY <1>5, <2>1, <3>1 DEF RequestLine, Scheduled
    <3> QED
      BY <3>2, <3>3, WhileReading
  <2>4. CASE ~(n = 2 /\ buf[1] \in Methods)
    <3>1. PICK r \in {request, NoRequest} : HeaderError(r)
      BY <1>5, <2>4 DEF RequestLine
    <3>2. r \in Request
      BY <1>0, RequestTypes DEF TypeOK
    <3>3. /\ state' = "CLOSE" /\ eof' = TRUE /\ notify' = TRUE
          /\ request' \in Request /\ requests' \in Nat
          /\ timer' \in Timers
          /\ pending' \in BOOLEAN
      BY <1>0, <3>1, <3>2, HeaderErrorCloses
    <3>4. TypeOK'
      BY <1>0, <1>5, <2>2, <3>3 DEF RequestLine, TypeOK, States, peerVars
    <3>5. Scheduled' /\ reading' /\ live'
      BY <1>5, <2>1, <3>3 DEF RequestLine, Scheduled
    <3> QED
      BY <3>4, <3>5, WhileReading
  <2> QED
    BY <2>3, <2>4
<1>6. ASSUME NEW n \in 1..Len(buf), HeaderLine(n) PROVE IInv'
  <2>1. live /\ state # "CLOSE" /\ timer.armed
    BY <1>6, ParsingFacts DEF HeaderLine
  <2>2. /\ buf' \in Seq(Tokens) /\ Len(buf') <= BufLen
        /\ postdata' \in Seq(Tokens) \cup {NoData}
    BY <1>0, <1>6, AfterType DEF HeaderLine, SavePostData, TypeOK
  <2>3. HeaderOf(n) \in Tokens
    BY <1>0 DEF HeaderOf, TypeOK, Tokens, Headers
  <2>4. CASE /\ HeaderOf(n) = "noColon"
             /\ state' = "DONE"
             /\ UNCHANGED <<request, requests, hdr, timer, eof, pending, notify,
                            answers>>
    <3>1. TypeOK'
      BY <1>0, <1>6, <2>2, <2>4 DEF HeaderLine, TypeOK, States, peerVars
    <3>2. Scheduled' /\ reading' /\ live'
      BY <1>6, <2>1, <2>4 DEF HeaderLine, Scheduled
    <3> QED
      BY <3>1, <3>2, WhileReading
  <2>5. CASE HeaderError(request) /\ UNCHANGED hdr
    <3>1. /\ state' = "CLOSE" /\ eof' = TRUE /\ notify' = TRUE
          /\ request' \in Request /\ requests' \in Nat
          /\ timer' \in Timers
          /\ pending' \in BOOLEAN
      BY <1>0, <2>5, HeaderErrorCloses DEF TypeOK
    <3>2. TypeOK'
      BY <1>0, <1>6, <2>2, <2>5, <3>1 DEF HeaderLine, TypeOK, States, peerVars
    <3>3. Scheduled' /\ reading' /\ live'
      BY <1>6, <2>1, <3>1 DEF HeaderLine, Scheduled
    <3> QED
      BY <3>2, <3>3, WhileReading
  <2>6. CASE /\ request' = WithHeader(request, HeaderOf(n))
             /\ hdr' = Append(hdr, HeaderOf(n))
             /\ UNCHANGED <<state, requests, timer, eof, pending, notify,
                            answers>>
    <3>1. request' \in Request /\ hdr' \in Seq(Tokens)
      BY <1>0, <2>3, <2>6, RequestTypes, AppendProperties DEF TypeOK
    <3>2. TypeOK'
      BY <1>0, <1>6, <2>2, <2>6, <3>1 DEF HeaderLine, TypeOK, peerVars
    <3>3. Scheduled' /\ reading' /\ live'
      BY <1>6, <2>1, <2>6 DEF HeaderLine, Scheduled
    <3> QED
      BY <3>2, <3>3, WhileReading
  <2> QED
    BY <1>6, <2>4, <2>5, <2>6 DEF HeaderLine
<1> QED
  BY <1>1, <1>2, <1>3, <1>4, <1>5, <1>6 DEF ReadStep

(* Data that arrives is read at once.                                    *)
LEMMA DataArrivesIInv == IInv /\ DataArrives => IInv'
<1> SUFFICES ASSUME IInv, DataArrives PROVE IInv'
  OBVIOUS
<1>1. PICK k \in 1..Len(wire) :
        /\ k <= Room
        /\ buf' = buf \o SubSeq(wire, 1, k)
        /\ wire' = SubSeq(wire, k + 1, Len(wire))
  BY DEF DataArrives
<1>2. wire \in Seq(Tokens) /\ buf \in Seq(Tokens) /\ Len(wire) \in Nat
      /\ Len(buf) \in Nat /\ k \in Nat
  BY <1>1, LenProperties DEF IInv, TypeOK
<1>3. /\ SubSeq(wire, 1, k) \in Seq(Tokens) /\ Len(SubSeq(wire, 1, k)) = k
      /\ wire' \in Seq(Tokens)
  BY <1>1, <1>2
<1>4. buf' \in Seq(Tokens) /\ Len(buf') = Len(buf) + k
  BY <1>1, <1>2, <1>3, ConcatProperties
<1>5. Len(buf') <= BufLen
  BY <1>1, <1>2, <1>4 DEF Room
<1>6. TypeOK'
  BY <1>3, <1>4, <1>5 DEF DataArrives, IInv, TypeOK, parseVars, streamVars
<1>7. Scheduled' /\ reading' /\ live'
  BY DEF DataArrives, Idle, IInv, Scheduled, parseVars, streamVars
<1> QED
  BY <1>6, <1>7, WhileReading

(* So does every other callback.                                         *)
LEMMA NextIInv == IInv /\ [Next]_vars => IInv'
<1> SUFFICES ASSUME IInv, [Next]_vars PROVE IInv'
  OBVIOUS
<1> USE DEF IInv
<1>0. timer \in Timers
  BY DEF TypeOK
<1>1. CASE ReadStep
  BY <1>1, ReadStepIInv
<1>2. CASE DataArrives
  BY <1>2, DataArrivesIInv
<1>3. CASE PeerEnds
  BY <1>3 DEF PeerEnds, TypeOK, Scheduled, ReadsWhileLive, NoLineLeftBehind,
              HasLine, Idle, peerVars, parseVars
<1>4. CASE PeerResets
  BY <1>4 DEF PeerResets, TypeOK, Scheduled, ReadsWhileLive, NoLineLeftBehind,
              HasLine, Idle, peerVars, parseVars
<1>5. CASE OutputDrains
  <2>1. TypeOK'
    BY <1>5 DEF OutputDrains, TypeOK, peerVars, parseVars
  <2> QED
    BY <1>5, <2>1 DEF OutputDrains, Scheduled, ReadsWhileLive, NoLineLeftBehind,
                      HasLine, Idle, peerVars, parseVars
<1>6. CASE PollFires
  <2>1. timer' \in Timers /\ timer'.armed
    BY <1>6, TimerTypes DEF PollFires
  <2>2. TypeOK'
    BY <1>6, <2>1 DEF PollFires, TypeOK, peerVars, parseVars, streamVars
  <2>3. Scheduled' /\ reading' /\ live'
    BY <1>6, <2>1 DEF PollFires, Idle, Scheduled, parseVars, streamVars
  <2> QED
    BY <2>2, <2>3, WhileReading
<1>7. CASE TimeoutFires
  <2>1. timer' \in Timers /\ state' = "CLOSE" /\ eof' = TRUE /\ notify' = TRUE
    BY <1>0, <1>7, TimerTypes DEF TimeoutFires, CloseConnection
  <2>2. TypeOK'
    BY <1>7, <2>1 DEF TimeoutFires, TypeOK, States, peerVars
  <2> QED
    BY <1>7, <2>1, <2>2 DEF TimeoutFires, Scheduled, ReadsWhileLive,
                            NoLineLeftBehind, Idle
<1>8. CASE NotifyState
  <2>1. timer' \in Timers /\ live' \in BOOLEAN
    BY <1>0, <1>8, TimerTypes DEF NotifyState, TypeOK
  <2>2. TypeOK'
    BY <1>8, <2>1 DEF NotifyState, TypeOK, peerVars, parseVars, streamVars
  <2>3. CASE MayClose
    BY <1>8, <2>2, <2>3 DEF NotifyState, MayClose, Scheduled, ReadsWhileLive,
                            NoLineLeftBehind, Idle, streamVars
  <2>4. CASE ~MayClose
    BY <1>8, <2>2, <2>4 DEF NotifyState, MayClose, Scheduled, ReadsWhileLive,
                            NoLineLeftBehind, HasLine, Idle,
                            parseVars, streamVars
  <2> QED
    BY <2>3, <2>4
<1>9. CASE UNCHANGED vars
  BY <1>9 DEF vars, TypeOK, Scheduled, ReadsWhileLive, NoLineLeftBehind, HasLine,
              Idle, peerVars, parseVars, streamVars
<1> QED
  BY <1>1, <1>2, <1>3, <1>4, <1>5, <1>6, <1>7, <1>8, <1>9 DEF Next

(* The inductive invariant holds in every reachable state.                 *)
THEOREM Invariance == Spec => []IInv
<1>1. Init => IInv
  BY InitIInv
<1>2. IInv /\ [Next]_vars => IInv'
  BY NextIInv
<1> QED
  BY <1>1, <1>2, PTL DEF Spec

(* Type correctness: in particular the read buffer never overflows.        *)
THEOREM TypeCorrect == Spec => []TypeOK
<1>1. IInv => TypeOK
  BY DEF IInv
<1> QED
  BY <1>1, Invariance, PTL

(* No connection falls out of the event loop.                              *)
THEOREM NeverStranded == Spec => []AlwaysScheduled
<1>1. IInv => AlwaysScheduled
  BY DEF IInv, Scheduled, AlwaysScheduled, Idle
<1> QED
  BY <1>1, Invariance, PTL

(* Every whole line is parsed before the callback that read it returns.    *)
THEOREM LinesAreConsumed == Spec => []NoLineLeftBehind
<1>1. IInv => NoLineLeftBehind
  BY DEF IInv
<1> QED
  BY <1>1, Invariance, PTL

(* The decision to close is final.                                         *)
THEOREM CloseStays == Spec => CloseIsFinal
<1> DEFINE Final == state = "CLOSE" => state' = "CLOSE" /\ answers' = answers
<1>1. [Next]_vars => [Final]_vars
  <2> SUFFICES ASSUME Next, state = "CLOSE"
               PROVE  state' = "CLOSE" /\ answers' = answers
    OBVIOUS
  <2>1. Handler(state) = "none"
    BY DEF Handler
  <2>2. ReadStep => ReadEnds
    BY <2>1 DEF ReadStep, TooLarge, BlankLine, EndOfHeaders, RequestLine, HeaderLine
  <2> QED
    BY <2>2 DEF Next, ReadEnds, DataArrives, PeerEnds, PeerResets, OutputDrains,
                PollFires, TimeoutFires, CloseConnection, NotifyState, parseVars
<1> QED
  BY <1>1, PTL DEF Spec, CloseIsFinal
-----------------------------------------------------------------------------
(* The parts of a stream, one after the other.                             *)

(* The flattened rest of a sequence of parts, one part at a time.          *)
From(p, k) == FlattenSeq(SubSeq(p, k, Len(p)))

(* One part, then the rest.                                                *)
LEMMA FromStep ==
    ASSUME NEW S, NEW p \in Seq(Seq(S)), NEW k \in 1..Len(p)
    PROVE  From(p, k) = p[k] \o From(p, k + 1)
<1> DEFINE q == SubSeq(p, k, Len(p))
<1>1. Len(p) \in Nat /\ k \in Int /\ Len(p) \in Int /\ k <= Len(p) /\ Len(p) \in k..Len(p)
  OBVIOUS
<1>2. \A i \in k..Len(p) : p[i] \in Seq(S)
  BY <1>1, ElementOfSeq
<1>3. q \in Seq(Seq(S)) /\ Len(q) = Len(p) - k + 1
  BY <1>1, <1>2, SubSeqProperties
<1>4. q # <<>>
  <2>1. Len(q) # 0
    BY <1>1, <1>3
  <2> QED
    BY <2>1, EmptySeq
<1>5. Head(q) = p[k] /\ Tail(q) = SubSeq(p, k + 1, Len(p))
  BY <1>1, HeadTailOfSubSeq
<1>6. q[1] = p[k]
  BY <1>1
<1> HIDE DEF q
<1>7. FlattenSeq(q) = q[1] \o FlattenSeq(Tail(q))
  BY <1>3, <1>4, FlattenFirst
<1> QED
  BY <1>5, <1>6, <1>7 DEF From, q

(* Nothing follows the last part.                                          *)
LEMMA FromEnd ==
    ASSUME NEW S, NEW p \in Seq(Seq(S))
    PROVE  From(p, Len(p) + 1) = <<>>
<1>1. SubSeq(p, Len(p) + 1, Len(p)) = <<>>
  BY SubSeqEmpty
<1> QED
  BY <1>1 DEF From, FlattenSeq

(* All parts.                                                              *)
LEMMA FromStart ==
    ASSUME NEW S, NEW p \in Seq(Seq(S))
    PROVE  From(p, 1) = FlattenSeq(p)
  BY SubSeqFull DEF From

(* The rest is a stream as well.                                           *)
LEMMA FromType ==
    ASSUME NEW S, NEW p \in Seq(Seq(S)), NEW k \in 1..(Len(p) + 1)
    PROVE  From(p, k) \in Seq(S)
<1>1. Len(p) \in Int /\ k \in Int /\ \A i \in k..Len(p) : p[i] \in Seq(S)
  BY ElementOfSeq
<1>2. SubSeq(p, k, Len(p)) \in Seq(Seq(S))
  BY <1>1, SubSeqProperties
<1> QED
  BY <1>2, FlattenType DEF From

-----------------------------------------------------------------------------
(* The stream of a script.                                                 *)

(* The header lines of a request, and the requests of a script, as         *)
(* streams.                                                                *)
Lines(r) == [i \in 1..Len(r.headers) |-> HeaderBytes(r.headers[i])]
Parts(s) == [k \in 1..Len(s) |-> RequestBytes(s[k])]

(* What is left of the stream behind the headers of request k, and from    *)
(* its header i on.                                                        *)
AfterHeaders(s, k) == <<Crlf>> \o (s[k].body \o From(Parts(s), k + 1))

InHeaders(s, k, i) == From(Lines(s[k]), i) \o AfterHeaders(s, k)

(* What a conformant script is made of.                                    *)
LEMMA ConformantTypes ==
    ASSUME NEW s, Conformant(s), NEW k \in 1..Len(s)
    PROVE  /\ s[k].line \in Methods \cup {"junk"}
           /\ s[k].headers \in Seq(Headers)
           /\ s[k].body \in Seq(Tokens)
           /\ Len(s) \in Nat
           /\ Len(s[k].headers) \in Nat
<1>1. s \in Seq([line : Methods \cup {"junk"}, headers : Seq(Headers),
                 body : Seq(Tokens)])
  BY DEF Conformant
<1>2. s[k] \in [line : Methods \cup {"junk"}, headers : Seq(Headers),
                body : Seq(Tokens)]
  BY <1>1, ElementOfSeq
<1>3. s[k].headers \in Seq(Headers)
  BY <1>2
<1> QED
  BY <1>1, <1>2, <1>3, LenProperties

(* A header, the headers of a request and a script are streams of tokens.  *)
LEMMA HeaderBytesType ==
    ASSUME NEW h \in Headers
    PROVE  HeaderBytes(h) \in Seq(Tokens)
<1>1. [i \in 1..BufLen |-> h] \in Seq(Tokens)
  BY DEF Tokens
<1>2. <<h>> \in Seq(Tokens) /\ <<Crlf>> \in Seq(Tokens)
  BY DEF Tokens
<1> QED
  BY <1>1, <1>2, ConcatProperties DEF HeaderBytes

(* The header lines of a request, as tokens.                             *)
LEMMA LinesType ==
    ASSUME NEW s, Conformant(s), NEW k \in 1..Len(s)
    PROVE  /\ Lines(s[k]) \in Seq(Seq(Tokens))
           /\ Len(Lines(s[k])) = Len(s[k].headers)
<1> DEFINE hs == s[k].headers
<1>1. hs \in Seq(Headers) /\ Len(hs) \in Nat
  BY ConformantTypes
<1>2. \A i \in 1..Len(hs) : HeaderBytes(hs[i]) \in Seq(Tokens)
  <2>1. \A i \in 1..Len(hs) : hs[i] \in Headers
    BY <1>1, ElementOfSeq
  <2> QED
    BY <2>1, HeaderBytesType
<1> HIDE DEF hs
<1>3. /\ [i \in 1..Len(hs) |-> HeaderBytes(hs[i])] \in Seq(Seq(Tokens))
      /\ Len([i \in 1..Len(hs) |-> HeaderBytes(hs[i])]) = Len(hs)
  BY <1>1, <1>2
<1> QED
  BY <1>3 DEF Lines, hs

(* The requests of a script, as tokens.                                  *)
LEMMA PartsType ==
    ASSUME NEW s, Conformant(s)
    PROVE  Parts(s) \in Seq(Seq(Tokens)) /\ Len(Parts(s)) = Len(s) /\ Len(s) \in Nat
<1>1. Len(s) \in Nat
  BY LenProperties DEF Conformant
<1>2. ASSUME NEW k \in 1..Len(s) PROVE RequestBytes(s[k]) \in Seq(Tokens)
  <2> DEFINE H == FlattenSeq(Lines(s[k]))
  <2>1. H \in Seq(Tokens)
    BY LinesType, FlattenType
  <2>2. <<s[k].line, Crlf>> \in Seq(Tokens) /\ <<Crlf>> \in Seq(Tokens)
    BY ConformantTypes DEF Tokens
  <2>3. s[k].body \in Seq(Tokens)
    BY ConformantTypes
  <2> HIDE DEF H
  <2>4. ((<<s[k].line, Crlf>> \o H) \o <<Crlf>>) \o s[k].body \in Seq(Tokens)
    BY <2>1, <2>2, <2>3
  <2> QED
    BY <2>4 DEF RequestBytes, H, Lines
<1>3. /\ [k \in 1..Len(s) |-> RequestBytes(s[k])] \in Seq(Seq(Tokens))
      /\ Len([k \in 1..Len(s) |-> RequestBytes(s[k])]) = Len(s)
  BY <1>1, <1>2
<1> QED
  BY <1>1, <1>3 DEF Parts

(* So is all that may be left of the stream within a request.              *)
LEMMA StreamTypes ==
    ASSUME NEW s, Conformant(s), NEW k \in 1..Len(s)
    PROVE  /\ From(Parts(s), k + 1) \in Seq(Tokens)
           /\ AfterHeaders(s, k) \in Seq(Tokens)
           /\ s[k].body \o From(Parts(s), k + 1) \in Seq(Tokens)
           /\ \A i \in 1..(Len(s[k].headers) + 1) :
                 /\ From(Lines(s[k]), i) \in Seq(Tokens)
                 /\ InHeaders(s, k, i) \in Seq(Tokens)
<1>1. From(Parts(s), k + 1) \in Seq(Tokens)
  BY PartsType, FromType
<1>2. s[k].body \in Seq(Tokens) /\ <<Crlf>> \in Seq(Tokens)
  BY ConformantTypes DEF Tokens
<1>3. s[k].body \o From(Parts(s), k + 1) \in Seq(Tokens)
  BY <1>1, <1>2
<1>4. AfterHeaders(s, k) \in Seq(Tokens)
  BY <1>2, <1>3 DEF AfterHeaders
<1>5. \A i \in 1..(Len(s[k].headers) + 1) : From(Lines(s[k]), i) \in Seq(Tokens)
  BY LinesType, FromType
<1> QED
  BY <1>1, <1>3, <1>4, <1>5 DEF InHeaders

(* Between two requests the stream goes on with the line of the next one.  *)
LEMMA NextRequest ==
    ASSUME NEW s, Conformant(s), NEW k \in 1..Len(s)
    PROVE  From(Parts(s), k) = <<s[k].line, Crlf>> \o InHeaders(s, k, 1)
<1> DEFINE L == <<s[k].line, Crlf>>
           H == From(Lines(s[k]), 1)
           C == <<Crlf>>
           B == s[k].body
           R == From(Parts(s), k + 1)
<1>1. From(Parts(s), k) = Parts(s)[k] \o R
  BY PartsType, FromStep
<1>2. Parts(s)[k] = ((L \o H) \o C) \o B
  <2>1. FlattenSeq(Lines(s[k])) = H
    BY LinesType, FromStart
  <2> QED
    BY <2>1 DEF Parts, RequestBytes, Lines
<1>3. /\ L \in Seq(Tokens) /\ H \in Seq(Tokens) /\ C \in Seq(Tokens)
      /\ B \in Seq(Tokens) /\ R \in Seq(Tokens)
  <2>1. L \in Seq(Tokens) /\ C \in Seq(Tokens) /\ B \in Seq(Tokens)
    BY ConformantTypes DEF Tokens
  <2>2. 1 \in 1..(Len(s[k].headers) + 1)
    BY ConformantTypes
  <2> QED
    BY <2>1, <2>2, StreamTypes
<1>4. InHeaders(s, k, 1) = H \o (C \o (B \o R))
  BY DEF InHeaders, AfterHeaders
<1> HIDE DEF L, H, C, B, R
<1>5. Regrouped5(L, H, C, B, R)
  BY <1>3, Regroup5
<1> QED
  BY <1>1, <1>2, <1>4, <1>5, Zenon DEF Regrouped5, L

(* Within the headers it goes on with the next one.                        *)
LEMMA NextHeader ==
    ASSUME NEW s, Conformant(s), NEW k \in 1..Len(s),
           NEW i \in 1..Len(s[k].headers)
    PROVE  InHeaders(s, k, i)
              = (IF s[k].headers[i] = "long"
                 THEN [j \in 1..BufLen |-> "long"] ELSE <<s[k].headers[i]>>)
                \o (<<Crlf>> \o InHeaders(s, k, i + 1))
<1> DEFINE X == IF s[k].headers[i] = "long"
                THEN [j \in 1..BufLen |-> "long"] ELSE <<s[k].headers[i]>>
           C == <<Crlf>>
           H == From(Lines(s[k]), i + 1)
           A == AfterHeaders(s, k)
<1>1. From(Lines(s[k]), i) = Lines(s[k])[i] \o H
  BY LinesType, FromStep
<1>2. Lines(s[k])[i] = X \o C
  BY DEF Lines, HeaderBytes
<1>3. X \in Seq(Tokens) /\ C \in Seq(Tokens) /\ H \in Seq(Tokens) /\ A \in Seq(Tokens)
  <2>1. s[k].headers[i] \in Headers
    BY ConformantTypes, ElementOfSeq
  <2>2. [j \in 1..BufLen |-> "long"] \in Seq(Tokens)
    BY DEF Tokens, Headers
  <2>3. <<s[k].headers[i]>> \in Seq(Tokens) /\ C \in Seq(Tokens)
    BY <2>1 DEF Tokens
  <2>4. i + 1 \in 1..(Len(s[k].headers) + 1)
    BY ConformantTypes
  <2> QED
    BY <2>2, <2>3, <2>4, StreamTypes
<1> HIDE DEF X, C, H, A
<1>4. Regrouped4(X, C, H, A)
  BY <1>3, Regroup4
<1>5. InHeaders(s, k, i) = ((X \o C) \o H) \o A
  BY <1>1, <1>2 DEF InHeaders, A
<1>6. InHeaders(s, k, i + 1) = H \o A
  BY DEF InHeaders, H, A
<1> QED
  BY <1>4, <1>5, <1>6, Zenon DEF Regrouped4, X, C

(* Behind the last header it goes on with the empty line.                  *)
LEMMA LastHeader ==
    ASSUME NEW s, Conformant(s), NEW k \in 1..Len(s)
    PROVE  InHeaders(s, k, Len(s[k].headers) + 1) = AfterHeaders(s, k)
<1>1. From(Lines(s[k]), Len(s[k].headers) + 1) = <<>>
  BY LinesType, FromEnd
<1>2. <<>> \o AfterHeaders(s, k) = AfterHeaders(s, k)
  BY StreamTypes, ConcatEmptySeq
<1> QED
  BY <1>1, <1>2 DEF InHeaders

(* Nothing follows the last request.                                       *)
LEMMA NoMoreRequests ==
    ASSUME NEW s, Conformant(s)
    PROVE  From(Parts(s), Len(s) + 1) = <<>>
  BY PartsType, FromEnd

(* At first the whole script is left.                                      *)
LEMMA AllRequests ==
    ASSUME NEW s, Conformant(s)
    PROVE  From(Parts(s), 1) = ScriptBytes(s)
<1>1. From(Parts(s), 1) = FlattenSeq(Parts(s))
  BY PartsType, FromStart
<1> QED
  BY <1>1 DEF ScriptBytes, Parts

(* The stream in b and w begins with u, and v follows.                     *)
Splits(b, w, u, v) == b \o w = u \o v

(* Two ways to split a stream agree where they overlap.                    *)
LEMMA StreamAgrees ==
    ASSUME NEW S, NEW b \in Seq(S), NEW w \in Seq(S), NEW u \in Seq(S),
           NEW v \in Seq(S), Splits(b, w, u, v),
           NEW i \in 1..Len(b), i <= Len(u)
    PROVE  b[i] = u[i]
<1>1. (b \o w)[i] = b[i]
  BY ConcatProperties
<1>2. (u \o v)[i] = u[i]
  BY ConcatProperties
<1> QED
  BY <1>1, <1>2 DEF Splits

(* What follows the first part u, when u has arrived.                      *)
LEMMA StreamConsumed ==
    ASSUME NEW S, NEW b \in Seq(S), NEW w \in Seq(S), NEW u \in Seq(S),
           NEW v \in Seq(S), Splits(b, w, u, v), Len(u) <= Len(b)
    PROVE  SubSeq(b, Len(u) + 1, Len(b)) \o w = v
<1> DEFINE m == Len(u)
           t == SubSeq(b, m + 1, Len(b))
<1>1. m \in Nat /\ Len(b) \in Nat /\ Len(w) \in Nat /\ Len(v) \in Nat /\ m <= Len(b)
  OBVIOUS
<1>2. \A i \in (m + 1)..Len(b) : b[i] \in S
  BY <1>1, ElementOfSeq
<1>3. /\ t \in Seq(S) /\ Len(t) = Len(b) - m
      /\ \A i \in 1..(Len(b) - m) : t[i] = b[m + i]
  BY <1>1, <1>2
<1>4. Len(b) + Len(w) = m + Len(v)
  <2>1. Len(b \o w) = Len(b) + Len(w) /\ Len(u \o v) = m + Len(v)
    BY ConcatProperties
  <2> QED
    BY <2>1 DEF Splits
<1> HIDE DEF t
<1>5. t \o w \in Seq(S) /\ Len(t \o w) = Len(v)
  BY <1>1, <1>3, <1>4, ConcatProperties
<1>6. ASSUME NEW i \in 1..Len(v) PROVE (t \o w)[i] = v[i]
  <2>1. m + i \in 1..(Len(b) + Len(w)) /\ m + i \in 1..(m + Len(v))
        /\ m + i > m /\ (m + i) - m = i
    BY <1>1, <1>4
  <2>2. (u \o v)[m + i] = v[i]
    BY <2>1, ConcatProperties
  <2>3. (b \o w)[m + i] = IF m + i <= Len(b) THEN b[m + i] ELSE w[m + i - Len(b)]
    BY <2>1, ConcatProperties
  <2>4. (t \o w)[i] = IF i <= Len(b) - m THEN t[i] ELSE w[i - (Len(b) - m)]
    BY <1>1, <1>3, <1>4, ConcatProperties
  <2>5. CASE i <= Len(b) - m
    BY <1>1, <1>3, <2>2, <2>3, <2>4, <2>5 DEF Splits
  <2>6. CASE ~(i <= Len(b) - m)
    <3>1. ~(m + i <= Len(b)) /\ m + i - Len(b) = i - (Len(b) - m)
      BY <1>1, <2>6
    <3> QED
      BY <2>2, <2>3, <2>4, <2>6, <3>1 DEF Splits
  <2> QED
    BY <2>5, <2>6
<1>7. t \o w = v
  BY <1>5, <1>6, SeqEqual
<1> QED
  BY <1>7 DEF t

-----------------------------------------------------------------------------
(* The parser and the stream.                                              *)

(* The line end is a token, and no text between two of them.               *)
LEMMA CrlfIsToken ==
    /\ Crlf \in Tokens /\ <<Crlf>> \in Seq(Tokens)
    /\ Seq({Crlf}) \subseteq Seq(Tokens)
    /\ \A x \in Methods \cup {"junk"} \cup Headers : x \in Tokens /\ x # Crlf
<1>1. Crlf \in Tokens /\ {Crlf} \subseteq Tokens
  BY DEF Tokens
<1>2. \A x \in Methods \cup {"junk"} \cup Headers : x \in Tokens /\ x # Crlf
  BY DEF Tokens, Methods, Headers, Crlf
<1>3. Seq({Crlf}) \subseteq Seq(Tokens)
  BY <1>1, SeqMonotonic
<1> QED
  BY <1>1, <1>2, <1>3

(* A stream that begins with u: its first token.                           *)
LEMMA FirstAgrees ==
    ASSUME NEW b \in Seq(Tokens), NEW w \in Seq(Tokens), NEW u \in Seq(Tokens),
           NEW v \in Seq(Tokens), Splits(b, w, u, v), b # <<>>, u # <<>>
    PROVE  b[1] = u[1]
<1>1. Len(b) \in Nat \ {0} /\ Len(u) \in Nat \ {0}
  BY EmptySeq
<1>2. 1 \in 1..Len(b) /\ 1 <= Len(u)
  BY <1>1
<1> QED
  BY <1>2, StreamAgrees

(* A stream that begins with a line x, of which two tokens are there.      *)
LEMMA SecondIsCrlf ==
    ASSUME NEW b \in Seq(Tokens), NEW w \in Seq(Tokens), NEW v \in Seq(Tokens),
           NEW x \in Tokens, Splits(b, w, <<x, Crlf>>, v),
           NEW m \in 1..Len(b), m = 2
    PROVE  b[m] = Crlf
<1> DEFINE u == <<x, Crlf>>
<1>1. u \in Seq(Tokens) /\ Len(u) = 2 /\ u[2] = Crlf
  BY CrlfIsToken
<1> HIDE DEF u
<1>2. Splits(b, w, u, v)
  BY DEF u
<1>3. m <= Len(u)
  BY <1>1
<1>4. b[m] = u[m]
  BY <1>1, <1>2, <1>3, StreamAgrees
<1> QED
  BY <1>1, <1>4

(* A stream that begins with a line x: the first Crlf is the second token. *)
LEMMA LineConsumed ==
    ASSUME NEW b \in Seq(Tokens), NEW w \in Seq(Tokens), NEW v \in Seq(Tokens),
           NEW x \in Tokens, x # Crlf, Splits(b, w, <<x, Crlf>>, v),
           NEW n \in 1..Len(b), b[n] = Crlf, \A m \in 1..(n - 1) : b[m] # Crlf
    PROVE  n = 2 /\ b[1] = x /\ SubSeq(b, n + 1, Len(b)) \o w = v
<1> DEFINE u == <<x, Crlf>>
<1>1. u \in Seq(Tokens) /\ Len(u) = 2 /\ u[1] = x /\ u[2] = Crlf
  BY CrlfIsToken
<1> HIDE DEF u
<1>2. Splits(b, w, u, v)
  BY DEF u
<1>3. b[1] = x
  <2>1. PICK m \in 1..Len(b) : m = 1 /\ m <= Len(u)
    BY <1>1
  <2>2. b[m] = u[m]
    BY <1>1, <1>2, <2>1, StreamAgrees
  <2> QED
    BY <1>1, <2>1, <2>2
<1>4. 2 \in 1..Len(b) /\ n >= 2
  BY <1>3
<1>5. b[2] = Crlf
  BY <1>4, SecondIsCrlf
<1>6. n = 2
  <2>1. CASE n > 2
    <3>1. 2 \in 1..(n - 1)
      BY <2>1
    <3> QED
      BY <1>5, <3>1
  <2> QED
    BY <1>4, <2>1
<1>7. SubSeq(b, Len(u) + 1, Len(b)) \o w = v
  <2>1. Len(u) <= Len(b)
    BY <1>1, <1>4
  <2> QED
    BY <1>1, <1>2, <2>1, StreamConsumed
<1> QED
  BY <1>1, <1>3, <1>6, <1>7

(* A stream that begins with an empty line.                                *)
LEMMA EmptyLineConsumed ==
    ASSUME NEW b \in Seq(Tokens), NEW w \in Seq(Tokens), NEW v \in Seq(Tokens),
           Splits(b, w, <<Crlf>>, v), b # <<>>
    PROVE  b[1] = Crlf /\ SubSeq(b, 2, Len(b)) \o w = v
<1> DEFINE u == <<Crlf>>
<1>1. u \in Seq(Tokens) /\ Len(u) = 1 /\ u[1] = Crlf /\ u # <<>>
  BY CrlfIsToken
<1> HIDE DEF u
<1>2. Splits(b, w, u, v)
  BY DEF u
<1>3. Len(u) <= Len(b)
  BY <1>1, EmptySeq
<1>4. SubSeq(b, Len(u) + 1, Len(b)) \o w = v
  BY <1>1, <1>2, <1>3, StreamConsumed
<1> QED
  BY <1>1, <1>2, <1>4, FirstAgrees

(* The responses of a connection.                                          *)
Answer == [code : {"handled", "error"}, line : Methods \cup {"none"},
           headers : Seq(Tokens), post : Seq(Tokens) \cup {NoData},
           keep : BOOLEAN]

(* Further responses may follow: open in RequestResponse.                  *)
Open == live /\ state \in {"INIT", "HEADER"}

(* Only empty lines may precede request k of the script s.                 *)
BetweenRequests(s, k) ==
    /\ k <= Len(s) + 1
    /\ \E c \in Seq({Crlf}) : buf \o wire = c \o From(Parts(s), k)

(* h and q are what the first i headers of the request r make of cl->hdr   *)
(* and cl->request.                                                        *)
Parsed(r, i, h, q) ==
    /\ h = SubSeq(r.headers, 1, i)
    /\ r.line \in Methods
    /\ \A j \in 1..i : r.headers[j] \notin Client!Offending
    /\ q.line = r.line
    /\ q.close <=> \/ r.line \in {"GET10", "POST"}
                   \/ \E j \in 1..i : r.headers[j] = "close"
    /\ q.ua = "safari" <=>
         \E j \in 1..i : /\ r.headers[j] = "safari"
                         /\ \A l \in (j + 1)..i : r.headers[l] # "msieOld"

(* Some headers of request k are parsed, and the next one follows.         *)
WithinHeaders(s, k) ==
    /\ k <= Len(s)
    /\ Len(hdr) <= Len(s[k].headers)
    /\ Parsed(s[k], Len(hdr), hdr, request)
    /\ buf \o wire = InHeaders(s, k, Len(hdr) + 1)

(* The parser is in sync with the script: the stream left is that of the   *)
(* requests that have no answer yet.                                       *)
InSync ==
    /\ answers \in Seq(Answer)
    /\ live /\ state = "INIT" => BetweenRequests(script, Len(answers) + 1)
    /\ live /\ state = "HEADER" => WithinHeaders(script, Len(answers) + 1)

(* A step of the client's view of the connection.                          *)
Served == [Client!Next]_(Client!vars)

(* A step that closes, or leaves a connection as good as closed.           *)
LEMMA ClosingServes ==
    ASSUME InSync, UNCHANGED <<script, answers>>, ~Open'
    PROVE  InSync' /\ Served
<1>1. InSync'
  BY DEF InSync, Open
<1>2. CASE Open
  BY <1>1, <1>2 DEF Served, Client!Next, Client!Close, Open
<1>3. CASE ~Open
  BY <1>1, <1>3 DEF Served, Client!vars, Open
<1> QED
  BY <1>1, <1>2, <1>3

(* A step that only moves tokens from the wire to the buffer, or nothing.  *)
LEMMA WaitingServes ==
    ASSUME InSync, UNCHANGED <<script, answers, live, state, request, hdr>>,
           buf' \o wire' = buf \o wire
    PROVE  InSync' /\ Served
<1>1. Served
  BY DEF Served, Client!vars
<1>2. BetweenRequests(script, Len(answers) + 1)
         => BetweenRequests(script, Len(answers) + 1)'
  BY DEF BetweenRequests
<1>3. WithinHeaders(script, Len(answers) + 1)
         => WithinHeaders(script, Len(answers) + 1)'
  BY DEF WithinHeaders
<1> QED
  BY <1>1, <1>2, <1>3 DEF InSync

(* A request that is malformed, and not met with silence, may be answered  *)
(* with an error, which ends the connection.                               *)
LEMMA ErrorServes ==
    ASSUME InSync, Open, NEW q \in Request, HeaderError(q), UNCHANGED script,
           Len(answers) < Len(script),
           ~Client!WellFormed(script[Len(answers) + 1]),
           ~Client!Silent(script[Len(answers) + 1])
    PROVE  InSync' /\ Served
<1> DEFINE a == [code |-> "error", line |-> "none", headers |-> <<>>,
                 post |-> <<>>, keep |-> ~q.close]
<1>1. answers' = Append(answers, a) /\ state' = "CLOSE"
  BY DEF HeaderError, CloseConnection
<1>2. (~q.close) \in BOOLEAN
  BY Zenon
<1>3. a \in Answer
  BY <1>2 DEF Answer
<1>4. InSync'
  BY <1>1, <1>3, AppendProperties DEF InSync
<1>5. a \in Client!Replies(script[Len(answers) + 1])
  BY <1>2 DEF Client!Replies
<1> HIDE DEF a
<1>6. Client!Reply
  BY <1>1, <1>5 DEF Client!Reply, Open
<1> QED
  BY <1>4, <1>6 DEF Served, Client!Next

(* The start of the stream between two requests: a stray empty line, or    *)
(* the line of the next request.                                           *)
LEMMA StreamStart ==
    ASSUME NEW s, Conformant(s), NEW k \in 1..(Len(s) + 1),
           NEW b \in Seq(Tokens), NEW w \in Seq(Tokens), NEW c \in Seq({Crlf}),
           b \o w = c \o From(Parts(s), k), b # <<>>
    PROVE  \/ /\ b[1] = Crlf
              /\ \E d \in Seq({Crlf}) :
                    SubSeq(b, 2, Len(b)) \o w = d \o From(Parts(s), k)
           \/ /\ b[1] # Crlf
              /\ k \in 1..Len(s)
              /\ b \o w = <<s[k].line, Crlf>> \o InHeaders(s, k, 1)
<1> DEFINE F == From(Parts(s), k)
<1>1. F \in Seq(Tokens) /\ Len(s) \in Nat
  BY PartsType, FromType
<1>2. CASE c # <<>>
  <2> DEFINE d == Tail(c)
  <2>1. c[1] = Crlf /\ d \in Seq({Crlf}) /\ Head(c) = c[1]
    <3>1. Len(c) \in Nat \ {0}
      BY <1>2, EmptySeq
    <3>2. c[1] \in {Crlf} /\ Head(c) = c[1]
      BY <3>1, ElementOfSeq
    <3> QED
      BY <1>2, <3>2, HeadTailProperties
  <2>2. c = <<Crlf>> \o d
    <3>1. Len(c) \in Nat \ {0}
      BY <1>2, EmptySeq
    <3>2. SubSeq(c, 1, Len(c)) = <<c[1]>> \o SubSeq(c, 1 + 1, Len(c))
      <4>1. 1 \in 1..Len(c) /\ Len(c) \in 1..Len(c)
        BY <3>1
      <4> QED
        BY <4>1, SubSeqRecursiveFirst
    <3>3. SubSeq(c, 1, Len(c)) = c /\ d = SubSeq(c, 2, Len(c))
      BY <1>2, SubSeqFull, TailIsSubSeq
    <3> QED
      BY <2>1, <3>2, <3>3
  <2> HIDE DEF d
  <2>3. d \in Seq(Tokens) /\ <<Crlf>> \in Seq(Tokens) /\ c \in Seq(Tokens)
    BY <2>1, CrlfIsToken
  <2>4. b \o w = <<Crlf>> \o (d \o F)
    <3> HIDE DEF F
    <3>1. (<<Crlf>> \o d) \o F = <<Crlf>> \o (d \o F)
      <4>0. Associative(Tokens)
        BY ConcatIsAssociative
      <4> QED
        BY <1>1, <2>3, <4>0, Zenon DEF Associative
    <3> QED
      BY <2>2, <3>1 DEF F
  <2>5. d \o F \in Seq(Tokens)
    BY <1>1, <2>3, ConcatProperties
  <2>6. b[1] = Crlf /\ SubSeq(b, 2, Len(b)) \o w = d \o F
    <3> DEFINE V == d \o F
    <3>1. V \in Seq(Tokens) /\ Splits(b, w, <<Crlf>>, V)
      BY <2>4, <2>5 DEF Splits
    <3> HIDE DEF V
    <3>2. b[1] = Crlf /\ SubSeq(b, 2, Len(b)) \o w = V
      BY <3>1, EmptyLineConsumed
    <3> QED
      BY <3>2 DEF V
  <2> QED
    BY <2>1, <2>6
<1>3. CASE c = <<>>
  <2>1. b \o w = F
    BY <1>1, <1>3, ConcatEmptySeq
  <2>2. k # Len(s) + 1
    <3> SUFFICES ASSUME k = Len(s) + 1 PROVE FALSE
      OBVIOUS
    <3>1. b \o w = <<>>
      BY <2>1, NoMoreRequests
    <3> QED
      BY <3>1, ConcatEqualIffEmpty
  <2>3. k \in 1..Len(s)
    BY <1>1, <2>2
  <2>4. b \o w = <<s[k].line, Crlf>> \o InHeaders(s, k, 1)
    BY <2>1, <2>3, NextRequest
  <2>5. s[k].line \in Methods \cup {"junk"} /\ 1 \in 1..(Len(s[k].headers) + 1)
    BY <2>3, ConformantTypes
  <2>6. InHeaders(s, k, 1) \in Seq(Tokens)
    BY <2>3, <2>5, StreamTypes
  <2>7. s[k].line \in Tokens /\ s[k].line # Crlf
    BY <2>5, CrlfIsToken
  <2>8. b[1] = s[k].line
    <3> DEFINE u == <<s[k].line, Crlf>>
    <3>1. u \in Seq(Tokens) /\ u # <<>> /\ u[1] = s[k].line
      BY <2>7, CrlfIsToken
    <3> HIDE DEF u
    <3>2. Splits(b, w, u, InHeaders(s, k, 1))
      BY <2>4 DEF u, Splits
    <3> QED
      BY <2>6, <3>1, <3>2, FirstAgrees
  <2> QED
    BY <2>3, <2>4, <2>7, <2>8
<1> QED
  BY <1>2, <1>3

(* The start of the stream within the headers of a request: the empty line *)
(* behind the last one, or the next header.                                *)
LEMMA HeaderStart ==
    ASSUME NEW s, Conformant(s), NEW k \in 1..Len(s),
           NEW i \in 1..(Len(s[k].headers) + 1),
           NEW b \in Seq(Tokens), NEW w \in Seq(Tokens),
           b \o w = InHeaders(s, k, i), b # <<>>
    PROVE  \/ /\ b[1] = Crlf
              /\ i = Len(s[k].headers) + 1
              /\ SubSeq(b, 2, Len(b)) \o w = s[k].body \o From(Parts(s), k + 1)
           \/ /\ b[1] # Crlf
              /\ i \in 1..Len(s[k].headers)
              /\ s[k].headers[i] # "long"
              /\ b \o w = <<s[k].headers[i], Crlf>> \o InHeaders(s, k, i + 1)
           \/ /\ b[1] # Crlf
              /\ i \in 1..Len(s[k].headers)
              /\ s[k].headers[i] = "long"
              /\ \A m \in 1..Len(b) : m <= BufLen => b[m] = "long"
<1> DEFINE R == s[k].body \o From(Parts(s), k + 1)
           N == InHeaders(s, k, i + 1)
           h == s[k].headers[i]
<1>1. Len(s[k].headers) \in Nat /\ R \in Seq(Tokens)
  BY ConformantTypes, StreamTypes
<1>0. \/ i = Len(s[k].headers) + 1
      \/ i \in 1..Len(s[k].headers) /\ i + 1 \in 1..(Len(s[k].headers) + 1)
  <2> DEFINE n == Len(s[k].headers)
  <2>1. n \in Nat /\ i \in 1..(n + 1)
    BY ConformantTypes
  <2> HIDE DEF n
  <2>2. i = n + 1 \/ (i \in 1..n /\ i + 1 \in 1..(n + 1))
    BY <2>1
  <2> QED
    BY <2>2, Zenon DEF n
<1>2. CASE i = Len(s[k].headers) + 1
  <2>1. b \o w = <<Crlf>> \o R
    BY <1>2, LastHeader DEF AfterHeaders
  <2> HIDE DEF R
  <2>2. b[1] = Crlf /\ SubSeq(b, 2, Len(b)) \o w = R
    <3>1. R \in Seq(Tokens) /\ Splits(b, w, <<Crlf>>, R)
      BY <1>1, <2>1 DEF Splits
    <3> QED
      BY <3>1, EmptyLineConsumed
  <2> QED
    BY <1>2, <2>2 DEF R
<1>3. CASE i # Len(s[k].headers) + 1
  <2>1. i \in 1..Len(s[k].headers) /\ i + 1 \in 1..(Len(s[k].headers) + 1)
    BY <1>0, <1>3, Zenon
  <2>2. h \in Headers /\ h \in Tokens /\ h # Crlf
    <3>1. h \in Headers
      BY <2>1, ConformantTypes, ElementOfSeq
    <3> QED
      BY <3>1, CrlfIsToken
  <2>3. N \in Seq(Tokens)
    BY <2>1, StreamTypes
  <2>4. b \o w = (IF h = "long" THEN [j \in 1..BufLen |-> "long"] ELSE <<h>>)
                   \o (<<Crlf>> \o N)
    BY <2>1, NextHeader
  <2>5. <<Crlf>> \o N \in Seq(Tokens)
    <3>1. <<Crlf>> \in Seq(Tokens)
      BY CrlfIsToken
    <3> QED
      BY <2>3, <3>1, ConcatProperties
  <2>6. CASE h # "long"
    <3> HIDE DEF N, h
    <3>1. b \o w = <<h, Crlf>> \o N
      <4>1. <<h>> \o (<<Crlf>> \o N) = <<h, Crlf>> \o N
        BY <2>2, <2>3, CrlfIsToken
      <4> QED
        BY <2>4, <2>6, <4>1
    <3>2. b[1] = h
      <4> DEFINE u == <<h, Crlf>>
      <4>1. u \in Seq(Tokens) /\ u # <<>> /\ u[1] = h
        BY <2>2, CrlfIsToken
      <4> HIDE DEF u
      <4>2. Splits(b, w, u, N)
        BY <3>1 DEF u, Splits
      <4> QED
        BY <2>3, <4>1, <4>2, FirstAgrees
    <3> QED
      BY <2>1, <2>2, <2>6, <3>1, <3>2 DEF N, h
  <2>7. CASE h = "long"
    <3> DEFINE u == [j \in 1..BufLen |-> "long"]
               v == <<Crlf>> \o N
    <3>1. /\ u \in Seq(Tokens) /\ Len(u) = BufLen /\ BufLen \in Nat \ {0}
          /\ \A j \in 1..BufLen : u[j] = "long"
      BY DEF Tokens, Headers
    <3>2. Splits(b, w, u, v)
      BY <2>4, <2>7 DEF Splits
    <3>3. v \in Seq(Tokens)
      BY <2>5
    <3> HIDE DEF u, v, N, h
    <3>4. ASSUME NEW m \in 1..Len(b), m <= BufLen PROVE b[m] = "long"
      <4>1. b[m] = u[m]
        BY <3>1, <3>2, <3>3, <3>4, StreamAgrees
      <4>2. m \in 1..BufLen
        BY <3>1, <3>4
      <4> QED
        BY <3>1, <4>1, <4>2
    <3>5. b[1] = "long"
      <4>1. Len(b) \in Nat \ {0}
        BY EmptySeq
      <4>2. 1 \in 1..Len(b) /\ 1 <= BufLen
        BY <3>1, <4>1
      <4> QED
        BY <3>4, <4>2
    <3> QED
      BY <2>1, <2>2, <2>7, <3>4, <3>5 DEF h
  <2> QED
    BY <2>6, <2>7
<1> QED
  BY <1>2, <1>3

-----------------------------------------------------------------------------
(* The steps of the connection.                                            *)

(* The peers this is about, and a buffer that holds a line of two tokens.  *)
ConformantPeers == BufLen >= 2 /\ \A s \in Scripts : Conformant(s)

(* What is invariant.                                                      *)
SInv == IInv /\ InSync

(* What these say about the types.                                         *)
LEMMA SFacts ==
    ASSUME ConformantPeers, SInv
    PROVE  /\ Conformant(script) /\ Len(script) \in Nat
           /\ answers \in Seq(Answer) /\ Len(answers) \in Nat
           /\ buf \in Seq(Tokens) /\ wire \in Seq(Tokens) /\ Len(buf) <= BufLen
           /\ hdr \in Seq(Tokens) /\ request \in Request
           /\ BufLen \in Nat /\ BufLen >= 2
<1>1. Conformant(script)
  BY DEF ConformantPeers, SInv, IInv, TypeOK
<1>2. Len(script) \in Nat
  BY <1>1, PartsType
<1>3. answers \in Seq(Answer) /\ Len(answers) \in Nat
  BY LenProperties DEF SInv, InSync
<1>4. buf \in Seq(Tokens) /\ wire \in Seq(Tokens) /\ Len(buf) <= BufLen
  BY DEF SInv, IInv, TypeOK
<1>5. hdr \in Seq(Tokens) /\ request \in Request
  BY DEF SInv, IInv, TypeOK
<1>6. BufLen \in Nat /\ BufLen >= 2
  BY DEF ConformantPeers
<1> QED
  BY <1>1, <1>2, <1>3, <1>4, <1>5, <1>6

(* What decides that a request is answered with an error.                  *)
LEMMA FirstOffence ==
    ASSUME NEW r, NEW i \in 1..Len(r.headers), Len(r.headers) \in Nat,
           \A j \in 1..(i - 1) : r.headers[j] \notin Client!Offending,
           r.headers[i] \in Client!Offending, r.headers[i] # "noColon"
    PROVE  ~Client!WellFormed(r) /\ ~Client!Silent(r)
<1>1. ~Client!WellFormed(r)
  BY DEF Client!WellFormed
<1>2. ASSUME NEW m \in 1..Len(r.headers), r.headers[m] = "noColon",
             \A j \in 1..(m - 1) : r.headers[j] \notin Client!Offending
      PROVE  FALSE
  <2>1. CASE m < i
    <3>1. m \in 1..(i - 1)
      BY <2>1
    <3> QED
      BY <1>2, <3>1 DEF Client!Offending
  <2>2. CASE m = i
    BY <1>2, <2>2
  <2>3. CASE m > i
    <3>1. i \in 1..(m - 1)
      BY <2>3
    <3> QED
      BY <1>2, <3>1
  <2> QED
    BY <2>1, <2>2, <2>3
<1> QED
  BY <1>1, <1>2 DEF Client!Silent

(* A line that fills the buffer without an end is a header too long: the   *)
(* buffer has room for two tokens, and every other line ends at the        *)
(* second.                                                                 *)
LEMMA TooLargeServes ==
    ASSUME ConformantPeers, SInv, TooLarge
    PROVE  InSync' /\ Served
<1> DEFINE k == Len(answers) + 1
           i == Len(hdr) + 1
<1>1. /\ live /\ state \in {"INIT", "HEADER"}
      /\ Len(buf) = BufLen /\ buf # <<>> /\ \A n \in 1..Len(buf) : buf[n] # Crlf
  <2>1. live
    BY DEF TooLarge, SInv, IInv, ReadsWhileLive
  <2>2. state \in {"INIT", "HEADER"} /\ Len(buf) = BufLen
    BY DEF TooLarge, Handler
  <2>3. buf # <<>>
    BY <2>2, SFacts, EmptySeq
  <2> QED
    BY <2>1, <2>2, <2>3 DEF TooLarge, HasLine
<1>2. 1 \in 1..Len(buf) /\ 2 \in 1..Len(buf)
  BY <1>1, SFacts
<1>3. CASE state = "INIT"
  <2>1. /\ k \in 1..(Len(script) + 1)
        /\ \E c \in Seq({Crlf}) : buf \o wire = c \o From(Parts(script), k)
    <3>1. BetweenRequests(script, k)
      BY <1>1, <1>3 DEF SInv, InSync
    <3>2. Len(script) \in Nat /\ Len(answers) \in Nat
      BY SFacts
    <3> QED
      BY <3>1, <3>2 DEF BetweenRequests
  <2>2. /\ k \in 1..Len(script)
        /\ buf \o wire = <<script[k].line, Crlf>> \o InHeaders(script, k, 1)
    BY <1>1, <1>2, <2>1, SFacts, StreamStart
  <2> DEFINE v == InHeaders(script, k, 1)
  <2>3. script[k].line \in Tokens
    BY <2>2, SFacts, ConformantTypes, CrlfIsToken
  <2>4. v \in Seq(Tokens)
    <3>1. 1 \in 1..(Len(script[k].headers) + 1)
      BY <2>2, SFacts, ConformantTypes
    <3> QED
      BY <2>2, <3>1, SFacts, StreamTypes
  <2>5. Splits(buf, wire, <<script[k].line, Crlf>>, v)
    BY <2>2 DEF Splits
  <2> HIDE DEF v, k
  <2>6. buf[2] = Crlf
    BY <1>2, <2>3, <2>4, <2>5, SFacts, SecondIsCrlf
  <2> QED
    BY <1>1, <1>2, <2>6
<1>4. CASE state = "HEADER"
  <2>1. k <= Len(script) /\ WithinHeaders(script, k)
    BY <1>1, <1>4 DEF SInv, InSync, WithinHeaders
  <2>2. k \in 1..Len(script)
    BY <2>1, SFacts
  <2>3. Len(script[k].headers) \in Nat /\ Len(hdr) \in Nat
    BY <2>2, SFacts, ConformantTypes, LenProperties
  <2>4. i \in 1..(Len(script[k].headers) + 1) /\ buf \o wire = InHeaders(script, k, i)
    BY <2>1, <2>3 DEF WithinHeaders
  <2> HIDE DEF k, i
  <2>5. \/ /\ i \in 1..Len(script[k].headers)
           /\ script[k].headers[i] # "long"
           /\ buf \o wire = <<script[k].headers[i], Crlf>> \o InHeaders(script, k, i + 1)
        \/ /\ i \in 1..Len(script[k].headers)
           /\ script[k].headers[i] = "long"
    BY <1>1, <1>2, <2>2, <2>4, SFacts, HeaderStart
  <2>6. script[k].headers[i] = "long"
    <3> SUFFICES ASSUME script[k].headers[i] # "long" PROVE FALSE
      OBVIOUS
    <3> DEFINE v == InHeaders(script, k, i + 1)
    <3>1. script[k].headers[i] \in Tokens
      BY <2>2, <2>5, SFacts, ConformantTypes, ElementOfSeq, CrlfIsToken
    <3>3. v \in Seq(Tokens)
      <4>1. i + 1 \in 1..(Len(script[k].headers) + 1)
        BY <2>3, <2>5
      <4> QED
        BY <2>2, <4>1, SFacts, StreamTypes
    <3>4. Splits(buf, wire, <<script[k].headers[i], Crlf>>, v)
      BY <2>5 DEF Splits
    <3> HIDE DEF v
    <3>6. buf[2] = Crlf
      BY <1>2, <3>1, <3>3, <3>4, SFacts, SecondIsCrlf
    <3> QED
      BY <1>1, <1>2, <3>6
  <2>7. ~Client!WellFormed(script[k]) /\ ~Client!Silent(script[k])
    <3>1. \A j \in 1..(i - 1) : script[k].headers[j] \notin Client!Offending
      BY <2>1, <2>3 DEF WithinHeaders, Parsed, i
    <3> QED
      BY <2>3, <2>5, <2>6, <3>1, FirstOffence DEF Client!Offending
  <2>8. HeaderError(request) /\ UNCHANGED script
    BY DEF TooLarge, peerVars
  <2> QED
    BY <1>1, <2>2, <2>7, <2>8, SFacts, ErrorServes DEF SInv, Open, k
<1> QED
  BY <1>1, <1>3, <1>4

(* An empty line between two requests is skipped.                          *)
LEMMA BlankLineServes ==
    ASSUME ConformantPeers, SInv, BlankLine
    PROVE  InSync' /\ Served
<1> DEFINE k == Len(answers) + 1
<1>1. /\ live /\ state = "INIT" /\ buf # <<>> /\ buf[1] = Crlf
      /\ buf' = SubSeq(buf, 2, Len(buf))
      /\ UNCHANGED <<script, answers, live, state, wire>>
  <2>1. live
    BY DEF BlankLine, SInv, IInv, ReadsWhileLive
  <2> QED
    BY <2>1 DEF BlankLine, Handler, LineEndsAt, After, parseVars, peerVars
<1>2. PICK c \in Seq({Crlf}) : buf \o wire = c \o From(Parts(script), k)
  BY <1>1 DEF SInv, InSync, BetweenRequests
<1>3. k \in 1..(Len(script) + 1) /\ k <= Len(script) + 1
  <2>1. BetweenRequests(script, k)
    BY <1>1 DEF SInv, InSync
  <2>2. Len(script) \in Nat /\ Len(answers) \in Nat
    BY SFacts
  <2> QED
    BY <2>1, <2>2 DEF BetweenRequests
<1>4. PICK d \in Seq({Crlf}) :
         SubSeq(buf, 2, Len(buf)) \o wire = d \o From(Parts(script), k)
  <2> HIDE DEF k
  <2>1. Conformant(script) /\ buf \in Seq(Tokens) /\ wire \in Seq(Tokens)
    BY SFacts
  <2>2. \/ \E d \in Seq({Crlf}) :
             SubSeq(buf, 2, Len(buf)) \o wire = d \o From(Parts(script), k)
        \/ buf[1] # Crlf
    BY <1>1, <1>2, <1>3, <2>1, StreamStart
  <2> QED
    BY <1>1, <2>2
<1>5. BetweenRequests(script, k)'
  BY <1>1, <1>3, <1>4 DEF BetweenRequests
<1>6. InSync'
  BY <1>1, <1>5 DEF SInv, InSync
<1>7. Served
  BY <1>1 DEF Served, Client!vars
<1> QED
  BY <1>6, <1>7

(* Behind the first line nothing of the headers is parsed.                 *)
LEMMA NothingParsed ==
    ASSUME NEW r, r.line \in Methods
    PROVE  Parsed(r, 0, <<>>, NewRequest(r.line))
<1>1. SubSeq(r.headers, 1, 0) = <<>>
  BY SubSeqEmpty
<1>2. /\ NewRequest(r.line).line = r.line
      /\ NewRequest(r.line).close <=> r.line \in {"GET10", "POST"}
      /\ NewRequest(r.line).ua = "other"
  BY DEF NewRequest, NoRequest
<1>3. \A j \in 1..0 : FALSE
  OBVIOUS
<1> QED
  BY <1>1, <1>2, <1>3 DEF Parsed

(* The line read is that of the next request: the parser goes on with its  *)
(* headers, or answers that it is junk.                                    *)
LEMMA RequestLineServes ==
    ASSUME ConformantPeers, SInv, NEW n \in 1..Len(buf), RequestLine(n)
    PROVE  InSync' /\ Served
<1> DEFINE k == Len(answers) + 1
           r == script[k]
<1>1. live
  BY DEF RequestLine, SInv, IInv, ReadsWhileLive
<1>2. /\ state = "INIT" /\ n > 1 /\ buf[n] = Crlf
      /\ \A m \in 1..(n - 1) : buf[m] # Crlf
      /\ buf' = SubSeq(buf, n + 1, Len(buf)) /\ hdr' = <<>>
      /\ UNCHANGED <<script, wire, live>>
  BY DEF RequestLine, Handler, LineEndsAt, After, peerVars
<1>3. /\ Conformant(script) /\ buf \in Seq(Tokens) /\ wire \in Seq(Tokens)
      /\ Len(script) \in Nat /\ Len(answers) \in Nat /\ Len(buf) \in Nat
      /\ request \in Request
  BY SFacts, LenProperties
<1>4. buf # <<>> /\ buf[1] # Crlf
  <2>1. 1 \in 1..(n - 1) /\ Len(buf) # 0
    BY <1>2, <1>3
  <2> QED
    BY <1>2, <1>3, <2>1, EmptySeq
<1>5. k \in 1..Len(script) /\ buf \o wire = <<r.line, Crlf>> \o InHeaders(script, k, 1)
  <2>1. BetweenRequests(script, k)
    BY <1>1, <1>2 DEF SInv, InSync
  <2>2. PICK c \in Seq({Crlf}) : buf \o wire = c \o From(Parts(script), k)
    BY <2>1 DEF BetweenRequests
  <2>3. k \in 1..(Len(script) + 1)
    BY <1>3, <2>1 DEF BetweenRequests
  <2> HIDE DEF k
  <2> QED
    BY <1>3, <1>4, <2>2, <2>3, StreamStart
<1>6. /\ r.line \in Methods \cup {"junk"} /\ r.line \in Tokens /\ r.line # Crlf
      /\ Len(r.headers) \in Nat /\ r.headers \in Seq(Headers)
  <2> HIDE DEF k
  <2>1. r.line \in Methods \cup {"junk"} /\ Len(r.headers) \in Nat
        /\ r.headers \in Seq(Headers)
    BY <1>3, <1>5, ConformantTypes
  <2> QED
    BY <2>1, CrlfIsToken
<1>7. InHeaders(script, k, 1) \in Seq(Tokens)
  <2>1. 1 \in 1..(Len(r.headers) + 1)
    BY <1>6
  <2> HIDE DEF k
  <2> QED
    BY <1>3, <1>5, <2>1, StreamTypes
<1>8. n = 2 /\ buf[1] = r.line /\ buf' \o wire' = InHeaders(script, k, 1)
  <2> DEFINE v == InHeaders(script, k, 1)
             x == r.line
  <2>1. v \in Seq(Tokens) /\ x \in Tokens /\ x # Crlf
        /\ Splits(buf, wire, <<x, Crlf>>, v)
    BY <1>5, <1>6, <1>7 DEF Splits
  <2> HIDE DEF v, x
  <2>2. n = 2 /\ buf[1] = x /\ SubSeq(buf, n + 1, Len(buf)) \o wire = v
    BY <1>2, <1>3, <2>1, LineConsumed
  <2> QED
    BY <1>2, <2>2 DEF v, x
<1>9. CASE r.line \in Methods
  <2>1. /\ request' = NewRequest(r.line) /\ state' = "HEADER" /\ answers' = answers
    BY <1>8, <1>9 DEF RequestLine
  <2>3. Len(hdr') = 0
    BY <1>2, EmptySeq
  <2>4. Parsed(r, 0, hdr', request')
    BY <1>2, <1>9, <2>1, NothingParsed
  <2>5. WithinHeaders(script, k)'
    BY <1>2, <1>5, <1>6, <1>8, <2>1, <2>3, <2>4 DEF WithinHeaders
  <2>6. InSync'
    BY <2>1, <2>5 DEF SInv, InSync
  <2>7. Served
    BY <1>1, <1>2, <2>1 DEF Served, Client!vars
  <2> QED
    BY <2>6, <2>7
<1>10. CASE r.line \notin Methods
  <2>1. PICK q \in {request, NoRequest} : HeaderError(q)
    BY <1>8, <1>10 DEF RequestLine
  <2>2. q \in Request
    <3>1. NoRequest \in Request
      BY DEF Request, NoRequest
    <3> QED
      BY <1>3, <2>1, <3>1
  <2>3. r.line = "junk"
    BY <1>6, <1>10
  <2>4. ~Client!WellFormed(r) /\ ~Client!Silent(r)
    BY <2>3 DEF Client!WellFormed, Client!Silent
  <2>5. Len(answers) < Len(script) /\ Open
    BY <1>1, <1>2, <1>3, <1>5 DEF Open
  <2>6. UNCHANGED script /\ InSync
    BY <1>2 DEF SInv
  <2> QED
    BY <2>1, <2>2, <2>4, <2>5, <2>6, ErrorServes
<1> QED
  BY <1>9, <1>10

(* What a header makes of the request.                                     *)
LEMMA RequestWithHeader ==
    ASSUME NEW q \in Request, NEW x
    PROVE  /\ WithHeader(q, x).line = q.line
           /\ WithHeader(q, x).close <=> (q.close \/ x = "close")
           /\ WithHeader(q, x).ua = "safari"
                <=> (x = "safari" \/ (x # "msieOld" /\ q.ua = "safari"))
<1>1. CASE x = "close"
  BY <1>1 DEF WithHeader, Request
<1>2. CASE x = "expect100"
  BY <1>2 DEF WithHeader, Request
<1>3. CASE x \in {"safari", "msieOld"}
  BY <1>3 DEF WithHeader, Request
<1>4. CASE x \notin {"close", "expect100", "safari", "msieOld"}
  BY <1>4 DEF WithHeader, Request
<1> QED
  BY <1>1, <1>2, <1>3, <1>4

(* A header that offends nobody is parsed: of several user agents the      *)
(* last one counts.                                                        *)
LEMMA OneMoreParsed ==
    ASSUME NEW r, r.headers \in Seq(Headers), NEW i \in Nat, i < Len(r.headers),
           NEW h, NEW q \in Request, Parsed(r, i, h, q),
           r.headers[i + 1] \notin Client!Offending
    PROVE  Parsed(r, i + 1, Append(h, r.headers[i + 1]),
                  WithHeader(q, r.headers[i + 1]))
<1> DEFINE s == r.headers
           x == s[i + 1]
           p == WithHeader(q, x)
<1>1. SubSeq(s, 1, i + 1) = Append(SubSeq(s, 1, i), s[i + 1])
  <2>1. 1 \in 1..Len(s) + 1 /\ i \in Nat /\ i + 1 <= Len(s) /\ Len(s) \in Nat
    OBVIOUS
  <2> QED
    BY <2>1, SubSeqProperties, AppendProperties
<1>2. /\ p.line = q.line
      /\ p.close <=> (q.close \/ x = "close")
      /\ p.ua = "safari" <=> (x = "safari" \/ (x # "msieOld" /\ q.ua = "safari"))
  BY RequestWithHeader
<1>3. \A j : j \in 1..(i + 1) <=> (j \in 1..i \/ j = i + 1)
  OBVIOUS
<1> HIDE DEF p, x
<1>4. \A j \in 1..(i + 1) : s[j] \notin Client!Offending
  BY <1>3 DEF Parsed
<1>5. p.close <=> \/ r.line \in {"GET10", "POST"}
                  \/ \E j \in 1..(i + 1) : s[j] = "close"
  BY <1>2, <1>3 DEF Parsed, x
<1>6. p.ua = "safari" <=>
        \E j \in 1..(i + 1) : /\ s[j] = "safari"
                              /\ \A l \in (j + 1)..(i + 1) : s[l] # "msieOld"
  <2>1. CASE x = "safari"
    <3>1. i + 1 \in 1..(i + 1) /\ \A l \in ((i + 1) + 1)..(i + 1) : FALSE
      OBVIOUS
    <3> QED
      BY <1>2, <2>1, <3>1 DEF x
  <2>2. CASE x = "msieOld"
    <3>1. ASSUME NEW j \in 1..(i + 1), s[j] = "safari" PROVE i + 1 \in (j + 1)..(i + 1)
      <4>1. j # i + 1
        BY <2>2, <3>1 DEF x
      <4> QED
        BY <4>1
    <3> QED
      BY <1>2, <2>2, <3>1 DEF x
  <2>3. CASE x \notin {"safari", "msieOld"}
    <3>1. p.ua = "safari" <=>
            \E j \in 1..i : /\ s[j] = "safari"
                            /\ \A l \in (j + 1)..i : s[l] # "msieOld"
      BY <1>2, <2>3 DEF Parsed
    <3>2. ASSUME NEW j \in 1..i
          PROVE  (\A l \in (j + 1)..i : s[l] # "msieOld")
                   <=> (\A l \in (j + 1)..(i + 1) : s[l] # "msieOld")
      <4>1. \A l : l \in (j + 1)..(i + 1) <=> (l \in (j + 1)..i \/ l = i + 1)
        OBVIOUS
      <4> QED
        BY <2>3, <4>1 DEF x
    <3>3. s[i + 1] # "safari"
      BY <2>3 DEF x
    <3> QED
      BY <1>3, <3>1, <3>2, <3>3
  <2> QED
    BY <2>1, <2>2, <2>3
<1>7. h = SubSeq(s, 1, i) /\ r.line \in Methods /\ q.line = r.line
  BY DEF Parsed
<1> QED
  BY <1>1, <1>2, <1>4, <1>5, <1>6, <1>7 DEF Parsed, x, p

(* Within the headers of the next request.                                 *)
LEMMA HeaderFacts ==
    ASSUME ConformantPeers, SInv, live, state = "HEADER", NEW k,
           k = Len(answers) + 1
    PROVE  /\ Conformant(script) /\ k \in 1..Len(script) /\ Len(script) \in Nat
           /\ Len(answers) \in Nat /\ Len(hdr) \in Nat
           /\ script[k].headers \in Seq(Headers)
           /\ Len(script[k].headers) \in Nat
           /\ Len(hdr) + 1 \in 1..(Len(script[k].headers) + 1)
           /\ Parsed(script[k], Len(hdr), hdr, request)
           /\ buf \o wire = InHeaders(script, k, Len(hdr) + 1)
<1>1. /\ Conformant(script) /\ Len(script) \in Nat /\ Len(answers) \in Nat
      /\ hdr \in Seq(Tokens)
  BY SFacts
<1>2. WithinHeaders(script, k)
  BY DEF SInv, InSync
<1>3. k \in 1..Len(script) /\ Len(hdr) \in Nat
  BY <1>1, <1>2, LenProperties DEF WithinHeaders
<1>4. script[k].headers \in Seq(Headers) /\ Len(script[k].headers) \in Nat
  BY <1>1, <1>3, ConformantTypes
<1>5. /\ Len(hdr) <= Len(script[k].headers)
      /\ Parsed(script[k], Len(hdr), hdr, request)
      /\ buf \o wire = InHeaders(script, k, Len(hdr) + 1)
  BY <1>2 DEF WithinHeaders
<1>6. Len(hdr) + 1 \in 1..(Len(script[k].headers) + 1)
  <2> DEFINE m == Len(script[k].headers)
             l == Len(hdr)
  <2>1. m \in Nat /\ l \in Nat /\ l <= m
    BY <1>3, <1>4, <1>5
  <2> HIDE DEF m, l
  <2>2. l + 1 \in 1..(m + 1)
    BY <2>1
  <2> QED
    BY <2>2 DEF m, l
<1> QED
  BY <1>1, <1>3, <1>4, <1>5, <1>6

(* The line read is the next header: it is kept, or the first that         *)
(* offends and answered with an error, or it ends the parsing.             *)
LEMMA HeaderLineServes ==
    ASSUME ConformantPeers, SInv, NEW n \in 1..Len(buf), HeaderLine(n)
    PROVE  InSync' /\ Served
<1>1. live
  BY DEF HeaderLine, SInv, IInv, ReadsWhileLive
<1>2. /\ state = "HEADER" /\ n > 1 /\ buf[n] = Crlf
      /\ \A m \in 1..(n - 1) : buf[m] # Crlf
      /\ buf' = SubSeq(buf, n + 1, Len(buf))
      /\ UNCHANGED <<script, wire, live>>
  BY DEF HeaderLine, Handler, LineEndsAt, After, peerVars
<1>k. PICK k : k = Len(answers) + 1
  OBVIOUS
<1>i. PICK i : i = Len(hdr) + 1
  OBVIOUS
<1>r. PICK r : r = script[k]
  OBVIOUS
<1>3. /\ Conformant(script) /\ k \in 1..Len(script) /\ Len(script) \in Nat
      /\ Len(answers) \in Nat /\ Len(hdr) \in Nat
      /\ r.headers \in Seq(Headers) /\ Len(r.headers) \in Nat
      /\ i \in 1..(Len(r.headers) + 1) /\ i \in 1..(Len(script[k].headers) + 1)
      /\ Parsed(r, Len(hdr), hdr, request)
      /\ buf \o wire = InHeaders(script, k, i)
  BY <1>1, <1>2, <1>k, <1>i, <1>r, HeaderFacts
<1>4. /\ buf \in Seq(Tokens) /\ wire \in Seq(Tokens) /\ request \in Request
      /\ hdr \in Seq(Tokens) /\ Len(buf) <= BufLen /\ Len(buf) \in Nat
  BY SFacts, LenProperties
<1>5. buf # <<>> /\ buf[1] # Crlf
  <2>1. 1 \in 1..(n - 1) /\ Len(buf) # 0
    BY <1>2, <1>4
  <2> QED
    BY <1>2, <1>4, <2>1, EmptySeq
<1>6. /\ i \in 1..Len(r.headers) /\ r.headers[i] # "long"
      /\ buf \o wire = <<r.headers[i], Crlf>> \o InHeaders(script, k, i + 1)
  <2>1. \/ /\ i \in 1..Len(r.headers) /\ r.headers[i] # "long"
           /\ buf \o wire = <<r.headers[i], Crlf>> \o InHeaders(script, k, i + 1)
        \/ \A m \in 1..Len(buf) : m <= BufLen => buf[m] = "long"
    BY <1>3, <1>4, <1>5, <1>r, HeaderStart
  <2>2. ASSUME \A m \in 1..Len(buf) : m <= BufLen => buf[m] = "long" PROVE FALSE
    <3>1. n <= BufLen
      BY <1>4
    <3>2. buf[n] = "long"
      BY <2>2, <3>1
    <3> QED
      BY <1>2, <3>2 DEF Crlf
  <2> QED
    BY <2>1, <2>2
<1>h. PICK h : h = r.headers[i]
  OBVIOUS
<1>7. h \in Headers /\ h \in Tokens /\ h # Crlf
  <2>1. h \in Headers
    BY <1>3, <1>6, <1>h, ElementOfSeq
  <2> QED
    BY <2>1, CrlfIsToken
<1>8. InHeaders(script, k, i + 1) \in Seq(Tokens)
  <2>1. i + 1 \in 1..(Len(script[k].headers) + 1)
    BY <1>3, <1>6, <1>r
  <2> QED
    BY <1>3, <2>1, StreamTypes
<1>9. n = 2 /\ buf[1] = h /\ buf' \o wire' = InHeaders(script, k, i + 1)
  <2> DEFINE v == InHeaders(script, k, i + 1)
  <2>1. v \in Seq(Tokens) /\ Splits(buf, wire, <<h, Crlf>>, v)
    BY <1>6, <1>8, <1>h DEF Splits
  <2> HIDE DEF v
  <2>2. n = 2 /\ buf[1] = h /\ SubSeq(buf, n + 1, Len(buf)) \o wire = v
    BY <1>2, <1>4, <1>7, <2>1, LineConsumed
  <2> QED
    BY <1>2, <2>2 DEF v
<1>10. HeaderOf(n) = h
  BY <1>9 DEF HeaderOf
<1>11. Len(answers) < Len(script) /\ Open /\ InSync
  BY <1>1, <1>2, <1>3, <1>k DEF Open, SInv
<1>12. CASE h = "noColon"
  <2>1. state' = "DONE" /\ UNCHANGED <<script, answers>>
    BY <1>2, <1>10, <1>12 DEF HeaderLine
  <2> QED
    BY <1>11, <2>1, ClosingServes DEF Open
<1>13. CASE h \in {"expectOther", "badLength"}
  <2>1. HeaderError(request)
    BY <1>10, <1>13 DEF HeaderLine
  <2>2. ~Client!WellFormed(r) /\ ~Client!Silent(r)
    <3>1. \A j \in 1..(i - 1) : r.headers[j] \notin Client!Offending
      BY <1>3, <1>i DEF Parsed
    <3>2. r.headers[i] \in Client!Offending /\ r.headers[i] # "noColon"
      BY <1>13, <1>h DEF Client!Offending
    <3> QED
      BY <1>3, <1>6, <3>1, <3>2, FirstOffence
  <2> QED
    BY <1>2, <1>4, <1>11, <1>k, <1>r, <2>1, <2>2, ErrorServes
<1>14. CASE h \notin {"noColon", "expectOther", "badLength"}
  <2>1. /\ request' = WithHeader(request, h) /\ hdr' = Append(hdr, h)
        /\ UNCHANGED <<state, answers>>
    BY <1>10, <1>14 DEF HeaderLine
  <2>2. Len(hdr') = i /\ i - 1 = Len(hdr) /\ (i - 1) + 1 = i /\ i - 1 \in Nat
    BY <1>3, <1>4, <1>i, <2>1, AppendProperties
  <2>3. Parsed(r, i, hdr', request')
    <3>1. r.headers[(i - 1) + 1] \notin Client!Offending
      BY <1>6, <1>14, <1>h, <2>2 DEF Client!Offending
    <3>2. i - 1 < Len(r.headers) /\ Parsed(r, i - 1, hdr, request)
      BY <1>3, <1>6, <2>2
    <3>3. Parsed(r, (i - 1) + 1, Append(hdr, r.headers[(i - 1) + 1]),
                 WithHeader(request, r.headers[(i - 1) + 1]))
      BY <1>3, <1>4, <2>2, <3>1, <3>2, OneMoreParsed
    <3> QED
      BY <1>h, <2>1, <2>2, <3>3
  <2>4. WithinHeaders(script, k)'
    <3>1. script'[k] = r /\ Len(script') = Len(script)
      BY <1>2, <1>r
    <3>2. k <= Len(script) /\ i <= Len(r.headers)
      BY <1>3, <1>6
    <3> QED
      BY <1>2, <1>9, <2>2, <2>3, <3>1, <3>2 DEF WithinHeaders
  <2>5. InSync'
    BY <1>2, <1>k, <2>1, <2>4 DEF SInv, InSync
  <2>6. Served
    BY <1>2, <2>1 DEF Served, Client!vars
  <2> QED
    BY <2>5, <2>6
<1> QED
  BY <1>12, <1>13, <1>14

(* What has arrived of a stream is a prefix of it.                         *)
LEMMA FirstPartIsPrefix ==
    ASSUME NEW S, NEW a \in Seq(S), NEW w \in Seq(S), NEW b \in Seq(S),
           Splits(a, w, b, <<>>)
    PROVE  /\ a \in Prefixes(b)
           /\ \A j \in 1..Len(a) : j \in 1..Len(b) /\ a[j] = b[j]
<1>0. a \o w = b
  BY ConcatEmptySeq DEF Splits
<1>1. /\ Len(a) \in Nat /\ Len(w) \in Nat /\ Len(b) = Len(a) + Len(w)
      /\ \A j \in 1..Len(b) : b[j] = IF j <= Len(a) THEN a[j] ELSE w[j - Len(a)]
  <2>1. /\ Len(a \o w) = Len(a) + Len(w)
        /\ \A j \in 1..Len(a) + Len(w) :
             (a \o w)[j] = IF j <= Len(a) THEN a[j] ELSE w[j - Len(a)]
    BY ConcatProperties
  <2> QED
    BY <1>0, <2>1
<1>2. \A j \in 1..Len(a) : j \in 1..Len(b) /\ a[j] = b[j]
  BY <1>1
<1>3. SubSeq(b, 1, Len(a)) = a
  <2> DEFINE p == SubSeq(b, 1, Len(a))
  <2>1. p \in Seq(S) /\ Len(p) = Len(a) /\ \A j \in 1..Len(a) : p[j] = b[j]
    <3>1. \A j \in 1..Len(a) : b[j] \in S
      BY <1>1, ElementOfSeq
    <3> QED
      BY <1>1, <3>1
  <2> HIDE DEF p
  <2>2. p = a
    BY <1>2, <2>1, SeqEqual
  <2> QED
    BY <2>2 DEF p
<1>4. Len(a) \in 0..Len(b)
  BY <1>1
<1> QED
  BY <1>2, <1>3, <1>4 DEF Prefixes

(* What follows the first element.                                         *)
LEMMA BehindFirst ==
    ASSUME NEW S, NEW b \in Seq(S), Len(b) \in Nat \ {0}
    PROVE  /\ SubSeq(b, 2, Len(b)) \in Seq(S)
           /\ Len(SubSeq(b, 2, Len(b))) = Len(b) - 1
           /\ \A m \in 2..Len(b) : /\ m - 1 \in 1..(Len(b) - 1)
                                   /\ SubSeq(b, 2, Len(b))[m - 1] = b[m]
<1> DEFINE t == SubSeq(b, 2, Len(b))
<1>1. 2 \in Int /\ Len(b) \in Int /\ \A m \in 2..Len(b) : b[m] \in S
  BY ElementOfSeq
<1>2. /\ t \in Seq(S) /\ Len(t) = Len(b) - 1
      /\ \A i \in 1..(Len(b) - 1) : t[i] = b[2 + i - 1]
  <2>1. /\ t \in Seq(S)
        /\ Len(t) = IF 2 <= Len(b) THEN Len(b) - 2 + 1 ELSE 0
        /\ \A i \in 1..(Len(b) - 2 + 1) : t[i] = b[2 + i - 1]
    BY <1>1, SubSeqProperties
  <2>2. Len(b) - 2 + 1 = Len(b) - 1 /\ Len(t) = Len(b) - 1
    <3>1. Len(t) = IF 2 <= Len(b) THEN Len(b) - 2 + 1 ELSE 0
      BY <2>1
    <3>2. PICK n \in Nat \ {0} : n = Len(b)
      OBVIOUS
    <3> HIDE DEF t
    <3>3. Len(t) = IF 2 <= n THEN n - 2 + 1 ELSE 0
      BY <3>1, <3>2
    <3>4. (IF 2 <= n THEN n - 2 + 1 ELSE 0) = n - 1 /\ n - 2 + 1 = n - 1
      OBVIOUS
    <3> QED
      BY <3>2, <3>3, <3>4, Zenon
  <2> QED
    BY <2>1, <2>2
<1> HIDE DEF t
<1>3. ASSUME NEW m \in 2..Len(b)
      PROVE  m - 1 \in 1..(Len(b) - 1) /\ t[m - 1] = b[m]
  <2>1. m - 1 \in 1..(Len(b) - 1) /\ 2 + (m - 1) - 1 = m
    OBVIOUS
  <2> QED
    BY <1>2, <2>1
<1> QED
  BY <1>2, <1>3 DEF t

(* Behind the last header the request is well-formed, and the parser       *)
(* knows whether its response ends the connection.                         *)
LEMMA AllParsed ==
    ASSUME NEW r, r.headers \in Seq(Headers), NEW h, NEW q \in Request,
           Parsed(r, Len(r.headers), h, q)
    PROVE  /\ Client!WellFormed(r) /\ ~Client!Silent(r)
           /\ h = r.headers
           /\ CloseForAgent(q) \in Request
           /\ CloseForAgent(q).line = r.line
           /\ CloseForAgent(q).close <=> Client!EndsConnection(r)
<1> DEFINE n == Len(r.headers)
<1>1. /\ h = SubSeq(r.headers, 1, n) /\ r.line \in Methods
      /\ \A j \in 1..n : r.headers[j] \notin Client!Offending
      /\ q.line = r.line
      /\ q.close <=> \/ r.line \in {"GET10", "POST"}
                     \/ \E j \in 1..n : r.headers[j] = "close"
      /\ q.ua = "safari" <=>
           \E j \in 1..n : /\ r.headers[j] = "safari"
                           /\ \A l \in (j + 1)..n : r.headers[l] # "msieOld"
  BY DEF Parsed
<1>2. Client!WellFormed(r)
  BY <1>1 DEF Client!WellFormed, Methods
<1>3. ~Client!Silent(r)
  BY <1>1 DEF Client!Silent, Client!Offending
<1>4. h = r.headers
  BY <1>1, SubSeqFull
<1>5. /\ CloseForAgent(q).line = r.line
      /\ CloseForAgent(q).close <=>
           \/ q.close \/ q.ua = "safari" \/ (q.ua = "msieOld" /\ q.line = "POST")
  BY <1>1 DEF CloseForAgent, Request
<1>6. CloseForAgent(q) \in Request
  <2>1. ASSUME NEW b \in BOOLEAN PROVE [q EXCEPT !.close = b] \in Request
    BY <2>1 DEF Request
  <2>2. (q.close \/ q.ua = "safari" \/ (q.ua = "msieOld" /\ q.line = "POST")) \in BOOLEAN
    BY Zenon
  <2> QED
    BY <2>1, <2>2, Zenon DEF CloseForAgent
<1>7. Client!EndsConnection(r) <=> \/ q.close \/ q.ua = "safari"
  <2> DEFINE L == r.line \in {"GET10", "POST"}
             C == \E j \in 1..n : r.headers[j] = "close"
             A == \E j \in 1..n : /\ r.headers[j] = "safari"
                                  /\ \A l \in (j + 1)..n : r.headers[l] # "msieOld"
  <2>1. Client!EndsConnection(r) <=> L \/ C \/ A
    BY DEF Client!EndsConnection, Client!Contains
  <2>2. (q.close <=> L \/ C) /\ (q.ua = "safari" <=> A)
    BY <1>1
  <2> HIDE DEF L, C, A
  <2> QED
    BY <2>1, <2>2
<1>8. (q.ua = "msieOld" /\ q.line = "POST") => q.close
  BY <1>1
<1> QED
  BY <1>2, <1>3, <1>4, <1>5, <1>6, <1>7, <1>8

(* The empty line read is that behind the headers: the request is          *)
(* handled, and the next one follows unless the connection closes.         *)
LEMMA EndOfHeadersServes ==
    ASSUME ConformantPeers, SInv, EndOfHeaders
    PROVE  InSync' /\ Served
<1>k. PICK k : k = Len(answers) + 1
  OBVIOUS
<1>r. PICK r : r = script[k]
  OBVIOUS
<1>q. PICK q : q = CloseForAgent(request)
  OBVIOUS
<1>1. live
  BY DEF EndOfHeaders, SInv, IInv, ReadsWhileLive
<1>2. /\ state = "HEADER" /\ buf # <<>> /\ buf[1] = Crlf
      /\ buf' = SubSeq(buf, 2, Len(buf)) /\ SavePostData(1)
      /\ UNCHANGED <<script, wire, live, hdr>>
  BY DEF EndOfHeaders, Handler, LineEndsAt, After, peerVars
<1>3. /\ Conformant(script) /\ k \in 1..Len(script) /\ Len(script) \in Nat
      /\ Len(answers) \in Nat /\ Len(hdr) \in Nat
      /\ r.headers \in Seq(Headers) /\ Len(r.headers) \in Nat
      /\ Len(hdr) + 1 \in 1..(Len(script[k].headers) + 1)
      /\ Parsed(r, Len(hdr), hdr, request)
      /\ buf \o wire = InHeaders(script, k, Len(hdr) + 1)
  BY <1>1, <1>2, <1>k, <1>r, HeaderFacts
<1>4. /\ buf \in Seq(Tokens) /\ wire \in Seq(Tokens) /\ request \in Request
      /\ hdr \in Seq(Tokens) /\ answers \in Seq(Answer) /\ Len(buf) \in Nat \ {0}
  BY <1>2, SFacts, EmptySeq
<1>5. /\ Len(hdr) = Len(r.headers)
      /\ buf' \o wire' = r.body \o From(Parts(script), k + 1)
  <2>1. /\ Len(hdr) + 1 = Len(r.headers) + 1
        /\ SubSeq(buf, 2, Len(buf)) \o wire = r.body \o From(Parts(script), k + 1)
    BY <1>2, <1>3, <1>4, <1>r, HeaderStart
  <2>2. Len(hdr) = Len(r.headers)
    BY <1>3, <2>1
  <2>3. buf' \o wire' = SubSeq(buf, 2, Len(buf)) \o wire
    BY <1>2
  <2> QED
    BY <2>1, <2>2, <2>3, Zenon
<1>6. /\ Client!WellFormed(r) /\ ~Client!Silent(r) /\ hdr = r.headers
      /\ q \in Request /\ q.line = r.line
      /\ q.close <=> Client!EndsConnection(r)
  BY <1>3, <1>4, <1>5, <1>q, AllParsed
<1>7. r.line \in Methods /\ r.body \in Seq(Tokens)
  BY <1>3, <1>r, ConformantTypes DEF Parsed
<1> DEFINE post == IF r.line = "POST" THEN postdata' ELSE <<>>
           a == [code |-> "handled", line |-> r.line, headers |-> hdr,
                 post |-> post, keep |-> ~q.close]
<1>8. answers' = Append(answers, a)
  BY <1>6, <1>q DEF EndOfHeaders
<1>9. RequestDone(q, [timer EXCEPT !.armed = FALSE])
  BY <1>q DEF EndOfHeaders
<1>10. /\ Persists(q) => state' = "INIT"
       /\ ~Persists(q) => state' = "CLOSE"
  BY <1>9 DEF RequestDone, CloseConnection
<1>11. post \in Client!BodySeen(r) /\ post \in Seq(Tokens)
  <2>1. CASE r.line = "POST"
    <3>1. k = Len(script) /\ ~Contains(r.body, Crlf)
      BY <1>3, <1>r, <2>1 DEF Conformant
    <3>2. buf' \o wire' = r.body
      <4>1. From(Parts(script), k + 1) = <<>>
        BY <1>3, <3>1, NoMoreRequests
      <4> QED
        BY <1>5, <1>7, <4>1, ConcatEmptySeq
    <3>3. /\ buf' \in Seq(Tokens) /\ Len(buf') = Len(buf) - 1
          /\ \A m \in 2..Len(buf) : m - 1 \in 1..Len(buf') /\ buf'[m - 1] = buf[m]
      BY <1>2, <1>4, BehindFirst
    <3>4. /\ buf' \in Prefixes(r.body)
          /\ \A j \in 1..Len(buf') : j \in 1..Len(r.body) /\ buf'[j] = r.body[j]
      <4>1. PICK b, w \in Seq(Tokens) : b = buf' /\ w = wire'
        BY <1>2, <1>4, <3>3
      <4>2. Splits(b, w, r.body, <<>>)
        BY <1>7, <3>2, <4>1, ConcatEmptySeq DEF Splits
      <4>3. b \in Prefixes(r.body)
            /\ \A j \in 1..Len(b) : j \in 1..Len(r.body) /\ b[j] = r.body[j]
        BY <1>7, <4>2, FirstPartIsPrefix
      <4> QED
        BY <4>1, <4>3
    <3>5. \A m \in 2..Len(buf) : buf[m] # Crlf
      BY <3>1, <3>3, <3>4 DEF Contains
    <3>6. postdata' = buf'
      BY <1>2, <3>5 DEF SavePostData, After
    <3>7. post = buf'
      BY <2>1, <3>6
    <3>8. Client!BodySeen(r) = Prefixes(r.body)
      BY <2>1, Zenon DEF Client!BodySeen, Client!Prefixes, Prefixes
    <3> HIDE DEF post
    <3> QED
      BY <3>3, <3>4, <3>7, <3>8
  <2>2. CASE r.line # "POST"
    BY <2>2, EmptySeq DEF Client!BodySeen
  <2> QED
    BY <2>1, <2>2
<1>12. (~q.close) \in BOOLEAN
  BY Zenon
<1> HIDE DEF post
<1>13. a \in Answer
  BY <1>4, <1>7, <1>11, <1>12 DEF Answer
<1>14. a \in Client!Replies(r)
  <2>1. (~q.close) = ~Client!EndsConnection(r)
    BY <1>6, Zenon
  <2> QED
    BY <1>6, <1>11, <2>1 DEF Client!Replies
<1>15. answers' \in Seq(Answer) /\ Len(answers') = k
  BY <1>4, <1>8, <1>13, <1>k, AppendProperties
<1>16. CASE Persists(q)
  <2>1. KeepAlive /\ ~q.close
    BY <1>16 DEF Persists
  <2>2. r.line # "POST"
    BY <1>6, <2>1 DEF Client!EndsConnection
  <2>3. r.body \in Seq({Crlf})
    BY <1>3, <1>r, <2>2 DEF Conformant
  <2>4. BetweenRequests(script, Len(answers) + 1)'
    <3>1. \E c \in Seq({Crlf}) : buf' \o wire' = c \o From(Parts(script'), Len(answers') + 1)
      BY <1>2, <1>5, <1>15, <2>3
    <3>2. Len(answers') + 1 <= Len(script') + 1
      BY <1>2, <1>3, <1>15
    <3> QED
      BY <3>1, <3>2 DEF BetweenRequests
  <2>5. InSync'
    BY <1>10, <1>15, <1>16, <2>4 DEF InSync
  <2>6. Client!Reply
    <3>1. a.keep /\ live' /\ state' = "INIT"
      BY <1>1, <1>2, <1>10, <1>16, <2>1
    <3> HIDE DEF a
    <3> QED
      BY <1>1, <1>2, <1>3, <1>6, <1>8, <1>14, <1>k, <1>r, <2>1, <3>1
      DEF Client!Reply
  <2> QED
    BY <2>5, <2>6 DEF Served, Client!Next
<1>17. CASE ~Persists(q)
  <2>1. InSync'
    BY <1>10, <1>15, <1>17 DEF InSync
  <2>2. Client!Reply
    <3>1. ~(KeepAlive /\ a.keep) /\ state' = "CLOSE"
      BY <1>10, <1>17 DEF Persists
    <3> HIDE DEF a
    <3> QED
      BY <1>1, <1>2, <1>3, <1>6, <1>8, <1>14, <1>k, <1>r, <3>1
      DEF Client!Reply
  <2> QED
    BY <2>1, <2>2 DEF Served, Client!Next
<1> QED
  BY <1>16, <1>17

(* Arriving data moves from the wire to the buffer.                        *)
LEMMA DataArrivesServes ==
    ASSUME ConformantPeers, SInv, DataArrives
    PROVE  InSync' /\ Served
<1>1. PICK k \in 1..Len(wire) :
         /\ buf' = buf \o SubSeq(wire, 1, k)
         /\ wire' = SubSeq(wire, k + 1, Len(wire))
  BY DEF DataArrives
<1>2. buf \in Seq(Tokens) /\ wire \in Seq(Tokens) /\ InSync
  BY SFacts DEF SInv
<1>3. UNCHANGED <<script, answers, live, state, request, hdr>>
  BY DEF DataArrives, parseVars
<1> DEFINE p == SubSeq(wire, 1, k)
           q == SubSeq(wire, k + 1, Len(wire))
<1>4. p \in Seq(Tokens) /\ q \in Seq(Tokens)
  <2>1. /\ Len(wire) \in Nat
        /\ \A i \in 1..k : wire[i] \in Tokens
        /\ \A i \in (k + 1)..Len(wire) : wire[i] \in Tokens
    BY <1>2, ElementOfSeq
  <2>2. 1 \in Int /\ k \in Int /\ k + 1 \in Int /\ Len(wire) \in Int
    BY <2>1
  <2> QED
    BY <2>1, <2>2, SubSeqProperties
<1>5. p \o q = wire
  <2>1. /\ 1 \in 1..(Len(wire) + 1) /\ k \in 0..Len(wire)
        /\ Len(wire) \in k..Len(wire)
    BY <1>2
  <2>2. p \o q = SubSeq(wire, 1, Len(wire))
    BY <1>2, <2>1, ConcatAdjacentSubSeq
  <2> QED
    BY <1>2, <2>2, SubSeqFull
<1> HIDE DEF p, q
<1>6. (buf \o p) \o q = buf \o (p \o q)
  <2>1. Associative(Tokens)
    BY ConcatIsAssociative
  <2> QED
    BY <1>2, <1>4, <2>1, Zenon DEF Associative
<1>7. buf' \o wire' = buf \o wire
  BY <1>1, <1>5, <1>6, Zenon DEF p, q
<1> QED
  BY <1>2, <1>3, <1>7, WaitingServes

(* A new connection is in sync with its script.                            *)
LEMMA StartsInSync ==
    ASSUME ConformantPeers, Init
    PROVE  InSync /\ Client!Init
<1>1. /\ script \in Scripts /\ wire = ScriptBytes(script) /\ buf = <<>>
      /\ state = "INIT" /\ live = TRUE /\ answers = <<>>
  BY DEF Init
<1>2. Conformant(script)
  BY <1>1 DEF ConformantPeers
<1>3. From(Parts(script), 1) = wire
  BY <1>1, <1>2, AllRequests
<1>4. wire \in Seq(Tokens) /\ Len(script) \in Nat
  <2>1. Parts(script) \in Seq(Seq(Tokens)) /\ Len(script) \in Nat
        /\ 1 \in 1..(Len(Parts(script)) + 1)
    BY <1>2, PartsType
  <2> QED
    BY <1>3, <2>1, FromType
<1>5. Len(answers) = 0 /\ answers \in Seq(Answer) /\ <<>> \in Seq({Crlf})
  BY <1>1, EmptySeq
<1>6. BetweenRequests(script, 1)
  <2>1. buf \o wire = <<>> \o From(Parts(script), 1)
    BY <1>1, <1>3
  <2>2. \E c \in Seq({Crlf}) : buf \o wire = c \o From(Parts(script), 1)
    BY <1>5, <2>1
  <2>3. 1 <= Len(script) + 1
    BY <1>4
  <2> QED
    BY <2>2, <2>3 DEF BetweenRequests
<1>7. InSync
  BY <1>1, <1>5, <1>6 DEF InSync
<1>8. Client!Init
  BY <1>1 DEF Client!Init
<1> QED
  BY <1>7, <1>8

(* Every step keeps the parser in sync and is a step of the client's       *)
(* view.                                                                   *)
LEMMA NextServes ==
    ASSUME ConformantPeers, SInv, [Next]_vars
    PROVE  SInv' /\ Served
<1>0. IInv' /\ InSync
  BY NextIInv DEF SInv
<1>1. CASE ReadEnds
  BY <1>0, <1>1, WaitingServes DEF ReadEnds, SInv, peerVars, parseVars
<1>2. CASE TooLarge
  BY <1>0, <1>2, TooLargeServes DEF SInv
<1>3. CASE BlankLine
  BY <1>0, <1>3, BlankLineServes DEF SInv
<1>4. CASE EndOfHeaders
  BY <1>0, <1>4, EndOfHeadersServes DEF SInv
<1>5. ASSUME NEW n \in 1..Len(buf), RequestLine(n) PROVE SInv' /\ Served
  BY <1>0, <1>5, RequestLineServes DEF SInv
<1>6. ASSUME NEW n \in 1..Len(buf), HeaderLine(n) PROVE SInv' /\ Served
  BY <1>0, <1>6, HeaderLineServes DEF SInv
<1>7. CASE DataArrives
  BY <1>0, <1>7, DataArrivesServes DEF SInv
<1>8. CASE PeerEnds
  BY <1>0, <1>8, WaitingServes DEF PeerEnds, SInv, peerVars, parseVars
<1>9. CASE PeerResets
  BY <1>0, <1>9, WaitingServes DEF PeerResets, SInv, peerVars, parseVars
<1>10. CASE OutputDrains
  BY <1>0, <1>10, WaitingServes DEF OutputDrains, SInv, peerVars, parseVars
<1>11. CASE PollFires
  BY <1>0, <1>11, WaitingServes DEF PollFires, SInv, peerVars, parseVars
<1>12. CASE TimeoutFires
  <2>1. ~Open' /\ UNCHANGED <<script, answers>>
    BY <1>12 DEF TimeoutFires, CloseConnection, Open, peerVars
  <2> QED
    BY <1>0, <2>1, ClosingServes DEF SInv
<1>13. CASE NotifyState
  <2>1. CASE MayClose
    <3>1. ~Open' /\ UNCHANGED <<script, answers>>
      BY <1>13, <2>1 DEF NotifyState, Open, peerVars
    <3> QED
      BY <1>0, <3>1, ClosingServes DEF SInv
  <2>2. CASE ~MayClose
    BY <1>0, <1>13, <2>2, WaitingServes
    DEF NotifyState, SInv, peerVars, parseVars
  <2> QED
    BY <2>1, <2>2
<1>14. CASE UNCHANGED vars
  BY <1>0, <1>14, WaitingServes DEF vars, SInv, peerVars, parseVars
<1> QED
  BY <1>1, <1>2, <1>3, <1>4, <1>5, <1>6, <1>7, <1>8, <1>9, <1>10, <1>11, <1>12,
     <1>13, <1>14 DEF Next, ReadStep

(* For every peer whose requests can be told apart, however its stream is  *)
(* cut, the connection implements the view of its client: requests are     *)
(* answered in order, each at most once, and nothing follows the end of    *)
(* the connection.                                                         *)
THEOREM Refinement ==
    ASSUME ConformantPeers
    PROVE  Spec => ServesInOrder
<1>1. Init => SInv /\ Client!Init
  BY InitIInv, StartsInSync DEF SInv
<1>2. SInv /\ [Next]_vars => SInv' /\ [Client!Next]_(Client!vars)
  BY NextServes DEF Served
<1> QED
  BY <1>1, <1>2, PTL DEF Spec, ServesInOrder, Client!Spec
=============================================================================
