-------------------------- MODULE RequestResponse --------------------------
(***************************************************************************)
(* What a client of src/client.c may rely on: its requests are answered    *)
(* one by one, in the order sent, each at most once and for its own        *)
(* headers and body, however the network cuts the stream into segments;    *)
(* after a response that ends the connection, or a close, nothing follows. *)
(***************************************************************************)
EXTENDS SequencesExt

CONSTANTS
    Scripts,    \* the sequences of requests a peer may send
    KeepAlive   \* whether connections are kept open at all

VARIABLES
    script,     \* the requests of this connection
    answers,    \* the responses so far
    open        \* further responses may follow

vars == <<script, answers, open>>

(* A malformed line or header decides the fate of its request: the first   *)
(* one of a request is answered with an error, or met with silence.        *)
Offending == {"expectOther", "badLength", "long", "noColon"}

WellFormed(r) ==
    /\ r.line \in {"GET", "GET10", "PUT", "POST"}
    /\ \A i \in 1..Len(r.headers) : r.headers[i] \notin Offending

Silent(r) ==
    /\ r.line # "junk"
    /\ \E i \in 1..Len(r.headers) :
          /\ r.headers[i] = "noColon"
          /\ \A j \in 1..(i - 1) : r.headers[j] \notin Offending

(* Of several user agents the last one counts.                             *)
EndsConnection(r) ==
    \/ r.line \in {"GET10", "POST"}
    \/ Contains(r.headers, "close")
    \/ \E i \in 1..Len(r.headers) :
          /\ r.headers[i] = "safari"
          /\ \A j \in (i + 1)..Len(r.headers) : r.headers[j] # "msieOld"

(* What the handler of a request may see of its body: some beginning of it *)
(* for a POST, see PostDataIsBody of Connection.                           *)
BodySeen(r) == IF r.line = "POST" THEN Prefixes(r.body) ELSE {<<>>}

(* The responses a request may get.                                        *)
Replies(r) ==
    IF WellFormed(r)
    THEN [code : {"handled"}, line : {r.line}, headers : {r.headers},
          post : BodySeen(r), keep : {~EndsConnection(r)}]
    ELSE [code : {"error"}, line : {"none"}, headers : {<<>>}, post : {<<>>},
          keep : BOOLEAN]

Init ==
    /\ script \in Scripts
    /\ answers = <<>>
    /\ open = TRUE

Reply ==
    /\ open
    /\ Len(answers) < Len(script)
    /\ LET r == script[Len(answers) + 1]
       IN /\ ~Silent(r)
          /\ \E a \in Replies(r) :
                /\ answers' = Append(answers, a)
                /\ open' = (KeepAlive /\ WellFormed(r) /\ a.keep)
    /\ UNCHANGED script

Close ==
    /\ open
    /\ open' = FALSE
    /\ UNCHANGED <<script, answers>>

Next == Reply \/ Close

Spec == Init /\ [][Next]_vars
=============================================================================
