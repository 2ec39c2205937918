---------------------------- MODULE MCConnection ----------------------------
(* The scripts Connection is model-checked with.                           *)
EXTENDS Connection

Req(line, headers, body) == [line |-> line, headers |-> headers, body |-> body]

Plain == Req("GET", <<"host">>, <<>>)
Bare(line) == Req(line, <<>>, <<>>)

(* Pipelines of requests without a body: kept alive, with a stray empty    *)
(* line between two, ended by each kind of request that ends a             *)
(* connection, and cut short by each kind of malformed one with a good     *)
(* request behind it; and a POST with a body of one line on a connection   *)
(* that has been used.                                                     *)
PipelineScripts ==
    {<<Plain, Req("PUT", <<"expect100">>, <<>>), Bare("GET")>>,
     <<Req("GET", <<>>, <<Crlf>>), Bare("POST")>>,
     <<Bare("GET"), Bare("GET10"), Bare("GET")>>,
     <<Bare("junk"), Bare("GET")>>,
     <<Bare("GET"), Req("GET", <<"close">>, <<>>), Bare("GET")>>}
    \cup {<<Bare("GET"), Req("GET", <<"host", h>>, <<>>), Bare("GET")>> :
              h \in {"expectOther", "badLength", "noColon", "safari", "long"}}
    \cup {<<Req("POST", <<"msieOld">>, <<>>)>>,
          <<Plain, Req("POST", <<"host">>, <<"body", "body">>)>>}
    \cup {<<Req("GET", <<"safari", "msieOld">>, <<>>), Bare("GET")>>}

(* One POST with a body.                                                   *)
PostScripts == {<<Req("POST", <<"host">>, <<"body">>)>>}

(* They are scripts of peers this parser can serve.                        *)
ASSUME ScriptsAreConformant ==
    \A s \in PipelineScripts \cup PostScripts : Conformant(s)
=============================================================================
