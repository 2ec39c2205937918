-------------------------------- MODULE Wifi --------------------------------
(***************************************************************************)
(* The client network of the board: the longrunner that turns it off when  *)
(* it stays bad and may turn it on again (src/wifi/wifi_longrunner.c), the *)
(* requests that configure it, and src/wifi/wifi.c beneath both.  They     *)
(* share five flags without a lock.  (main.c:170 has the longrunner's      *)
(* start commented out; the model starts it.)                              *)
(* A network is a number, a new one for each SSID that is configured, so   *)
(* that being connected to the one before is not being connected.          *)
(***************************************************************************)
EXTENDS Integers

CONSTANTS MaxPosts,   \* bound: requests
          MaxFaults   \* bound: lost networks, failing calls, restarts
ASSUME WifiAssumption == MaxPosts \in Nat /\ MaxFaults \in Nat

VARIABLES
  uci,       \* /etc/config/wireless: network, its state; history: who set the state
  good,      \* whether that network can be joined
  air,       \* the adapters: the network one is to join and the one it joined (-1:
             \* none), and whether the board's own network is up
  seen,      \* wifi_adapt_info.client: enabled, connected, and the network whose
             \* SSID it holds (-1: the empty SSID)
  sup,       \* the longrunner: its next step
  bad, new, clear, marked,
             \* bad_connection, new_wifi_attempt, clear_new_wifi_command,
             \* marked_for_restart
  age,       \* time since bad_conn_start: 0, or past 30 s, or past 180 s
  post,      \* the request in the event loop: its next step, its arguments and
             \* the calls of wifi_client_connect left
  worked,    \* history: the network was seen connected
  posts,     \* number of requests
  faults     \* number of faults

flags == <<bad, new, clear, marked, age>>
env == <<air, good>>
wifivars == <<uci, good, air, seen, sup, flags, post, worked, posts, faults>>

Nets == 0..MaxPosts
SupSteps == {"sleep", "decide", "off", "off_restart", "mark", "forget", "on", "on_restart"}
PostSteps == {"idle", "ssid", "state", "commit", "new", "noclear", "restart"}
NoPost == [pc |-> "idle", kind |-> "none", on |-> FALSE, calls |-> 0]

Kinds == {"connect", "ssid", "state", "simple", "board"}
Unseen == [enabled |-> FALSE, connected |-> FALSE, net |-> -1]

(* Who turned the network on or off: the user, the longrunner, the         *)
(* longrunner for a first attempt that failed, or some earlier process.    *)
Hands == {"user", "supervisor", "attempt", "before"}

WifiTypeOK ==
  /\ uci \in [net : Nets, on : BOOLEAN, by : Hands]
  /\ good \in BOOLEAN
  /\ air \in [client : {-1} \cup Nets, joined : {-1} \cup Nets, own : BOOLEAN]
  /\ seen \in [enabled : BOOLEAN, connected : BOOLEAN, net : {-1} \cup Nets]
  /\ sup \in SupSteps
  /\ bad \in BOOLEAN /\ new \in BOOLEAN /\ clear \in BOOLEAN /\ marked \in BOOLEAN
  /\ age \in 0..2
  /\ post \in [pc : PostSteps, kind : {"none"} \cup Kinds, on : BOOLEAN, calls : 0..3]
  /\ post.calls > 0 <=> post.kind = "connect"
  /\ worked \in BOOLEAN
  /\ posts \in 0..MaxPosts /\ faults \in 0..MaxFaults

WifiInit ==
  /\ bad = FALSE /\ new = FALSE /\ clear = FALSE /\ marked = FALSE
  /\ uci \in [net : {0}, on : BOOLEAN, by : {"user"}]
  /\ good = TRUE
  /\ air = [client |-> IF uci.on THEN 0 ELSE -1, joined |-> -1, own |-> TRUE]
  /\ seen = Unseen
  /\ sup = "sleep"
  /\ age = 0
  /\ post = NoPost
  /\ worked = FALSE
  /\ posts = 0
  /\ faults = 0

Works == UNCHANGED faults
Fails == faults < MaxFaults /\ faults' = faults + 1
-----------------------------------------------------------------------------
(* wifi.c.                                                                 *)

Joined == air.joined = uci.net

(* wifi_make_summary.  An adapter is the client's when it has the client's *)
(* SSID.  A failing lookup leaves what it should read as it was, and when  *)
(* both networks are gone only the board's own one is reset.               *)
Sees(on, net) ==
  seen' = [enabled |-> on, net |-> net,
           connected |-> (air.client # -1 /\ air.joined = net) \/ (~air.own /\ seen.connected)]
Summary ==
  /\ \/ Works /\ Sees(uci.on, uci.net)
     \/ Fails /\ \E on \in {seen.enabled, uci.on} : Sees(on, seen.net)
  /\ worked' = (worked \/ (Joined /\ seen'.connected))

(* wifi_set_state: the options are committed at once or not at all.        *)
SetState(on, by) == uci' = [uci EXCEPT !.on = on, !.by = by]

(* wifi_restart: the adapters start over with what is configured now, the  *)
(* board's own network at once or a little later.                          *)
Restart ==
  \/ Works /\ \E own \in BOOLEAN :
                air' = [client |-> IF uci.on THEN uci.net ELSE -1, joined |-> -1, own |-> own]
  \/ Fails /\ UNCHANGED air
-----------------------------------------------------------------------------
(* The longrunner.                                                         *)

SupGoes(from, to) == sup = from /\ sup' = to

Look ==
  /\ SupGoes("sleep", "decide")
  /\ Summary
  /\ UNCHANGED <<uci, env, flags>>

MarkBad ==
  /\ SupGoes("decide", "sleep")
  /\ seen.enabled /\ ~seen.connected /\ ~bad
  /\ bad' = TRUE /\ age' = 0 /\ clear' = TRUE
  /\ UNCHANGED <<new, marked>>
StillBad ==
  /\ sup = "decide"
  /\ seen.enabled /\ ~seen.connected /\ bad
  /\ sup' = IF age > 0 THEN "off" ELSE "sleep"
  /\ UNCHANGED flags
Connected ==
  /\ sup = "decide"
  /\ seen.enabled /\ seen.connected
  /\ bad' = FALSE
  /\ sup' = IF clear THEN "forget" ELSE "sleep"
  /\ UNCHANGED <<new, clear, marked, age>>
Retry_WhileBad == marked /\ bad /\ age = 2
Retry == marked /\ age = 2
Disabled ==
  /\ sup = "decide"
  /\ ~seen.enabled
  /\ bad' = FALSE
  /\ sup' = IF Retry THEN "on" ELSE "sleep"
  /\ UNCHANGED <<new, clear, marked, age>>
Decide == (MarkBad \/ StillBad \/ Connected \/ Disabled)
          /\ UNCHANGED <<uci, env, seen, worked, faults>>

Forget ==
  /\ SupGoes("forget", "sleep")
  /\ new' = FALSE
  /\ UNCHANGED <<bad, clear, marked, age, uci, env, seen, worked, faults>>

SetOff ==
  /\ SupGoes("off", "off_restart")
  /\ \/ Works /\ SetState(FALSE, "supervisor")
     \/ Fails /\ UNCHANGED uci
  /\ UNCHANGED <<env, flags, seen, worked>>
SetOn ==
  /\ SupGoes("on", "on_restart")
  /\ \/ Works /\ SetState(TRUE, "supervisor")
     \/ Fails /\ UNCHANGED uci
  /\ UNCHANGED <<env, flags, seen, worked>>
SupRestart ==
  /\ \/ SupGoes("off_restart", "mark")
     \/ SupGoes("on_restart", "sleep")
  /\ Restart
  /\ UNCHANGED <<uci, good, flags, seen, worked>>

Mark_Once == marked' = (~new /\ ~marked)
Mark == marked' = ~new
MarkForRestart ==
  /\ SupGoes("mark", "sleep")
  /\ Mark
  /\ age' = IF new THEN age ELSE 0
  /\ uci' = IF new /\ uci.by = "supervisor" THEN [uci EXCEPT !.by = "attempt"] ELSE uci
  /\ UNCHANGED <<bad, new, clear, env, seen, worked, faults>>

SupStep == /\ \/ Look \/ Decide \/ Forget \/ SetOff \/ SetOn
              \/ SupRestart \/ MarkForRestart
           /\ UNCHANGED <<post, posts>>
-----------------------------------------------------------------------------
(* The requests, in the event loop.                                        *)

Ends == post' = NoPost

(* A request about the board's own network changes nothing here but it     *)
(* restarts the adapters.                                                  *)
First == [connect |-> "commit", ssid |-> "ssid", state |-> "state",
          simple |-> "ssid", board |-> "restart"]
PostComes ==
  /\ post.pc = "idle"
  /\ posts < MaxPosts
  /\ posts' = posts + 1
  /\ \E kind \in Kinds, on \in BOOLEAN, calls \in 0..3 :
       /\ kind \notin {"state", "simple"} => on
       /\ kind = "connect" <=> calls > 0
       /\ post' = [pc |-> First[kind], kind |-> kind, on |-> on, calls |-> calls]
  /\ UNCHANGED <<uci, env, seen, sup, flags, worked, faults>>

(* The network just asked for: good or not, and never seen connected yet.  *)
Configure(conf) ==
  /\ uci' = conf
  /\ IF uci.net = posts THEN UNCHANGED <<good, worked>>
     ELSE good' \in BOOLEAN /\ worked' = FALSE

(* wifi_client_connect: SSID, encryption, key and state in one commit, and *)
(* then the flags.  wifi_post_connect falls through its cases: it calls it *)
(* once for WPA with a user name, twice for WPA with a password and three  *)
(* times for no encryption, and restarts whatever the last call returned.  *)
NextCall_OneMore == IF post.calls > 0 THEN [post EXCEPT !.pc = "commit", !.calls = @ - 1]
                    ELSE [post EXCEPT !.pc = "restart"]
NextCall == IF post.calls > 1 THEN [post EXCEPT !.pc = "commit", !.calls = @ - 1]
            ELSE [post EXCEPT !.pc = "restart"]
Connect ==
  /\ post.pc = "commit"
  /\ \/ /\ Works
        /\ Configure([net |-> posts, on |-> TRUE, by |-> "user"])
        /\ post' = [post EXCEPT !.pc = "new"]
     \/ /\ Fails
        /\ UNCHANGED <<uci, good, worked>>
        /\ post' = NextCall
  /\ UNCHANGED flags
SetNew ==
  /\ post.pc = "new"
  /\ post' = [post EXCEPT !.pc = "noclear"]
  /\ new' = TRUE
  /\ UNCHANGED <<uci, good, worked, bad, clear, marked, age, faults>>
SetNoClear ==
  /\ post.pc = "noclear"
  /\ post' = NextCall
  /\ clear' = FALSE
  /\ UNCHANGED <<uci, good, worked, bad, new, marked, age, faults>>

(* wifi_post_ssid_change restarts after a failure too;                     *)
(* wifi_post_simplesettings_change stops there, and with the SSID changed  *)
(* when only the state could not be.                                       *)
SetSsid ==
  /\ post.pc = "ssid"
  /\ \/ /\ Works
        /\ Configure([uci EXCEPT !.net = posts])
        /\ post' = [post EXCEPT !.pc = IF post.kind = "simple" THEN "state" ELSE "restart"]
     \/ /\ Fails
        /\ IF post.kind = "simple" THEN Ends ELSE post' = [post EXCEPT !.pc = "restart"]
        /\ UNCHANGED <<uci, good, worked>>
  /\ UNCHANGED flags
PostState ==
  /\ post.pc = "state"
  /\ \/ Works /\ SetState(post.on, "user") /\ post' = [post EXCEPT !.pc = "restart"]
     \/ Fails /\ UNCHANGED uci /\ Ends
  /\ UNCHANGED <<good, worked, flags>>
PostRestart ==
  /\ post.pc = "restart"
  /\ Restart
  /\ Ends
  /\ UNCHANGED <<uci, good, worked, flags>>

PostStep ==
  /\ \/ (Connect \/ SetNew \/ SetNoClear \/ SetSsid \/ PostState) /\ UNCHANGED air
     \/ PostRestart
  /\ UNCHANGED <<seen, sup, posts>>
-----------------------------------------------------------------------------
(* What happens outside.                                                   *)

Outside(change) ==
  /\ change
  /\ UNCHANGED <<uci, good, seen, sup, bad, new, clear, marked, post, worked, posts>>

Join == Outside(/\ air.client = uci.net /\ good /\ ~Joined
                /\ air' = [air EXCEPT !.joined = uci.net]
                /\ UNCHANGED <<age, faults>>)
OwnUp == Outside(/\ ~air.own
                 /\ air' = [air EXCEPT !.own = TRUE]
                 /\ UNCHANGED <<age, faults>>)
Lose == Outside(/\ Fails
                /\ \/ air.joined # -1 /\ air' = [air EXCEPT !.joined = -1]
                   \/ air.own /\ air' = [air EXCEPT !.own = FALSE]
                /\ UNCHANGED age)
Tick == Outside(age < 2 /\ age' = age + 1 /\ UNCHANGED <<air, faults>>)

(* The process ends and starts again: files and adapters stay.             *)
WifiRestart ==
  /\ Fails
  /\ uci' = IF uci.on THEN uci ELSE [uci EXCEPT !.by = "before"]
  /\ seen' = Unseen
  /\ sup' = "sleep"
  /\ bad' = FALSE /\ new' = FALSE /\ clear' = FALSE /\ marked' = FALSE
  /\ age' = 0
  /\ post' = NoPost
  /\ UNCHANGED <<env, worked, posts>>

WifiNext == SupStep \/ PostComes \/ PostStep \/ Join \/ OwnUp \/ Lose \/ Tick
            \/ WifiRestart

(* Fair: both threads run, time passes and the board's own network comes   *)
(* back; and a good network that can be joined again and again is joined   *)
(* one time, before the longrunner turns the adapter off.                  *)
WifiSpec == /\ WifiInit /\ [][WifiNext]_wifivars
            /\ WF_wifivars(SupStep) /\ WF_wifivars(PostStep)
            /\ WF_wifivars(Tick)
            /\ WF_wifivars(OwnUp)
            /\ SF_wifivars(Join)
-----------------------------------------------------------------------------
(* A network the longrunner turned off, and that was not a first attempt,  *)
(* is marked to be tried again: whatever requests, failing calls and       *)
(* earlier marks came in between, it does not stay off for good            *)
(* (wifi_longrunner.c:88-95).                                              *)
OffIsRemembered ==
  uci.by = "supervisor" /\ ~uci.on /\ sup \notin {"off_restart", "mark"} => marked

(* And it is tried until it is joined, if it is good and nobody else       *)
(* decides about it: also when a call of a retry fails or the network      *)
(* answers too late at first (wifi_longrunner.c:118-127).                  *)
EventuallyRecovers ==
  (uci.by = "supervisor" /\ ~uci.on /\ good)
    ~> (Joined \/ ~good \/ uci.by # "supervisor")

(* "This is not a new client WiFi connection attempt, try to restore       *)
(* connection after timeout" (wifi_longrunner.c:88): a network that was    *)
(* seen connected is marked to be tried again when it is turned off.       *)
OutageIsRetried == [][MarkForRestart /\ post.pc = "idle" /\ worked => marked']_wifivars
=============================================================================
