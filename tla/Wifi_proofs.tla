---------------------------- MODULE Wifi_proofs ----------------------------
(***************************************************************************)
(* Proofs about Wifi, for any number of requests and faults.  That a       *)
(* network turned off is remembered is inductive with the types: only the  *)
(* longrunner's mark step changes the mark, only SetOff makes the          *)
(* longrunner the one who turned it off, and between the two the           *)
(* longrunner is in one of the steps the invariant leaves out.             *)
(***************************************************************************)
EXTENDS Wifi, TLAPS

USE WifiAssumption

(* Both hold at the start.                                               *)
LEMMA InitHolds == ASSUME WifiInit PROVE WifiTypeOK /\ OffIsRemembered
<1>1. WifiTypeOK
  <2>1. uci \in [net : Nets, on : BOOLEAN, by : Hands] /\ good \in BOOLEAN
    BY DEF WifiInit, Nets, Hands
  <2>2. air \in [client : {-1} \cup Nets, joined : {-1} \cup Nets, own : BOOLEAN]
    BY <2>1 DEF WifiInit, Nets
  <2>3. seen \in [enabled : BOOLEAN, connected : BOOLEAN, net : {-1} \cup Nets]
    BY DEF WifiInit, Unseen
  <2>4. post \in [pc : PostSteps, kind : {"none"} \cup Kinds, on : BOOLEAN, calls : 0..3]
    BY DEF WifiInit, NoPost, PostSteps
  <2>5. post.calls > 0 <=> post.kind = "connect"
    BY DEF WifiInit, NoPost
  <2>6. sup \in SupSteps /\ age \in 0..2
    BY DEF WifiInit, SupSteps
  <2>8. bad \in BOOLEAN /\ new \in BOOLEAN /\ clear \in BOOLEAN /\ marked \in BOOLEAN
    BY DEF WifiInit
  <2>9. worked \in BOOLEAN
    BY DEF WifiInit
  <2>7. posts \in 0..MaxPosts /\ faults \in 0..MaxFaults
    BY DEF WifiInit
  <2> QED
    BY <2>1, <2>2, <2>3, <2>4, <2>5, <2>6, <2>7, <2>8, <2>9 DEF WifiTypeOK
<1>2. OffIsRemembered
  BY DEF WifiInit, OffIsRemembered
<1> QED
  BY <1>1, <1>2

(* The calls of wifi.c.                                                    *)
LEMMA LookTypes ==
    ASSUME WifiTypeOK, Summary
    PROVE  /\ seen' \in [enabled : BOOLEAN, connected : BOOLEAN, net : {-1} \cup Nets]
           /\ worked' \in BOOLEAN /\ faults' \in 0..MaxFaults
<1>1. seen.enabled \in BOOLEAN /\ seen.net \in {-1} \cup Nets /\ uci.on \in BOOLEAN
        /\ uci.net \in {-1} \cup Nets
  BY DEF WifiTypeOK
<1>2. \A on \in BOOLEAN, net \in {-1} \cup Nets : Sees(on, net) =>
        seen' \in [enabled : BOOLEAN, connected : BOOLEAN, net : {-1} \cup Nets]
  BY DEF Sees
<1>3. seen' \in [enabled : BOOLEAN, connected : BOOLEAN, net : {-1} \cup Nets]
  BY <1>1, <1>2 DEF Summary
<1>4. worked' \in BOOLEAN
  BY <1>3 DEF Summary, WifiTypeOK, Joined
<1>5. faults' \in 0..MaxFaults
  BY DEF Summary, Works, Fails, WifiTypeOK
<1> QED
  BY <1>3, <1>4, <1>5

(* A restart of the network keeps the air in its type.                   *)
LEMMA RestartTypes ==
    ASSUME WifiTypeOK, Restart
    PROVE  /\ air' \in [client : {-1} \cup Nets, joined : {-1} \cup Nets, own : BOOLEAN]
           /\ faults' \in 0..MaxFaults
BY DEF Restart, WifiTypeOK, Works, Fails

(* The number of faults stays within its bound.                          *)
LEMMA FaultsTypes == ASSUME WifiTypeOK, Works \/ Fails PROVE faults' \in 0..MaxFaults
BY DEF WifiTypeOK, Works, Fails

(* Who turns a network on or off is written down with it.                *)
LEMMA StateTypes ==
    ASSUME WifiTypeOK, NEW on \in BOOLEAN, NEW by \in Hands, SetState(on, by)
    PROVE  /\ uci' \in [net : Nets, on : BOOLEAN, by : Hands]
           /\ uci'.on = on /\ uci'.by = by
BY DEF SetState, WifiTypeOK

-----------------------------------------------------------------------------
(* Every step of the supervisor keeps both of them.                      *)
LEMMA SupKeeps ==
    ASSUME WifiTypeOK, OffIsRemembered, SupStep
    PROVE  WifiTypeOK' /\ OffIsRemembered'
<1> USE DEF SupGoes, SupSteps, flags, env
<1>0. UNCHANGED <<post, posts>>
  BY DEF SupStep
<1>1. CASE Look
  <2>1. Summary
    BY <1>1 DEF Look
  <2>8. WifiTypeOK'
    BY <1>1, <2>1, LookTypes DEF Look, SupStep, WifiTypeOK
  <2>9. OffIsRemembered'
    BY <1>1, <2>1, LookTypes DEF Look, SupStep, WifiTypeOK, OffIsRemembered
  <2> QED
    BY <2>8, <2>9
<1>2. CASE Decide
  <2>1. sup = "decide" /\ sup' \in SupSteps /\ sup' \notin {"off_restart", "mark"}
    BY <1>2 DEF Decide, MarkBad, StillBad, Connected, Disabled
  <2>2. /\ bad' \in BOOLEAN /\ new' \in BOOLEAN /\ clear' \in BOOLEAN
        /\ marked' = marked /\ age' \in 0..2
    <3>1. CASE MarkBad
      BY <3>1 DEF MarkBad, WifiTypeOK
    <3>2. CASE StillBad
      BY <3>2 DEF StillBad, WifiTypeOK
    <3>3. CASE Connected
      BY <3>3 DEF Connected, WifiTypeOK
    <3>4. CASE Disabled
      BY <3>4 DEF Disabled, WifiTypeOK
    <3> QED
      BY <1>2, <3>1, <3>2, <3>3, <3>4 DEF Decide
  <2>8. WifiTypeOK'
    BY <1>2, <2>1, <2>2 DEF Decide, SupStep, WifiTypeOK
  <2>9. OffIsRemembered'
    BY <1>2, <2>1, <2>2 DEF Decide, SupStep, WifiTypeOK, OffIsRemembered
  <2> QED
    BY <2>8, <2>9
<1>3. CASE Forget
  <2>8. WifiTypeOK'
    <3>1. new' \in BOOLEAN /\ sup' \in SupSteps
      BY <1>3 DEF Forget
    <3>2. UNCHANGED <<bad, clear, marked, age, uci, air, good, seen, worked, faults>>
      BY <1>3 DEF Forget
    <3> QED
      BY <1>0, <3>1, <3>2 DEF WifiTypeOK
  <2>9. OffIsRemembered'
    BY <1>3 DEF Forget, SupStep, WifiTypeOK, OffIsRemembered
  <2> QED
    BY <2>8, <2>9
<1>4. CASE SetOff
  <2>1. uci' \in [net : Nets, on : BOOLEAN, by : Hands]
    BY <1>4, StateTypes DEF SetOff, WifiTypeOK, Hands
  <2>2. faults' \in 0..MaxFaults
    BY <1>4, FaultsTypes DEF SetOff
  <2>8. WifiTypeOK'
    BY <1>4, <2>1, <2>2 DEF SetOff, SupStep, WifiTypeOK
  <2>9. OffIsRemembered'
    BY <1>4, <2>1, <2>2 DEF SetOff, SupStep, WifiTypeOK, OffIsRemembered
  <2> QED
    BY <2>8, <2>9
<1>5. CASE SetOn
  <2>1. /\ uci' \in [net : Nets, on : BOOLEAN, by : Hands]
        /\ uci'.on \/ uci' = uci
    BY <1>5, StateTypes DEF SetOn, WifiTypeOK, Hands
  <2>2. faults' \in 0..MaxFaults
    BY <1>5, FaultsTypes DEF SetOn
  <2>8. WifiTypeOK'
    BY <1>5, <2>1, <2>2 DEF SetOn, SupStep, WifiTypeOK
  <2>9. OffIsRemembered'
    BY <1>5, <2>1, <2>2 DEF SetOn, SupStep, WifiTypeOK, OffIsRemembered
  <2> QED
    BY <2>8, <2>9
<1>6. CASE SupRestart
  <2>1. Restart
    BY <1>6 DEF SupRestart
  <2>8. WifiTypeOK'
    BY <1>6, <2>1, RestartTypes DEF SupRestart, SupStep, WifiTypeOK
  <2>9. OffIsRemembered'
    BY <1>6, <2>1, RestartTypes DEF SupRestart, SupStep, WifiTypeOK, OffIsRemembered
  <2> QED
    BY <2>8, <2>9
<1>7. CASE MarkForRestart
  <2>1. marked' = ~new
    BY <1>7 DEF MarkForRestart, Mark
  <2>2. uci' \in [net : Nets, on : BOOLEAN, by : Hands]
    BY <1>7 DEF MarkForRestart, WifiTypeOK, Hands
  <2>3. uci'.by = "supervisor" => ~new
    BY <1>7 DEF MarkForRestart, WifiTypeOK
  <2>8. WifiTypeOK'
    BY <1>7, <2>1, <2>2, <2>3 DEF MarkForRestart, SupStep, WifiTypeOK
  <2>9. OffIsRemembered'
    BY <1>7, <2>1, <2>2, <2>3 DEF MarkForRestart, SupStep, WifiTypeOK, OffIsRemembered
  <2> QED
    BY <2>8, <2>9
<1> QED
  BY <1>1, <1>2, <1>3, <1>4, <1>5, <1>6, <1>7 DEF SupStep

-----------------------------------------------------------------------------
(* A commit leaves the configuration that was written.                   *)
LEMMA ConfigureTypes ==
    ASSUME WifiTypeOK, NEW conf \in [net : Nets, on : BOOLEAN, by : Hands],
           Configure(conf)
    PROVE  uci' = conf /\ good' \in BOOLEAN /\ worked' \in BOOLEAN
BY DEF Configure, WifiTypeOK

PostType == [pc : PostSteps, kind : {"none"} \cup Kinds, on : BOOLEAN, calls : 0..3]

(* A request that goes on stays one.                                     *)
LEMMA PcTypes ==
    ASSUME WifiTypeOK, NEW pc \in PostSteps, post' = [post EXCEPT !.pc = pc]
    PROVE  post' \in PostType /\ (post'.calls > 0 <=> post'.kind = "connect")
BY DEF WifiTypeOK, PostType

(* No request is one that makes no calls.                                *)
LEMMA NoPostTypes ==
    ASSUME post' = NoPost
    PROVE  post' \in PostType /\ (post'.calls > 0 <=> post'.kind = "connect")
BY DEF NoPost, PostType, PostSteps

(* So does one that goes on to its next call.                            *)
LEMMA NextCallTypes ==
    ASSUME WifiTypeOK, post' = NextCall
    PROVE  post' \in PostType /\ (post'.calls > 0 <=> post'.kind = "connect")
<1>1. post \in PostType /\ post.calls \in 0..3 /\ (post.calls > 0 <=> post.kind = "connect")
  BY DEF WifiTypeOK, PostType
<1>2. CASE post.calls > 1
  <2>1. post' = [post EXCEPT !.pc = "commit", !.calls = post.calls - 1]
    BY <1>2 DEF NextCall
  <2>2. post.calls - 1 \in 0..3 /\ post.calls - 1 > 0 /\ "commit" \in PostSteps
    BY <1>1, <1>2 DEF PostSteps
  <2>3. post' \in PostType
    BY <1>1, <2>1, <2>2 DEF PostType
  <2>4. post'.calls = post.calls - 1 /\ post'.kind = post.kind
    BY <1>1, <2>1 DEF PostType
  <2> QED
    BY <1>1, <1>2, <2>2, <2>3, <2>4
<1>3. CASE ~(post.calls > 1)
  <2>1. post' = [post EXCEPT !.pc = "restart"]
    BY <1>3 DEF NextCall
  <2> QED
    BY <2>1, PcTypes DEF PostSteps
<1> QED
  BY <1>2, <1>3

(* Every step of a request keeps both.                                   *)
LEMMA PostKeeps ==
    ASSUME WifiTypeOK, OffIsRemembered, PostStep
    PROVE  WifiTypeOK' /\ OffIsRemembered'
<1> USE DEF flags
<1> DEFINE PostOK == post' \in PostType /\ (post'.calls > 0 <=> post'.kind = "connect")
<1>0. UNCHANGED <<seen, sup, posts>>
  BY DEF PostStep
<1>1. CASE Connect /\ UNCHANGED air
  <2>1. PostOK /\ faults' \in 0..MaxFaults
    BY <1>1, PcTypes, NextCallTypes, FaultsTypes DEF Connect, PostSteps
  <2>2. posts \in Nets /\ "user" \in Hands /\ TRUE \in BOOLEAN
    BY DEF WifiTypeOK, Nets, Hands
  <2>3. \/ UNCHANGED <<uci, good, worked>>
        \/ Configure([net |-> posts, on |-> TRUE, by |-> "user"])
    BY <1>1 DEF Connect
  <2>4. /\ uci' \in [net : Nets, on : BOOLEAN, by : Hands]
        /\ good' \in BOOLEAN /\ worked' \in BOOLEAN
        /\ uci' = uci \/ uci'.on
    <3>1. CASE UNCHANGED <<uci, good, worked>>
      BY <3>1 DEF WifiTypeOK
    <3>2. CASE Configure([net |-> posts, on |-> TRUE, by |-> "user"])
      <4>1. [net |-> posts, on |-> TRUE, by |-> "user"] \in [net : Nets, on : BOOLEAN, by : Hands]
        BY <2>2
      <4>2. uci' = [net |-> posts, on |-> TRUE, by |-> "user"]
              /\ good' \in BOOLEAN /\ worked' \in BOOLEAN
        BY <3>2, <4>1, ConfigureTypes
      <4> QED
        BY <4>1, <4>2
    <3> QED
      BY <2>3, <3>1, <3>2
  <2>5. UNCHANGED <<bad, new, clear, marked, age, air>>
    BY <1>1 DEF Connect
  <2>8. WifiTypeOK'
    BY <1>0, <2>1, <2>4, <2>5 DEF WifiTypeOK, PostType
  <2>9. OffIsRemembered'
    BY <1>0, <2>4, <2>5 DEF OffIsRemembered
  <2> QED
    BY <2>8, <2>9
<1>2. CASE (SetNew \/ SetNoClear) /\ UNCHANGED air
  <2>1. PostOK
    BY <1>2, PcTypes, NextCallTypes DEF SetNew, SetNoClear, PostSteps
  <2>2. UNCHANGED <<uci, good, worked, bad, marked, age, faults, air>>
    BY <1>2 DEF SetNew, SetNoClear
  <2>3. new' \in BOOLEAN /\ clear' \in BOOLEAN
    BY <1>2 DEF SetNew, SetNoClear, WifiTypeOK
  <2>8. WifiTypeOK'
    BY <1>0, <2>1, <2>2, <2>3 DEF WifiTypeOK, PostType
  <2>9. OffIsRemembered'
    BY <1>0, <2>2 DEF OffIsRemembered
  <2> QED
    BY <2>8, <2>9
<1>3. CASE SetSsid /\ UNCHANGED air
  <2>1. PostOK
    BY <1>3, PcTypes, NoPostTypes DEF SetSsid, PostSteps, Ends
  <2>2. faults' \in 0..MaxFaults
    BY <1>3, FaultsTypes DEF SetSsid
  <2>3. posts \in Nets /\ uci \in [net : Nets, on : BOOLEAN, by : Hands]
    BY DEF WifiTypeOK, Nets
  <2>4. \/ UNCHANGED <<uci, good, worked>>
        \/ Configure([uci EXCEPT !.net = posts])
    BY <1>3 DEF SetSsid
  <2>5. /\ uci' \in [net : Nets, on : BOOLEAN, by : Hands]
        /\ good' \in BOOLEAN /\ worked' \in BOOLEAN
        /\ uci'.on = uci.on /\ uci'.by = uci.by
    BY <2>3, <2>4, ConfigureTypes DEF WifiTypeOK
  <2>6. UNCHANGED <<bad, new, clear, marked, age, air>>
    BY <1>3 DEF SetSsid
  <2>8. WifiTypeOK'
    BY <1>0, <2>1, <2>2, <2>5, <2>6 DEF WifiTypeOK, PostType
  <2>9. OffIsRemembered'
    BY <1>0, <2>5, <2>6 DEF OffIsRemembered
  <2> QED
    BY <2>8, <2>9
<1>4. CASE PostState /\ UNCHANGED air
  <2>1. PostOK
    BY <1>4, PcTypes, NoPostTypes DEF PostState, PostSteps, Ends
  <2>2. faults' \in 0..MaxFaults
    BY <1>4, FaultsTypes DEF PostState
  <2>3. post.on \in BOOLEAN /\ "user" \in Hands
    BY DEF WifiTypeOK, Hands
  <2>4. UNCHANGED uci \/ SetState(post.on, "user")
    BY <1>4 DEF PostState
  <2>5. /\ uci' \in [net : Nets, on : BOOLEAN, by : Hands]
        /\ uci' = uci \/ uci'.by = "user"
    BY <2>3, <2>4, StateTypes DEF WifiTypeOK
  <2>6. UNCHANGED <<good, worked, bad, new, clear, marked, age, air>>
    BY <1>4 DEF PostState
  <2>8. WifiTypeOK'
    BY <1>0, <2>1, <2>2, <2>5, <2>6 DEF WifiTypeOK, PostType
  <2>9. OffIsRemembered'
    BY <1>0, <2>5, <2>6 DEF OffIsRemembered
  <2> QED
    BY <2>8, <2>9
<1>5. CASE PostRestart
  <2>1. PostOK /\ Restart /\ UNCHANGED <<uci, good, worked, bad, new, clear, marked, age>>
    BY <1>5, NoPostTypes DEF PostRestart, Ends
  <2>8. WifiTypeOK'
    BY <1>0, <2>1, RestartTypes DEF WifiTypeOK, PostType
  <2>9. OffIsRemembered'
    BY <1>0, <2>1 DEF OffIsRemembered
  <2> QED
    BY <2>8, <2>9
<1> QED
  BY <1>1, <1>2, <1>3, <1>4, <1>5 DEF PostStep

-----------------------------------------------------------------------------
(* So do the air, the time and a restart.                                *)
LEMMA OthersKeep ==
    ASSUME WifiTypeOK, OffIsRemembered,
           PostComes \/ Join \/ OwnUp \/ Lose \/ Tick \/ WifiRestart
    PROVE  WifiTypeOK' /\ OffIsRemembered'
<1> USE DEF flags, env
<1>1. CASE PostComes
  <2>1. UNCHANGED <<uci, air, good, seen, sup, bad, new, clear, marked, age, worked, faults>>
    BY <1>1 DEF PostComes
  <2>2. posts' \in 0..MaxPosts
    BY <1>1 DEF PostComes, WifiTypeOK
  <2>3. PICK kind \in Kinds, on \in BOOLEAN, calls \in 0..3 :
          /\ kind = "connect" <=> calls > 0
          /\ post' = [pc |-> First[kind], kind |-> kind, on |-> on, calls |-> calls]
    BY <1>1 DEF PostComes
  <2>4. First[kind] \in PostSteps
    BY DEF First, PostSteps, Kinds
  <2>5. post' \in PostType /\ (post'.calls > 0 <=> post'.kind = "connect")
    BY <2>3, <2>4 DEF PostType
  <2>8. WifiTypeOK'
    BY <2>1, <2>2, <2>5 DEF WifiTypeOK, PostType
  <2>9. OffIsRemembered'
    BY <2>1 DEF OffIsRemembered
  <2> QED
    BY <2>8, <2>9
<1>2. CASE Join \/ OwnUp \/ Lose \/ Tick
  <2>1. UNCHANGED <<uci, good, seen, sup, bad, new, clear, marked, post, worked, posts>>
    BY <1>2 DEF Join, OwnUp, Lose, Tick, Outside
  <2>2. age' \in 0..2
    BY <1>2 DEF Join, OwnUp, Lose, Tick, Outside, WifiTypeOK
  <2>3. faults' \in 0..MaxFaults
    BY <1>2, FaultsTypes DEF Join, OwnUp, Lose, Tick, Outside, Works
  <2>4. air' \in [client : {-1} \cup Nets, joined : {-1} \cup Nets, own : BOOLEAN]
    <3>1. /\ air \in [client : {-1} \cup Nets, joined : {-1} \cup Nets, own : BOOLEAN]
          /\ uci.net \in {-1} \cup Nets /\ -1 \in {-1} \cup Nets
      BY DEF WifiTypeOK
    <3>2. \/ air' = air
          \/ air' = [air EXCEPT !.joined = uci.net]
          \/ air' = [air EXCEPT !.joined = -1]
          \/ air' = [air EXCEPT !.own = TRUE]
          \/ air' = [air EXCEPT !.own = FALSE]
      BY <1>2 DEF Join, OwnUp, Lose, Tick, Outside
    <3> QED
      BY <3>1, <3>2
  <2>8. WifiTypeOK'
    BY <2>1, <2>2, <2>3, <2>4 DEF WifiTypeOK
  <2>9. OffIsRemembered'
    BY <2>1 DEF OffIsRemembered
  <2> QED
    BY <2>8, <2>9
<1>3. CASE WifiRestart
  <2>1. /\ uci' \in [net : Nets, on : BOOLEAN, by : Hands]
        /\ uci'.on \/ uci'.by = "before"
    BY <1>3 DEF WifiRestart, WifiTypeOK, Hands
  <2>2. seen' \in [enabled : BOOLEAN, connected : BOOLEAN, net : {-1} \cup Nets]
    BY <1>3 DEF WifiRestart, Unseen
  <2>3. post' \in PostType /\ (post'.calls > 0 <=> post'.kind = "connect")
    BY <1>3, NoPostTypes DEF WifiRestart
  <2>4. faults' \in 0..MaxFaults
    BY <1>3, FaultsTypes DEF WifiRestart
  <2>5. /\ sup' = "sleep" /\ age' = 0
        /\ bad' = FALSE /\ new' = FALSE /\ clear' = FALSE /\ marked' = FALSE
        /\ UNCHANGED <<air, good, worked, posts>>
    BY <1>3 DEF WifiRestart
  <2>8. WifiTypeOK'
    <3>1. sup' \in SupSteps /\ age' \in 0..2
      BY <2>5 DEF SupSteps
    <3>2. bad' \in BOOLEAN /\ new' \in BOOLEAN /\ clear' \in BOOLEAN /\ marked' \in BOOLEAN
      BY <2>5
    <3> QED
      BY <2>1, <2>2, <2>3, <2>4, <2>5, <3>1, <3>2 DEF WifiTypeOK, PostType
  <2>9. OffIsRemembered'
    BY <2>1 DEF OffIsRemembered
  <2> QED
    BY <2>8, <2>9
<1> QED
  BY <1>1, <1>2, <1>3

(* So does every step.                                                   *)
LEMMA StepKeeps ==
    ASSUME WifiTypeOK /\ OffIsRemembered, [WifiNext]_wifivars
    PROVE  (WifiTypeOK /\ OffIsRemembered)'
<1>1. CASE WifiNext
  BY <1>1, SupKeeps, PostKeeps, OthersKeep DEF WifiNext
<1>2. CASE UNCHANGED wifivars
  BY <1>2 DEF wifivars, flags, WifiTypeOK, OffIsRemembered
<1> QED
  BY <1>1, <1>2

(* The flags, the configuration and what was seen of it keep their types,  *)
(* for any number of requests and faults.                                  *)
THEOREM WifiTypeCorrect == WifiSpec => []WifiTypeOK
<1>1. WifiInit => WifiTypeOK /\ OffIsRemembered
  BY InitHolds
<1>2. (WifiTypeOK /\ OffIsRemembered) /\ [WifiNext]_wifivars => (WifiTypeOK /\ OffIsRemembered)'
  BY StepKeeps
<1> QED
  BY <1>1, <1>2, PTL DEF WifiSpec

(* What the longrunner turned off is marked to be tried again, unless it   *)
(* was a first attempt, for any number of requests and faults.             *)
THEOREM OffStaysRemembered == WifiSpec => []OffIsRemembered
<1>1. WifiInit => WifiTypeOK /\ OffIsRemembered
  BY InitHolds
<1>2. (WifiTypeOK /\ OffIsRemembered) /\ [WifiNext]_wifivars => (WifiTypeOK /\ OffIsRemembered)'
  BY StepKeeps
<1> QED
  BY <1>1, <1>2, PTL DEF WifiSpec
=============================================================================
