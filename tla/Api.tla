--------------------------------- MODULE Api ---------------------------------
(***************************************************************************)
(* The requests of the JSON API that take more than one step, under the    *)
(* tables of src/api.c: one at a time in the event loop, beside the        *)
(* threads they start.  A URL is the word of a module, what follows it,    *)
(* and the word of a request.  Tables compare beginnings, so a word stands *)
(* for all that begin with it.                                             *)
(***************************************************************************)
EXTENDS Firmware, Bluecherry, WifiScan, TLC

CONSTANTS UpdaterRouted,  \* whether the tables have rows for the updater
          MaxRequests     \* bound: requests that reach a handler
ASSUME ApiAssumption == UpdaterRouted \in BOOLEAN /\ MaxRequests \in Nat

VARIABLE requests   \* number of requests that reached a handler

apivars == <<fwvars, bcvars, scanvars, requests>>
-----------------------------------------------------------------------------
(* get_handlers, post_handlers, put_handlers.  The updater has routers but *)
(* no row, so that UpdaterRouted is FALSE as the program is built.         *)
Updater == IF UpdaterRouted THEN {"firmware"} ELSE {}
Rows ==
  [GET |-> {"wifi", "tempsensor", "gpio", "kunio", "system", "bluecherry", "rfid"}
             \cup Updater,
   POST |-> {"wifi", "tempsensor", "bluecherry"} \cup Updater,
   PUT |-> {"gpio", "kunio"},
   HEAD |-> {}]
Methods == DOMAIN Rows

(* The routers of the modules modelled here.                               *)
NoRoutes == [m \in {"bluecherry", "wifi", "firmware"} |-> {}]
BluecherryRoutes == [GET |-> {"status"}, POST |-> {"login", "init"}]
WifiRoutes == [GET |-> {"scan", "requestscan", "info"},
               POST |-> {"setssid", "setstate", "setsimplesettings", "connect"}]
FirmwareRoutes == [GET |-> {"check", "info"}, POST |-> {"download", "install"}]
Routes ==
  [m \in {"GET", "POST"} |-> [bluecherry |-> BluecherryRoutes[m], wifi |-> WifiRoutes[m],
                              firmware |-> FirmwareRoutes[m]]]
  @@ [m \in Methods |-> NoRoutes]

(* api_get_function and the router.  The request is taken to begin one     *)
(* place behind the name of the module, whatever stands in that place; if  *)
(* the name ends with a letter more, it begins with the slash and nothing  *)
(* matches, and if nothing follows, it is what lies behind the URL in      *)
(* memory, a header of the blob it is kept in, which is no word.           *)
Handles(method, module, follows, request) ==
  /\ module \in Rows[method]
  /\ follows = "slash"
  /\ request \in Routes[method][module]

Words == UNION {Routes[m][n] : m \in {"GET", "POST"}, n \in DOMAIN NoRoutes}
Urls == [method : Methods, module : DOMAIN NoRoutes, follows : {"slash", "letter", "end"},
         request : Words]
Handled == {url \in Urls : Handles(url.method, url.module, url.follows, url.request)}
-----------------------------------------------------------------------------
ApiInit == FirmwareInit /\ BluecherryInit /\ ScanInit /\ requests = 0

LoopIdle == FirmwareIdle /\ BluecherryIdle
LeavesFirmware == UNCHANGED fwvars
LeavesBluecherry == UNCHANGED bcvars
LeavesScan == UNCHANGED scanvars

(* api_handle_request: the handler runs in the event loop.  A URL that     *)
(* nothing handles is answered 400 and changes nothing.                    *)
FirmwareRuns(request) ==
  /\ \/ request = "check" /\ CheckRequest
     \/ request = "info" /\ InfoRequest
     \/ request = "download" /\ DownloadRequest
     \/ request = "install" /\ InstallRequest
  /\ LeavesBluecherry /\ LeavesScan
BluecherryRuns(request) ==
  /\ \/ request = "status" /\ StatusRequest
     \/ request = "login" /\ LoginRequest
     \/ request = "init" /\ InitRequest
  /\ LeavesFirmware /\ LeavesScan
WifiRuns(request) ==
  /\ request = "requestscan" /\ ScanRequest
  /\ LeavesFirmware /\ LeavesBluecherry

Runs(module, request) ==
  \/ module = "firmware" /\ FirmwareRuns(request)
  \/ module = "bluecherry" /\ BluecherryRuns(request)
  \/ module = "wifi" /\ WifiRuns(request)
ApiRequest ==
  /\ LoopIdle
  /\ requests < MaxRequests
  /\ requests' = requests + 1
  /\ \E url \in Handled : Runs(url.module, url.request)

(* The rest of a request that has begun.                                   *)
ApiContinues ==
  /\ \/ FirmwareStep /\ LeavesBluecherry
     \/ BluecherryStep /\ LeavesFirmware
  /\ LeavesScan
  /\ UNCHANGED requests

(* The threads, and what happens outside of the program.                   *)
ThreadSteps ==
  /\ \/ (\E t \in Downloads : DownloadStep(t)) /\ LeavesScan
     \/ (\E t \in Scanners : ScanThread(t)) /\ LeavesFirmware
  /\ LeavesBluecherry
  /\ UNCHANGED requests
Outside ==
  /\ \/ Publish /\ LeavesScan
     \/ KernelScan /\ LeavesFirmware
  /\ LeavesBluecherry
  /\ UNCHANGED requests

(* One process: it ends with all of its threads, and starts again.         *)
ApiRestart ==
  /\ FirmwareRestart \/ Sysupgrade
  /\ BluecherryRestart
  /\ ScanRestart
  /\ UNCHANGED requests

ApiNext == ApiRequest \/ ApiContinues \/ ThreadSteps \/ Outside \/ ApiRestart
ApiSpec == ApiInit /\ [][ApiNext]_apivars
-----------------------------------------------------------------------------
ApiTypeOK == FirmwareTypeOK /\ BluecherryTypeOK /\ ScanTypeOK /\ requests \in 0..MaxRequests
=============================================================================
