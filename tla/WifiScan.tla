------------------------------ MODULE WifiScan ------------------------------
(***************************************************************************)
(* The scan for networks, src/wifi/nl.c, and the list the requests read.   *)
(* Each scan runs in a thread of its own: it triggers the kernel, joins    *)
(* the multicast group the kernel announces the end to, waits, and dumps   *)
(* the results into the one list.  (wifi_scan_networks has its call of     *)
(* nl_scan_networks commented out, wifi.c:66; the model has it.)           *)
(* A scan is a number and the networks it found so many copies of it.      *)
(***************************************************************************)
EXTENDS Integers, Sequences

CONSTANTS Scanners,    \* names of scan threads
          Found,       \* numbers of networks a scan may find
          MaxScans,    \* bound: scans of the kernel
          MaxNlFailures \* bound: netlink calls that fail

ASSUME ScanAssumption == /\ Found \subseteq Nat
                         /\ MaxScans \in Nat /\ MaxNlFailures \in Nat

VARIABLES
  kernel,    \* whether it scans, the last scan that ended, what each one found
  scan,      \* the threads
  list,      \* wifi_list.list
  editing,   \* wifi_list.editing
  mixed,     \* history: the last dump was begun during another
  nlfailures \* number of failures

scanvars == <<kernel, scan, list, editing, mixed, nlfailures>>

NoScan == [pc |-> "none", event |-> "none", member |-> FALSE, left |-> 0, of |-> 0]
Ids == 0..MaxScans
Dumping == {t \in Scanners : scan[t].pc = "add"}

ScanTypeOK ==
  /\ kernel \in [busy : BOOLEAN, last : Ids, found : [Ids -> Found \cup {0}]]
  /\ scan \in [Scanners -> [pc : {"none", "trigger", "join", "listen", "dump", "add"},
                            event : {"none", "results", "aborted"}, member : BOOLEAN,
                            left : Nat, of : Ids]]
  /\ list \in Seq(Ids)
  /\ editing \in BOOLEAN /\ mixed \in BOOLEAN
  /\ nlfailures \in 0..MaxNlFailures

ScanInit ==
  /\ kernel = [busy |-> FALSE, last |-> 0, found |-> [i \in Ids |-> 0]]
  /\ scan = [t \in Scanners |-> NoScan]
  /\ list = <<>>
  /\ editing = FALSE
  /\ mixed = FALSE
  /\ nlfailures = 0

NlWorks == UNCHANGED nlfailures
NlFails == nlfailures < MaxNlFailures /\ nlfailures' = nlfailures + 1
At(t, pc) == scan' = [scan EXCEPT ![t].pc = pc]
Exit(t) == scan' = [scan EXCEPT ![t] = NoScan]
-----------------------------------------------------------------------------
(* The kernel.  A scan is begun by a thread or by another program, and the *)
(* end of it is told to the sockets that are in the group then.            *)
KernelEnds(event, n) ==
  /\ kernel.busy
  /\ event = "results" => kernel.last < MaxScans
  /\ kernel' = IF event = "aborted" THEN [kernel EXCEPT !.busy = FALSE]
               ELSE [busy |-> FALSE, last |-> kernel.last + 1,
                     found |-> [kernel.found EXCEPT ![kernel.last + 1] = n]]
  /\ scan' = [t \in Scanners |->
                IF scan[t].member /\ scan[t].event = "none"
                THEN [scan[t] EXCEPT !.event = event] ELSE scan[t]]
  /\ UNCHANGED <<list, editing, mixed, nlfailures>>
OtherScan ==
  /\ ~kernel.busy
  /\ kernel.last < MaxScans
  /\ kernel' = [kernel EXCEPT !.busy = TRUE]
  /\ UNCHANGED <<scan, list, editing, mixed, nlfailures>>
KernelScan == OtherScan \/ (\E n \in Found : KernelEnds("results", n)) \/ KernelEnds("aborted", 0)
-----------------------------------------------------------------------------
(* wifi_get_scantrigger, which has been answered when the thread starts.   *)
ScanRequest ==
  /\ \E t \in Scanners : scan[t].pc = "none" /\ At(t, "trigger")
  /\ UNCHANGED <<kernel, list, editing, mixed, nlfailures>>

(* nl_init and the command, which the kernel refuses while it scans.       *)
Trigger(t) ==
  /\ scan[t].pc = "trigger"
  /\ \/ ~kernel.busy /\ NlWorks /\ kernel' = [kernel EXCEPT !.busy = TRUE] /\ At(t, "join")
     \/ kernel.busy /\ NlWorks /\ Exit(t) /\ UNCHANGED kernel
     \/ NlFails /\ Exit(t) /\ UNCHANGED kernel
  /\ UNCHANGED <<list, editing, mixed>>

(* Only now does the socket join the group: a scan that has ended is not   *)
(* announced to it.  Without the id of the group the thread waits outside  *)
(* of it, and when it cannot join it goes on at once.                      *)
Join(t) ==
  /\ scan[t].pc = "join"
  /\ \/ NlWorks /\ scan' = [scan EXCEPT ![t].pc = "listen", ![t].member = TRUE]
     \/ NlFails /\ (At(t, "listen") \/ At(t, "dump"))
  /\ UNCHANGED <<kernel, list, editing, mixed>>

Listen(t) ==
  /\ scan[t].pc = "listen"
  /\ scan[t].event # "none"
  /\ IF scan[t].event = "results" THEN At(t, "dump") ELSE Exit(t)
  /\ UNCHANGED <<kernel, list, editing, mixed, nlfailures>>

(* nl_wifi_start_edit, and the kernel takes what it has for this dump.     *)
StartEdit_Unflagged == list' = <<>> /\ UNCHANGED editing
StartEdit == editing' = TRUE /\ list' = <<>>
Dump(t) ==
  /\ scan[t].pc = "dump"
  /\ StartEdit
  /\ scan' = [scan EXCEPT ![t].pc = "add", ![t].of = kernel.last,
                          ![t].left = kernel.found[kernel.last]]
  /\ mixed' = (Dumping # {})
  /\ UNCHANGED <<kernel, nlfailures>>

(* _nl_ssid_callback for each network, and _nl_dump_finish_handler behind  *)
(* the last.  After an error nothing clears the flag.                      *)
NetworkOf(t) == scan[t].of   \* with its SSID decoded and its security looked up
Added(network) == Append(list, network)
AddNetwork(t) ==
  /\ scan[t].pc = "add"
  /\ scan[t].left > 0
  /\ list' = Added(NetworkOf(t))
  /\ scan' = [scan EXCEPT ![t].left = @ - 1]
  /\ UNCHANGED <<kernel, editing, mixed, nlfailures>>
StopEdit == editing' = FALSE
DumpEnds(t) ==
  /\ scan[t].pc = "add"
  /\ \/ scan[t].left = 0 /\ NlWorks /\ StopEdit
     \/ NlFails /\ UNCHANGED editing
  /\ Exit(t)
  /\ UNCHANGED <<kernel, list, mixed>>

ScanThread(t) == \/ Trigger(t) \/ Join(t) \/ Listen(t)
                 \/ Dump(t) \/ AddNetwork(t) \/ DumpEnds(t)

ScanRestart ==
  /\ scan' = [t \in Scanners |-> NoScan]
  /\ list' = <<>>
  /\ editing' = FALSE
  /\ mixed' = FALSE
  /\ UNCHANGED <<kernel, nlfailures>>
ScanNext == KernelScan \/ ScanRequest \/ (\E t \in Scanners : ScanThread(t)) \/ ScanRestart
ScanSpec == ScanInit /\ [][ScanNext]_scanvars
-----------------------------------------------------------------------------
(* The answer of wifi_get_scan.                                            *)
ScanAnswer == IF editing THEN "busy" ELSE "done"

(* A list that is answered as done is all that one scan has found: not the *)
(* part that was dumped so far and not two scans in one, unless the dump   *)
(* began during another one, which nothing keeps it from.                  *)
ListIsOneScan ==
  ScanAnswer = "done" /\ ~mixed =>
    \E i \in Ids : list = [n \in 1..kernel.found[i] |-> i]
=============================================================================
