----------------------------- MODULE Bluecherry -----------------------------
(***************************************************************************)
(* The registration of the board with the BlueCherry platform,             *)
(* src/bluecherry: log in, let the platform make a device, make an SSH     *)
(* key and hand it over, write the device into the configuration of the    *)
(* connector.  All of it happens inside one request, which blocks the      *)
(* event loop; each part may fail, an answer of the platform may be lost   *)
(* after it did what it was asked, and the process may end in between.     *)
(* A device stands for its id and its key, which the platform makes anew   *)
(* each time; an SSH key is a number.  The request that hands it over has  *)
(* room for so much of it (399 bytes of the file, 511 of the encoded       *)
(* form): a key that is longer reaches the platform as its beginning only. *)
(***************************************************************************)
EXTENDS Integers, FiniteSets

CONSTANTS MaxDevices,   \* devices the platform allows for this account
          MaxKeys,      \* bound: SSH keys the board makes
          MaxBcFailures \* bound: calls that fail

ASSUME BluecherryAssumption ==
  MaxDevices \in Nat /\ MaxKeys \in Nat /\ MaxBcFailures \in Nat

VARIABLES
  platform,    \* the platform: device -> SSH key it holds, 0 for none or a part of one
  config,      \* /etc/config/dpt-connector: devid and devkey, 0 for no line
  sshkey,      \* the key in /root/.ssh/id_rsa, 0 for none
  fits,        \* whether the request that sends this key has room for all of it
  keysmade,    \* number of keys made
  job,         \* the request: its next step, its device, and its last result
  halfway,     \* history: a key was made, and its device is not configured yet
  bcfailures   \* number of failures

bcvars == <<platform, config, sshkey, fits, keysmade, job, halfway, bcfailures>>

Devices == 1..MaxDevices
Registered == DOMAIN platform
NoJob == [pc |-> "idle", dev |-> 0, result |-> "none"]

BluecherryTypeOK ==
  /\ \E n \in 0..MaxDevices : platform \in [1..n -> 0..MaxKeys]
  /\ config \in [devid : 0..MaxDevices, devkey : 0..MaxDevices]
  /\ sshkey \in 0..MaxKeys /\ fits \in BOOLEAN
  /\ keysmade \in 0..MaxKeys
  /\ job \in [pc : {"idle", "get", "key", "put", "id", "devkey"}, dev : 0..MaxDevices,
              result : {"none", "success", "maxreached", "wrong", "unknown",
                        "uninitialised", "connected", "offline"}]
  /\ halfway \in BOOLEAN
  /\ bcfailures \in 0..MaxBcFailures

BluecherryInit ==
  /\ platform = [d \in {} |-> 0]
  /\ config = [devid |-> 0, devkey |-> 0]
  /\ sshkey = 0 /\ fits = FALSE
  /\ keysmade = 0
  /\ job = NoJob
  /\ halfway = FALSE
  /\ bcfailures = 0

BluecherryIdle == job.pc = "idle"
Goes == UNCHANGED bcfailures
Breaks == bcfailures < MaxBcFailures /\ bcfailures' = bcfailures + 1
Step(pc) == job' = [job EXCEPT !.pc = pc]
Ends(result) == job' = [pc |-> "idle", dev |-> 0, result |-> result]
-----------------------------------------------------------------------------
(* bluecherry_login; the session it leaves on the platform is not modelled. *)
LoginRequest ==
  /\ BluecherryIdle
  /\ \/ Goes /\ Ends("success")
     \/ Breaks /\ Ends("wrong")
  /\ UNCHANGED <<platform, config, sshkey, fits, keysmade, halfway>>

(* bluecherry_status looks for the last line of the configuration, and for *)
(* the connector.                                                          *)
StatusRequest ==
  /\ BluecherryIdle
  /\ Goes
  /\ \E result \in IF config.devkey = 0 THEN {"uninitialised"} ELSE {"connected", "offline"} :
       Ends(result)
  /\ UNCHANGED <<platform, config, sshkey, fits, keysmade, halfway>>

(* The type of the device is read from the configuration, then the user is *)
(* logged in: any failure of that counts as wrong credentials.             *)
InitRequest ==
  /\ BluecherryIdle
  /\ \/ Goes /\ job' = [pc |-> "get", dev |-> 0, result |-> "none"]
     \/ \E result \in {"unknown", "wrong"} :
          Breaks /\ job' = [pc |-> "idle", dev |-> 0, result |-> result]
  /\ UNCHANGED <<platform, config, sshkey, fits, keysmade, halfway>>

(* The GET that makes the device, as the platform acts on it.              *)
NewDevice == Cardinality(Registered) + 1
Register == platform' = [d \in Registered \cup {NewDevice} |->
                           IF d = NewDevice THEN 0 ELSE platform[d]]
GetDevice ==
  /\ job.pc = "get"
  /\ \/ /\ NewDevice \in Devices
        /\ Register
        /\ \/ Goes /\ job' = [job EXCEPT !.pc = "key", !.dev = NewDevice]
           \/ Breaks /\ Ends("unknown")   \* the answer is lost or not understood
     \/ NewDevice \notin Devices /\ Goes /\ Ends("maxreached") /\ UNCHANGED platform
     \/ Breaks /\ Ends("unknown") /\ UNCHANGED platform
  /\ UNCHANGED <<config, sshkey, fits, keysmade, halfway>>

(* The old key is removed first, whether ssh-keygen then works or not, and *)
(* the new one stays when reading its public half fails.                   *)
NewKey ==
  /\ keysmade < MaxKeys
  /\ sshkey' = keysmade + 1 /\ fits' \in BOOLEAN
  /\ keysmade' = keysmade + 1
NoKey == sshkey' = 0 /\ fits' = FALSE /\ UNCHANGED keysmade
MakeKey ==
  /\ job.pc = "key"
  /\ \/ Goes /\ NewKey /\ Step("put")
     \/ Breaks /\ (NewKey \/ NoKey) /\ Ends("unknown")
  /\ halfway' = TRUE
  /\ UNCHANGED <<platform, config>>

Sent == IF fits THEN sshkey ELSE 0
KeyArrives == platform' = [platform EXCEPT ![job.dev] = Sent]
PutKey_Unchecked ==   \* without a look at the status of the answer
  /\ job.pc = "put"
  /\ \/ Goes /\ KeyArrives /\ Step("id")
     \/ Breaks /\ UNCHANGED platform /\ Step("id")
  /\ UNCHANGED <<config, sshkey, fits, keysmade, halfway>>
PutKey ==
  /\ job.pc = "put"
  /\ \/ Goes /\ KeyArrives /\ Step("id")
     \/ Breaks /\ (KeyArrives \/ UNCHANGED platform) /\ Ends("unknown")
  /\ UNCHANGED <<config, sshkey, fits, keysmade, halfway>>

(* bluecherry_write_con_config: two commands, the second only after the    *)
(* first, and nobody looks at what it returns.                             *)
WriteId ==
  /\ job.pc = "id"
  /\ \/ Goes /\ config' = [config EXCEPT !.devid = job.dev] /\ Step("devkey")
     \/ /\ Breaks
        /\ UNCHANGED config \/ config' = [config EXCEPT !.devid = job.dev]
        /\ Ends("success")
  /\ UNCHANGED <<platform, sshkey, fits, keysmade, halfway>>
WriteDevkey ==
  /\ job.pc = "devkey"
  /\ \/ Goes /\ config' = [config EXCEPT !.devkey = job.dev] /\ halfway' = FALSE
     \/ /\ Breaks
        /\ UNCHANGED config \/ config' = [config EXCEPT !.devkey = job.dev]
        /\ UNCHANGED halfway
  /\ Ends("success")
  /\ UNCHANGED <<platform, sshkey, fits, keysmade>>

(* The process ends and starts again; the files and the platform stay.     *)
BluecherryRestart == job' = NoJob /\ UNCHANGED <<platform, config, sshkey, fits, keysmade,
                                                halfway, bcfailures>>

BluecherryStep == GetDevice \/ MakeKey \/ PutKey \/ WriteId \/ WriteDevkey
BluecherryNext == LoginRequest \/ StatusRequest \/ InitRequest \/ BluecherryStep \/ BluecherryRestart
BluecherrySpec == BluecherryInit /\ [][BluecherryNext]_bcvars
-----------------------------------------------------------------------------
(* What the connector is configured with lets it in: unless a registration *)
(* stopped after it removed the old key, the configuration names one       *)
(* device, the board still has its key, and the platform holds that key    *)
(* for the device, if the request had room for all of it.  A failed        *)
(* registration costs a device but not the one in use, and a later one     *)
(* that goes through heals what an earlier one broke.                      *)
ConfiguredKeyIsKnown ==
  ~halfway /\ config.devid # 0 =>
    /\ config.devkey = config.devid
    /\ sshkey # 0
    /\ fits => platform[config.devid] = sshkey
=============================================================================
