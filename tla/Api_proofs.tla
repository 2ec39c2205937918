----------------------------- MODULE Api_proofs -----------------------------
(***************************************************************************)
(* Proofs about Api and its three parts: the updater (Firmware), the       *)
(* registration (Bluecherry) and the scan (WifiScan).                      *)
(*                                                                         *)
(* Firmware, for any number of releases, download threads, blocks and      *)
(* failures.  While downloads do not overlap there is at most one thread   *)
(* (Single), and none between the reset of the flag and the start of the   *)
(* new one (Requested); it runs with the flag reset (FlagIsReset), and a   *)
(* match it found is still what the file holds when it sets the flag       *)
(* (MatchStands); for that a file that is not there must be known to be    *)
(* empty (Written).                                                        *)
(* A check that is being stored has stored the keys before its next one    *)
(* (StoredSoFar).                                                          *)
(*                                                                         *)
(* Bluecherry, for any number of devices, keys and failures: that the      *)
(* configured key is known is not inductive.  Between the key that is made *)
(* and the second line that is written, the request must be known to hold  *)
(* a registered device (Ready) which has the key from its arrival on       *)
(* (Handed) and is the one the first line names (Named).                   *)
(*                                                                         *)
(* WifiScan, for any number of threads, scans and networks: while dumps do *)
(* not overlap there is one (SoleDump), and the list is what it has added  *)
(* so far (Dumped); without one the list is whole or still marked          *)
(* (ListStands).                                                           *)
(*                                                                         *)
(* Api: a step of the composition is a step or a stutter of each part, so  *)
(* what holds of the parts holds of the program with all of them.          *)
(***************************************************************************)
EXTENDS Api, FiniteSetTheorems, TLAPS

USE FirmwareAssumption

Single == ~overlap => \A t, u \in Downloads : dl[t].pc # "none" /\ dl[u].pc # "none" => t = u
FlagIsReset == ~overlap => \A t \in Downloads : dl[t].pc # "none" => ~downloaded
MatchStands ==
  ~overlap => \A t \in Downloads : dl[t].pc = "set" /\ dl[t].same =>
                image.there /\ image.blocks = Whole(dl[t].sig)
Written == /\ ~image.there => image.blocks = <<>>
           /\ \A t \in Downloads : dl[t].pc = "transfer" => image.there
Requested ==
  ~overlap /\ fw.op = "download" /\ fw.step > 0 =>
    ~downloaded /\ \A t \in Downloads : dl[t].pc = "none"
StoredSoFar ==
  fw.op = "check" /\ fw.step > 0 =>
    /\ fw.answer = "none"
    /\ HasRows => \A i \in 1..(fw.step - 1) : table[Keys[i]] = Stored(Keys[i], fw.release)

FwInv == /\ FirmwareTypeOK
         /\ Single /\ FlagIsReset /\ MatchStands /\ Written /\ VerifiedDownload
         /\ Requested /\ StoredSoFar /\ CheckIsStored

(* The types, in the three groups the steps disturb apart.                 *)
Tables == [KeySet -> {0} \cup Releases] \cup [{} -> {0}]
Requests == [step : 0..7, op : {"none", "check", "info", "download", "install"},
             release : {0} \cup Releases, answer : {"none", "ok", "error"}]
ThreadStates == [pc : Threads, url : {0} \cup Releases, at : 0..ImageSize,
                 sig : {0} \cup Releases, same : BOOLEAN]
FileOK(file) == /\ file.there \in BOOLEAN /\ file.blocks \in Seq({0} \cup Releases)
                /\ Len(file.blocks) \in 0..ImageSize
FlagsOK == /\ downloaded \in BOOLEAN /\ verified \in {0} \cup Releases
           /\ overlap \in BOOLEAN /\ installing \in BOOLEAN

(* The conjuncts of the type invariant, which steps preserve one by one. *)
LEMMA TypeParts ==
    FirmwareTypeOK <=> /\ published \in Releases /\ table \in Tables /\ fw \in Requests
                       /\ FileOK(image) /\ dl \in [Downloads -> ThreadStates]
                       /\ FlagsOK /\ fwfailures \in 0..MaxFailures
BY DEF FirmwareTypeOK, Tables, Requests, ThreadStates, FileOK, FlagsOK

(* The number of failures stays within its bound.                        *)
LEMMA FailureTypes ==
    ASSUME fwfailures \in 0..MaxFailures, Works \/ Fails
    PROVE  fwfailures' \in 0..MaxFailures
BY DEF Works, Fails

(* No key of the store is written twice by a check.                      *)
LEMMA KeysDiffer == \A i, j \in 1..7 : Keys[i] = Keys[j] => i = j
BY DEF Keys

(* The seven keys are all there are.                                     *)
LEMMA KeysAreKeys == /\ \A i \in 1..7 : Keys[i] \in KeySet
                     /\ \A k \in KeySet : \E i \in 1..7 : k = Keys[i]
BY DEF KeySet

(* What is stored under a key is a release, or nothing.                  *)
LEMMA StoredTypes ==
    ASSUME NEW key, NEW release \in {0} \cup Releases
    PROVE  Stored(key, release) \in {0} \cup Releases
BY DEF Stored

(* No thread is a state of a thread.                                     *)
LEMMA NoThreadTypes == NoThread \in ThreadStates /\ NoThread.pc = "none"
<1>1. 0 \in 0..ImageSize
  OBVIOUS
<1> QED
  BY <1>1 DEF NoThread, ThreadStates, Threads

(* No file is a state of the image.                                      *)
LEMMA NoImageTypes == FileOK(NoImage) /\ ~NoImage.there /\ NoImage.blocks = <<>>
BY DEF NoImage, FileOK

(* An empty file is no whole image.                                        *)
LEMMA WholeIsThere ==
    ASSUME NEW sig, Written, image.blocks = Whole(sig)
    PROVE  image.there
<1>1. Whole(sig)[1] = sig /\ DOMAIN Whole(sig) = 1..ImageSize /\ 1 \in 1..ImageSize
  BY DEF Whole
<1>2. DOMAIN <<>> = 1..0
  OBVIOUS
<1> QED
  BY <1>1, <1>2 DEF Written

(* The updater starts in the invariant.                                  *)
LEMMA InitHolds == ASSUME FirmwareInit PROVE FwInv
<1>1. 1 \in Releases
  BY DEF Releases
<1>2. table \in Tables
  <2>1. CASE table = NoRows
    BY <2>1 DEF NoRows, Tables
  <2>2. CASE table = PutRows
    BY <2>2 DEF PutRows, Tables
  <2>3. CASE table = [k \in KeySet |-> Stored(k, 1)]
    BY <1>1, <2>3, StoredTypes DEF Tables
  <2> QED
    BY <2>1, <2>2, <2>3 DEF FirmwareInit
<1>3. fw \in Requests /\ fw.step = 0 /\ fw.op = "none"
  BY DEF FirmwareInit, NoRequest, Requests
<1>4. FileOK(image) /\ ~image.there /\ image.blocks = <<>>
  BY NoImageTypes DEF FirmwareInit
<1>5. dl \in [Downloads -> ThreadStates] /\ \A t \in Downloads : dl[t].pc = "none"
  BY NoThreadTypes DEF FirmwareInit
<1>6. FlagsOK /\ ~downloaded
  BY DEF FirmwareInit, FlagsOK
<1>7. FirmwareTypeOK
  BY <1>2, <1>3, <1>4, <1>5, <1>6, TypeParts DEF FirmwareInit
<1> QED
  BY <1>3, <1>4, <1>5, <1>6, <1>7
     DEF FwInv, Single, FlagIsReset, MatchStands, Written, VerifiedDownload, Requested,
         StoredSoFar, CheckIsStored
-----------------------------------------------------------------------------
(* What a step leaves alone when it does not touch the file or the threads,*)
(* and when it does not touch the request or the table.                    *)
LEMMA FileStands ==
    ASSUME FwInv, UNCHANGED <<downloaded, image, dl, verified, overlap>>
    PROVE  Single' /\ FlagIsReset' /\ MatchStands' /\ Written' /\ VerifiedDownload'
BY DEF FwInv, Single, FlagIsReset, MatchStands, Written, VerifiedDownload

(* What a check stored stands while store and request do.                *)
LEMMA StoreStands ==
    ASSUME FwInv, UNCHANGED <<fw, table>>
    PROVE  StoredSoFar' /\ CheckIsStored'
BY DEF FwInv, StoredSoFar, CheckIsStored, HasRows

(* A download that was asked for stands while no thread moves.             *)
LEMMA RequestStands ==
    ASSUME FwInv, UNCHANGED <<fw, downloaded, dl, overlap>>
    PROVE  Requested'
BY DEF FwInv, Requested

(* An answer other than that of a good check promises nothing.           *)
LEMMA AnswerStands ==
    ASSUME NEW op \in {"none", "check", "info", "download", "install"},
           NEW release \in {0} \cup Releases, NEW answer \in {"none", "ok", "error"},
           Answer(op, release, answer), op # "check" \/ answer # "ok"
    PROVE  fw' \in Requests /\ Requested' /\ StoredSoFar' /\ CheckIsStored'
<1>1. fw' = [step |-> 0, op |-> op, release |-> release, answer |-> answer]
  BY DEF Answer
<1>2. fw' \in Requests
  BY <1>1 DEF Requests
<1>3. fw'.step = 0 /\ fw'.op = op /\ fw'.answer = answer
  BY <1>1
<1> QED
  BY <1>2, <1>3 DEF Requested, StoredSoFar, CheckIsStored

(* A check that begins has stored nothing yet.                           *)
LEMMA CheckKeeps == ASSUME FwInv, CheckRequest PROVE FwInv'
<1>1. UNCHANGED <<published, table, downloaded, image, dl, verified, overlap, installing>>
  BY DEF CheckRequest
<1>2. FirmwareTypeOK /\ published \in Releases
  BY TypeParts DEF FwInv
<1>3. fwfailures' \in 0..MaxFailures
  BY <1>2, FailureTypes, TypeParts DEF CheckRequest
<1>4. fw' \in Requests /\ Requested' /\ StoredSoFar' /\ CheckIsStored'
  <2>1. CASE fw' = [step |-> 1, op |-> "check", release |-> published, answer |-> "none"]
    <3>1. fw' \in Requests
      BY <1>2, <2>1 DEF Requests
    <3>2. fw'.step = 1 /\ fw'.op = "check" /\ fw'.answer = "none"
      BY <2>1
    <3> QED
      BY <3>1, <3>2 DEF Requested, StoredSoFar, CheckIsStored
  <2>2. CASE Answer("check", 0, "error")
    BY <2>2, AnswerStands
  <2> QED
    BY <2>1, <2>2 DEF CheckRequest
<1>5. FirmwareTypeOK'
  BY <1>1, <1>2, <1>3, <1>4, TypeParts DEF FirmwareTypeOK, Requests
<1> QED
  BY <1>1, <1>4, <1>5, FileStands DEF FwInv

(* A request that reads the store changes nothing.                       *)
LEMMA InfoKeeps == ASSUME FwInv, InfoRequest PROVE FwInv'
<1>1. UNCHANGED <<published, table, downloaded, image, dl, verified, overlap, installing>>
  BY DEF InfoRequest
<1>2. FirmwareTypeOK
  BY DEF FwInv
<1>3. fwfailures' \in 0..MaxFailures
  BY <1>2, FailureTypes, TypeParts DEF InfoRequest, RowsFound, RowsNotFound
<1>4. fw' \in Requests /\ Requested' /\ StoredSoFar' /\ CheckIsStored'
  <2>1. \E answer \in {"ok", "error"} : Answer("info", 0, answer)
    BY DEF InfoRequest
  <2> QED
    BY <2>1, AnswerStands
<1>5. FirmwareTypeOK'
  BY <1>1, <1>2, <1>3, <1>4 DEF FirmwareTypeOK, Requests
<1> QED
  BY <1>1, <1>4, <1>5, FileStands DEF FwInv

(* Installing changes neither the store nor the image.                   *)
LEMMA InstallKeeps == ASSUME FwInv, InstallRequest PROVE FwInv'
<1>1. UNCHANGED <<published, table, downloaded, image, dl, verified, overlap>>
  BY DEF InstallRequest
<1>2. FirmwareTypeOK
  BY DEF FwInv
<1>3. fwfailures' \in 0..MaxFailures
  BY <1>2, FailureTypes, TypeParts DEF InstallRequest
<1>4. fw' \in Requests /\ Requested' /\ StoredSoFar' /\ CheckIsStored'
  <2>1. \E answer \in {"ok", "error"} : Answer("install", 0, answer)
    BY DEF InstallRequest
  <2> QED
    BY <2>1, AnswerStands
<1>5. installing' \in BOOLEAN
  BY <1>2 DEF InstallRequest, FirmwareTypeOK
<1>6. FirmwareTypeOK'
  BY <1>1, <1>2, <1>3, <1>4, <1>5 DEF FirmwareTypeOK, Requests
<1> QED
  BY <1>1, <1>4, <1>6, FileStands DEF FwInv

(* Each key a check stores is of its release, up to the last one.        *)
LEMMA StoreKeeps == ASSUME FwInv, StoreKey PROVE FwInv'
<1>1. UNCHANGED <<published, downloaded, image, dl, verified, overlap, installing>>
  BY DEF StoreKey
<1>2. /\ FirmwareTypeOK /\ fw \in Requests /\ table \in Tables
      /\ fw.step \in 1..7 /\ fw.release \in {0} \cup Releases
  <2>1. fw \in Requests /\ fw.step > 0 /\ table \in Tables
    BY TypeParts DEF FwInv, StoreKey
  <2> QED
    BY <2>1, TypeParts DEF FwInv, Requests
<1>3. fwfailures' \in 0..MaxFailures
  BY <1>2, FailureTypes, TypeParts DEF StoreKey
<1> DEFINE key == Keys[fw.step]
           value == Stored(key, fw.release)
<1>4. ASSUME table' = Edited(key, value), StoreNext
      PROVE  /\ table' \in Tables /\ fw' \in Requests
             /\ Requested' /\ StoredSoFar' /\ CheckIsStored'
  <2>1. value \in {0} \cup Releases /\ key \in KeySet
    BY <1>2, StoredTypes, KeysAreKeys
  <2>2. table' = [k \in DOMAIN table |-> IF k = key THEN value ELSE table[k]]
    BY <1>4 DEF Edited
  <2>3. table' \in Tables /\ DOMAIN table' = DOMAIN table
    BY <1>2, <2>1, <2>2 DEF Tables
  <2>4. HasRows' => \A i \in 1..fw.step : table'[Keys[i]] = Stored(Keys[i], fw.release)
    <3> SUFFICES ASSUME HasRows', NEW i \in 1..fw.step
                 PROVE  table'[Keys[i]] = Stored(Keys[i], fw.release)
      OBVIOUS
    <3>1. HasRows /\ DOMAIN table = KeySet
      BY <2>3 DEF HasRows
    <3>2. i \in 1..7 /\ Keys[i] \in KeySet
      BY <1>2, KeysAreKeys
    <3>3. CASE i = fw.step
      BY <2>2, <3>1, <3>2, <3>3
    <3>4. CASE i # fw.step
      <4>1. i \in 1..(fw.step - 1)
        BY <1>2, <3>4
      <4>2. Keys[i] # key
        BY <1>2, <3>2, <3>4, KeysDiffer
      <4>3. table[Keys[i]] = Stored(Keys[i], fw.release)
        BY <1>2, <3>1, <4>1 DEF FwInv, StoredSoFar, StoreKey
      <4> QED
        BY <2>2, <3>1, <3>2, <4>2, <4>3
    <3> QED
      BY <3>3, <3>4
  <2>5. fw' \in Requests /\ Requested' /\ StoredSoFar' /\ CheckIsStored'
    <3>1. fw.op = "check" /\ fw.answer = "none"
      BY <1>2 DEF FwInv, StoredSoFar, StoreKey
    <3>2. CASE fw.step = 7
      <4>1. fw' = [step |-> 0, op |-> "check", release |-> fw.release, answer |-> "ok"]
        BY <1>4, <3>2 DEF StoreNext, Answer
      <4>2. fw' \in Requests
        BY <1>2, <4>1 DEF Requests
      <4>3. fw'.step = 0 /\ fw'.release = fw.release
        BY <4>1
      <4>4. \A k \in DOMAIN table' : table'[k] = Stored(k, fw.release)
        <5>1. HasRows' => \A k \in KeySet : table'[k] = Stored(k, fw.release)
          BY <2>4, <3>2, KeysAreKeys
        <5>2. HasRows' \/ DOMAIN table' = {}
          BY <2>3 DEF HasRows, Tables
        <5> QED
          BY <5>1, <5>2 DEF HasRows
      <4>5. fw'.op = "check"
        BY <4>1
      <4> QED
        BY <4>2, <4>3, <4>4, <4>5 DEF Requested, StoredSoFar, CheckIsStored
    <3>3. CASE fw.step # 7
      <4>1. fw' = [fw EXCEPT !.step = fw.step + 1]
        BY <1>4, <3>3 DEF StoreNext
      <4>2. fw.step + 1 \in 0..7
        BY <1>2, <3>3
      <4>3. fw' \in Requests
        BY <1>2, <4>1, <4>2 DEF Requests
      <4>4. /\ fw'.step = fw.step + 1 /\ fw'.op = "check" /\ fw'.answer = "none"
            /\ fw'.release = fw.release
        BY <1>2, <3>1, <4>1 DEF Requests
      <4>5. (fw.step + 1) - 1 = fw.step
        BY <1>2
      <4> QED
        BY <2>4, <4>3, <4>4, <4>5 DEF Requested, StoredSoFar, CheckIsStored
    <3> QED
      BY <3>2, <3>3
  <2> QED
    BY <2>3, <2>5
<1>5. ASSUME StoreFails
      PROVE  /\ table' \in Tables /\ fw' \in Requests
             /\ Requested' /\ StoredSoFar' /\ CheckIsStored'
  <2>1. Answer("check", fw.release, "error") /\ table' = table
    BY <1>5 DEF StoreFails
  <2> QED
    BY <1>2, <2>1, AnswerStands
<1>6. table' \in Tables /\ fw' \in Requests /\ Requested' /\ StoredSoFar' /\ CheckIsStored'
  BY <1>4, <1>5 DEF StoreKey
<1>7. FirmwareTypeOK'
  BY <1>1, <1>2, <1>3, <1>6 DEF FirmwareTypeOK, Requests, Tables
<1> QED
  BY <1>1, <1>6, <1>7, FileStands DEF FwInv

(* A download begins with the flag reset.                                  *)
LEMMA DownloadKeeps == ASSUME FwInv, DownloadRequest PROVE FwInv'
<1>1. /\ UNCHANGED <<published, table, image, dl, installing, fwfailures>>
      /\ downloaded' = FALSE /\ verified' = 0 /\ overlap' = (Running # {})
      /\ fw' = [step |-> 1, op |-> "download", release |-> 0, answer |-> "none"]
  BY DEF DownloadRequest, Reset
<1>2. FirmwareTypeOK /\ FlagsOK
  BY TypeParts DEF FwInv
<1>3. fw' \in Requests /\ fw'.op = "download"
  BY <1>1 DEF Requests
<1>4. ~overlap' => \A t \in Downloads : dl'[t].pc = "none"
  BY <1>1 DEF Running
<1>5. FlagsOK'
  BY <1>1, <1>2 DEF FlagsOK
<1>6. FirmwareTypeOK'
  BY <1>1, <1>2, <1>3, <1>5 DEF FirmwareTypeOK, Requests, FlagsOK
<1>7. Single' /\ FlagIsReset' /\ MatchStands' /\ Requested' /\ VerifiedDownload'
  BY <1>1, <1>4 DEF Single, FlagIsReset, MatchStands, Requested, VerifiedDownload
<1>8. Written'
  BY <1>1 DEF FwInv, Written
<1>9. StoredSoFar' /\ CheckIsStored'
  BY <1>3 DEF StoredSoFar, CheckIsStored
<1> QED
  BY <1>6, <1>7, <1>8, <1>9 DEF FwInv

(* What is read of the store is an address, and changes nothing else.      *)
LEMMA ReadUrlKeeps == ASSUME FwInv, ReadUrl PROVE FwInv'
<1>1. /\ UNCHANGED <<published, table, downloaded, image, dl, verified, overlap, installing>>
      /\ fw.op = "download" /\ fw.step = 1
  BY DEF ReadUrl
<1>2. FirmwareTypeOK /\ fw \in Requests /\ table \in Tables
  BY TypeParts DEF FwInv
<1>3. fwfailures' \in 0..MaxFailures
  BY <1>2, FailureTypes, TypeParts DEF ReadUrl, RowsFound, RowsNotFound
<1>4. fw' \in Requests /\ Requested' /\ StoredSoFar' /\ CheckIsStored'
  <2>1. CASE HasRows /\ fw' = [fw EXCEPT !.step = 2, !.release = table["url"]]
    <3>1. table["url"] \in {0} \cup Releases
      <4>1. "url" = Keys[3] /\ "url" \in KeySet
        BY KeysAreKeys DEF Keys
      <4> QED
        BY <1>2, <2>1, <4>1 DEF HasRows, Tables
    <3>2. PICK url \in {0} \cup Releases : fw' = [fw EXCEPT !.step = 2, !.release = url]
      BY <2>1, <3>1
    <3>3. fw' \in Requests /\ fw'.op = "download"
      <4>1. 2 \in 0..7
        OBVIOUS
      <4> QED
        BY <1>1, <1>2, <3>2, <4>1 DEF Requests
    <3>4. Requested'
      BY <1>1 DEF FwInv, Requested
    <3> QED
      BY <3>2, <3>3, <3>4 DEF StoredSoFar, CheckIsStored
  <2>2. CASE Answer("download", 0, "error")
    BY <2>2, AnswerStands
  <2> QED
    BY <2>1, <2>2 DEF ReadUrl, RowsFound
<1>5. FirmwareTypeOK'
  BY <1>1, <1>2, <1>3, <1>4 DEF FirmwareTypeOK, Requests
<1> QED
  BY <1>1, <1>4, <1>5, FileStands DEF FwInv

(* The thread that starts is alone, and the flag is still reset.           *)
LEMMA StartThreadKeeps == ASSUME FwInv, StartThread PROVE FwInv'
<1>1. /\ UNCHANGED <<published, table, downloaded, image, verified, overlap, installing>>
      /\ fw.op = "download" /\ fw.step = 2
  BY DEF StartThread
<1>2. /\ FirmwareTypeOK /\ fw \in Requests /\ dl \in [Downloads -> ThreadStates]
      /\ fw.release \in {0} \cup Releases
  BY TypeParts DEF FwInv, Requests
<1>3. fwfailures' \in 0..MaxFailures
  BY <1>2, FailureTypes, TypeParts DEF StartThread
<1>4. fw' \in Requests /\ Requested' /\ StoredSoFar' /\ CheckIsStored'
  <2>1. \E answer \in {"ok", "error"} : Answer("download", 0, answer)
    BY DEF StartThread
  <2> QED
    BY <2>1, AnswerStands
<1>5. ~overlap => ~downloaded /\ \A t \in Downloads : dl[t].pc = "none"
  BY <1>1 DEF FwInv, Requested
<1>6. /\ dl' \in [Downloads -> ThreadStates]
      /\ Single' /\ FlagIsReset' /\ MatchStands' /\ Written' /\ VerifiedDownload'
  <2>1. CASE UNCHANGED dl
    BY <1>1, <1>2, <2>1, FileStands
  <2>2. ASSUME NEW t \in Downloads, dl' = [dl EXCEPT ![t] = Started(fw.release)]
        PROVE  /\ dl' \in [Downloads -> ThreadStates]
               /\ Single' /\ FlagIsReset' /\ MatchStands' /\ Written' /\ VerifiedDownload'
    <3>1. Started(fw.release) \in ThreadStates /\ Started(fw.release).pc = "start"
      BY <1>2, NoThreadTypes DEF Started, ThreadStates, Threads
    <3>2. /\ dl' \in [Downloads -> ThreadStates] /\ dl'[t].pc = "start"
          /\ \A u \in Downloads : u # t => dl'[u] = dl[u]
      BY <1>2, <2>2, <3>1
    <3>3. Single' /\ FlagIsReset' /\ MatchStands' /\ VerifiedDownload'
      BY <1>1, <1>5, <3>2 DEF Single, FlagIsReset, MatchStands, VerifiedDownload
    <3>4. Written'
      BY <1>1, <3>2 DEF FwInv, Written
    <3> QED
      BY <3>2, <3>3, <3>4
  <2> QED
    BY <2>1, <2>2 DEF StartThread
<1>7. FirmwareTypeOK'
  BY <1>1, <1>2, <1>3, <1>4, <1>6 DEF FirmwareTypeOK, Requests, ThreadStates
<1> QED
  BY <1>4, <1>6, <1>7 DEF FwInv
-----------------------------------------------------------------------------
(* The download threads.                                                   *)

Changed(t) == \A u \in Downloads : u # t => dl'[u] = dl[u]

(* A running thread runs alone, and with the flag reset, if downloads do   *)
(* not overlap.                                                            *)
LEMMA RunsAlone ==
    ASSUME FwInv, NEW t \in Downloads, dl[t].pc # "none", ~overlap
    PROVE  ~downloaded /\ \A u \in Downloads : u # t => dl[u].pc = "none"
BY DEF FwInv, Single, FlagIsReset

(* A step of a thread that goes on: what it must show of itself.           *)
LEMMA ThreadGoesOn ==
    ASSUME FwInv, NEW t \in Downloads, dl[t].pc # "none",
           NEW state \in ThreadStates, dl' = [dl EXCEPT ![t] = state],
           UNCHANGED <<published, table, fw, overlap, installing, downloaded, verified>>,
           Works \/ Fails, FileOK(image'), Written',
           state.pc = "set" /\ state.same =>
             image'.there /\ image'.blocks = Whole(state.sig)
    PROVE  FwInv'
<1>1. /\ FirmwareTypeOK /\ dl \in [Downloads -> ThreadStates]
      /\ fwfailures \in 0..MaxFailures
  BY TypeParts DEF FwInv
<1>2. dl' \in [Downloads -> ThreadStates] /\ dl'[t] = state /\ Changed(t)
  BY <1>1 DEF Changed
<1>3. FirmwareTypeOK'
  BY <1>1, <1>2, FailureTypes DEF FirmwareTypeOK, FileOK, ThreadStates
<1>4. Single' /\ FlagIsReset' /\ MatchStands' /\ VerifiedDownload'
  <2>1. CASE overlap
    BY <2>1 DEF Single, FlagIsReset, MatchStands, VerifiedDownload
  <2>2. CASE ~overlap
    <3>1. ~downloaded /\ \A u \in Downloads : u # t => dl[u].pc = "none"
      BY <2>2, RunsAlone
    <3>2. ~downloaded' /\ \A u \in Downloads : u # t => dl'[u].pc = "none"
      BY <1>2, <3>1 DEF Changed
    <3>3. MatchStands'
      <4> SUFFICES ASSUME NEW u \in Downloads, dl'[u].pc = "set", dl'[u].same
                   PROVE  image'.there /\ image'.blocks = Whole(dl'[u].sig)
        BY DEF MatchStands, Whole
      <4>1. u = t
        BY <3>2
      <4> QED
        BY <1>2, <4>1
    <3> QED
      BY <3>2, <3>3 DEF Single, FlagIsReset, VerifiedDownload
  <2> QED
    BY <2>1, <2>2
<1>5. StoredSoFar' /\ CheckIsStored'
  BY StoreStands
<1>6. Requested'
  BY DEF FwInv, Requested
<1> QED
  BY <1>3, <1>4, <1>5, <1>6 DEF FwInv

(* One that ends: the flag only for what it found to match.                *)
LEMMA ThreadEnds ==
    ASSUME FwInv, NEW t \in Downloads, dl[t].pc # "none",
           dl' = [dl EXCEPT ![t] = NoThread],
           UNCHANGED <<published, table, fw, overlap, installing, image>>,
           Works \/ Fails,
           downloaded' \in BOOLEAN, verified' \in {0} \cup Releases,
           downloaded' /\ ~overlap => image.there /\ image.blocks = Whole(verified')
    PROVE  FwInv'
<1>1. /\ FirmwareTypeOK /\ dl \in [Downloads -> ThreadStates]
      /\ fwfailures \in 0..MaxFailures /\ FlagsOK
  BY TypeParts DEF FwInv
<1>2. dl' \in [Downloads -> ThreadStates] /\ dl'[t].pc = "none" /\ Changed(t)
  BY <1>1, NoThreadTypes DEF Changed
<1>3. FlagsOK'
  BY <1>1 DEF FlagsOK
<1>4. FirmwareTypeOK'
  BY <1>1, <1>2, <1>3, FailureTypes DEF FirmwareTypeOK, FlagsOK, ThreadStates
<1>5. ~overlap => \A u \in Downloads : dl'[u].pc = "none"
  BY <1>2, RunsAlone DEF Changed
<1>6. Single' /\ FlagIsReset' /\ MatchStands'
  BY <1>5 DEF Single, FlagIsReset, MatchStands
<1>7. Written'
  BY <1>2 DEF FwInv, Written, Changed
<1>8. VerifiedDownload'
  BY DEF VerifiedDownload, Whole
<1>9. StoredSoFar' /\ CheckIsStored'
  BY StoreStands
<1>10. Requested'
  BY DEF FwInv, Requested
<1> QED
  BY <1>4, <1>6, <1>7, <1>8, <1>9, <1>10 DEF FwInv

(* A thread stays one at any of its steps.                               *)
LEMMA ThreadTypes ==
    ASSUME FwInv, NEW t \in Downloads
    PROVE  /\ dl[t] \in ThreadStates /\ FileOK(image) /\ Written
           /\ \A pc \in Threads : [dl[t] EXCEPT !.pc = pc] \in ThreadStates
<1>1. dl[t] \in ThreadStates
  BY TypeParts DEF FwInv
<1>2. \A pc \in Threads : [dl[t] EXCEPT !.pc = pc] \in ThreadStates
  BY <1>1 DEF ThreadStates
<1> QED
  BY <1>1, <1>2, TypeParts DEF FwInv

(* A download that opens the file empties it.                            *)
LEMMA TruncateKeeps ==
    ASSUME FwInv, NEW t \in Downloads, DownloadStep(t), Truncate(t)
    PROVE  FwInv'
<1>1. UNCHANGED <<published, table, fw, overlap, installing, downloaded, verified>>
  BY DEF DownloadStep, Truncate
<1>2. dl[t].pc # "none" /\ dl \in [Downloads -> ThreadStates]
  BY TypeParts DEF Truncate, FwInv
<1>3. CASE Works /\ Goto(t, "transfer") /\ image' = [there |-> TRUE, blocks |-> <<>>]
  <2>1. dl' = [dl EXCEPT ![t] = [dl[t] EXCEPT !.pc = "transfer"]]
    BY <1>2, <1>3 DEF Goto
  <2>2. /\ [dl[t] EXCEPT !.pc = "transfer"] \in ThreadStates
        /\ [dl[t] EXCEPT !.pc = "transfer"].pc = "transfer"
    BY ThreadTypes DEF Threads, ThreadStates
  <2>3. FileOK(image') /\ Written'
    BY <1>3 DEF FileOK, Written
  <2> QED
    BY <1>1, <1>2, <1>3, <2>1, <2>2, <2>3, ThreadGoesOn
<1>4. CASE Fails /\ Goto(t, "ended") /\ UNCHANGED image
  <2>1. dl' = [dl EXCEPT ![t] = [dl[t] EXCEPT !.pc = "ended"]]
    BY <1>2, <1>4 DEF Goto
  <2>2. /\ [dl[t] EXCEPT !.pc = "ended"] \in ThreadStates
        /\ [dl[t] EXCEPT !.pc = "ended"].pc = "ended"
    BY ThreadTypes DEF Threads, ThreadStates
  <2>3. FileOK(image')
    BY <1>4, ThreadTypes
  <2>4. Written'
    BY <1>2, <1>4, <2>1, <2>2, ThreadTypes DEF Written
  <2> QED
    BY <1>1, <1>2, <1>4, <2>1, <2>2, <2>3, <2>4, ThreadGoesOn
<1> QED
  BY <1>3, <1>4 DEF Truncate

(* A block written behind the end leaves a hole of zeros.                  *)
LEMMA BlockTypes ==
    ASSUME FileOK(image), NEW at \in 1..ImageSize, NEW url \in {0} \cup Releases
    PROVE  /\ BlockWritten(at, url) \in Seq({0} \cup Releases)
           /\ Len(BlockWritten(at, url)) \in 0..ImageSize
<1> DEFINE old == image.blocks
           size == IF at > Len(old) THEN at ELSE Len(old)
<1>1. old \in Seq({0} \cup Releases) /\ Len(old) \in 0..ImageSize
  BY DEF FileOK
<1>2. size \in 0..ImageSize
  BY <1>1
<1>3. \A i \in 1..Len(old) : old[i] \in {0} \cup Releases
  BY <1>1
<1> HIDE DEF size, old
<1>4. BlockWritten(at, url) = [i \in 1..size |-> CASE i = at -> url
                                                  [] i # at /\ i <= Len(old) -> old[i]
                                                  [] OTHER -> 0]
  BY DEF BlockWritten, size, old
<1>5. \A i \in 1..size : BlockWritten(at, url)[i] \in {0} \cup Releases
  BY <1>1, <1>2, <1>3, <1>4
<1>6. BlockWritten(at, url) \in [1..size -> {0} \cup Releases]
  BY <1>4, <1>5
<1> QED
  BY <1>2, <1>6

(* Blocks arrive, or fail to.                                            *)
LEMMA TransferKeeps ==
    ASSUME FwInv, NEW t \in Downloads, DownloadStep(t), Transfer(t)
    PROVE  FwInv'
<1>1. UNCHANGED <<published, table, fw, overlap, installing, downloaded, verified>>
  BY DEF DownloadStep, Transfer
<1>2. /\ dl[t].pc = "transfer" /\ dl \in [Downloads -> ThreadStates]
      /\ dl[t].at \in 0..(ImageSize - 1) /\ dl[t].url \in {0} \cup Releases
  BY ThreadTypes, TypeParts DEF Transfer, FwInv, ThreadStates
<1> DEFINE next == [dl[t] EXCEPT !.at = dl[t].at + 1]
<1>3. dl' = [dl EXCEPT ![t] = next]
  BY <1>2 DEF Transfer
<1>4. next \in ThreadStates /\ next.pc = "transfer"
  BY <1>2, ThreadTypes DEF ThreadStates
<1>5. image' = [there |-> image.there, blocks |-> BlockWritten(dl[t].at + 1, dl[t].url)]
  BY DEF Transfer
<1>6. image.there /\ FileOK(image)
  BY <1>2, ThreadTypes DEF Written
<1>7. FileOK(image')
  <2>1. /\ BlockWritten(dl[t].at + 1, dl[t].url) \in Seq({0} \cup Releases)
        /\ Len(BlockWritten(dl[t].at + 1, dl[t].url)) \in 0..ImageSize
    <3>1. dl[t].at + 1 \in 1..ImageSize
      BY <1>2, FirmwareAssumption
    <3> QED
      BY <1>2, <1>6, <3>1, BlockTypes
  <2> QED
    BY <1>5, <1>6, <2>1 DEF FileOK
<1>8. Written'
  BY <1>5, <1>6, <1>7 DEF Written, FileOK
<1> QED
  BY <1>1, <1>2, <1>3, <1>4, <1>7, <1>8, ThreadGoesOn DEF Transfer

(* What a thread reads is what the file holds while it runs alone.       *)
LEMMA ReadingKeeps ==
    ASSUME FwInv, NEW t \in Downloads, DownloadStep(t),
           TransferEnds(t) \/ ReadSignature(t) \/ Hash(t)
    PROVE  FwInv'
<1>1. UNCHANGED <<published, table, fw, overlap, installing, image>>
  BY DEF DownloadStep, TransferEnds, ReadSignature, Hash
<1>2. /\ dl[t].pc # "none" /\ dl \in [Downloads -> ThreadStates] /\ dl[t] \in ThreadStates
      /\ table \in Tables /\ FlagsOK
  BY TypeParts DEF TransferEnds, ReadSignature, Hash, FwInv
<1>3. FileOK(image')
  BY <1>1, ThreadTypes
<1>4. CASE TransferEnds(t)
  <2> UNCHANGED <<downloaded, verified>>
    BY <1>4 DEF TransferEnds
  <2>1. dl' = [dl EXCEPT ![t] = [dl[t] EXCEPT !.pc = "ended"]]
    BY <1>2, <1>4 DEF TransferEnds, Goto
  <2>2. /\ [dl[t] EXCEPT !.pc = "ended"] \in ThreadStates
        /\ [dl[t] EXCEPT !.pc = "ended"].pc = "ended"
    BY ThreadTypes DEF Threads, ThreadStates
  <2>3. Written'
    BY <1>1, <1>2, <2>1, <2>2, ThreadTypes DEF Written
  <2>4. Works \/ Fails
    BY <1>4 DEF TransferEnds
  <2> QED
    BY <1>1, <1>2, <1>3, <2>1, <2>2, <2>3, <2>4, ThreadGoesOn
<1>5. CASE ReadSignature(t)
  <2> UNCHANGED <<downloaded, verified>>
    BY <1>5 DEF ReadSignature
  <2>1. CASE Fails /\ dl' = [dl EXCEPT ![t] = NoThread]
    <3>1. downloaded' \in BOOLEAN /\ verified' \in {0} \cup Releases
      BY <1>1, <1>2 DEF FlagsOK
    <3>2. downloaded' /\ ~overlap => image.there /\ image.blocks = Whole(verified')
      BY <1>1 DEF FwInv, VerifiedDownload
    <3> QED
      BY <1>1, <1>2, <2>1, <3>1, <3>2, ThreadEnds
  <2>2. CASE HasRows /\ Works /\ dl' = [dl EXCEPT ![t].pc = "hash", ![t].sig = table["sig"]]
    <3> DEFINE next == [dl[t] EXCEPT !.pc = "hash", !.sig = table["sig"]]
    <3>1. table["sig"] \in {0} \cup Releases
      <4>1. "sig" = Keys[6] /\ "sig" \in KeySet
        BY KeysAreKeys DEF Keys
      <4> QED
        BY <1>2, <2>2, <4>1 DEF HasRows, Tables
    <3>2. dl' = [dl EXCEPT ![t] = next]
      BY <1>2, <2>2
    <3>3. next \in ThreadStates /\ next.pc = "hash"
      BY <1>2, <3>1 DEF ThreadStates, Threads
    <3>4. Written'
      BY <1>1, <1>2, <3>2, <3>3, ThreadTypes DEF Written
    <3> QED
      BY <1>1, <1>2, <1>3, <2>2, <3>2, <3>3, <3>4, ThreadGoesOn
  <2> QED
    BY <1>5, <2>1, <2>2 DEF ReadSignature, RowsFound
<1>6. CASE Hash(t) /\ Works /\ UNCHANGED <<downloaded, verified>>
              /\ dl' = [dl EXCEPT ![t].pc = "set", ![t].same = Matches(dl[t].sig)]
  <2> DEFINE found == Matches(dl[t].sig)
             next == [dl[t] EXCEPT !.pc = "set", !.same = found]
  <2>1. found \in BOOLEAN
    BY DEF Matches
  <2>2. dl' = [dl EXCEPT ![t] = next]
    BY <1>2, <1>6
  <2> HIDE DEF found
  <2>3. /\ next \in ThreadStates /\ next.pc = "set" /\ next.same = found
        /\ next.sig = dl[t].sig
    BY <1>2, <2>1 DEF ThreadStates, Threads
  <2>4. Written'
    BY <1>1, <1>2, <2>2, <2>3, ThreadTypes DEF Written
  <2>5. found => image.blocks = Whole(dl[t].sig)
    BY DEF found, Matches
  <2>6. found => image.there
    BY <2>5, ThreadTypes, WholeIsThere
  <2>7. next.same => image'.there /\ image'.blocks = Whole(next.sig)
    BY <1>1, <2>3, <2>5, <2>6
  <2> HIDE DEF next
  <2> QED
    BY <1>1, <1>2, <1>3, <1>6, <2>2, <2>3, <2>4, <2>7, ThreadGoesOn
<1>7. CASE Fails /\ Reset /\ dl' = [dl EXCEPT ![t] = NoThread]
  <2>1. downloaded' = FALSE /\ verified' = 0
    BY <1>7 DEF Reset
  <2> QED
    BY <1>1, <1>2, <1>7, <2>1, ThreadEnds
<1> QED
  BY <1>4, <1>5, <1>6, <1>7 DEF Hash

(* The flag is set after the match, which still stands.                  *)
LEMMA SetFlagKeeps ==
    ASSUME FwInv, NEW t \in Downloads, DownloadStep(t), SetFlag(t)
    PROVE  FwInv'
<1>1. /\ UNCHANGED <<published, table, fw, overlap, installing, image>>
      /\ dl[t].pc = "set" /\ dl' = [dl EXCEPT ![t] = NoThread] /\ Works
      /\ downloaded' = dl[t].same
      /\ verified' = IF dl[t].same THEN dl[t].sig ELSE 0
  BY DEF DownloadStep, SetFlag
<1>2. dl[t].same \in BOOLEAN /\ dl[t].sig \in {0} \cup Releases
  BY ThreadTypes DEF ThreadStates
<1>3. downloaded' \in BOOLEAN /\ verified' \in {0} \cup Releases
  BY <1>1, <1>2
<1>4. downloaded' /\ ~overlap => image.there /\ image.blocks = Whole(verified')
  BY <1>1 DEF FwInv, MatchStands
<1> QED
  BY <1>1, <1>3, <1>4, ThreadEnds

-----------------------------------------------------------------------------
(* With the process its threads and requests are gone.                   *)
LEMMA ProcessEndKeeps ==
    ASSUME FwInv, ProcessEnds, FileOK(image'), ~image'.there => image'.blocks = <<>>,
           table' \in Tables, UNCHANGED <<published, fwfailures>>
    PROVE  FwInv'
<1>1. /\ fw' = NoRequest /\ dl' = [t \in Downloads |-> NoThread]
      /\ downloaded' = FALSE /\ verified' = 0 /\ overlap' = FALSE /\ installing' = FALSE
  BY DEF ProcessEnds
<1>2. fw' \in Requests /\ fw'.step = 0 /\ fw'.op = "none"
  BY <1>1 DEF NoRequest, Requests
<1>3. dl' \in [Downloads -> ThreadStates] /\ \A t \in Downloads : dl'[t].pc = "none"
  BY <1>1, NoThreadTypes
<1>4. FlagsOK'
  BY <1>1 DEF FlagsOK
<1>5. FirmwareTypeOK'
  BY <1>2, <1>3, <1>4 DEF FwInv, FirmwareTypeOK, Tables, Requests, ThreadStates, FileOK, FlagsOK
<1> QED
  BY <1>1, <1>2, <1>3, <1>5
     DEF FwInv, Single, FlagIsReset, MatchStands, Written, VerifiedDownload, Requested,
         StoredSoFar, CheckIsStored

(* Neither an upgrade, a restart nor a new release harms the store.      *)
LEMMA OthersKeep == ASSUME FwInv, Sysupgrade \/ FirmwareRestart \/ Publish PROVE FwInv'
<1>1. FileOK(image) /\ Written /\ table \in Tables /\ FirmwareTypeOK
  BY TypeParts DEF FwInv
<1>2. CASE Sysupgrade
  <2>1. table' \in Tables
    BY <1>1, <1>2 DEF Sysupgrade, CreateDb, NoRows, Tables
  <2> QED
    BY <1>2, <2>1, NoImageTypes, ProcessEndKeeps DEF Sysupgrade
<1>3. CASE FirmwareRestart
  <2>1. ProcessEnds /\ image' = image /\ table' \in Tables /\ UNCHANGED <<published, fwfailures>>
    BY <1>1, <1>3 DEF FirmwareRestart, CreateDb, NoRows, Tables
  <2> QED
    BY <1>1, <2>1, ProcessEndKeeps DEF Written
<1>4. CASE Publish
  <2>1. /\ published' \in Releases
        /\ UNCHANGED <<table, fw, downloaded, image, dl, verified, overlap, installing,
                       fwfailures>>
    BY <1>4 DEF Publish
  <2>2. FirmwareTypeOK'
    BY <1>1, <2>1 DEF FirmwareTypeOK
  <2> QED
    BY <2>1, <2>2, FileStands, StoreStands, RequestStands DEF FwInv
<1> QED
  BY <1>2, <1>3, <1>4

(* So every step of the updater preserves the invariant.                 *)
LEMMA StepKeeps == ASSUME FwInv, [FirmwareNext]_fwvars PROVE FwInv'
<1>1. CASE FirmwareComes
  BY <1>1, CheckKeeps, InfoKeeps, DownloadKeeps, InstallKeeps DEF FirmwareComes
<1>2. CASE FirmwareStep
  BY <1>2, StoreKeeps, ReadUrlKeeps, StartThreadKeeps DEF FirmwareStep
<1>3. CASE Sysupgrade \/ Publish \/ FirmwareRestart
  BY <1>3, OthersKeep
<1>4. CASE \E t \in Downloads : DownloadStep(t)
  <2>1. PICK t \in Downloads : DownloadStep(t)
    BY <1>4
  <2> QED
    BY <2>1, TruncateKeeps, TransferKeeps, ReadingKeeps, SetFlagKeeps DEF DownloadStep
<1>5. CASE UNCHANGED fwvars
  <2>1. UNCHANGED <<published, table, fw, downloaded, image, dl, verified, overlap,
                    installing, fwfailures>>
    BY <1>5 DEF fwvars
  <2>2. FirmwareTypeOK'
    BY <2>1 DEF FwInv, FirmwareTypeOK
  <2> QED
    BY <2>1, <2>2, FileStands, StoreStands, RequestStands DEF FwInv
<1> QED
  BY <1>1, <1>2, <1>3, <1>4, <1>5 DEF FirmwareNext

(* The invariant of the updater.                                         *)
LEMMA FwInvariance == FirmwareSpec => []FwInv
<1>1. FirmwareInit => FwInv
  BY InitHolds
<1>2. FwInv /\ [FirmwareNext]_fwvars => FwInv'
  BY StepKeeps
<1> QED
  BY <1>1, <1>2, PTL DEF FirmwareSpec

(* The updater keeps its types, for any number of releases, threads,       *)
(* blocks and failures.                                                    *)
THEOREM FirmwareTypeCorrect == FirmwareSpec => []FirmwareTypeOK
<1>1. FwInv => FirmwareTypeOK
  BY DEF FwInv
<1> QED
  BY <1>1, FwInvariance, PTL

(* A check answered without an error has stored its findings in every row  *)
(* there is, with any number of failures, downloads and restarts.  Nothing *)
(* is said where the rows are missing, as they are until something calls   *)
(* firmware_dao_init, which nothing does: the answer is the same there.    *)
THEOREM CheckStoresAll == FirmwareSpec => []CheckIsStored
<1>1. FwInv => CheckIsStored
  BY DEF FwInv
<1> QED
  BY <1>1, FwInvariance, PTL

(* If no thread of an earlier download was running when the last one was   *)
(* asked for, the flag stands for a whole image of the verified release,   *)
(* for images of any size and any number of threads.                       *)
THEOREM FlagMeansVerified == FirmwareSpec => []VerifiedDownload
<1>1. FwInv => VerifiedDownload
  BY DEF FwInv
<1> QED
  BY <1>1, FwInvariance, PTL
-----------------------------------------------------------------------------
USE BluecherryAssumption

Ready == /\ job.pc \in {"key", "put", "id", "devkey"} => job.dev \in Registered /\ job.dev # 0
         /\ job.pc \in {"put", "id", "devkey"} => halfway /\ sshkey # 0
Handed == job.pc \in {"id", "devkey"} => platform[job.dev] = Sent
Named == job.pc = "devkey" => config.devid = job.dev
LinesRegistered == config.devid \in {0} \cup Registered
BcInv == /\ BluecherryTypeOK /\ Ready /\ Handed /\ Named /\ LinesRegistered
         /\ ConfiguredKeyIsKnown

Pcs == {"idle", "get", "key", "put", "id", "devkey"}
Results == {"none", "success", "maxreached", "wrong", "unknown",
            "uninitialised", "connected", "offline"}
Jobs == [pc : Pcs, dev : 0..MaxDevices, result : Results]
Configs == [devid : 0..MaxDevices, devkey : 0..MaxDevices]

(* The platform numbers its devices from 1 on.                             *)
Numbered(p) == \E n \in 0..MaxDevices : p \in [1..n -> 0..MaxKeys]

(* The conjuncts of the type invariant of the registration.              *)
LEMMA BcTypeParts ==
    BluecherryTypeOK <=> /\ Numbered(platform) /\ config \in Configs
                         /\ sshkey \in 0..MaxKeys /\ fits \in BOOLEAN
                         /\ keysmade \in 0..MaxKeys
                         /\ job \in Jobs /\ halfway \in BOOLEAN
                         /\ bcfailures \in 0..MaxBcFailures
BY DEF BluecherryTypeOK, Numbered, Configs, Jobs, Pcs, Results

(* The number of failures stays within its bound.                        *)
LEMMA BcFailureTypes ==
    ASSUME bcfailures \in 0..MaxBcFailures, Goes \/ Breaks
    PROVE  bcfailures' \in 0..MaxBcFailures
BY DEF Goes, Breaks

(* The two ways a step of a request ends.                                  *)
LEMMA EndsTypes ==
    ASSUME NEW result \in Results, Ends(result)
    PROVE  job' \in Jobs /\ job'.pc = "idle"
<1>1. job' = [pc |-> "idle", dev |-> 0, result |-> result]
  BY DEF Ends
<1>2. 0 \in 0..MaxDevices
  OBVIOUS
<1> QED
  BY <1>1, <1>2 DEF Jobs, Pcs

(* A request that goes on keeps its device.                              *)
LEMMA StepTypes ==
    ASSUME job \in Jobs, NEW pc \in Pcs, Step(pc)
    PROVE  job' \in Jobs /\ job'.pc = pc /\ job'.dev = job.dev
BY DEF Step, Jobs

(* The registration starts in the invariant.                             *)
LEMMA BcInitHolds == ASSUME BluecherryInit PROVE BcInv
<1>1. platform \in [1..0 -> 0..MaxKeys]
  BY DEF BluecherryInit
<1>2. Numbered(platform)
  BY <1>1 DEF Numbered
<1>3. config \in Configs /\ job \in Jobs
  BY DEF BluecherryInit, Configs, Jobs, Pcs, Results, NoJob
<1>4. halfway \in BOOLEAN
  BY DEF BluecherryInit
<1>5. sshkey \in 0..MaxKeys /\ keysmade \in 0..MaxKeys /\ bcfailures \in 0..MaxBcFailures
  <2>1. sshkey = 0 /\ keysmade = 0 /\ bcfailures = 0
    BY DEF BluecherryInit
  <2> QED
    BY <2>1
<1>6. fits \in BOOLEAN
  <2>1. fits = FALSE
    BY DEF BluecherryInit
  <2> QED
    BY <2>1
<1>7. BluecherryTypeOK
  BY <1>2, <1>3, <1>4, <1>5, <1>6, BcTypeParts
<1>8. job.pc = "idle" /\ config.devid = 0
  BY DEF BluecherryInit, NoJob
<1> QED
  BY <1>7, <1>8 DEF BcInv, Ready, Handed, Sent, Named, LinesRegistered, ConfiguredKeyIsKnown

(* A device that is added takes the next number and changes no other.      *)
LEMMA Registers ==
    ASSUME Numbered(platform), NewDevice \in Devices, Register
    PROVE  /\ Numbered(platform')
           /\ DOMAIN platform' = Registered \cup {NewDevice}
           /\ \A d \in Registered : platform'[d] = platform[d]
<1>1. PICK n \in 0..MaxDevices : platform \in [1..n -> 0..MaxKeys]
  BY DEF Numbered
<1>2. Registered = 1..n
  BY <1>1 DEF Registered
<1>3. Cardinality(Registered) = n
  BY <1>2, FS_Interval
<1>4. NewDevice = n + 1
  BY <1>3 DEF NewDevice
<1>5. n + 1 \in 0..MaxDevices
  BY <1>4 DEF Devices
<1>6. Registered \cup {NewDevice} = 1..(n + 1)
  BY <1>2, <1>4
<1>7. platform' = [d \in 1..(n + 1) |-> IF d = n + 1 THEN 0 ELSE platform[d]]
  BY <1>4, <1>6 DEF Register
<1>8. platform' \in [1..(n + 1) -> 0..MaxKeys]
  BY <1>1, <1>7
<1>9. \A d \in 1..n : platform'[d] = platform[d]
  BY <1>7
<1> QED
  BY <1>2, <1>5, <1>6, <1>7, <1>8, <1>9 DEF Numbered
-----------------------------------------------------------------------------
(* A registration that begins has no device yet.                         *)
LEMMA InitRequestKeeps == ASSUME BcInv, InitRequest PROVE BcInv'
<1>1. BluecherryTypeOK
  BY DEF BcInv
<1>2. UNCHANGED <<platform, config, sshkey, fits, keysmade, halfway>>
  BY DEF InitRequest
<1>3. job' \in Jobs /\ job'.pc \in {"idle", "get"}
  BY DEF InitRequest, Jobs, Pcs, Results
<1>4. bcfailures' \in 0..MaxBcFailures
  BY <1>1, BcFailureTypes, BcTypeParts DEF InitRequest
<1>5. BluecherryTypeOK'
  BY <1>1, <1>2, <1>3, <1>4, BcTypeParts DEF BluecherryTypeOK, Numbered, Configs, Jobs, Pcs, Results
<1> QED
  BY <1>2, <1>3, <1>5 DEF BcInv, Ready, Handed, Sent, Named, LinesRegistered, Registered,
                          ConfiguredKeyIsKnown

(* Login and status leave device and key alone.                          *)
LEMMA OtherRequestKeeps ==
    ASSUME BcInv, LoginRequest \/ StatusRequest
    PROVE  BcInv'
<1>1. BluecherryTypeOK
  BY DEF BcInv
<1>2. UNCHANGED <<platform, config, sshkey, fits, keysmade, halfway>>
  BY DEF LoginRequest, StatusRequest
<1>3. job' \in Jobs /\ job'.pc = "idle"
  <2>1. \E result \in Results : Ends(result)
    BY DEF LoginRequest, StatusRequest, Results
  <2> QED
    BY <2>1, EndsTypes
<1>4. bcfailures' \in 0..MaxBcFailures
  BY <1>1, BcFailureTypes, BcTypeParts DEF LoginRequest, StatusRequest
<1>5. BluecherryTypeOK'
  BY <1>1, <1>2, <1>3, <1>4, BcTypeParts DEF BluecherryTypeOK, Numbered, Configs, Jobs, Pcs, Results
<1> QED
  BY <1>2, <1>3, <1>5 DEF BcInv, Ready, Handed, Sent, Named, LinesRegistered, Registered,
                          ConfiguredKeyIsKnown

(* The device of a request is registered when it is given out.           *)
LEMMA GetDeviceKeeps == ASSUME BcInv, GetDevice PROVE BcInv'
<1>1. BluecherryTypeOK /\ Numbered(platform) /\ job \in Jobs
  BY BcTypeParts DEF BcInv
<1>2. UNCHANGED <<config, sshkey, fits, keysmade, halfway>> /\ job.pc = "get"
  BY DEF GetDevice
<1>3. bcfailures' \in 0..MaxBcFailures
  BY <1>1, BcFailureTypes, BcTypeParts DEF GetDevice
<1>4. /\ Numbered(platform')
      /\ Registered \subseteq DOMAIN platform'
      /\ \A d \in Registered : platform'[d] = platform[d]
  <2>1. CASE NewDevice \in Devices /\ Register
    BY <1>1, <2>1, Registers
  <2>2. CASE UNCHANGED platform
    BY <1>1, <2>2 DEF Registered, Numbered
  <2> QED
    BY <2>1, <2>2 DEF GetDevice
<1>5. /\ job' \in Jobs
      /\ \/ job'.pc = "idle"
         \/ job'.pc = "key" /\ job'.dev \in DOMAIN platform' /\ job'.dev # 0
  <2>1. CASE NewDevice \in Devices /\ Register /\ job' = [job EXCEPT !.pc = "key", !.dev = NewDevice]
    <3>1. NewDevice \in DOMAIN platform'
      BY <1>1, <2>1, Registers
    <3>2. NewDevice \in 0..MaxDevices /\ NewDevice # 0
      BY <2>1 DEF Devices
    <3>3. job' \in Jobs /\ job'.pc = "key" /\ job'.dev = NewDevice
      BY <1>1, <2>1, <3>2 DEF Jobs, Pcs
    <3> QED
      BY <3>1, <3>2, <3>3
  <2>2. CASE \E result \in Results : Ends(result)
    BY <2>2, EndsTypes
  <2> QED
    BY <2>1, <2>2 DEF GetDevice, Results
<1>6. BluecherryTypeOK'
  BY <1>1, <1>2, <1>3, <1>4, <1>5 DEF BluecherryTypeOK, Numbered, Jobs, Pcs, Results
<1>7. Ready' /\ Handed' /\ Named'
  BY <1>5 DEF Ready, Handed, Sent, Named, Registered
<1>8. LinesRegistered'
  BY <1>2, <1>4 DEF BcInv, LinesRegistered, Registered
<1>9. ConfiguredKeyIsKnown'
  BY <1>2, <1>4 DEF BcInv, LinesRegistered, ConfiguredKeyIsKnown
<1> QED
  BY <1>6, <1>7, <1>8, <1>9 DEF BcInv

(* From the new key on the registration counts as halfway.               *)
LEMMA MakeKeyKeeps == ASSUME BcInv, MakeKey PROVE BcInv'
<1>1. BluecherryTypeOK /\ job \in Jobs /\ keysmade \in 0..MaxKeys
  BY BcTypeParts DEF BcInv
<1>2. UNCHANGED <<platform, config>> /\ job.pc = "key" /\ halfway' = TRUE
  BY DEF MakeKey
<1>3. bcfailures' \in 0..MaxBcFailures
  BY <1>1, BcFailureTypes, BcTypeParts DEF MakeKey
<1>4. sshkey' \in 0..MaxKeys /\ fits' \in BOOLEAN /\ keysmade' \in 0..MaxKeys
  <2>1. CASE NewKey
    <3>1. sshkey' = keysmade + 1 /\ keysmade' = keysmade + 1 /\ keysmade < MaxKeys
      BY <2>1 DEF NewKey
    <3>2. fits' \in BOOLEAN
      BY <2>1 DEF NewKey
    <3>3. keysmade + 1 \in 0..MaxKeys
      BY <1>1, <3>1
    <3> QED
      BY <3>1, <3>2, <3>3
  <2>2. CASE NoKey
    <3>1. sshkey' = 0 /\ keysmade' = keysmade /\ 0 \in 0..MaxKeys
      BY <2>2 DEF NoKey
    <3>2. fits' \in BOOLEAN
      BY <2>2 DEF NoKey
    <3> QED
      BY <1>1, <3>1, <3>2
  <2> QED
    BY <2>1, <2>2 DEF MakeKey
<1>5. /\ job' \in Jobs
      /\ job'.pc = "idle" \/ (job'.pc = "put" /\ job'.dev = job.dev /\ sshkey' # 0)
  <2>1. CASE Step("put") /\ sshkey' # 0
    BY <1>1, <2>1, StepTypes DEF Pcs
  <2>2. CASE Ends("unknown")
    <3>1. "unknown" \in Results
      BY DEF Results
    <3> QED
      BY <2>2, <3>1, EndsTypes
  <2>3. keysmade + 1 # 0
    BY <1>1
  <2> QED
    BY <2>1, <2>2, <2>3 DEF MakeKey, NewKey
<1>6. BluecherryTypeOK'
  BY <1>1, <1>2, <1>3, <1>4, <1>5 DEF BluecherryTypeOK, Jobs, Pcs, Results
<1>7. Ready' /\ Handed' /\ Named'
  BY <1>2, <1>5 DEF BcInv, Ready, Handed, Sent, Named, Registered
<1>8. LinesRegistered' /\ ConfiguredKeyIsKnown'
  BY <1>2 DEF BcInv, LinesRegistered, Registered, ConfiguredKeyIsKnown
<1> QED
  BY <1>6, <1>7, <1>8 DEF BcInv

(* Past this step the platform has the key of the device.                *)
LEMMA PutKeyKeeps == ASSUME BcInv, PutKey PROVE BcInv'
<1>1. BluecherryTypeOK /\ job \in Jobs /\ sshkey \in 0..MaxKeys /\ Numbered(platform)
  BY BcTypeParts DEF BcInv
<1>2. UNCHANGED <<config, sshkey, fits, keysmade, halfway>> /\ job.pc = "put"
  BY DEF PutKey
<1>3. bcfailures' \in 0..MaxBcFailures
  BY <1>1, BcFailureTypes, BcTypeParts DEF PutKey
<1>4. /\ Numbered(platform')
      /\ DOMAIN platform' = Registered
      /\ KeyArrives => platform'[job.dev] = Sent
  <2>1. PICK n \in 0..MaxDevices : platform \in [1..n -> 0..MaxKeys]
    BY <1>1 DEF Numbered
  <2>2. job.dev \in 1..n
    BY <1>2, <2>1 DEF BcInv, Ready, Registered
  <2>3. platform' \in [1..n -> 0..MaxKeys]
    <3>1. Sent \in 0..MaxKeys
      BY <1>1 DEF Sent
    <3>2. KeyArrives \/ platform' = platform
      BY DEF PutKey
    <3> QED
      BY <2>1, <2>2, <3>1, <3>2 DEF KeyArrives
  <2>4. KeyArrives => platform'[job.dev] = Sent
    BY <2>1, <2>2 DEF KeyArrives
  <2> QED
    BY <2>1, <2>3, <2>4 DEF Numbered, Registered
<1>5. /\ job' \in Jobs
      /\ job'.pc = "idle" \/ (job'.pc = "id" /\ job'.dev = job.dev /\ KeyArrives)
  <2>1. CASE Step("id") /\ KeyArrives
    BY <1>1, <2>1, StepTypes DEF Pcs
  <2>2. CASE Ends("unknown")
    <3>1. "unknown" \in Results
      BY DEF Results
    <3> QED
      BY <2>2, <3>1, EndsTypes
  <2> QED
    BY <2>1, <2>2 DEF PutKey
<1>6. BluecherryTypeOK'
  BY <1>1, <1>2, <1>3, <1>4, <1>5 DEF BluecherryTypeOK, Numbered, Jobs, Pcs, Results
<1>7. Ready' /\ Handed' /\ Named'
  BY <1>2, <1>4, <1>5 DEF BcInv, Ready, Handed, Sent, Named, Registered
<1>8. LinesRegistered'
  BY <1>2, <1>4 DEF BcInv, LinesRegistered, Registered
<1>9. ConfiguredKeyIsKnown'
  BY <1>2 DEF BcInv, Ready, ConfiguredKeyIsKnown
<1> QED
  BY <1>6, <1>7, <1>8, <1>9 DEF BcInv

(* The first line names the device of the request.                       *)
LEMMA WriteIdKeeps == ASSUME BcInv, WriteId PROVE BcInv'
<1>1. BluecherryTypeOK /\ job \in Jobs /\ config \in Configs
  BY BcTypeParts DEF BcInv
<1>2. UNCHANGED <<platform, sshkey, fits, keysmade, halfway>> /\ job.pc = "id"
  BY DEF WriteId
<1>3. bcfailures' \in 0..MaxBcFailures
  BY <1>1, BcFailureTypes, BcTypeParts DEF WriteId
<1>4. job.dev \in 0..MaxDevices
  BY <1>1 DEF Jobs
<1>5. config' = config \/ config' = [config EXCEPT !.devid = job.dev]
  BY DEF WriteId
<1>6. config' \in Configs /\ (config'.devid = config.devid \/ config'.devid = job.dev)
  BY <1>1, <1>4, <1>5 DEF Configs
<1>7. /\ job' \in Jobs
      /\ job'.pc = "idle" \/ (job'.pc = "devkey" /\ job'.dev = job.dev /\ config'.devid = job.dev)
  <2>1. CASE config' = [config EXCEPT !.devid = job.dev] /\ Step("devkey")
    <3>1. config'.devid = job.dev
      BY <1>1, <2>1 DEF Configs
    <3>2. job' \in Jobs /\ job'.pc = "devkey" /\ job'.dev = job.dev
      BY <1>1, <2>1 DEF Step, Jobs, Pcs
    <3> QED
      BY <3>1, <3>2
  <2>2. CASE Ends("success")
    <3>1. "success" \in Results
      BY DEF Results
    <3> QED
      BY <2>2, <3>1, EndsTypes
  <2> QED
    BY <2>1, <2>2 DEF WriteId
<1>8. BluecherryTypeOK'
  BY <1>1, <1>2, <1>3, <1>6, <1>7 DEF BluecherryTypeOK, Jobs, Pcs, Results, Configs
<1>9. Ready' /\ Handed' /\ Named'
  BY <1>2, <1>7 DEF BcInv, Ready, Handed, Sent, Named, Registered
<1>10. LinesRegistered' /\ ConfiguredKeyIsKnown'
  BY <1>2, <1>6 DEF BcInv, Ready, LinesRegistered, Registered, ConfiguredKeyIsKnown
<1> QED
  BY <1>8, <1>9, <1>10 DEF BcInv

(* The second line makes the device configured.                          *)
LEMMA WriteDevkeyKeeps == ASSUME BcInv, WriteDevkey PROVE BcInv'
<1>1. BluecherryTypeOK /\ job \in Jobs /\ config \in Configs /\ halfway \in BOOLEAN
  BY BcTypeParts DEF BcInv
<1>2. UNCHANGED <<platform, sshkey, fits, keysmade>> /\ job.pc = "devkey"
  BY DEF WriteDevkey
<1>3. bcfailures' \in 0..MaxBcFailures
  BY <1>1, BcFailureTypes, BcTypeParts DEF WriteDevkey
<1>4. job.dev \in 0..MaxDevices /\ job.dev # 0 /\ job.dev \in Registered
        /\ sshkey # 0 /\ platform[job.dev] = Sent /\ config.devid = job.dev
  BY <1>1, <1>2 DEF BcInv, Ready, Handed, Sent, Named, Jobs
<1>5. /\ config' \in Configs /\ config'.devid = job.dev
      /\ halfway' = halfway \/ (halfway' = FALSE /\ config'.devkey = job.dev)
  <2>1. CASE UNCHANGED <<config, halfway>>
    <3>1. config' = config
      BY <2>1
    <3>2. halfway' = halfway
      BY <2>1
    <3>3. config' \in Configs /\ config'.devid = job.dev
      BY <1>1, <1>4, <3>1
    <3> QED
      BY <3>2, <3>3
  <2>2. CASE config' = [config EXCEPT !.devkey = job.dev]
    <3>1. config' \in Configs /\ config'.devid = config.devid /\ config'.devkey = job.dev
      BY <1>1, <1>4, <2>2 DEF Configs
    <3> QED
      BY <1>4, <3>1 DEF WriteDevkey
  <2> QED
    BY <2>1, <2>2 DEF WriteDevkey
<1>6. job' \in Jobs /\ job'.pc = "idle"
  BY DEF WriteDevkey, Ends, Jobs, Pcs, Results
<1>7. halfway' \in BOOLEAN
  BY <1>1, <1>5
<1>8. BluecherryTypeOK'
  BY <1>1, <1>2, <1>3, <1>5, <1>6, <1>7 DEF BluecherryTypeOK, Jobs, Pcs, Results, Configs
<1>9. Ready' /\ Handed' /\ Named'
  BY <1>6 DEF Ready, Handed, Sent, Named
<1>10. LinesRegistered'
  BY <1>2, <1>4, <1>5 DEF LinesRegistered, Registered
<1>11. ConfiguredKeyIsKnown'
  <2>1. halfway
    BY <1>2 DEF BcInv, Ready
  <2> QED
    BY <1>2, <1>4, <1>5, <2>1 DEF Sent, ConfiguredKeyIsKnown
<1> QED
  BY <1>8, <1>9, <1>10, <1>11 DEF BcInv

(* A restart takes the request away, and halfway remains.                *)
LEMMA RestartKeeps == ASSUME BcInv, BluecherryRestart PROVE BcInv'
<1>1. UNCHANGED <<platform, config, sshkey, fits, keysmade, halfway, bcfailures>>
  BY DEF BluecherryRestart
<1>2. job' \in Jobs /\ job'.pc = "idle"
  BY DEF BluecherryRestart, NoJob, Jobs, Pcs, Results
<1>3. BluecherryTypeOK'
  BY <1>1, <1>2 DEF BcInv, BluecherryTypeOK, Jobs, Pcs, Results
<1> QED
  BY <1>1, <1>2, <1>3 DEF BcInv, Ready, Handed, Sent, Named, LinesRegistered, Registered,
                          ConfiguredKeyIsKnown
-----------------------------------------------------------------------------
(* So every step of the registration preserves the invariant.            *)
LEMMA BcStepKeeps == ASSUME BcInv, [BluecherryNext]_bcvars PROVE BcInv'
<1>1. CASE BluecherryNext
  BY <1>1, OtherRequestKeeps, InitRequestKeeps, GetDeviceKeeps, MakeKeyKeeps, PutKeyKeeps, WriteIdKeeps,
     WriteDevkeyKeeps, RestartKeeps DEF BluecherryNext, BluecherryStep
<1>2. CASE UNCHANGED bcvars
  BY <1>2 DEF bcvars, BcInv, BluecherryTypeOK, Ready, Handed, Sent, Named, LinesRegistered,
              Registered, ConfiguredKeyIsKnown
<1> QED
  BY <1>1, <1>2

(* The invariant of the registration.                                    *)
LEMMA BcInvariance == BluecherrySpec => []BcInv
<1>1. BluecherryInit => BcInv
  BY BcInitHolds
<1>2. BcInv /\ [BluecherryNext]_bcvars => BcInv'
  BY BcStepKeeps
<1> QED
  BY <1>1, <1>2, PTL DEF BluecherrySpec

(* The registration keeps its types, however many devices, keys and        *)
(* failures there are.                                                     *)
THEOREM BluecherryTypeCorrect == BluecherrySpec => []BluecherryTypeOK
<1>1. BcInv => BluecherryTypeOK
  BY DEF BcInv
<1> QED
  BY <1>1, BcInvariance, PTL

(* Unless a registration stopped after it removed the old key, the device  *)
(* that is configured has a key, and the platform holds it if the request  *)
(* that sent it had room for all of it, for any number of devices, keys,   *)
(* failures and restarts.                                                  *)
THEOREM ConfiguredIsLetIn == BluecherrySpec => []ConfiguredKeyIsKnown
<1>1. BcInv => ConfiguredKeyIsKnown
  BY DEF BcInv
<1> QED
  BY <1>1, BcInvariance, PTL
-----------------------------------------------------------------------------
USE ScanAssumption

Kernels == [busy : BOOLEAN, last : Ids, found : [Ids -> Found \cup {0}]]
Scans == [pc : {"none", "trigger", "join", "listen", "dump", "add"},
          event : {"none", "results", "aborted"}, member : BOOLEAN, left : Nat, of : Ids]

SoleDump == ~mixed => \A t, u \in Dumping : t = u
Dumped ==
  ~mixed => \A t \in Dumping :
    /\ editing
    /\ scan[t].of <= kernel.last
    /\ scan[t].left <= kernel.found[scan[t].of]
    /\ list = [n \in 1..(kernel.found[scan[t].of] - scan[t].left) |-> scan[t].of]
ListStands ==
  ~mixed /\ Dumping = {} /\ ~editing =>
    \E i \in 0..kernel.last : list = [n \in 1..kernel.found[i] |-> i]
ScanInv == ScanTypeOK /\ SoleDump /\ Dumped /\ ListStands /\ kernel.found[0] = 0

(* The conjuncts of the type invariant of the scans.                     *)
LEMMA ScanTypeParts ==
    ScanTypeOK <=> /\ kernel \in Kernels /\ scan \in [Scanners -> Scans] /\ list \in Seq(Ids)
                   /\ editing \in BOOLEAN /\ mixed \in BOOLEAN
                   /\ nlfailures \in 0..MaxNlFailures
BY DEF ScanTypeOK, Kernels, Scans

(* The number of failures stays within its bound.                        *)
LEMMA NlFailureTypes ==
    ASSUME nlfailures \in 0..MaxNlFailures, NlWorks \/ NlFails
    PROVE  nlfailures' \in 0..MaxNlFailures
BY DEF NlWorks, NlFails

(* No scan is a state of a scan.                                         *)
LEMMA NoScanTypes == NoScan \in Scans /\ NoScan.pc = "none"
BY DEF NoScan, Scans, Ids

(* Scans are numbered, and what each found is a number.                  *)
LEMMA FoundIsNat ==
    ASSUME kernel \in Kernels
    PROVE  /\ kernel.last \in Nat /\ kernel.last \in Ids
           /\ \A i \in Ids : kernel.found[i] \in Nat
<1>1. kernel.last \in Ids /\ kernel.found \in [Ids -> Found \cup {0}]
  BY DEF Kernels
<1>2. Found \cup {0} \subseteq Nat
  BY ScanAssumption
<1>3. Ids \subseteq Nat
  BY DEF Ids
<1> QED
  BY <1>1, <1>2, <1>3

(* The list may be empty.                                                *)
LEMMA EmptyIsList == <<>> \in Seq(Ids)
OBVIOUS

(* Without scans there is an empty list, that of scan 0.                   *)
LEMMA EmptyList ==
    ASSUME kernel \in Kernels, kernel.found[0] = 0
    PROVE  \E i \in 0..kernel.last : <<>> = [n \in 1..kernel.found[i] |-> i]
<1>1. kernel.last \in Nat
  BY DEF Kernels, Ids
<1>2. <<>> = [n \in 1..0 |-> 0]
  OBVIOUS
<1> QED
  BY <1>1, <1>2

(* The scans start in the invariant.                                     *)
LEMMA ScanInitHolds == ASSUME ScanInit PROVE ScanInv
<1>1. kernel \in Kernels /\ kernel.found[0] = 0
  BY DEF ScanInit, Kernels, Ids
<1>2. scan \in [Scanners -> Scans] /\ Dumping = {}
  BY NoScanTypes DEF ScanInit, Dumping
<1>3. ScanTypeOK
  <2>1. list \in Seq(Ids) /\ editing \in BOOLEAN /\ mixed \in BOOLEAN
    BY EmptyIsList DEF ScanInit
  <2>2. nlfailures \in 0..MaxNlFailures
    BY DEF ScanInit
  <2> QED
    BY <1>1, <1>2, <2>1, <2>2, ScanTypeParts
<1> QED
  BY <1>1, <1>2, <1>3, EmptyList DEF ScanInit, ScanInv, SoleDump, Dumped, ListStands

(* A step that leaves the list and the dumps of the threads as they are.   *)
LEMMA OutsideOfDumps ==
    ASSUME ScanInv, UNCHANGED <<list, editing, mixed>>, ScanTypeOK',
           Dumping' = Dumping,
           \A t \in Dumping : scan'[t].of = scan[t].of /\ scan'[t].left = scan[t].left,
           kernel'.last >= kernel.last,
           \A i \in 0..kernel.last : kernel'.found[i] = kernel.found[i]
    PROVE  ScanInv'
<1> USE DEF ScanInv
<1>1. kernel \in Kernels /\ kernel' \in Kernels
  BY ScanTypeParts DEF ScanTypeOK, Kernels
<1>2. kernel.last \in Nat /\ kernel'.last \in Nat /\ 0 \in 0..kernel.last
  BY <1>1 DEF Kernels, Ids
<1>3. SoleDump'
  BY DEF SoleDump
<1>4. Dumped'
  <2> SUFFICES ASSUME ~mixed, NEW t \in Dumping
               PROVE  /\ editing
                      /\ scan'[t].of <= kernel'.last
                      /\ scan'[t].left <= kernel'.found[scan'[t].of]
                      /\ list = [n \in 1..(kernel'.found[scan'[t].of] - scan'[t].left)
                                   |-> scan'[t].of]
    BY DEF Dumped
  <2>1. scan[t].of \in 0..kernel.last
    BY <1>2, ScanTypeParts DEF Dumped, Dumping, Scans, Ids
  <2>2. kernel'.found[scan[t].of] = kernel.found[scan[t].of]
    BY <2>1
  <2>3. scan[t].of <= kernel'.last
    BY <1>2, <2>1
  <2> QED
    BY <2>2, <2>3 DEF Dumped
<1>5. ListStands'
  <2> SUFFICES ASSUME ~mixed, Dumping = {}, ~editing
               PROVE  \E i \in 0..kernel'.last : list = [n \in 1..kernel'.found[i] |-> i]
    BY DEF ListStands
  <2>1. PICK i \in 0..kernel.last : list = [n \in 1..kernel.found[i] |-> i]
    BY DEF ListStands
  <2>2. i \in 0..kernel'.last /\ kernel'.found[i] = kernel.found[i]
    BY <1>2, <2>1
  <2> QED
    BY <2>1, <2>2
<1> QED
  BY <1>2, <1>3, <1>4, <1>5

(* The kernel, a request, and a thread before its dump.                    *)
LEMMA KernelKeeps == ASSUME ScanInv, KernelScan PROVE ScanInv'
<1> USE DEF ScanInv
<1>1. kernel \in Kernels /\ scan \in [Scanners -> Scans]
  BY ScanTypeParts
<1>2. CASE OtherScan
  <2>1. kernel' \in Kernels /\ kernel'.last = kernel.last /\ kernel'.found = kernel.found
    BY <1>1, <1>2 DEF OtherScan, Kernels
  <2>2. ScanTypeOK'
    BY <1>2, <2>1, ScanTypeParts DEF OtherScan, ScanTypeOK, Kernels
  <2>3. kernel.last \in Nat
    BY <1>1 DEF Kernels, Ids
  <2> QED
    BY <1>2, <2>1, <2>2, <2>3, OutsideOfDumps DEF OtherScan, Dumping
<1>3. ASSUME NEW event \in {"results", "aborted"}, NEW n \in Found \cup {0}, KernelEnds(event, n)
      PROVE  ScanInv'
  <2>1. kernel.last \in Nat /\ kernel.last \in Ids
    BY <1>1 DEF Kernels, Ids
  <2>2. /\ kernel' \in Kernels
        /\ kernel'.last >= kernel.last
        /\ \A i \in 0..kernel.last : kernel'.found[i] = kernel.found[i]
    <3>1. CASE event = "aborted"
      <4>1. kernel' = [kernel EXCEPT !.busy = FALSE]
        BY <1>3, <3>1 DEF KernelEnds
      <4>2. kernel' \in Kernels
        BY <1>1, <4>1 DEF Kernels
      <4>3. kernel'.last = kernel.last /\ kernel'.found = kernel.found
        BY <1>1, <4>1 DEF Kernels
      <4> QED
        BY <2>1, <4>2, <4>3
    <3>2. CASE event = "results"
      <4>1. kernel' = [busy |-> FALSE, last |-> kernel.last + 1,
                       found |-> [kernel.found EXCEPT ![kernel.last + 1] = n]]
        BY <1>3, <3>2 DEF KernelEnds
      <4>2. kernel.last + 1 \in Ids
        BY <1>3, <2>1, <3>2 DEF KernelEnds, Ids
      <4> QED
        BY <1>1, <2>1, <4>1, <4>2 DEF Kernels
    <3> QED
      BY <3>1, <3>2
  <2>3. scan' = [t \in Scanners |-> IF scan[t].member /\ scan[t].event = "none"
                                   THEN [scan[t] EXCEPT !.event = event] ELSE scan[t]]
    BY <1>3 DEF KernelEnds
  <2>4. \A t \in Scanners : /\ scan'[t] \in Scans
                            /\ scan'[t].pc = scan[t].pc
                            /\ scan'[t].of = scan[t].of /\ scan'[t].left = scan[t].left
    BY <1>1, <2>3 DEF Scans
  <2>5. scan' \in [Scanners -> Scans]
    BY <2>3, <2>4
  <2>6. Dumping' = Dumping
    BY <2>4 DEF Dumping
  <2>7. UNCHANGED <<list, editing, mixed, nlfailures>>
    BY <1>3 DEF KernelEnds
  <2>8. ScanTypeOK'
    BY <2>2, <2>5, <2>7, ScanTypeParts DEF ScanTypeOK, Kernels, Scans
  <2> QED
    BY <2>2, <2>4, <2>6, <2>7, <2>8, OutsideOfDumps DEF Dumping
<1> QED
  BY <1>2, <1>3 DEF KernelScan
(* A thread that is not in a dump, before and after its step.              *)
LEMMA ThreadOutside ==
    ASSUME ScanInv, NEW t \in Scanners, scan[t].pc # "add",
           NEW s \in Scans, s.pc # "add", scan' = [scan EXCEPT ![t] = s],
           kernel' \in Kernels, kernel'.last = kernel.last, kernel'.found = kernel.found,
           UNCHANGED <<list, editing, mixed>>, nlfailures' \in 0..MaxNlFailures
    PROVE  ScanInv'
<1>1. kernel \in Kernels /\ scan \in [Scanners -> Scans]
  BY ScanTypeParts DEF ScanInv
<1>2. scan' \in [Scanners -> Scans]
  BY <1>1
<1>3. ScanTypeOK'
  BY <1>2, ScanTypeParts DEF ScanInv, ScanTypeOK, Kernels, Scans
<1>4. Dumping' = Dumping /\ t \notin Dumping
  BY <1>1 DEF Dumping
<1>5. kernel.last \in Nat
  BY <1>1 DEF Kernels, Ids
<1> QED
  BY <1>1, <1>3, <1>4, <1>5, OutsideOfDumps DEF Dumping

(* Before its dump a thread does not touch the list.                     *)
LEMMA BeforeDumpKeeps ==
    ASSUME ScanInv, NEW t \in Scanners, Trigger(t) \/ Join(t) \/ Listen(t)
    PROVE  ScanInv'
<1>1. kernel \in Kernels /\ scan \in [Scanners -> Scans] /\ nlfailures \in 0..MaxNlFailures
  BY ScanTypeParts DEF ScanInv
<1>2. ASSUME NEW pc \in {"trigger", "join", "listen", "dump"}
      PROVE  [scan[t] EXCEPT !.pc = pc] \in Scans /\ [scan[t] EXCEPT !.pc = pc].pc # "add"
  BY <1>1, <1>2 DEF Scans
<1>3. NoScan \in Scans /\ NoScan.pc # "add"
  BY NoScanTypes
<1>4. nlfailures' \in 0..MaxNlFailures
  BY <1>1, NlFailureTypes DEF Trigger, Join, Listen, NlWorks
<1>5. /\ kernel' \in Kernels
      /\ kernel'.last = kernel.last /\ kernel'.found = kernel.found
      /\ UNCHANGED <<list, editing, mixed>>
  BY <1>1 DEF Trigger, Join, Listen, Kernels
<1>6. scan[t].pc # "add"
  BY DEF Trigger, Join, Listen
<1>7. \E s \in Scans : s.pc # "add" /\ scan' = [scan EXCEPT ![t] = s]
  <2>1. CASE \E pc \in {"trigger", "join", "listen", "dump"} : At(t, pc)
    <3>1. PICK pc \in {"trigger", "join", "listen", "dump"} : At(t, pc)
      BY <2>1
    <3>2. scan' = [scan EXCEPT ![t] = [scan[t] EXCEPT !.pc = pc]]
      BY <1>1, <3>1 DEF At
    <3> QED
      BY <1>2, <3>2
  <2>2. CASE Exit(t)
    BY <1>3, <2>2 DEF Exit
  <2>3. CASE scan' = [scan EXCEPT ![t].pc = "listen", ![t].member = TRUE]
    <3> DEFINE s == [scan[t] EXCEPT !.pc = "listen", !.member = TRUE]
    <3>1. scan' = [scan EXCEPT ![t] = s]
      BY <1>1, <2>3 DEF Scans
    <3>2. s \in Scans /\ s.pc # "add"
      BY <1>1 DEF Scans
    <3> QED
      BY <3>1, <3>2
  <2> QED
    BY <2>1, <2>2, <2>3 DEF Trigger, Join, Listen
<1> QED
  BY <1>4, <1>5, <1>6, <1>7, ThreadOutside

(* A request starts a thread, which has added nothing yet.               *)
LEMMA ScanRequestKeeps == ASSUME ScanInv, ScanRequest PROVE ScanInv'
<1>1. kernel \in Kernels /\ scan \in [Scanners -> Scans] /\ nlfailures \in 0..MaxNlFailures
  BY ScanTypeParts DEF ScanInv
<1>2. PICK t \in Scanners : scan[t].pc = "none" /\ At(t, "trigger")
  BY DEF ScanRequest
<1> DEFINE s == [scan[t] EXCEPT !.pc = "trigger"]
<1>3. s \in Scans /\ s.pc # "add"
  BY <1>1 DEF Scans
<1>4. scan' = [scan EXCEPT ![t] = s]
  BY <1>1, <1>2 DEF At
<1>5. UNCHANGED <<kernel, list, editing, mixed, nlfailures>>
  BY DEF ScanRequest
<1> HIDE DEF s
<1> QED
  BY <1>1, <1>2, <1>3, <1>4, <1>5, ThreadOutside

(* A dump begins: with the list empty, and mixed unless it is the only one. *)
LEMMA DumpKeeps == ASSUME ScanInv, NEW t \in Scanners, Dump(t) PROVE ScanInv'
<1> USE DEF ScanInv
<1>1. kernel \in Kernels /\ scan \in [Scanners -> Scans] /\ nlfailures \in 0..MaxNlFailures
  BY ScanTypeParts
<1> DEFINE s == [scan[t] EXCEPT !.pc = "add", !.of = kernel.last,
                                !.left = kernel.found[kernel.last]]
<1>2. kernel.last \in Ids /\ kernel.last \in Nat /\ kernel.found[kernel.last] \in Nat
  BY <1>1, FoundIsNat
<1>3. s \in Scans /\ s.pc = "add" /\ s.of = kernel.last /\ s.left = kernel.found[kernel.last]
  BY <1>1, <1>2 DEF Scans
<1>4. scan' = [scan EXCEPT ![t] = s]
  BY <1>1 DEF Dump, Scans
<1>5. editing' = TRUE /\ list' = <<>> /\ mixed' = (Dumping # {}) /\ UNCHANGED <<kernel, nlfailures>>
  BY DEF Dump, StartEdit
<1> HIDE DEF s
<1>6. scan' \in [Scanners -> Scans] /\ scan'[t] = s
  BY <1>1, <1>3, <1>4
<1>7. Dumping' = Dumping \cup {t}
  BY <1>1, <1>3, <1>4 DEF Dumping
<1>8. ScanTypeOK'
  <2>1. list' \in Seq(Ids) /\ editing' \in BOOLEAN /\ mixed' \in BOOLEAN
    BY <1>5
  <2> QED
    BY <1>1, <1>5, <1>6, <2>1 DEF ScanTypeOK, Kernels, Scans
<1>9. SoleDump'
  BY <1>5, <1>7 DEF SoleDump
<1>10. Dumped'
  <2>1. kernel.found[kernel.last] - kernel.found[kernel.last] = 0
    BY <1>2
  <2>2. <<>> = [n \in 1..0 |-> kernel.last]
    OBVIOUS
  <2> SUFFICES ASSUME ~mixed'
               PROVE  /\ editing'
                      /\ s.of <= kernel.last
                      /\ s.left <= kernel.found[s.of]
                      /\ list' = [n \in 1..(kernel.found[s.of] - s.left) |-> s.of]
    BY <1>5, <1>6, <1>7 DEF Dumped
  <2>3. s.of <= kernel.last /\ s.left <= kernel.found[s.of]
    BY <1>2, <1>3
  <2>4. list' = [n \in 1..(kernel.found[s.of] - s.left) |-> s.of]
    BY <1>3, <1>5, <2>1, <2>2
  <2> QED
    BY <1>5, <2>3, <2>4
<1>11. ListStands'
  BY <1>7 DEF ListStands
<1> QED
  BY <1>5, <1>8, <1>9, <1>10, <1>11

(* One more network of the scan that is dumped.                            *)
LEMMA OneMore ==
    ASSUME NEW i \in Ids, NEW k \in Nat
    PROVE  Append([n \in 1..k |-> i], i) = [n \in 1..(k + 1) |-> i]
<1>1. [n \in 1..k |-> i] \in Seq(Ids) /\ Len([n \in 1..k |-> i]) = k
  OBVIOUS
<1> QED
  BY <1>1

(* The dump adds the networks of its own scan, one at a time.            *)
LEMMA AddNetworkKeeps == ASSUME ScanInv, NEW t \in Scanners, AddNetwork(t) PROVE ScanInv'
<1> USE DEF ScanInv
<1>1. kernel \in Kernels /\ scan \in [Scanners -> Scans] /\ list \in Seq(Ids)
  BY ScanTypeParts
<1> DEFINE s == [scan[t] EXCEPT !.left = @ - 1]
<1>2. scan[t].left \in Nat /\ scan[t].left > 0 /\ scan[t].pc = "add" /\ scan[t].of \in Ids
  BY <1>1 DEF AddNetwork, Scans
<1>3. s \in Scans /\ s.pc = "add" /\ s.of = scan[t].of /\ s.left = scan[t].left - 1
  BY <1>1, <1>2 DEF Scans
<1>4. scan' = [scan EXCEPT ![t] = s]
  BY <1>1 DEF AddNetwork
<1>5. list' = Append(list, scan[t].of) /\ UNCHANGED <<kernel, editing, mixed, nlfailures>>
  BY DEF AddNetwork, Added, NetworkOf
<1> HIDE DEF s
<1>6. scan' \in [Scanners -> Scans] /\ scan'[t] = s
  BY <1>1, <1>3, <1>4
<1>7. Dumping' = Dumping /\ t \in Dumping
  BY <1>1, <1>2, <1>3, <1>4 DEF Dumping
<1>8. ScanTypeOK'
  <2>1. list' \in Seq(Ids)
    BY <1>1, <1>2, <1>5
  <2> QED
    BY <1>1, <1>5, <1>6, <2>1 DEF ScanTypeOK, Kernels, Scans
<1>9. SoleDump'
  BY <1>5, <1>7 DEF SoleDump
<1>10. Dumped'
  <2> SUFFICES ASSUME ~mixed
               PROVE  /\ editing
                      /\ s.of <= kernel.last
                      /\ s.left <= kernel.found[s.of]
                      /\ list' = [n \in 1..(kernel.found[s.of] - s.left) |-> s.of]
    BY <1>5, <1>6, <1>7 DEF Dumped, SoleDump
  <2> DEFINE k == kernel.found[scan[t].of] - scan[t].left
  <2>1. kernel.found[scan[t].of] \in Nat
    BY <1>1, <1>2, FoundIsNat
  <2>2. /\ editing /\ scan[t].of <= kernel.last
        /\ scan[t].left <= kernel.found[scan[t].of]
        /\ list = [n \in 1..k |-> scan[t].of]
    BY <1>7 DEF Dumped
  <2>3. k \in Nat /\ kernel.found[s.of] - s.left = k + 1 /\ s.left <= kernel.found[s.of]
    BY <1>2, <1>3, <2>1, <2>2
  <2> HIDE DEF k
  <2>4. list' = [n \in 1..(k + 1) |-> scan[t].of]
    BY <1>2, <1>5, <2>2, <2>3, OneMore
  <2> QED
    BY <1>3, <2>2, <2>3, <2>4
<1>11. ListStands'
  BY <1>7 DEF ListStands
<1> QED
  BY <1>5, <1>8, <1>9, <1>10, <1>11

(* The last network was added, or the dump broke off with the flag set.    *)
LEMMA DumpEndKeeps == ASSUME ScanInv, NEW t \in Scanners, DumpEnds(t) PROVE ScanInv'
<1> USE DEF ScanInv
<1>1. kernel \in Kernels /\ scan \in [Scanners -> Scans] /\ list \in Seq(Ids)
      /\ nlfailures \in 0..MaxNlFailures /\ editing \in BOOLEAN
  BY ScanTypeParts
<1>2. scan[t].pc = "add" /\ scan' = [scan EXCEPT ![t] = NoScan] /\ UNCHANGED <<kernel, list, mixed>>
  BY DEF DumpEnds, Exit
<1>3. scan' \in [Scanners -> Scans] /\ Dumping' = Dumping \ {t} /\ t \in Dumping
  BY <1>1, <1>2, NoScanTypes DEF Dumping
<1>4. ScanTypeOK'
  <2>1. nlfailures' \in 0..MaxNlFailures
    BY <1>1, NlFailureTypes DEF DumpEnds
  <2>2. editing' \in BOOLEAN
    BY <1>1 DEF DumpEnds, StopEdit
  <2> QED
    BY <1>1, <1>2, <1>3, <2>1, <2>2 DEF ScanTypeOK, Kernels, Scans
<1>5. SoleDump'
  BY <1>2, <1>3 DEF SoleDump
<1>6. Dumped'
  BY <1>2, <1>3 DEF Dumped, SoleDump
<1>7. ListStands'
  <2> SUFFICES ASSUME ~mixed, ~editing'
               PROVE  \E i \in 0..kernel.last : list = [n \in 1..kernel.found[i] |-> i]
    BY <1>2 DEF ListStands
  <2>1. editing /\ scan[t].of <= kernel.last
        /\ list = [n \in 1..(kernel.found[scan[t].of] - scan[t].left) |-> scan[t].of]
    BY <1>3 DEF Dumped
  <2>2. scan[t].left = 0
    BY <2>1 DEF DumpEnds
  <2>3. scan[t].of \in Ids /\ kernel.found[scan[t].of] \in Nat /\ kernel.last \in Nat
    BY <1>1, <1>2, FoundIsNat DEF Scans, Dumping
  <2>4. kernel.found[scan[t].of] - scan[t].left = kernel.found[scan[t].of]
    BY <2>2, <2>3
  <2>5. scan[t].of \in 0..kernel.last
    BY <2>1, <2>3 DEF Ids
  <2> QED
    BY <2>1, <2>4, <2>5
<1> QED
  BY <1>2, <1>4, <1>5, <1>6, <1>7

(* A restart empties the list and ends the threads.                      *)
LEMMA ScanRestartKeeps == ASSUME ScanInv, ScanRestart PROVE ScanInv'
<1> USE DEF ScanInv
<1>1. kernel \in Kernels /\ nlfailures \in 0..MaxNlFailures
  BY ScanTypeParts
<1>2. scan' \in [Scanners -> Scans] /\ Dumping' = {}
  BY NoScanTypes DEF ScanRestart, Dumping
<1>3. list' = <<>> /\ editing' = FALSE /\ mixed' = FALSE /\ UNCHANGED <<kernel, nlfailures>>
  BY DEF ScanRestart
<1>4. ScanTypeOK'
  <2>1. list' \in Seq(Ids) /\ editing' \in BOOLEAN /\ mixed' \in BOOLEAN
    BY <1>3, EmptyIsList
  <2> QED
    BY <1>1, <1>2, <1>3, <2>1 DEF ScanTypeOK, Kernels, Scans
<1> QED
  BY <1>1, <1>2, <1>3, <1>4, EmptyList DEF SoleDump, Dumped, ListStands

(* So every step of the scans preserves the invariant.                   *)
LEMMA ScanStepKeeps == ASSUME ScanInv, [ScanNext]_scanvars PROVE ScanInv'
<1>1. CASE KernelScan \/ ScanRequest \/ ScanRestart
  BY <1>1, KernelKeeps, ScanRequestKeeps, ScanRestartKeeps
<1>2. ASSUME NEW t \in Scanners, ScanThread(t) PROVE ScanInv'
  BY <1>2, BeforeDumpKeeps, DumpKeeps, AddNetworkKeeps, DumpEndKeeps DEF ScanThread
<1>3. CASE UNCHANGED scanvars
  BY <1>3 DEF scanvars, ScanInv, ScanTypeOK, SoleDump, Dumped, ListStands, Dumping
<1> QED
  BY <1>1, <1>2, <1>3 DEF ScanNext

(* The invariant of the scans.                                           *)
LEMMA ScanInvariance == ScanSpec => []ScanInv
<1>1. ScanInit => ScanInv
  BY ScanInitHolds
<1>2. ScanInv /\ [ScanNext]_scanvars => ScanInv'
  BY ScanStepKeeps
<1> QED
  BY <1>1, <1>2, PTL DEF ScanSpec

(* The scan keeps its types, for any number of threads, scans and networks. *)
THEOREM ScanTypeCorrect == ScanSpec => []ScanTypeOK
<1>1. ScanInv => ScanTypeOK
  BY DEF ScanInv
<1> QED
  BY <1>1, ScanInvariance, PTL

(* While dumps do not overlap, a list that is answered as done is all that *)
(* one scan found: for any number of scan threads, scans of the kernel,    *)
(* networks and failures.                                                  *)
THEOREM OneScanAtATime == ScanSpec => []ListIsOneScan
<1>1. ScanInv => ListIsOneScan
  <2> SUFFICES ASSUME ScanInv, ~editing, ~mixed
               PROVE  \E i \in Ids : list = [n \in 1..kernel.found[i] |-> i]
    BY DEF ListIsOneScan, ScanAnswer
  <2>1. Dumping = {}
    BY DEF ScanInv, Dumped
  <2>2. PICK i \in 0..kernel.last : list = [n \in 1..kernel.found[i] |-> i]
    BY <2>1 DEF ScanInv, ListStands
  <2>3. kernel.last \in Ids
    BY ScanTypeParts DEF ScanInv, Kernels
  <2>4. i \in Ids
    BY <2>3 DEF Ids
  <2> QED
    BY <2>2, <2>4
<1> QED
  BY <1>1, ScanInvariance, PTL
-----------------------------------------------------------------------------
(* The composition.  Each part sees its own steps and stutters.            *)
LEMMA ApiStepsOfParts ==
    ASSUME [ApiNext]_apivars
    PROVE  [FirmwareNext]_fwvars /\ [BluecherryNext]_bcvars /\ [ScanNext]_scanvars
<1> USE DEF LeavesFirmware, LeavesBluecherry, LeavesScan
<1>1. CASE ApiRequest
  <2>1. PICK url \in Handled : Runs(url.module, url.request)
    BY <1>1 DEF ApiRequest
  <2>2. CASE FirmwareRuns(url.request)
    BY <2>2 DEF FirmwareRuns, FirmwareNext, FirmwareComes
  <2>3. CASE BluecherryRuns(url.request)
    BY <2>3 DEF BluecherryRuns, BluecherryNext
  <2>4. CASE WifiRuns(url.request)
    BY <2>4 DEF WifiRuns, ScanNext
  <2> QED
    BY <2>1, <2>2, <2>3, <2>4 DEF Runs
<1>2. CASE ApiContinues
  BY <1>2 DEF ApiContinues, FirmwareNext, BluecherryNext
<1>3. CASE ThreadSteps
  BY <1>3 DEF ThreadSteps, FirmwareNext, ScanNext
<1>4. CASE Outside
  BY <1>4 DEF Outside, FirmwareNext, ScanNext
<1>5. CASE ApiRestart
  BY <1>5 DEF ApiRestart, FirmwareNext, BluecherryNext, ScanNext
<1>6. CASE UNCHANGED apivars
  BY <1>6 DEF apivars
<1> QED
  BY <1>1, <1>2, <1>3, <1>4, <1>5, <1>6 DEF ApiNext

(* The program with all its modules implements the specification of each:  *)
(* requests of one, the threads of another and restarts of all do not      *)
(* disturb what a module promises on its own.                              *)
THEOREM ApiRunsItsParts == ApiSpec => FirmwareSpec /\ BluecherrySpec /\ ScanSpec
<1>1. ApiInit => FirmwareInit /\ BluecherryInit /\ ScanInit
  BY DEF ApiInit
<1>2. [ApiNext]_apivars =>
        [FirmwareNext]_fwvars /\ [BluecherryNext]_bcvars /\ [ScanNext]_scanvars
  BY ApiStepsOfParts
<1> QED
  BY <1>1, <1>2, PTL DEF ApiSpec, FirmwareSpec, BluecherrySpec, ScanSpec

(* So the API keeps its types, with the number of requests bounded.        *)
THEOREM ApiTypeCorrect == ApiSpec => []ApiTypeOK
<1> DEFINE Counted == requests \in 0..MaxRequests
<1>1. ApiInit => Counted
  BY ApiAssumption DEF ApiInit
<1>2. Counted /\ [ApiNext]_apivars => Counted'
  BY ApiAssumption DEF apivars, ApiNext, ApiRequest, ApiContinues, ThreadSteps, Outside, ApiRestart
<1>3. ApiSpec => []Counted
  BY <1>1, <1>2, PTL DEF ApiSpec
<1>4. FirmwareTypeOK /\ BluecherryTypeOK /\ ScanTypeOK /\ Counted => ApiTypeOK
  BY DEF ApiTypeOK
<1> QED
  BY <1>3, <1>4, ApiRunsItsParts, FirmwareTypeCorrect, BluecherryTypeCorrect,
     ScanTypeCorrect, PTL

(* And what an answer, the flag, the configuration and the list of the     *)
(* whole program say is true, each under the conditions the theorem about  *)
(* its part names: the rows there are, no earlier download running at the  *)
(* request, no registration stopped halfway and a key that fits, dumps     *)
(* that do not overlap.                                                    *)
THEOREM ApiAnswersTrue ==
    ApiSpec => []CheckIsStored /\ []VerifiedDownload /\ []ConfiguredKeyIsKnown
               /\ []ListIsOneScan
  BY ApiRunsItsParts, CheckStoresAll, FlagMeansVerified, ConfiguredIsLetIn,
     OneScanAtATime, PTL
=============================================================================
