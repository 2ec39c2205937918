------------------------------- MODULE Firmware -------------------------------
(***************************************************************************)
(* The firmware updater, src/firmware with src/filedownload.c, and the     *)
(* key-value store src/database it keeps its findings in.  Requests run in *)
(* the event loop; each download has a thread of its own, and nothing      *)
(* keeps two of them from writing the one file FIRMWARE_FILE_PATH.         *)
(* A release stands for all that is published of it: version, date, URL,   *)
(* signature and list of changes.  An image is a sequence of blocks, each  *)
(* by the release it comes from, 0 where nothing was written.              *)
(***************************************************************************)
EXTENDS Integers, Sequences

CONSTANTS LastRelease,   \* releases 1..LastRelease are published one after the other
          Downloads,     \* names of download threads
          ImageSize,     \* blocks of an image
          MaxFailures    \* bound: database, network and thread failures

ASSUME FirmwareAssumption ==
  /\ LastRelease \in Nat \ {0}
  /\ ImageSize \in Nat \ {0}
  /\ MaxFailures \in Nat

Releases == 1..LastRelease

VARIABLES
  published,   \* the release the server of the vendor offers
  table,       \* the keyvalue table: key -> release the value is from, 0 for ""
  fw,          \* the request of the event loop
  downloaded,  \* the flag of firmware.c
  image,       \* the file at FIRMWARE_FILE_PATH, with whether it is there
  dl,          \* the download threads
  verified,    \* history: release whose signature set the flag, 0 when it is not set
  overlap,     \* history: the last download was asked for while another ran
  installing,  \* sysupgrade is about to run
  fwfailures   \* number of failures

fwvars == <<published, table, fw, downloaded, image, dl, verified, overlap,
            installing, fwfailures>>

(* The keys in the order firmware_dao_update_latest_firmware writes them.  *)
Keys == <<"version", "release", "url", "path", "newer", "sig", "changes">>
KeySet == {Keys[i] : i \in 1..7}
(* The path is always stored as the empty string.                          *)
Stored(key, release) == IF key = "path" THEN 0 ELSE release

Threads == {"none", "start", "transfer", "ended", "hash", "set"}
NoThread == [pc |-> "none", url |-> 0, at |-> 0, sig |-> 0, same |-> FALSE]
NoRequest == [step |-> 0, op |-> "none", release |-> 0, answer |-> "none"]
NoImage == [there |-> FALSE, blocks |-> <<>>]
Whole(release) == [i \in 1..ImageSize |-> release]
Running == {t \in Downloads : dl[t].pc # "none"}

FirmwareTypeOK ==
  /\ published \in Releases
  /\ table \in [KeySet -> {0} \cup Releases] \cup [{} -> {0}]
  /\ fw \in [step : 0..7, op : {"none", "check", "info", "download", "install"},
             release : {0} \cup Releases, answer : {"none", "ok", "error"}]
  /\ downloaded \in BOOLEAN
  /\ image.there \in BOOLEAN /\ image.blocks \in Seq({0} \cup Releases)
  /\ Len(image.blocks) \in 0..ImageSize
  /\ dl \in [Downloads -> [pc : Threads, url : {0} \cup Releases, at : 0..ImageSize,
                           sig : {0} \cup Releases, same : BOOLEAN]]
  /\ verified \in {0} \cup Releases
  /\ overlap \in BOOLEAN
  /\ installing \in BOOLEAN
  /\ fwfailures \in 0..MaxFailures
-----------------------------------------------------------------------------
(* The store.  dao_keyvalue_init makes the table; its rows are those that  *)
(* firmware_dao_init put there, if anything ever called it, with what an   *)
(* earlier run of the program has found.                                   *)
NoRows == [k \in {} |-> 0]
PutRows == [k \in KeySet |-> 0]      \* dao_keyvalue_put_int and _text, with "" or 0
FirmwareInit ==
  /\ published \in Releases
  /\ table \in {NoRows, PutRows, [k \in KeySet |-> Stored(k, 1)]}
  /\ fw = NoRequest
  /\ downloaded = FALSE
  /\ image = NoImage
  /\ dl = [t \in Downloads |-> NoThread]
  /\ verified = 0
  /\ overlap = FALSE
  /\ installing = FALSE
  /\ fwfailures = 0

HasRows == DOMAIN table = KeySet

(* dao_keyvalue_edit_int and _text: an UPDATE, which succeeds without      *)
(* effect when there is no such row.                                       *)
Edited(key, value) == [k \in DOMAIN table |-> IF k = key THEN value ELSE table[k]]

Fails == fwfailures < MaxFailures /\ fwfailures' = fwfailures + 1
Works == UNCHANGED fwfailures

(* dao_keyvalue_get_int and _text.  Of a key without a row they leave the  *)
(* status of the result uninitialised: taken for an error, or for a value  *)
(* that is NULL, with which the process ends (FirmwareRestart).            *)
RowsFound == HasRows /\ Works
RowsNotFound == IF HasRows THEN Fails ELSE Works

(* dao_create_db, at every start: a database that cannot be opened is      *)
(* removed and made anew.                                                  *)
CreateDb == table' \in {table, NoRows}

(* The process ends and starts again: the database and the file stay.      *)
ProcessEnds ==
  /\ fw' = NoRequest
  /\ downloaded' = FALSE
  /\ verified' = 0
  /\ dl' = [t \in Downloads |-> NoThread]
  /\ overlap' = FALSE
  /\ installing' = FALSE
-----------------------------------------------------------------------------
(* Requests, in the event loop.                                            *)

FirmwareIdle == fw.step = 0
Answer(op, release, answer) ==
  fw' = [step |-> 0, op |-> op, release |-> release, answer |-> answer]

(* firmware_check_upgrade: what is published now is read, and is then to   *)
(* be stored key by key.                                                   *)
CheckRequest ==
  /\ FirmwareIdle
  /\ \/ /\ Works
        /\ fw' = [step |-> 1, op |-> "check", release |-> published, answer |-> "none"]
     \/ Fails /\ Answer("check", 0, "error")
  /\ UNCHANGED <<published, table, downloaded, image, dl, verified, overlap, installing>>

(* One update of firmware_dao_update_latest_firmware.  It fails when, for  *)
(* one, a download thread is reading the database.                         *)
StoreNext_OneMore ==
  IF fw.step = 8 THEN Answer("check", fw.release, "ok")
  ELSE fw' = [fw EXCEPT !.step = @ + 1]
StoreNext ==
  IF fw.step = 7 THEN Answer("check", fw.release, "ok")
  ELSE fw' = [fw EXCEPT !.step = @ + 1]
StoreFails_GoesOn == StoreNext /\ UNCHANGED table
StoreFails == Answer("check", fw.release, "error") /\ UNCHANGED table
StoreKey ==
  /\ fw.op = "check" /\ fw.step > 0
  /\ \/ /\ Works
        /\ table' = Edited(Keys[fw.step], Stored(Keys[fw.step], fw.release))
        /\ StoreNext
     \/ Fails /\ StoreFails
  /\ UNCHANGED <<published, downloaded, image, dl, verified, overlap, installing>>

(* firmware_get_db_version reads every key.                                *)
InfoRequest ==
  /\ FirmwareIdle
  /\ \/ RowsFound /\ Answer("info", 0, "ok")
     \/ RowsNotFound /\ Answer("info", 0, "error")
  /\ UNCHANGED <<published, table, downloaded, image, dl, verified, overlap, installing>>

(* firmware_latest_download resets the flag, reads the store and, with     *)
(* filedownload_async_download, starts a thread.  The threads of earlier   *)
(* downloads go on between any two of these.                               *)
Reset_Late == UNCHANGED <<downloaded, verified>>
Reset == downloaded' = FALSE /\ verified' = 0
DownloadRequest ==
  /\ FirmwareIdle
  /\ Running # Downloads
  /\ Reset
  /\ fw' = [step |-> 1, op |-> "download", release |-> 0, answer |-> "none"]
  /\ overlap' = (Running # {})
  /\ UNCHANGED <<published, table, image, dl, installing, fwfailures>>
ReadUrl ==
  /\ fw.op = "download" /\ fw.step = 1
  /\ \/ RowsFound /\ fw' = [fw EXCEPT !.step = 2, !.release = table["url"]]
     \/ RowsNotFound /\ Answer("download", 0, "error")
  /\ UNCHANGED <<published, table, downloaded, image, dl, verified, overlap, installing>>

Started(url) == [NoThread EXCEPT !.pc = "start", !.url = url]
StartThread ==
  /\ fw.op = "download" /\ fw.step = 2
  /\ \/ /\ Works
        /\ \E t \in Downloads \ Running : dl' = [dl EXCEPT ![t] = Started(fw.release)]
        /\ Answer("download", 0, "ok")
     \/ Fails /\ Answer("download", 0, "error") /\ UNCHANGED dl
  /\ UNCHANGED <<published, table, downloaded, image, verified, overlap, installing>>

(* firmware_apply_download looks only whether the file is there.           *)
InstallRequest ==
  /\ FirmwareIdle
  /\ \/ /\ image.there
        /\ Works
        /\ installing' = TRUE
        /\ Answer("install", 0, "ok")
     \/ /\ IF image.there THEN Fails ELSE Works
        /\ Answer("install", 0, "error")
        /\ UNCHANGED installing
  /\ UNCHANGED <<published, table, downloaded, image, dl, verified, overlap>>
-----------------------------------------------------------------------------
(* The download thread: _download_file and firmware_download_callback.     *)

Goto(t, pc) == dl' = [dl EXCEPT ![t].pc = pc]

Truncate(t) ==
  /\ dl[t].pc = "start"
  /\ \/ Works /\ Goto(t, "transfer") /\ image' = [there |-> TRUE, blocks |-> <<>>]
     \/ Fails /\ Goto(t, "ended") /\ UNCHANGED image
  /\ UNCHANGED <<downloaded, verified>>

BlockWritten(at, url) ==
  LET old == image.blocks IN
  [i \in 1..(IF at > Len(old) THEN at ELSE Len(old)) |->
     CASE i = at -> url
       [] i # at /\ i <= Len(old) -> old[i]
       [] OTHER -> 0]
Transfer(t) ==
  /\ dl[t].pc = "transfer"
  /\ dl[t].url # 0
  /\ dl[t].at < ImageSize
  /\ dl' = [dl EXCEPT ![t].at = @ + 1]
  /\ image' = [there |-> image.there, blocks |-> BlockWritten(dl[t].at + 1, dl[t].url)]
  /\ Works
  /\ UNCHANGED <<downloaded, verified>>

(* However the transfer ends, the status says it succeeded.                *)
TransferEnds(t) ==
  /\ dl[t].pc = "transfer"
  /\ IF dl[t].url = 0 \/ dl[t].at = ImageSize THEN Works ELSE Fails
  /\ Goto(t, "ended")
  /\ UNCHANGED <<image, downloaded, verified>>

ReadSignature(t) ==
  /\ dl[t].pc = "ended"
  /\ \/ /\ RowsFound
        /\ dl' = [dl EXCEPT ![t].pc = "hash", ![t].sig = table["sig"]]
     \/ Fails /\ dl' = [dl EXCEPT ![t] = NoThread]
  /\ UNCHANGED <<image, downloaded, verified>>

Matches(sig) == sig # 0 /\ image.blocks = Whole(sig)
Hash(t) ==
  /\ dl[t].pc = "hash"
  /\ \/ /\ Works
        /\ dl' = [dl EXCEPT ![t].pc = "set", ![t].same = Matches(dl[t].sig)]
        /\ UNCHANGED <<downloaded, verified>>
     \/ Fails /\ Reset /\ dl' = [dl EXCEPT ![t] = NoThread]
  /\ UNCHANGED image

SetFlag(t) ==
  /\ dl[t].pc = "set"
  /\ downloaded' = dl[t].same
  /\ verified' = IF dl[t].same THEN dl[t].sig ELSE 0
  /\ dl' = [dl EXCEPT ![t] = NoThread]
  /\ Works
  /\ UNCHANGED image

DownloadStep(t) ==
  /\ \/ Truncate(t) \/ Transfer(t) \/ TransferEnds(t)
     \/ ReadSignature(t) \/ Hash(t) \/ SetFlag(t)
  /\ UNCHANGED <<published, table, fw, overlap, installing>>
-----------------------------------------------------------------------------
(* sysupgrade flashes the file and reboots; /tmp is lost, and without      *)
(* keep_settings the database.                                             *)
Sysupgrade ==
  /\ installing
  /\ ProcessEnds
  /\ image' = NoImage
  /\ CreateDb
  /\ UNCHANGED <<published, fwfailures>>

FirmwareRestart ==
  /\ ProcessEnds
  /\ CreateDb
  /\ UNCHANGED <<published, image, fwfailures>>

Publish ==
  /\ published + 1 \in Releases
  /\ published' = published + 1
  /\ UNCHANGED <<table, fw, downloaded, image, dl, verified, overlap, installing,
                 fwfailures>>

FirmwareComes == CheckRequest \/ InfoRequest \/ DownloadRequest \/ InstallRequest
FirmwareStep == StoreKey \/ ReadUrl \/ StartThread
FirmwareNext == \/ FirmwareComes \/ FirmwareStep \/ Sysupgrade \/ Publish \/ FirmwareRestart
                \/ \E t \in Downloads : DownloadStep(t)
FirmwareSpec == FirmwareInit /\ [][FirmwareNext]_fwvars
-----------------------------------------------------------------------------
(* A check answered without an error has stored its findings in every row  *)
(* there is: the seven updates are not one transaction, and any of them    *)
(* may fail.  It does not say that there are rows.  Without them, as in a  *)
(* new database, where nothing calls firmware_dao_init, the same answer    *)
(* comes with nothing stored.                                              *)
CheckIsStored ==
  fw.op = "check" /\ fw.answer = "ok" =>
    \A k \in DOMAIN table : table[k] = Stored(k, fw.release)

(* The flag of firmware_is_downloaded stands for a whole image, that of    *)
(* the signature found to match, if no thread of an earlier download was   *)
(* still running when the last one was asked for: such a thread may set    *)
(* the flag after the reset, and a new one then empties the file.          *)
VerifiedDownload ==
  downloaded /\ ~overlap => image.there /\ image.blocks = Whole(verified)
=============================================================================
