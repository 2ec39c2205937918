# Verification of the breakout server

This directory holds TLA+ models of the breakout server in `../src`, the TLC
configurations that check them on small instances, and TLAPS proofs of what
matters most for every instance. `PROJECT.json` is the index: components, runs,
the lines of source each definition stands for, hazards, findings, theorems and,
for every checked property, a mutation of the model that the property notices.

Tools: `tlc -config X.cfg M` for the run of `X.cfg` (the module `M` is named in
`PROJECT.json`), `tlapm M_proofs.tla` for the proofs.

## 1. The system

The program is a small HTTP server with a JSON API on an embedded board, and a
tag scanner built around it. One thread runs the event loop (libubox `uloop`)
with all of HTTP and the API; longrunners (`longrunner.c`) are threads that call
a function and sleep, for ever; a pulse of a GPIO pin, a firmware download and a
scan for networks get a thread each. There are two mutexes, both of the Wi-Fi
code: `wifi_adapt_info.lock` for the summary of the adapters and
`wifi_list.lock` for the list of networks, which is held for one network at a
time. Everything else that threads share is shared as it comes.

| part | state it keeps | operations | interacts with |
|---|---|---|---|
| listeners, `listen.c` | list of sockets, `blocked` flags, `n_blocked`, the poll timer | accept on readable, block when full, walk that unblocks | `client.c`: accepts, `n_clients`, woken by every close |
| client connections, `client.c` | parser state, current request, headers, post data, timer, stream flags | read loop, header parser, `request_done`, timeouts, close | uloop callbacks, file and API handlers, listeners |
| file requests, `file.c` | the request and the descriptor being sent | path lookup, conditional headers, sending | called at the end of the headers; others edit the files |
| API, `api.c`, `helper.c`, `*_json_api.c` | prefix tables | route by method and prefix, write the JSON | called at the end of the headers; calls every module below |
| GPIO, `gpio/gpio.c` | none of its own: the kernel's exports, directions, levels | reserve, release, read, write, pulse | all threads |
| buttons and lights, `stumon/stumon_btnlight.c` | score mode, last score, last level of the mode button | scan every 50 ms | GPIO; read by the tag reader |
| tag reader, `stumon/stumon_longrunner.c` | none | read a tag, blink, post tag or score | PN532, GPIO, buttons, libcurl |
| heartbeat, `stumon/stumon_heartbeat_longrunner.c` | none | post regularly | libcurl |
| PN532, `rfid/pn532` | one global packet buffer | command, acknowledge, answer | I2C; tag reader and API |
| key-value store, `database` | a SQLite file | make, read, update rows | firmware |
| firmware updater, `firmware`, `filedownload.c` | what the last check found, in the store; a flag; the image in `/tmp` | check, download, apply | store, libcurl, its download threads |
| Bluecherry, `bluecherry` | a cookie; files on the board and devices on the platform | login, status, registration | libcurl, API |
| Wi-Fi, `wifi/wifi*.c` | configuration of the network, summary of the adapters, five flags of the supervisor | supervise, configure, restart | uci, iwinfo; the longrunner and the API |
| netlink, `wifi/nl.c` | the list of networks and its `editing` flag | scan | kernel, scan threads, API |
| buses, display, Kunio, PWM, temperature | device registers | short sequences of writes | API |
| configuration, logger, utilities | `conf`, filled once at start | | everything |

Some of this is dormant at this commit: `main.c:170` has the start of the Wi-Fi
supervisor commented out and `wifi.c:66` the call of `nl_scan_networks`;
`CMakeLists.txt` builds `filedownload.c` but nothing else of the updater, `api.c`
has no row for it and nothing calls `firmware_dao_init`; and `config_parse` never
sets `max_connections`, so that no listener is ever blocked. The models run these
parts as their code has them.

What is hard, part by part, is the list `hazards` in `PROJECT.json`, each at its
line with the properties that would catch it. In short:

* *connections*: segmentation and pipelining, one connection reused for many
  requests, a request ended twice (`header_error`), a close that must wait for
  output, a timer armed and cancelled in five places;
* *listeners*: a wakeup that must not be lost, a counter that drifts, arrivals
  in the middle of the walk;
* *files*: a path made by decoding first and resolving dots afterwards, a file
  that changes between the look at it, its opening and its reading;
* *GPIO*: threads on one pin with nothing but the kernel's refusal between
  them, a middle step failing, state that survives a restart;
* *panel*: presses between the reads of a scan, a light write that fails;
* *tag reader*: late or missing answers of the chip, a write lost unnoticed, one
  packet buffer and one descriptor under two threads, and copies into and out of
  that buffer which the other thread interrupts;
* *updater*: seven updates where a crash may come between any two, download
  threads that write one file and set one flag;
* *registration*: nine calls on three machines with no way back;
* *Wi-Fi*: a network turned off that must not be forgotten, five flags set by a
  request one after the other while the supervisor reads them, a list filled by
  scans that overlap.

## 2. The modules

```
ListenerPool          listen.c and n_clients          ListenerPool_proofs
RequestResponse       what an HTTP client may rely on (abstract)
Connection            client.c, implements it         Connection_proofs
  MCConnection
FileRequest           file.c and a file under edit    FileRequest_proofs
  MCFileRequest
Gpio                  gpio.c with its threads         (in Panel_proofs)
  MCGpio
Panel  EXTENDS Gpio   stumon_btnlight.c on top of it  Panel_proofs
  MCPanel
TagReader             rfid_pn532.c, i2c.c and         TagReader_proofs
                      stumon_longrunner.c
Api  EXTENDS          api.c: requests, threads and    Api_proofs
     |                one process for all three
     +- Firmware      firmware.c, the store           (in Api_proofs)
     +- Bluecherry    bluecherry.c                    (in Api_proofs)
     +- WifiScan      nl.c                            (in Api_proofs)
  MCApi
Wifi                  wifi.c, wifi_longrunner.c       Wifi_proofs
SequenceLemmas        facts about sequences, for Connection_proofs and
                      FileRequest_proofs
```

In a module, an operator `Op_Bug` just before `Op` is `Op` with a plausible bug.
Nothing uses it; the `mutants` of `PROJECT.json` swap it in to confirm that the
property named there notices.

### ListenerPool

`blocked`, `n_blocked`, `n_clients`, `poll_timer` are the variables of the C
code; `registered` is the set of descriptors in uloop, `pending` the kernel's
accept queues. `NewClientEvent` is the whole callback `new_client_event`: the
accept loop, which takes any number up to the whole queue (`accept` may fail
early), and then the blocking. The walk `uh_poll_listeners` is one step per
listener, with `cursor` its position, because connections arrive during it;
nothing else of the program can run then, so the other callbacks require
`cursor = 0`. `ClientClose` is the part of `client_close` that listeners see.

### Connection and RequestResponse

One connection. Bytes are tokens: line ends and the texts between them; header
lines are named for what `client_parse_header` makes of them. The variables are
the fields of `struct client` and its stream: `state`, `request`, `requests`,
`hdr`, `postdata`, `timer`, `eof`, `pending` (output queued), `failed` (write
error), `notify` (the deferred state change of ustream), `buf`. Callbacks of
uloop are actions (`DataArrives`, `PollFires`, `TimeoutFires`, `NotifyState`
...). The loop of `read_from_client` is the exception: each iteration is an
action, and `reading` keeps every other callback out until the loop ends.
`RequestLine`, `HeaderLine`, `EndOfHeaders`, `BlankLine`, `TooLarge` and
`ReadEnds` are its six outcomes. File and API handlers are seen only by what
they do to the connection: one response, then `request_done`.

The peer is an environment: it sends a script of requests in segments of any
size up to the free buffer, stops anywhere, half-closes, resets, and takes
output when it likes.

`RequestResponse` is the promise: request *i* gets at most one response, the
*i*-th, made from its own headers and a beginning of its own body; after a
response that ends the connection none follows. `Connection` implements it with
`open <- live /\ state \in {"INIT", "HEADER"}` (`ServesInOrder`). This is for a
peer whose requests the parser can tell apart (`Conformant`): it takes the length
of no body into account, so that a POST with a body is the last request of its
connection and the body is on one line, and no other request has one.

### FileRequest

Characters are strings of length one and paths sequences of them, because what
can go wrong in `canonpath` goes wrong in characters: `Canon` is its loop with
its two pointers, `CanonStep` one turn of it, and `Resolved` what it should
return, by segments. `LookupIn`
is `path_lookup`, which tries every prefix of the URL that ends at a slash.
`Precondition` is the chain of the five conditional headers in the order of
`uh_file_request`; `Lists` has the list of tags end at its first separator,
where the code puts a zero byte and then stops at the end of the string.

`FileComes` is the request up to the result of the lookup with its `stat`,
`OpenFile` the open and the headers, and `ReadBlock`, `ReadEnd` and `ReadError`
are the turns of `file_write_cb`. Between any two of them others edit the one
file `Doc`: in place, by a new inode, or by removing it. An edit's mtime is its
own time (the number of the edit) or one of `Backdates`, earlier or equal, as
`mv`, `cp -p`, the installation of a package or a second edit within a second
leave it; `backdated` is the history variable that remembers one. An inode keeps a version of its content; `copy` is what a client
kept of an earlier answer, block by block, with the validators it was given.

### Gpio and Panel

There is no lock in `gpio.c`. `gpio_reserve` fails when the kernel has the pin
exported already, and that makes the export file a try-lock. Every access to
sysfs is an action; `job[t]` is the call thread `t` is in, with its next access,
`pulse[p]` the pulse thread that owns pin `p`. `Disturbances` selects what may
go wrong besides contention: direction requests of the API (which need no
reservation), `pthread_create` failing, the program restarting. Exports,
directions and levels survive a restart and `setup_button_inputs` runs again.

`Panel` adds the longrunner that scans the buttons (`scan`, `button`), the
score mode and its light, presses and releases at any time, the blink of the
tag reader, and requests of the API in the event loop (`ApiRead`, `ApiWrite`,
`ApiPulse`, `ApiDirection`) for the pins `ApiPins`: the status light and one
score button, which a direction request makes an output. `letgo` is a history
variable: the mode button was up since the mode last changed. The display is left
out; its reset line has the number of the score light (`config.h:68`), so that
setting up the screen would switch that light.

### TagReader

Two threads use the PN532: the longrunner (`reader`) and the event loop
(`loop`), where the RFID requests of the API run and, at first,
`stumon_longrunner_init`. What both do is a sequence of commands, `Plan`, and a
command is always the same: `Fill` the packet buffer, `Send` it, `ReadAck`,
`ReadData` into `raw` of the thread, `Load` that into the packet buffer, `Check`
it there, and for a tag `CopyUid` and `CopyMore`. Each is an action, since the
other thread may run between them; `call[t]` is the job of a thread with its
place in the plan. `GiveUp` is a timeout or a failing read.

`buf` keeps the parts of `pn532_packetbuffer` that the code looks at: byte 0,
which a command goes into; byte 6 and the bytes from 7 on, which tell what is
answered; and the uid with its length in two parts, which only the 20 bytes of
`InListPassiveTarget` reach (`Reach`). `Load` copies one part at a time, in the
order of the loop of `rfid_pn532_read_data`, so that a thread may be interrupted
in the middle and go on over a newer answer; the uid is copied out in two parts
too, with the length read again (`rfid_pn532.c:423`), and `got` is the set of
tags the copied parts are of. `bus` is the
descriptor `_fds[0]`: opened without a slave address it is `"dead"`, and so it
stays when setting the address fails. The answer to a version is let through
unless byte 0 is in the middle of being a command, because `strncmp` at
`rfid_pn532.c:304` compares strings that begin with a zero byte.

The chip and the tags are the environment: the chip acknowledges and answers at
any time, drops what it does for a new command, and waits for a tag as long as
there is none. A frame is taken from the bus by one read. `seen` and `met` are
history variables: the tags at the antenna, and the requests that ran, since the
longrunner last began to ask for a tag.

### Firmware

`table` is the key-value table, from key to the release its value is from; it
may have the seven rows or none, since only `firmware_dao_init` makes them and
an update of a row that is missing succeeds without effect. `CheckRequest`
fetches what is published and `StoreKey` is one of the seven updates of
`firmware_dao_update_latest_firmware`, which ends at the first that fails;
`FirmwareRestart` may come between any two. `DownloadRequest` resets the flag,
`ReadUrl` reads the store and `StartThread` starts a thread, three steps between
which the threads of earlier downloads go on. The steps of a thread are `Truncate`, `Transfer` (one block),
`TransferEnds`, `ReadSignature` (from the store, as it is now), `Hash` (of the
file, as it is now) and `SetFlag`. Nothing keeps two threads apart, so that they
write one file; each block carries the release it comes from. `InstallRequest`
looks only whether the file is there. `verified` and `overlap` are history; the
latter says that a thread of an earlier download was running when the last one
was asked for.

### Bluecherry

A registration is one request, whose steps are `GetDevice` (the platform makes
a device, unless the account is full), `MakeKey`, `PutKey`, `WriteId` and
`WriteDevkey`. Each may fail, the answer of the platform may be lost after it
has done what it was asked, and writing the configuration reports success in any
case. `BluecherryRestart` forgets the request; the key of the board, the two
lines of configuration and the platform stay. `halfway` is history: a key was
made whose device is not configured yet. A new key may be longer than the
request that sends it has room for (`fits`: 399 bytes of the file are read,
`bluecherry.c:92`, and the encoded form is cut at 511, line 421); the platform
then holds a part of it, which is no key.

### WifiScan

A scan thread (`scan[t]`) triggers the kernel, joins the multicast group, listens
for the end, and dumps. In the dump `Dump` empties the list and sets `editing`,
`AddNetwork` is one callback under the lock, and `DumpEnds` clears the flag, or
leaves it set after an error. The kernel scans for threads and for other
programs; `found[i]` is what its *i*-th scan has found. `mixed` is history: the
last dump was begun during another.

### Api

`Rows` are the tables of `api.c`, `Routes` the routers of the modules modelled
below, `Handles` what `api_get_function` makes of a URL. `ApiRequest` runs
handlers one at a time in the event loop, beside the threads of the updater and
of the scans (`ThreadSteps`); `ApiRestart` ends and starts all of it at once.
With `UpdaterRouted` the tables get the rows for the updater that they lack.

### Wifi

`uci` is the configured network with its state, `air` what the adapters do,
`seen` the summary that `wifi_make_summary` keeps of them; `bad`, `new`, `clear`,
`marked` are the flags `bad_connection`, `new_wifi_attempt`,
`clear_new_wifi_command`, `marked_for_restart`, and `age` tells 30 and 180
seconds since `bad_conn_start` apart. The longrunner is in step `sup`, the request in
step `post`: of the five ways to configure, `"connect"` sets SSID, password and
state and restarts, and the others a part of it. Each flag that one of them
reads or writes is a step, as is each call that may fail. A summary that cannot
read something keeps what it had, and with both networks gone it resets only
the board's own adapter (`wifi.c:261-267`), so that `connected` may be stale.
`worked` is history: this network was seen connected.

## 3. The runs

| run | instance | shows |
|---|---|---|
| `listener_limit` | 2 listeners, limit 2, backlog 2, 6 arrivals | a blocked listener always has its wakeup ahead (`NoLostWakeup`), the count is never too small, flag and event loop agree, and once arrivals stop all listeners return |
| `connection_pipeline` | 12 scripts of up to 3 requests, buffer of 6 tokens, keep-alive | refinement of `RequestResponse`; a live connection always has something queued; no whole line is left unread; closing is final; every connection is freed |
| `file_requests` | about 60 URLs on a disk with a node of each kind, 2 requests, 2 edits, with their own time or that of the first, 2 blocks, 1 read error | an answer 200 is the file the URL names and all of it; a 304 is sent only for a copy that is the same, unless an edit left an earlier or equal mtime or the client sent `*`; every request is answered and its descriptor closed |
| `gpio_disturbed` | 3 pins (1 button), 2 threads, 1 restart, all disturbances | pins are exclusive and the button stays exported in spite of them |
| `gpio_undisturbed` | the same without disturbances | nothing stays reserved for ever or without a user, pulses end inactive |
| `panel_quiet` | 2 score buttons, mode button, 2 lights, 3 threads, requests on the status light and on a score button, 1 restart | one toggle a press, a held score button is heard as long as the score buttons are inputs, the light follows the mode until the restart |
| `tag_cycle` | 1 tag that comes and goes, 1 request, 1 fault | types; if no request came since the longrunner asked only a tag that was there since is posted; requests that do not read a tag can make it post an empty one, but neither an old one nor a mixture; every request returns; a tag that stays gets posted |
| `api_requests` | 2 releases, 2 downloads, images of 2 blocks, 2 devices, 2 keys, 2 scan threads, 1 kernel scan, 1 failure of each part, 3 requests | a check answered "ok" is stored in the rows there are; the flag stands for a whole verified image if no earlier download was running when the last was asked for; the configured device is let in with the board's key unless a registration stopped half way or the key was too long to be sent; while dumps do not overlap a list answered as done is one scan's |
| `wifi_supervisor` | 1 request, 2 faults | what the supervisor turned off it remembers, and brings back when the network is good |

Bounds. Two listeners give every position of the walk relative to a blocked one;
a limit of two with backlogs of two lets one accept loop overshoot and makes
both listeners block; six arrivals block, unblock and block again. Scripts of
three requests put one before and one behind each kind of special one; a buffer
of six tokens is smaller than every script, so it fills, wraps and runs full in
the middle of a line. The URLs are all of up to two characters of slash, dot and
letter, all of three behind a slash, and longer ones with escapes and queries
that pass through files, out of directories and past the document root; a second
request can use the validators of the first, and of two edits one falls before
and one into the second request. Two GPIO threads plus a pulse are all the
parties that can meet on a pin; three pins leave one uncontended. One restart
suffices since a second one starts from no other state than the first. One tag is
old if it was read before it went away, and a mixture is one of it with nothing;
with two tags the state space is several times as large, and the theorem about
mixtures is for any number. One request is enough to meet the
longrunner at each of its steps, and one fault to put chip and driver out of
step (the chip starts in any state, which is a second one). In `api_requests`
three requests give a check, a download, and one more in the middle of either,
or a registration that fails and two that follow; two releases tell an old value
from a new one. `MaxScans = 2` was run as well (2.5 million states, no error)
and is left out for time. For `wifi_supervisor`, two requests with one fault
were run as well (717 thousand states, no error). Processes of one kind are
symmetric in `gpio_*` and `api_requests`.

Fairness. `listener_limit` assumes that uloop runs an armed timer and goes on
with a walk, and that connections close in the end, which `connection_pipeline`
establishes. `LoopFairness` of `Connection` is that uloop finishes the callback
it is in and dispatches timers and state changes that are due; the run's
specification adds that the peer takes its output, an assumption about the
outside. `FileRequest` assumes that the event loop goes on with the request it
serves; its run counts read errors, which the loop would repeat for ever. `Gpio`
and `Panel` assume that the operating system schedules each thread; a sleep is a
delay and not a state. `TagReader` assumes that too, and that the chip
acknowledges and answers in the end. The fairness of `loop` is strong there:
while it waits for an answer the step it can take depends on tags that come and
go, and its timeout runs all the same. A timeout while the chip has something due
counts as a fault; when nothing is due it is free. `Wifi` assumes that both
threads run, that time passes and that the board's own network comes back; the
last is needed, because while that is gone the stale `connected` makes the
supervisor believe all is well. That a good network which is
tried again and again is joined one time before the supervisor gives up on it is
strong fairness of `Join`, an assumption about the air. The invariants of
`api_requests` need none. The runs of
listeners, connections and files switch deadlock checking off, since those models
end: no arrival left, the connection freed, the last request answered. All others
check for it.

Runs that are expected to fail, each with the comment of the source it
contradicts (`findings`):

| run | what happens |
|---|---|
| `connection_post` | a POST body in a later segment than its headers never reaches the handler |
| `tag_shared` | a request overwrites the packet buffer between the longrunner's check of the answer and its copy of the uid, and an empty tag is posted |
| `wifi_outage` | a network that worked is lost and turned off as if it were a first attempt that failed, and not marked to be tried again |

Deviations that reading and modelling showed and that have no run of their own,
because the properties above state the conditions under which they do not occur
or because they are plain:

* A closing connection whose peer stops reading has no timer any more and is not
  freed (`client.c:129`); `EventuallyFreed` assumes that the peer reads.
* The body of a PUT is parsed as the next request line and answered 400, the
  TODO of `client.c:304`.
* A burst of connections is accepted whole before `n_clients` is compared with
  the limit, so the limit can be exceeded; the model contains that. `n_blocked`
  may exceed the number of blocked listeners, as the walk counts one it finds
  blocked again; it is only compared with zero, and `CounterCovers` is what that
  needs.
* A direction request makes `gpio_write_and_close` fail in the middle, and the
  pin stays reserved; so does a pulse thread that cannot be started. It may also
  make a button an output: that one is then deaf, or down and masking those
  behind it, until a request or a restart undoes it. `ButtonIsHeard` and
  `OneTogglePerPress` are about buttons that are inputs.
* A request that has the score light reserved, if only to read it, makes the
  longrunner's write fail, and light and mode disagree from then on. They may
  after a restart as well (the lights are not written at start);
  `LightFollowsModeSinceBoot` is limited to the time before.
* Kunio's control pins are buttons of the panel. Since those stay exported, all
  writes of Kunio to them fail, and the requests answer 200 with nothing latched.
  The request to enable Kunio is always answered 400, as `kunio_json_api.c:137`
  looks for a number where the word is.
* `GET gpio/states` is never reached: the row `"state"` stands before it.
* `api_handle_request` answers 400 to every request whose handler fails, whatever
  status that set.
* `SER_DELIM` in `helper.c:38` is `"\31"`, which is the octal number for 25.
* Two downloads at a time write one file, and the flag then says nothing. Nor
  does it after an earlier thread that set it between the reset of the flag for
  the next download (`firmware.c:314`) and the start of its thread (line 326), and
  ended: the two do not run at one time, and yet the flag stays set while the new
  one empties the file. Two dumps at a time give a list of both scans. The
  properties exclude these with a history variable, as nothing in the code does.
* A check that is answered "ok" has stored nothing where there are no rows, which
  is so at this commit, as nothing calls `firmware_dao_init`.
* A file that is replaced by an older one, or edited within a second, is answered
  304 to a client that has the one before: `file.c:378` asks only that the
  client's date is not before the file's.
* A request that reads a tag, interrupted in its copy, can make the longrunner
  post a tag that was read before, or a mixture of two.
* An SSH key that is too long for the buffers of `bluecherry.c:92` and 421 is
  registered as its beginning, and the registration counts as done.
* A scan that ends between its trigger and the join of the group is not announced
  to its thread, which waits until somebody else scans.

## 4. The proofs

All theorems hold for every value of the constants under the named assumptions
of the modules (types of the constants, the panel's pins and threads being
pins and threads) and what a theorem itself assumes. None restricts sizes.

* `ListenerPool_proofs`. `IInv` joins the type invariant with the four
  invariants, of which `NoLostWakeup` needs `CounterCovers` (a count of zero
  would end the walk at once) and `CounterCovers` needs a lemma on the
  cardinality of the blocked set. They hold without a limit too
  (`MaxConnections` 0, what the program runs with at this commit), where they
  say little; no run has that value.
* `Connection_proofs`. `AlwaysScheduled` is not inductive, since a state change
  is used up when output is pending. `Scheduled` says which reason holds when:
  the timer until the decision to close, from then on a queued state change or
  pending output, whose drain queues one. `NoLineLeftBehind` needs that data
  only comes in through the read loop, whose exit conditions it restates.
  The second half is the refinement of `RequestResponse` (`Refinement`), for
  every set of conformant scripts of any length and a buffer of at least two
  tokens, the length of a line; `ConformantPeers` is this hypothesis. Its
  invariant `InSync` relates parser and stream: what is in the buffer and on the
  wire together is, between two requests, what remains of the script behind the
  last answer, with empty lines before it at most; and within the headers of a
  request what remains of those, while `hdr` and the fields of `request` are what
  the others make of them (`Parsed`). Each callback then either moves tokens from
  wire to buffer, or takes the next line off the stream, or answers the request
  whose turn it is, or closes. What remains of a script, `From`, is defined with
  `FlattenSeq`, and that it loses its first part in one step (`FromStep`) is
  proved by induction over the parts (`SequenceLemmas`). `InSync` was checked on the run's instance
  before it was proved.
* `Panel_proofs`, of `Gpio`. Mutual exclusion as a relation between pairs of threads
  (`OneOwner`). `ButtonsStayReserved` needs that no call is ever on a button
  (`ButtonsUnused`), true because a button is exported when the call tries.
  Both hold under every disturbance. That a call which sets a level and a pulse
  past its first step drive an output (`Driven`) needs that no direction request
  occurs; from it follow `PulsesComeBack`, in spite of restarts and failures, and
  `NothingLeaks`, which excludes those as well.
* `Panel_proofs`, of `Panel`. Every step of the panel is a step or stutter of `Gpio`
  (`PanelUsesGpio`), so its theorems carry over. `TogglesOncePerPress` needs
  that buttons stay inputs, hence its assumption that no direction request
  occurs, and that a remembered "up" really was one (`SawItUp`).
  `LightShowsTheMode` assumes that no request names the score light
  (`LightIsOwn`). Then the light is exported only while the longrunner writes it
  (`LightKept`), so the write cannot be refused, and no step of another thread
  changes what it shows.
* `TagReader_proofs`. A tag gets from the chip through a buffer of the thread and
  the shared one to the post. From the acknowledgement of its
  `InListPassiveTarget` on, the longrunner can only be given a tag that was seen
  since it asked, as a new command drops the old answer and an answer in place of
  an acknowledgement is refused (`ChipIsFresh`, `RawIsFresh`). Shorter answers do
  not reach the uid, so that nobody but another request for a tag writes it while
  the longrunner copies its answer there, checks it and copies the uid out
  (`BufferIsFresh`). While no such request was under way since it asked (`Apart`),
  it posts one seen tag or an empty one (`OnlyTagRequestsMix`). If no request at
  all was, the tag is that of the answer just checked (`AloneInv`), so it is not
  empty either.
* `FileRequest_proofs`. A version names one content (`Disk`); the stat of a
  request is of such a version (`Snapshot`); while the inode that is read keeps
  this version the body has only blocks of it (`Sending`); and a client whose
  copy has the date of the file has the file (`KeptCopy`), so that what a request
  took from that copy deceives nobody when it is opened later (`Validated`); the
  last two as long as no edit left an earlier or equal mtime (`backdated`). With
  these, `NotModifiedMeansSame` and the second half of `AnswerIsTheFile` hold for
  every tree and set of URLs.
  The first half, that the file is the one the URL names, rests on two facts.
  `CanonResolves`: for every path that begins with a slash `canonpath` returns
  what `Resolved` does. Its loop overtakes the slashes, up to three characters at
  a time, so the induction goes over positions, and `Tracks` says where the loop
  is between two slashes: waiting at the next, past one or two dots, or with what
  follows the slash copied. `LookupIsNamed`: the longest beginning of the URL's
  path that exists resolves to the path itself, or to a directory, or to a file
  the path goes on beneath (`NothingLater`: a way back out of it through two dots
  would have found its directory later). The assumptions are those of any file
  system: `DiskAssumption` (the root is a directory, and what a node is in is
  one, the document root and the edited file are there), `PathAssumption` and
  `CharAssumption` (paths and URLs are sequences of characters, the document root
  begins with a slash, an escape stands for a character, which is not the end of
  the string). `DocAssumption` says which URL is that of the edited file.
* `Wifi_proofs`. `OffIsRemembered` is inductive with the types: only one step
  makes the supervisor the one who turned the network off, and in the steps from
  there to the mark the invariant claims nothing.
* `Api_proofs`. Of the updater: while downloads do not overlap there is one thread
  (`Single`), there is none between the reset of the flag and its start
  (`Requested`), the flag is reset while it runs (`FlagIsReset`), and a match it
  found is still what the file holds when it sets the flag (`MatchStands`), which
  gives `VerifiedDownload`. A check has stored the keys before its next one, where
  there are rows (`StoredSoFar`), which gives `CheckIsStored`. Of the registration: between the new key and the second line the
  request holds a registered device (`Ready`), which has the key once it arrived
  whole (`Handed`) and is the one the first line names (`Named`). Of the scan: while
  dumps do not overlap there is one (`SoleDump`), the list is what it has added
  so far (`Dumped`), and without one it is whole or still marked (`ListStands`).
  Of the composition: each step is a step or a stutter of each part
  (`ApiRunsItsParts`), so what is proved of the parts holds of the program that
  runs all of them (`ApiTypeCorrect`, `ApiAnswersTrue`).

Only model-checked: everything temporal beyond invariants and action properties
(`QuietUnblocks`, `EventuallyFreed`, `AlwaysReleased`, `ButtonIsHeard`,
`RequestReturns`, `TagIsPosted`, `EveryRequestEnds`, `EventuallyRecovers`:
liveness under fairness is out of the prover's reach).

## 5. Not modelled

* Text: wording of responses, JSON, MIME types, logging.
* `client.c`: `client_post_data`, which is reached only after the request is done
  and finds no callback, and `close_sockets`, which nothing calls.
* Tag reader: which of tag and score is posted, what libcurl makes of a post,
  `rfid_pn532_set_passive_activation_retries`, whose call is commented out, and a
  descriptor number that is used again for something else after
  `rfid_pn532_init_i2c` closed it. The heartbeat longrunner is one such post in a
  loop and keeps nothing.
* libcurl: a call ends, well or not. That none has a timeout, and that
  `curl_global_init` and `curl_global_cleanup` are called by several threads, are
  hazards without a model.
* Wi-Fi: the encryption, which is a part of the same commit as the SSID; requests
  that only read; the settings of the access point. Netlink's packing of messages
  and `nl80211.h`, the kernel's header (a fifth of all lines of the repository).
* Display, Kunio, PWM, temperature, SPI and system information: sequences of
  register, bus and sysfs writes without control of their own, called from the
  event loop only. What Kunio does to pins is calls of `gpio_write_and_close`,
  of which `Gpio` has every interleaving.
* Configuration, which is read once; failures of `malloc`, and of sysfs other
  than those named; descriptors leaked on error paths.

## 6. What is left

1. `Server`: many `Connection`s with one `ListenerPool`, where `ClientClose` is
   the free of a connection, refining both.
2. `TagReader` with `Panel`, for the score and mode that a post reads in two
   steps while the buttons change them.
3. The sequence of Kunio over SPI and four pins, and the reads of the display,
   for boards on which its pins are not buttons.
