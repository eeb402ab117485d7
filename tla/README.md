# linuxAP-eh: a verification development

linuxAP-eh turns a WL11000, Soekris or ITX board into a wireless access point.
The repository holds the programs written for it (a flash writer, a CGI
configuration program, network block device tools), the shell scripts of its root
file system, and patches and build files for third-party software. The modules in
this directory model the first kind and, of the scripts, those that store the configuration, install new software and run through the run levels. Paths below are relative to `src/`.

## 1. Inventory

| Component | State | Operations | Talks to |
|---|---|---|---|
| **update** (`aptools/update.c`) | the flash, a RAM copy of the configuration section, position of the erase and copy loops | `get_config`, `region_erase`, `copy`, restore, reboot | run by `reflash`, `00flash`, `20.configfs`; MTD driver |
| **nbd-server session** (`nbd/nbd-server.c`) | request stream, cached file offset `lastpoint`, page map and diff file of `-c`, the exported files | read and write requests, disconnect, refusals, idle alarm | kernel nbd driver of the client over TCP; the export |
| **nbd-server listener** | listening socket, children, `nbd_server.allow` | accept, authorise, fork | sessions share the export |
| **nbd-client** | socket, kernel device | negotiation, `ioctl`s, `-d` | kernel nbd driver, server |
| **gznbd** | a compressed file, a socket pair, the last request and the reply's error | request loop in the parent, device in the child | kernel nbd driver |
| **configuration store** (`rc.d/S/20.configfs`, `bin/save_config`, `cgi/setup.c` `save_config`) | `/etc/rw` (RAM), `/tmp/etc.tar`, `/tmp/etc.tar.gz`, the last-but-one 16K of the flash | commit, clear, start (at boot), stop, restart | `update`, `dd`, `reboot`; the CGI's SAVE |
| **reflash**, **00flash** | `/tmp/flash`, `/tmp/flash.md5`, retry counter | download, verify, exec `update` | tftp server, `update` |
| **CGI** (`cgi/*.c`) | files of `/etc/rw`; one process per request | dispatch; option, menu, write and refresh of each page; SAVE | configuration store, init scripts |
| **boot and run levels** (`etc/rc`, `rc.d/init.d/*`) | run level, running services, interfaces | start/stop/restart of a service, primary and secondary network setup | everything above |
| **watchdog, DHCP hook** (`iw_watchdog`, `udhcpc/default.script`) | lease file, addresses | poll the card, reboot; bind, renew, deconfig | drivers, init scripts |
| **wrflash**, **create_config_block**, **build_flash.pl** | image files | lay out and write flash images | run on the build host or once |

What is hard in it, component by component (PROJECT.json, "hazards", gives the lines):

* *update* erases a device whose regions have blocks of different sizes, may fail or
  lose power between any two steps, and holds the only copy of the configuration in
  RAM meanwhile. Correct: nothing outside the range changes; success or a reboot means
  a complete image; the configuration survives `-s`; the loop ends.
* *nbd-server* skips seeks on the strength of a remembered offset, across requests that
  fail; consumes a stream in which a payload follows some headers; gives out diff pages
  before the operations that fill them succeed. Correct: reads return the last successful
  write; replies carry the right handle, in order, for every request; no request
  fills more than the buffer; the process does not outlive its client.
* *listener and nbd-client*: one process per connection on the same files, names in globals that the
  children inherit, children nobody waits for, reads of the negotiation that take what there is. Correct:
  a session serves its own client's file and shows it nobody else's writes; a device that works
  has the size of the export; a client is never left waiting.
* *gznbd*: goes on after a request it could not read, with the old one; never clears an error; does not
  consume payloads. Correct: data answers the read it belongs to; errors have a cause; the parent ends with the device.
* *configuration store*: several sessions share two names in `/tmp`, edits interleave with
  tar, and there is a window in which the flash holds neither the old nor the new
  configuration. Correct: a save that was not disturbed is what the next boot loads.
* *reflash*: a retry loop around a download and a check. Correct: only a verified image
  is flashed; the script gets to `update` when the server has a whole release.
* *wrflash*: erases the blocks of a card as the image reaches them, piece by piece. Correct: no erase destroys what was written,
  and nothing outside the blocks of the image changes.
* *CGI*: files empty between being opened and being written, forms that travel through the browser with hidden
  fields, readers that do not survive a keyword they do not know. Correct: OK changes what the user changed and nothing
  else; a menu can read what a writer wrote; the access point boots after SAVE.
* *run levels*: two runs of `/etc/rc`, DHCP clients in the background and the CGI act on interfaces, lease file and configuration at
  the same time, and each script decides by what these hold at its moment. Correct: level 1 leaves nothing at work that disturbs a
  transfer; no interface is left without its address because a server is silent; a dead card restarts the access point.

## 2. Plan

Order of work, most important behaviour first:

1. `FlashUpdate` over `NorFlash`, with proofs: done.
2. `NbdServer`, with proofs: done.
3. `ConfigStore`, with proofs: done.
4. `CgiForms` and `CgiSetup`, with proofs: done.
5. `NbdConnect` (listener, several sessions on one export, nbd-client), with proofs: done.
6. `GzNbd`, with proofs: done.
7. `WrFlash`, `Reflash` and `Install`, which composes them, with proofs: done.
8. `RunLevel` (run levels 1 to 4, DHCP leases, watchdog), with proofs: done.
9. `FlashLayout`, the arithmetic of image layouts as operators: not done (the layouts are computed on the build host).

Every invariant and every action property that a run checks is also a theorem (section 6); the liveness properties are model-checked only.

## 3. What is modelled

### FlashUpdate, NorFlash (`aptools/update.c`)

The unit of address is one copy buffer. `cmd` is the command line, `pc` the place in
`main`, `region_erase` or `copy`; `caller` tells the two calls of `region_erase` apart;
`offset`, `copied` and `config` are the variables of those names or roles; `flash` maps a cell
to what it held before (`Old`), a unit of the image (`Img`), `Blank` or `Garbage`.
One action per system call that matters: `Open`, `GetConfig`, `RegionErase` (the ioctls
and the safety checks), `EraseStep` (one round of the loop, with the check "in middle of
erase"), `CopySeek`, `CopyBuffer`, `WriteConfig`, `Finish`. Each may fail as the code provides, at most
`MaxFaults` times; an erase that fails leaves its block as it was or undefined; `PowerLoss` can happen
anywhere and spoils the block or buffer being worked on. `Programmed` is the physics
of NOR flash: writing to anything but a blank cell gives garbage.

`NorFlash` is the abstract specification, what a program may do to the chip: erase whole blocks of the
area it was asked to rewrite, program only blank cells of it. `NorDiscipline` says that update implements it
(the area is the requested range, and the section with `-s`).

### NbdServer (`nbd/nbd-server.c`)

One connection after the negotiation. Addresses and lengths are in the client's blocks.
`sock` is what the client has sent and the server has not read, headers and payloads as
items; `lastpoint`, `difmap`, `difffilelen`, `request` are the code's; `pos` is the real offset of each
descriptor, which `lastpoint` is meant to mirror; `file` and `diff` are the contents of the
export and of the diff file (sparse: a hole reads as zeros). `dev` is a history variable:
what a client that has seen the replies so far may expect each block to hold. Actions: the client (external: a
kernel driver that pipelines, disconnects or vanishes with the end of what it sent), `ReadHeader`
with all the checks of `mainloop` in order, `ReadPayload`, `ReadFailed`, `Alarm`, `PlainRead`,
`PlainWrite`, the four cases of a page under `-c`, `Reply`, `ReplyFailed`. A request under `-c` is
served one page a step. A read is put behind the room for the reply (`ReplySize`, a block), which the check of its length does not count; when the
two are more than the buffer, `Overrun` is possible beside the read: either what lies behind the buffer is not used any more, and the read goes on,
or it is, and the behaviour is not followed beyond that (the place "overrun").

`maybeseek` appears as `SeekTo`: where the next read or write really happens.

Left out: the negotiation (in NbdConnect), 32-bit wrap of diff offsets (at 4 GB), exports whose size is not
a multiple of the page size under `-c`, a `from + len` beyond 64 bits.

### ConfigStore (`20.configfs`, `save_config`, `cgi/setup.c`)

`rw` is `/etc/rw`, `tar` and `gz` the two files in `/tmp`, `section` the blocks of the flash. A
session is one process running the script, in steps of one command (`RemoveOld`, `OpenTar`, `Pack` for each
file tar reads, `Gzip`, `Erase` for each block, `DdOpen`, `Dd` for each block, `Cleanup`, `Reboot`); sessions
of the CGI (`Web`) reboot at the end. The user edits files at any time. A tar file that a second session
truncates is spoiled, gzip does not overwrite, `dd` fails when the archive is gone, and the script ignores all of it, as the code
does. `stop`, `start` and `restart` on a running system are sessions too (`Stop`, `LoadDefaults`, `DdIn`, `Unpack`,
`Drop`): start puts what it reads from the flash in the very file that commit writes and reads. `Boot` unpacks the defaults and then the archive, if all its blocks are there.
`kept` is history: the configuration of a save that ran alone, without an edit or a failure,
and fits.

tar, gzip, dd and the kernel are not in the repository; they are modelled from how the
script uses them.

### CgiForms, CgiSetup (`cgi/*.c`)

`CgiForms` holds the pages as operators. A file is a sequence of tokens (a keyword, the letters of a value, the end of a
line), so that a line cut off in the middle is what it is in the code. `ReadCfg`, `ValueAt`, `WholeLines` and `Readable` are `read_cfg`, its helpers, what `readline`
takes for a line, and the lines that `argvindex` finds in the table; `CipeRead` is `read_peer`. For each page, *P*`Does` is
its dispatcher, *P*`Option` its button, *P*`Menu` the fields of the form for the values read (with what a
`<select>` makes of a value that is none of its options, `Sel`), *P*`Write` the file for the form that comes back.

`CgiSetup` runs them. `proc[b]` is the process that the web server starts for browser `b`: it takes the request
(`Click`, `Handler`, `Cfg` are the decisions of `main`), shows a menu (`ShowTop`, `ShowPage`, `ShowStatus`), writes
(`OpenFile`, which truncates; `Flush`, which is `fclose`; `WriteText` for the pages without truncation; `OpenFails`, `FlushFails`), or saves and
reboots (`SaveConfig`, `Reboot`). `screen[b]` is the form in the browser, which holds the values the page had
when it was opened; a user changes fields (`Enter`, `EnterName`), lets a script send the form (`Choose`, `ChooseMode`) or presses a
button. `archive` is what SAVE stored; how it gets into the flash is `ConfigStore`. Two history variables
say what the properties leave out: `raced` (files that two requests used at once, or whose write failed), `overtaken` (files that
an older form overwrote, or saved from a form with a ":" in the name of the peer, where `read_peer` looks for the port); `config` is what the users have entered, value by value.

Left out: the HTML, comment lines of the files, `GO` (no form sends it), values with blanks around them or quotation marks in them, files edited by hand while the access
point runs. The files to begin with are a parameter, `Shipped`, and may hold lines their page does not know, as those of `RW.nbi` and `RW.casaf` do (`Foreign`).

### NbdConnect (`nbd/nbd-server.c`, `nbd/nbd-client.c`, `nbd/cliserv.h`)

`listener` is the accepting process with its globals `exportname2` and `clientname`; `session[c]` the child of connection `c`, which
inherits them; `device[c]` the client at the other end. `backlog`, `down`, `up` and `lost` are what the kernels hold: connections
not accepted, units under way, connections reset. Actions: `Accept`, `SetPeername`, `Fork`, `Refuse`, `ForkFails`,
`Restart` (a listener started again beside the children of the old one); `ServeConnection` (the export and the
diff file are opened), `Negotiate`, `ServeRequest`, `ReadFails`; `Connect`, `ReadWord` (any number of the units that have
arrived; a magic number or a size that was not read whole is whatever the stack held), `ClientFails`, `SetUp`,
`Disconnect` (`nbd-client -d`), `Closed`. The kernel driver (`Ask`, `Receive`) and the network (`Lose`) are external. A request is a
block, and a block a page of the diff file: the loop in detail is `NbdServer`. `own` is history: what each
client last wrote.

### GzNbd (`nbd/gznbd/gznbd.c`)

`parent` and `child` are the two processes, `requests` and `replies` the socket pair, `request` the struct that a short read leaves as it was, `error`
the reply's error, never cleared. `FindSize`, `Fork`, `ServeRequest` (read, the four checks, gzread) and `Reply` are
the parent's; `SetUp` and `Clear` the child's. The kernel (`Send`, `Receive`, `Stop`) is external. The payload of a write stays in the socket as a unit that
makes no header; all that follows it is read out of step (`Misaligned`).

### WrFlash (`alios/wrflash/wrflash.c`), Reflash (`bin/reflash`, `rc.d/6/00flash`), Install

`WrFlash` is the loop of `format_partition`: `Read` (a piece, which a pipe may deliver short), `EraseBlock`, `EraseFails` (up to
three times), `Decline` (the answer to "Confirm"), `Write`, `WriteFails`; `start_address`, `length`, `offset` (`erase.Offset`) and
`interrogate` are the code's variables, `cells` the card. Without `-f` the answer is read from the image itself, which is on standard input (108, 215): the two bytes behind the first piece are
seldom a "y" and the end of a line, which is `Decline`; that they are is left out. `Reflash` is the two scripts: `Start`, `Prep` (`tftp_prep`), `GetFlash`, `Receive`,
`GetSum` (tftp, whose exit status nobody looks at), `Link` (`-f`), `Verify` (with the loop's counter and the test that is a syntax error,
`TestFtfp`), then `Erase` and `Program` of `update`, reduced to what `CompleteImage` of `FlashUpdate` says of it. An image is two parts, so that
a release published between them gives a mixture. The tftp server's administrator (`Publish`, `CopyOn`), power, jumper and user are external.
`retries` is followed down to `1 - Attempts` only, below which the loop's test does not change; `failed` is history, the attempts that failed, up to `Attempts`.

`Install` composes the two: the card that `WrFlash` wrote is what `00flash` finds (`CardFiles` is substituted for the variable `card` of
`Reflash`), the flash it installs is what later runs of reflash replace. Left out: the services stopped by `/etc/rc 1`, `create_config_block`.

### RunLevel (`etc/rc`, `rc.d/init.d/*`, `udhcpc/default.script`, `iw_watchdog`)

`rc` holds two processes of `/etc/rc`, the one of `inittab` and one that a user or reflash starts, each with the scripts it has still to run: the
links of `links.tgz`, in the order of their numbers. A script is one action, except where udhcpc works for it:
`Ask` (the hook is called with deconfig), `Answered` (with bound), `Bound`, or `NoAnswer`; in between anybody else may run. The hook is
`default.script`: `Deconfigured`, `BeginLease` (it has set the address and begun the lease file), `EndLease` (the file is written). `clients` counts the udhcpc that stay in the background and
`Renew` or lose (`Expire`) their lease. `conf` and `lease` are the settings in force as sets; a service starts and stops only if they name it
(`Wanted`). `watchdogs` counts the iw_watchdog that are about to test the card (`WatchTest`) and that sleep (`WatchAgain`): a test can pass just before the card dies, a user can enter
another level meanwhile, and nothing stops them. A card has lost its rate or takes no channel; the first the script does not notice (`TestPasses`). A reboot leaves `Fresh`. udhcpc, the user and the card are external. `unseen` is
history: services that run and whose setting was gone for a moment.

Left out: wlan.i, br0.i, route, netswap, tweak and iptables (commands to the kernel without a decision about shared state), the stop and restart cases no level
uses, a card that is not plugged in, two hooks of the same interface at once.

## 4. What the runs check

| Run | Expect | Bounds |
|---|---|---|
| `update` | pass | 4 regions with blocks of 4, 2, 1 and 2 units (14 in all), 10 command lines, 2 failures |
| `update_save` | violation | the same |
| `nbd_plain` | pass | 3 blocks in a file of 4, `-r` and not, 10 kinds of request, a buffer of 2 with a reply of 1, 3 requests of which 2 are in flight, 1 failure |
| `nbd_cow` | pass | 2 files of 2 blocks, pages of 2, 8 kinds of request, 3 requests, 1 failure |
| `nbd_read_only_up`, `nbd_cow_reads` | violation | up to 8 blocks, 3 requests |
| `config_store` | pass | a web and a console session, 2 files of a block each, 3 runs of any kind, 1 edit, 1 failure, 1 power failure |
| `cgi` | pass | 2 browsers, one with every page and one with the kaodv page (the main menu is everyone's), the files of RW.example with the udhcpd.conf of RW.nbi, 2 forms sent, 1 changed field a form (one of 8, with a word that has a ":" in it), 1 failure |
| `nbd_connect` | pass | 2 connections, 3 hosts (one not in nbd_server.allow, one without a file), `-c` and not, room for 2 children or none, 1 request each, 1 failure or restart |
| `install` | pass | a card of 3 blocks of 4, read by 2, images of 3 and 5 from 3 places, `-e` or not; 2 releases, 1 published meanwhile, 3 runs of 00flash or reflash, 3 failed attempts counted, 1 failure of wrflash, 2 later, 1 power failure |
| `run_levels` | pass | boots in levels 2 and 3, level 1 to 4 entered once by hand, 2 configurations with 1 change, 2 kinds of DHCP answer, 1 renewal, expiry or failing card (of two kinds) |
| `gz_nbd` | pass | 3 blocks in the file, devices of 2, 3 and 4, room for 2 blocks in a reply, 5 kinds of request, 3 requests of which 2 are in flight, 1 failure |

**update.** `OutsideUntouched`: no failure or power loss changes a cell outside the range (and the section, with `-s`).
`NeverMidErase`: the checks on the two ends make the check inside the loop redundant, although the block size changes
from region to region. `ConfigKept`: with `-s` the old configuration is in the flash or in RAM at every moment of a run without failures.
`CompleteImage`: update reports success or reboots only over a complete image. `NorDiscipline`: the refinement.
`Terminates`: under weak fairness of the program's steps. Two failures are enough to combine a failure that is
only printed with one that ends the program. The requests cover ranges across regions, misaligned ends, ranges
beyond the device, an image shorter than the range and one longer than the device.

**nbd_plain.** `CacheExact`: when `lastpoint` names an offset, the descriptor is there. `ReadsCurrent`: a
block device. `AnswersInOrder`, `Answered`: every request gets one reply, with its
handle, in order, or the process ends. `EndsWithClient`: the process does
not outlive the connection. `TypeOK`: nothing but the data of a read that leaves no room for its reply passes the end of the buffer, and that by no more than the reply;
of a process that has overrun its buffer the liveness properties say nothing. The requests reach the largest that passes the check, with the reply beyond it. Three requests with one failure are what it takes to leave a wrong offset behind
(one request), to confirm it (a second), and to read through it (a third).
**nbd_cow.** The same server with `-c` and `-m`: `DiffMapSound` (no two pages share a page of the diff file, through first writes that fail half-way), `WrittenReadBack`.
`nbd_cow` counts one request in flight: pipelining is `nbd_plain`'s question. No run has `-m` without `-c`: there the one remembered offset stands for several files and misplaces
writes too, so that no property of the export holds.

**config_store.** `Durable`: the archive of an undisturbed save stays readable until the next erase begins, whatever
earlier races left in `/tmp` and through a power failure while the next save packs.
`BootRestores`: the next boot brings back exactly that configuration. `StartRestores`: so does a start or restart on the running
system that is alone with it. `SaveReboots`: the SAVE of the web always gets to
the reboot. Three runs let two saves race and a third one follow.

**cgi.** `EditsKept`: after any sequence of forms each value in a file is the one last entered, or the one that was there; the kaodv page,
whose two modes hide each other's fields, is where this is not obvious. `ReadableAsWritten`: a reader meets a keyword it does not survive only
in a file that two requests wrote at once (two writers of different lengths leave half a line), or that is as it was shipped: the udhcpd.conf of RW.nbi, taken here, has
lines its page does not know. Its menu therefore stops in this run, and the form is not reached; that it keeps what is entered is part of `EditsHold` (section 6). `BootsUnlessRaced`: a run level is stored
with every SAVE, except one that was pressed while another browser's OK had the file empty. Two forms are one OK under another
OK, a menu or a SAVE; a third adds no pair. The exceptions named in the properties (`raced`, `overtaken`, `Fixed`) are real
behaviours of the code, listed as hazards.

**nbd_connect.** `OwnExport`: with a file per client, a child serves the file of the machine at the other end, whatever was refused or reset between.
`SizeRight`: a short read in the negotiation can give a device a wrong size, but its kernel then meets the rest of the negotiation where it expects
a reply and gives up: a device that has completed a request has the right size. `CowPrivate`: with `-c` a
session shows its client what that client wrote, or the export as it was, through two sessions of one host, processes of an earlier server
and files left by lost connections. `Settled`: a client in the negotiation gets on or gets an error, also when the
server refuses, cannot fork, does not find the file, is restarted, or has ended.

**gz_nbd.** `DataMatches`, `AnswersInOrder`, `Answered`: the replies, as long as the file system is mounted read only and, for data, in any case.
`NoErrorWithoutCause`: nothing but a write, a disconnect, a request too long, missing blocks or a failure turns the sticky error on.
`ParentEnds`: the loop without an end is ended by SIGPIPE once the device is gone. A file shorter and one longer than the device, and a
last incomplete block, are among the parameters.

**install.** `CardAsAsked`: wrflash reports success only over the whole image (on a card that was blank or is erased), and however it ends
the rest of the card is as it was: with `-e` the rest of the blocks outside the image, without it everything. The images end on and off the boundary of a
block, start inside one and go beyond the card. `OnboardWhole`: what update is given is a release, whole: neither a release published in the middle of a download, nor a
transfer that fails, nor files of an earlier run, nor a damaged card gets past the check. `TriesAgain`: reflash by tftp gets to
update, or loses power, or has failed three times, as often as its message "attempt = $retries" and the limit in its loop say; it does not give up early. It never gives up at
all, which is no property (see below).

**run_levels.** `SingleStops`: when level 1 has been entered with no other `/etc/rc` at work, no service runs, except one whose setting was gone for a
moment. `SingleKeepsAddress`: from then on no hook begins, so no address changes, although leases were being renewed and expired: the transfer of reflash
is safe from them. `ComesUp`: an interface with a static address beside DHCP gets one or the other. `WatchReboots`: where iw_watch is at work or still to be
run with a file for wlan0, a card that takes no channel restarts the access point, or something else does, whether the watchdog was asleep, had just tested the card or had not been started. Two processes, one change and one event are a pair of actors that disturb each other with a third in between; the levels 2 and 4
differ only in which interface is primary, and both are entered by hand.

### Disagreements found

* `update_save`: `main` returns when `copy` fails (update.c:393), before the section it saved is put back: one read or write of the image that fails
  is enough; `reflash` describes `-s` as "Save (do not overwrite) config data".
* `nbd_read_only_up`: a refused write's payload stays in the stream and ends the connection; the manual page says the connection stays up.
* `nbd_cow_reads`: with `-c`, `lastpoint += len` is applied to an offset that already belongs to the last page; reading blocks
  0-3 and then block 6 (pages of two) returns block 4.

Noticed, without a run of its own:

* nbd-server refuses what is longer than its buffer ("Request too big!", nbd-server.c:451-452), but a read within 16 bytes of the buffer's size, which it takes, is put behind
  the reply's header in that buffer (481, 490-491) and passes its end by up to 16 bytes. `TypeOK` bounds it.
* Two of the three configurations in the repository hold lines their pages do not survive: `logaddr=` and `swaphost=` (RW.nbi/netcfg:23, 26; RW.casaf/netcfg:21, 24; not in
  network.c:20-38) and the `opt` lines of RW.nbi/udhcpd.conf:6, 8 (not in udhcpd.c:18-29). README.CONFIGURE:4 suggests vi for these files. The menu of such a file fails at once, and
  `ReadableAsWritten` excepts it.
* reflash means to stop after three attempts (`while [ $retries -lt 4 ]`, 85; "aborting", 108; "Verification Failed, rebooting in 5 seconds!", 119), but counts away from the limit (114),
  and the test at 106 lacks a blank and names a variable that is not set. By tftp it tries for ever; with `-f` and an image that does not match its sum it checks the same two files for ever.
* iw_watchdog's comment (12-14) names a missing rate as a symptom of a dead card, but the `&` behind that test (15) puts it into the background, and nothing looks at its result.

Also: a peer's name that has a ":" in it comes back cut in two (cipe.c:143-146); two saves at once can leave the section of the configuration blank, and the reboot then loads the defaults (one removes
the archive the other has packed), although setup.c:134 promises "save configuration changes and reboot";
iw_watch's stop case kills nothing, as it loops over a variable that
nobody sets, and it reads `iw_watch_if` where the CGI writes `iw_watchdog_if`; two interfaces with DHCP overwrite one lease file; the diff file of `-c` is removed only by a disconnect request, although nbd-server.1.sgml:154 says "when the connection
is closed"; wrflash erases block by block between the writes, although its README says of `-e` "before writing any data".

## 5. Fairness

`update`: weak fairness of its steps without a failure; it is one process that never waits for another (a power failure is not
fair and ends the behaviour). `nbd-server`: weak fairness of the server's steps; none of the client, the alarm or the
network. `ConfigStore`: weak fairness of each session's steps, separate processes of one scheduler,
and of the boot of a machine that is down; none of edits, new sessions or power failures. `NbdConnect`: weak fairness of the listener, of
every child, and of a client's reads, which are processes of their own; none of connecting, requests, resets, restarts. `GzNbd`: weak fairness of the
parent, of the child's last steps and of the kernel's reading of replies; none of requests or of taking the device down. `Install`: weak fairness of the scripts and of the
administrator's copying; transfers fail at most `MaxUpdateFaults` times. `RunLevel`: weak fairness of the
two processes, of the hooks and of the watchdog's test and its sleep; `udhcpc -n` ends by itself, so a step of the script that waits for it is the script's; none of users, renewals or failures. `CgiSetup` has
no liveness property and no fairness: a request may be abandoned at any moment.

## 6. What is proved

Each of the following is for every value of the constants, and every bound on failures, requests and runs among them.
Assumptions on constants are the named ASSUMEs of the modules; TLC evaluates them in every run.

**FlashUpdateProofs.** `TypeCorrect`, `MidEraseUnreachable`, `OutsideIsSafe`: the inductive invariant is `UpdateInv`, the type
invariant, `LoopInv` (while the loop runs both ends and the offset are boundaries and the
offset lies between the ends; the second call happens only with `-s`) and
`OutsideUntouched` itself. `LoopInv` is needed because the erase of a block stays in the range only if the next
boundary after a boundary below the end is not beyond the end: lemma `BlockStep`, from the
assumptions that regions tile the device in order (`RegionsAssumption`) and the arithmetic of multiples
(`Multiple`, `ProductMod`, `OneBlockLess`).
`SuccessMeansComplete`, `ConfigIsKept`: `ContentInv` adds what the flash holds at each place of the program: blank as far as the
loop has come, the image as far as copy has come (`ImageInv`), and the old section in the flash or in `config` (`SectionInv`). `KeepsDiscipline` is the refinement
of `NorFlash`, a step at a time. It is stated for a request that is `Suited`: the image fits its range, or the range ends with the device, where the driver
refuses the rest. The code does not compare the two, and without this it programs cells behind the range that nobody erased.

**NbdServerProofs.** Under `Plain` (one file, no `-c`) `CacheIsExact` and `ReadsAreCurrent`. The inductive invariant is `PlainInv`:
a request being served is valid; `lastpoint` is -1 or the descriptor's offset; the buffer of a served request agrees with
the file; the history agrees with the file except in the blocks of a write not yet answered. The lemmas `HeaderStep` to
`ReplyStep` are one per action. `Plain` is needed: without it both properties fail. In every mode: `AnswersAreInOrder` (`OrderInv`: the handles
in the socket are the next ones in order; `PairInv`: a payload stands behind its write and nowhere else), `TypesAreKept` and `DiffMapIsSound`
(`TypeInv`; what is read into the buffer is no longer than the request, and with it the overrun no longer than the reply). That no page of the diff file is beyond its end comes from counting: `difffilelen` is the number of mapped pages, and one page that
is not mapped is one less than all. Under `CopyOnWrite`, `WrittenIsReadBack`: by `CowInv` every block the history knows is in the page of the diff file that the map gives
it, or is touched by the request at work.

**ConfigStoreProofs.** `SavedIsDurable`, `BootBringsBack`, `StartBringsBack` (and `StoreTypes`, the types). `StoreInv` says for each
session that runs alone and undisturbed what `/etc/rw`, the files in `/tmp` and the section hold at the place where its script is (`Stage`, `Holds`), that a
session counted as alone is (`OnlyAlone`), and that none runs while the system is down. A session that another one disturbs loses the claim to be alone or quiet, and
nothing is said of it: the theorem needs no bound on how many there are.

**NbdConnectProofs.** `ServesItsClient`, `SizeIsRight`, `WritesArePrivate`. `ConnInv` has a part for each question. `PlaceInv`: a connection is
in the backlog, with the listener or with its process, in one of them only, so a fork never replaces a session. `NameInv`: after set_peername the listener's
globals name the connection it holds. `PidInv`: the number of a process that runs is nobody else's, which makes the names of the diff files differ; it follows from who is waited for. `CowInv`: what
the page map leads to is what the client wrote, and no two blocks share a page. `StreamInv`: how many units of the negotiation are still under way in each phase
(`Left`); a size that was not read whole leaves one more than is asked for, so that the kernel meets it. From `RoomAssumption` (0 is no process number) and `NumberAssumption`.

**GzNbdProofs.** `ReplyFits`, `DataIsOfItsRequest`, `ErrorHasCause`, `ReadsAnsweredInOrder`. By `GzInv` each unit in the socket, the struct `request` and each reply
mean what the kernel asked under that handle (`UnitInv`), the sticky error has a cause, the handles the kernel waits for are in the order of asking, and as long as
only reads were asked they are exactly those of the replies, of the request at work and of the requests in the socket (`OrderInv`).

**InstallProofs**, first wrflash: `CardIsAsAsked` (`WrSpec => []CardAsAsked`), for every card, block size, image, start address and size of the pieces.
The inductive invariant is `WrInv`: the types (`Typed`); `start_address` stays within the image and a piece within
what is left of it (`Progress`); the erase began with the block of the start and is ahead of every write (`Ahead`); behind
`start_address` is the image (`Placed`) and before it, as far as the card is erased, or was blank, the cells are blank (`Prepared`); and
`OthersUntouched`. `Ahead` is why no erase reaches a cell already written, `Prepared` why no cell is programmed twice. From `WrFlashAssumption` (a card of whole blocks) and the arithmetic of blocks (`Floor`, `NextBlock`, `BlockOfCell`).
Then the steps of the scripts, and the composition: `FlashHoldsARelease` (`Spec => []OnboardWhole`) and
`CardStaysAsAsked` (`Spec => []CardAsAsked`, since `Spec` implements `WrSpec`). The inductive invariant is `InstallInv`: while update works,
what it reads (`Found`) still matches its sum, and once the first part is programmed it is the first part of that image (`Verified`); without
power no script runs (`Off`); while the card is written the access point is off (`Waiting`), so no script sees the card change. `Verified` needs
that the server's administrator and the network only touch `/tmp` through the script, and that the user leaves the image of `-f` alone while
update reads it, the guard of `NewLocal`. From `InstallAssumption`.

**RunLevelProofs.** `SingleUserStops`, `SingleUserKeepsAddress`. By `RunInv` a run of level 1 that began alone stays alone (the other process has nothing left to
run, `AloneInv`), and when it has still the last of its five scripts to run, from the k-th on, what the others stop is stopped and stays so (`StoppedTo`), but for a service whose setting was gone at the moment its script ran.

**CgiSetupProofs.** `BootsHolds` (`Spec => []BootsUnlessRaced`), `ReadableHolds` (`Spec => []ReadableAsWritten`), `EditsHold` (`Spec => []EditsKept`)
and `TypesHold`. The first part of the module is about files: what the reader finds in lines that the writer has put together (`OutConfigsHolds`, `ValueFound`,
`PageReadsBack`, `PageReadable`), for each page with its own keywords, choices and hidden fields. Where such a fact is about a sequence of any length, the proof takes
the least index at which it fails, or the greatest line with a keyword (`Least`, `Greatest`, from the library's well-founded relations), since the induction theorems are out of reach. The
second part is the inductive invariant `CgiInv`:

* `ShapeInv`: files are sequences of tokens; a screen shows a page its browser can reach, with the fields of that page and no line end in
  a text field; a process that writes has a page with a file. Every other part needs it.
* `BootInv`: unless raced, there is a run level in what SAVE stored, and in `/etc/rw` or with the one process that has the file open.
* `ReadInv`: no file that is not raced, on disk or stored, makes its menu fail (`Reads`), unless no page has written it and it is `Foreign`, and a file that is open for writing is empty and has one writer (`Emptied`), so that
  what the writer leaves is one writer's lines.
* `KeptInv`: a file, on disk or stored, that nothing disturbed reads back as it was entered (`KeptFiles`, `KeptFlash`). Alone this is not inductive, as a form carries the values of all fields
  through the browser: in a form that is not older than its file each field its user left alone holds what was entered (`KeptForms`, also through
  hidden fields and changes of mode), and what is about to be written is no older form, and every other form for that file is new or marked as older (`KeptSaves`).

From the assumptions on names and words (a file is not called `__new`, the choice of a new one; a text field sends no line end) and `ShippedAssumption`: the files
of the image have a run level, and those that a page can choose have names. Whether their menus can read them is left open. The theorem `EditsHold` turned up the peer with a ":" in it, which the run had not tried: OK stores it, and the next menu shows
the rest of it as the port. It now counts as `overtaken`, and the run types such a word.

Only model-checked: liveness under fairness, which is beyond the proof system (`Terminates`, `Answered` of both servers, `EndsWithClient`, `SaveReboots`,
`Settled`, `ParentEnds`, `TriesAgain`, `ComesUp`, `WatchReboots`). The `TypeOK` of `ConfigStore`, `CgiSetup`, `NbdConnect`, `Install` and `RunLevel`
says what the variables hold; no run counts it among its properties. For `CgiSetup` it is the theorem `TypesHold`, for `ConfigStore` `StoreTypes`; `ServerTypes` and `ClientTypes`, `Typed` and `RunTypes` are
the corresponding parts of the invariants above.

## 7. Not modelled

create_config_block (five fields written to a file), build_flash.pl, the scripts named under RunLevel. Outside it: `conf/lxdialog` and the
build system (vendored or run on the build host), `alios` (a third-party boot loader in
assembler), `patches` (to software whose source is not here), `cgi-old` and `Image_final` (an older and a built copy).
