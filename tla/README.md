# Verification of the OpenBlocks device software

This directory models the programs that the OpenBlocks firmware kit
(`src/build_ramdisk/files`) puts on a device, in TLA+, checks them with TLC and
proves part of what is checked with TLAPS.

The kit itself is a set of build scripts that compile kernels and pack
ramdisks.  What runs on a device, and has to survive power cuts, worn flash,
slow modems and impatient users, is a few dozen small C programs and shell
scripts.  Those are the subject here.

## 1. Inventory

| Component | Source (under `src/build_ramdisk/`) | State it keeps | Operations | What is hard | What makes it correct |
|---|---|---|---|---|---|
| Firmware update | `files/flashcfg.sh` `-f` | the firmware partition (kernel, ramdisk, release file), mounts, page cache | check, mount, remove, copy, verify, release, umount | kill and power cut anywhere, write-back, a retry loop, a failed mount | the release file never names what is not there; a reported success survives a power cut |
| Sector writer | `files/flashcfg.c` save, kernel, delete | blocks of an MTD partition, four running offsets, a retry counter | bad block test, erase, write, verify, retry, delete, read back | bad blocks, partial last sector, retries, worn blocks, crash | a save that reports success can be restored; what is verified stays |
| U-Boot environment | `files/flashcfg.c` `-c`, `-E`, `-p` | two copies with flag or counter and CRC | choose a source, edit, write area 1, write area 2 | power cut between and in the two writes | the machine always finds an environment to boot with |
| Power daemon | `files/obsiot-power.c`, its unit and its init script | countdown, charging, battery | a pass each ten seconds | flickering power, failing I2C and GPIO, its own SIGCHLD, its restart in a loss | the command runs when it is due and only then |
| Push switch and LED daemon, A series | `files/pshd.c`, `files/runled.c` | queue of input events, ticks held, three LEDs, `/var/run/segled.pid` | a tick each 200 ms; signal to the LED daemon | two processes on the same LEDs, stale pid, delayed events | only a long press stops the machine |
| Push switch, IoT | `files/pshd_bx1.c`, `files/runled_bx1.c` | three nested waits in epoll on one GPIO, `/tmp/.pshd` | wait for an edge or a timeout | an edge between two waits, bounces, an interrupted wait | a hold runs the command, and anything shorter does not |
| Saved settings | `files/flashcfg.sh` `-s -S -e -b`, `etc.*/init.d/openblocks-setup` | archives of `/etc` and of user files on a partition, overlay at boot | save, delete, backup, restore | crash in the middle, restore of a partial archive | after a boot the settings are those of the last complete save |
| Modem | `files/atcmd.c`, `files/nitz.sh`, `files/chksignal.sh`, `files/obsiot-modem.sh` | modem power, the tty with its unread answers, system clock and RTC | power on and off, reset, query, set the clock | retry loops, late answers, two scripts on one tty, a modem that falls | the clock is set from a fresh answer to its own query, or not at all |
| Watchdog | `files/wd-keepalive.c`, `obstool-image/template-wd-keepalive`, `files/wdt-keep.c` | the watchdog timer, a flag of the signal handler, the systemd service | arm, keep alive, disarm | signal before the loop, interval against timeout, restart of the service | a live system is not reset, a dead one is |
| Thermal control | `files/runled.c` `ctrl_cpu` | previous temperature, cores on line | a pass each interval | hysteresis | cores come back when it is cool |
| RTC | `files/obs-hwclock.c`, `files/hwclock.sh` | RTC registers, alarm | read, set, alarm | bit order, register writes one at a time | the time set is the time read |
| Interface names | `files/obs-nicrename.sh` | names of the network interfaces | two-phase rename | a name that is taken | each interface ends with its own name |
| Installers | `files/instfirm.sh`, `files/install-firmware.sh`, `files/flashcfg-rootfs.sh`, `files/update_ubootenv-*.sh` | partitions | dd, cp, verify | interruption | as the firmware update |
| Small tools | `files/obs-util.c`, `files/kosanu.c`, `files/bpv-hash.c`, `files/wav-play.c`, `files/setup-gpio.sh`, `files/obs-macaddr.sh`, `files/obs-createkeys.sh`, `files/obsvx1-gpio.c`, `files/obsvx1-modem.c`, `files/obsfx1-modem.c` | none between runs | one call | little | I/O only |
| Build kit | `build_ramdisk/*.sh`, `uboot-image`, `release`, `isofiles`, `tool` | none on a device | build | none that a model reaches | - |
| Vendored code | `hostapd-2.5`, `rtl88*`, `rtlwifi_new`, `mmc-utils`, `cp210xmanufacturing`, firmware blobs, `extradebs` | - | - | - | not this project's code |

How they meet: `flashcfg.sh` is the front end the user calls.  On eMMC models it
does the work itself; on MTD models it hands over to the C program `flashcfg`,
whose partitions the restore script of the next boot reads (`get_mtdfile`) and
whose environment U-Boot reads.  `pshd` and `runled` are separate daemons that
share the LEDs and one pid file.  `obsiot-power` runs a command, by default
`poweroff`.  On the IoT models `pshd_bx1` runs the command that another program
has left in `/tmp/.pshd`, by which the machine may go down; that stops
`wd-keepalive`, which must then disarm the watchdog.  `nitz.sh` and
`chksignal.sh` call `atcmd` on the same tty, and nothing keeps them apart: the
lock file of `chksignal.sh` is only against a second `chksignal.sh`.

## 2. Plan

In order of what a mistake would cost:

1. `FirmwareUpdate` with its proofs (done): a device that cannot boot.
2. `FlashProg` over the abstract `ArchiveStore`, `UbootEnv` over the abstract
   `EnvRegister`, both with refinement proofs (done): lost settings, a device
   that boots the wrong system.
3. `PowerDaemon` with its proofs (done).
4. `PushSwitch` with its proofs (done): the A series switch with the LED daemon.
5. `SaveRestore` over the abstract `SettingsStore` with its refinement proof
   (done): settings survive a boot.
6. `SwitchIoT` and `Watchdog`, composed in `IotMachine`, with proofs (done): the
   switch that takes the machine down and the watchdog that must not bring it
   back in the middle.
7. `NetworkTime` with its proofs (done): the clock from the modem, which answers
   late and has a second user.
8. What could follow: `-b` and the way of the MTD models in `SaveRestore`, with
   `ArchiveStore` as its storage; the two-phase
   rename of the network interfaces; the hysteresis of the thermal control.

An abstract specification is stated for each storage: `SettingsStore` for the
settings, `ArchiveStore` for an archive in an MTD partition, `EnvRegister` for the
U-Boot environment.  Each is a property of a run and the subject of a theorem.

## 3. Modules

### `FirmwareUpdate` - `flashcfg.sh` lines 38-164 and 594-786

One action per command of the script that can be interrupted: `CheckSource`
(the MD5 of the ramdisk, then of the kernel), `Mount`, three `Remove`s,
`CopyBegin` and `CopyEnd` (cp truncates before it writes), `Verify` (the end of
the loop body: `break`, next attempt, or the test of the counter that follows
the loop), `CopyRelease`, `Umount`.  `Kill`, `WriteBack`, `Reboot` and
`PowerCut` are the environment.

`fs["emmc"]` is what the running system reads, `disk` what is on the medium:
the MD5 of a copy is computed from the page cache.  `fs["tmp"]` is the same
directory when the mount has failed, which the script does not notice.
`leaked` says that an earlier run was killed or left by `exit 1`, neither of
which unmounts; the later umount is then not the last one and forces nothing
out.  A package is any record of the two images and the release file, right,
corrupt or missing, with an MD5 file that lists the images, does not, or is
absent (`Md5Kinds`).  `Arm` selects the branch of lines 710-786, whose kernel
is not removed before it is replaced.

`promised` and `torn` are history variables: what a successful run has put on
the medium, and whether a power cut has lost writes since.

### `FlashProg` - `flashcfg.c` lines 1484-1708, 1832-1921, 2145-2226

The writer loop, with the positions of the source (`erase.start` is `epos`, the
file offsets of `ofd` and `vfd` are `opos` and `vpos`), in half blocks, so that
the partial last sector exists.  `CheckBlock`, `Erase`, `EraseError`, `Write`,
`Verify` are the body between `RETRY:` and the end of the loop; `Read` is its
condition.  `DeleteBlock` is one turn of the loop of `flash_delete_param`.
`Restores` is what `get_mtdfile` would read, `CutIsPrefix` what it finds of a
save that was cut off or failed.  A write may silently go wrong, and `Crash` may
happen between any two steps.  `chip` is chosen once: NOR as in
the AX3, NAND as in the A6 and A7, each possibly worn.

`ArchiveStore` says what all of this comes to, without offsets, retries, half
blocks or bad block tests: `held`, the places from which a restore reads the first
sectors of the archive, grows by one sector in turn (`Attempt`), which is there
or not until it is verified (`Confirm`); an end with an error or a crash takes
nothing away but that one (`Fail`); `Succeed` needs all the sectors, or all the
room taken.  A deletion takes all or nothing away.  The mapping: `held` is
`Readable`, what `get_mtdfile` would find, `sure` the good blocks behind
`erase.start`, `room` the good blocks.

### `UbootEnv` - `flashcfg.c` lines 548-972 and 2647-2802

`Call` is everything up to the first write: reading both areas, choosing
`p_prev` and `p_now` (`NowArea`), editing (`Edited`), flags (`Obsolete`).
`WriteBegin` and `WriteEnd` are one call of `flash_prog_bootdev`; in between the
area is torn, with or without its flag.  `Selected` is U-Boot's choice, from how
the flag and counter are used.  `scheme` is chosen once: flags on the AX3,
counters on the A6 and A7.  `prior`, the flash before the last call, is a history
variable.  `WriteRefused` is a failure before anything is erased.  The partition
has good blocks only, and the ioctl that asks for bad ones works (section 7).

`EnvRegister` is one register: `boots`, what the machine would start with.  A
change from two whole copies makes it `new`, and in between it is as `kind` says:
`"steady"` (the AX3, area 2 active) never anything but the old or the new one;
`"gap"` (the AX3, area 1 active) the spare copy for a while, but the new one stays
once it is there; `"loose"` (counters) one of the three, in any order, since a
change may be without effect there (section 7).  A success on the AX3 means the
new one, even from a damaged copy.  Neither of the weaker kinds can be left
out: TLC refutes the mapping with `"steady"` for all flags, or `"gap"` for
counters.

### `PowerDaemon` - `obsiot-power.c` lines 113-566

One pass of `chk_power` is `ReadInput` and `Act`; `Pass` is ten seconds without
the daemon.  `Counted`, `NextCount`, `Up`, `LowBattery` are the countdown with
its special values 0 and -1.  Power, battery, I2C and GPIO may change or fail at
every pass, and a failing GPIO reads either way: a failing `open` leaves 0, no
power; a failing `read` leaves `'\0' - '0'`, which is not 0 and counts as power.

`die()` is installed for SIGCHLD, so that `system()` ends the daemon when its
child has been reaped: `CommandRuns` leads to `dead` unless the command is
`poweroff` and stops the machine, which may fail.  `CommandFails` is a `fork`
that fails in `system()`: no SIGCHLD, and the daemon goes on.  `Starters` is what
may have started it: the systemd unit, whose `Restart=always` brings it back
(`Restart`) with a count of -1, in the middle of whatever loss there is, until
systemd gives up a unit that ends too often (`GiveUp`); or the script of
`/etc/init.d`, which starts it once.  `lost` and `down` keep apart the passes that
a daemon has read as without power and those the loss has lasted.

### `PushSwitch` - `pshd.c` lines 124-312, `runled.c` lines 110, 331-465 and 552-577

`Tick` is one turn of `watch_pushsw`, five times a second: `ReadEvent` takes at
most one event from the queue of the input device (an edge is two events, the
key and its SYN), and what is counted is the state after that event, not that
of the switch.  `Released`, `Held`, `Flashed` and `KillRunled` are the branches
of the turn.  `runled` is a second process that writes the same three LEDs
(`RunledWrite`), dies by the signal some time after it was sent (`RunledDies`)
or by itself (`RunledFails`), and can be started again in the middle
(`RunledStart`, `RunledTruncates`, `RunledPid`: child, pid file and pid come one
after the other).  `longest` and `due` are history variables: the longest press
so far, and what a press that pshd could follow has earned.

### `SaveRestore` over `SettingsStore` - `flashcfg.sh` lines 416-535 and 563-580, `openblocks-setup` lines 65-92 and 309-322

One action per command that can be interrupted: `Mount`, `TarBegin` and `TarEnd`
(tar truncates the archive it replaces), `Remove`, `Umount`, and the `rm -rf` of
the mount point, file by file (`RemoveFile`, `RemoveWorkDir`).  `busy` says that
another process will be using the partition when this call unmounts it: the
`umount` then fails, which the script does not notice, and `rm -rf` removes the
archives of both parts from the partition it finds there (`AfterUmount`).
As in `FirmwareUpdate`, `fs` is what the running system sees and `disk` the
medium; `at = "tmp"` is a mount that failed unnoticed, and `leaked` a mount that
a killed script left.  `Boot` extracts each archive as far as it goes: a cut one
gives `"partial"` settings.

`SettingsStore` says it without commands, mounts and caches: for each part
(`/etc` and the userland) what the next boot will restore is known or
`"unknown"`; it becomes unknown only while a call runs that may change this part
(`Unsure`), or any part in a call during which another process kept the
partition busy (`AtRisk`); it becomes known again by itself (`Settle`), and a boot
restores it or, with the INIT switch, the defaults.  The refinement mapping takes a part as
known when the system and the medium agree on an archive that is whole, or on
none.

### `IotMachine`: `SwitchIoT` - `pshd_bx1.c` lines 127-241, and `Watchdog` - `wd-keepalive.c` lines 53-140

`SwitchIoT` has one action per way a wait of `watch_pushsw` ends: `Wake` with an
edge, `TimedOut`, `Interrupted` (by a signal, which nothing makes come).  The GPIO keeps no count of edges, it only
remembers that there was one (`edge`), and the read of the level after a wait
forgets it; so `getINITSW` sees bounces and short presses or not, depending on
when they come.  `Exec` is `system_exec`; the daemon waits until the command
comes back (`CommandEnds`).  `held`, `holds` and `runs` are history variables.

`Watchdog` has one action per step of the child of `wd-keepalive` that another
can come between: `InstallHandler`, `Open`, `SetForever`, `KeepAlive`, `Look` (at
the flag), `Sleep`, `Awake`, `Disarm`, and `Fails` for the calls that make it
exit.  `Signal` is SIGTERM from systemd, with what it does at each of them;
`Kill` its SIGKILL after the timeout of a stop.  `AfterExit` is `Restart=always`.

`IotMachine` puts both on one machine: the command of the switch may be a
`SwitchShutdown`, a shutdown stops the service and ends `pshd`, a machine may
`Hang`, `Reset` is the watchdog.  Time is one `Tick` for all of them; the steps
of the daemon between two sleeps may take `Slack` ticks.

### `NetworkTime` - `atcmd.c` lines 157-183, 493-591, 640-700, 888-905, 1126-1221 and 1699-1714, `nitz.sh` lines 33-67

The three calls of `atcmd` that `nitz.sh` makes: `PON` (`PowerOn`, `WaitDevice`,
`Settled`), `CCID` and `SIND`.  `InitModem` flushes the tty, `Send`, `Select` and
`Read` are one `send_atcmd`, whose result nobody looks at, and `GotAt`, `GotCcid`,
`GotSind` are what the callers make of the buffer.  A time that lies in the tty
for a tick is an `"oldtime"`; setting the clock to one would make it wrong.
`SetDate` and `SysToHc` are the two last commands of `nitz.sh`.  The modem
answers in order but whenever it likes (`Answer`), and falls (`Goes`);
`Chksignal` is what the calls of `chksignal.sh` do to the same tty.

## 4. Runs

Every passing run checks the module's type invariant; all of them check for
deadlock.

| Run | Question | Bounds | Why they are enough |
|---|---|---|---|
| `fw_update` | What are the release file, a reported success and the first check of a package worth between kills and power cuts? | two versions, two attempts per image, MD5 files that list the images or not | two versions make a mixture; two attempts have a first that is repeated and a last that gives up; the proofs cover every number, both branches of the script and a missing MD5 file |
| `fw_broken_stops` (violated) | Does a package with an image that does not match stop the run? | as above | missing images: finding 1 |
| `flash_prog` | Does a save that reports success restore, is what a crash leaves the beginning of one archive, is each step one of `ArchiveStore`? | four blocks; NOR new and worn, NAND; archives up to half a sector more than fits, half sectors included; every set of bad blocks; retry limit of the source | four blocks have a first, a last and two neighbours to skip, retry and leave |
| `flash_save_complete` (violated) | Is an archive that does not fit refused? | three blocks | finding 2 |
| `uboot_env` | Does U-Boot always find a whole environment? Is a change that of a register (`EnvRegister`)? | three changes | after two changes each area has been the active one, the third starts from either |
| `uboot_source_valid` (violated) | Is a torn area left out as a source? | as above | finding 3 |
| `power` | Does the command run in time, and only then? Is the battery charged again? | `Limit` of 30 passes, the default of 300 s, time to the passes after it; both starters, both commands | the countdown runs from its first value to 0 and -1, and again in a daemon that was started in the middle of the loss |
| `power_loss_command` (violated) | Does every long loss run the command? | `Limit` of 3 passes; started by the script of `/etc/init.d` | finding 4 |
| `push_switch` | Which presses stop the machine, and what do the LEDs show? | the default times (10 and 25 ticks), six queued events, runled started once again | three clicks can be queued before a long press; `Reboot` and `Halt` are the real ones |
| `iot_machine` | Which presses run the command, which machines are reset, and does the switch turn the machine off? | two holds in a boot; waits of one tick; `Interval` 2, `Timeout` and `StopTimeout` 3; one failing call | two holds are needed for one to begin in the wait after the other; the timeouts are the shortest the assumptions allow, so that one tick more or less shows; one failure in each boot, and a machine boots again and again |
| `network_time` | Can an old or foreign answer become the time? Does `nitz.sh` end? | three tries of SIND, timeouts of one tick, two unanswered commands | three tries have a first, a middle and the last one that is treated differently; two commands are its own and one of the other user, or two of its own |
| `saverestore` | What does a boot bring back? | the default settings and two others | an archive of another value than both the default and the live one exists |

What the properties say in words stands over each of them in its module.  The
ones that were hardest to state right are qualified, and the qualification is
information: `OkIsDurable` and `DoneIsSaved` hold only where the umount was the
last one of the partition, since a killed run leaves a mount behind and the later umount
forces nothing out, and where it did not fail; `SettingsSurvive` allows a call with
a busy partition to cost both parts; `StopNeedsHold` says nothing of a restart with
`-r 0`, which `main` makes one tick, less than a click; `HoldRuns` starts with the
press and names what can come between (below); `EnvironmentSurvives` has three kinds of change, of which one is atomic;
`SavedIsRestored` not for a NAND block that wears out.

The findings are listed in `PROJECT.json` with the lines they contradict:

1. `flashcfg.sh:630`: `[ "$MD5_RET" != $val ]` with an empty `$val`.
2. `flashcfg.c:1619`: leaving the loop at the end of the device with `ret` 0.
3. `flashcfg.c:752`: CRCs compared with 0.
4. `obsiot-power.c:651`: `die` as handler of SIGCHLD.  It takes a daemon that the
   script of `/etc/init.d` started, and a COMMAND that leaves the machine up, to
   refute the usage text: the systemd unit has `Restart=always`, and under it the
   text is true as long as systemd does not give the unit up (`LossRunsIfWatched`).

`HoldRuns` is about a press from its beginning.  After `Reboot` ticks with the
switch down the command runs, early or late, unless the machine goes down, or one
of two things has happened that the code does not tell from other presses: the
daemon is idle and sees no edge although the switch is down (`Missed`: a bounce
has ended the first wait, which for the daemon is a short press, and the rest of
the hold is a switch that does not move; or the edge came in a wait of the press
before), or there is another edge while it waits (`TooShort`).  `HoldTurnsOff` goes
on from the second wait.

`ResetHasCause` rests on a timeout of the watchdog that exceeds `Interval` by twice
the slack.  Nothing in the source sets the timeout: it is the driver's default,
and the property says what it has to be.

## 5. Fairness

- `FirmwareUpdate`, `FlashProg`: weak fairness of the program's own next step
  (`Script`, `Tool`).  A process that is ready runs; each of its commands and
  system calls comes back.  Nothing makes anybody call the program, kill it or
  cut the power.
- `PowerDaemon`: weak fairness of the loop (`ReadInput`, `Act`, `Pass`), whose
  `sleep(10)` always comes back.  None of COMMAND, which need not return, nor of
  systemd.
- `PushSwitch`: weak fairness of `Tick` (a sleep of 200 ms), of the delivery of
  a signal (`RunledDies`), and of a parent that is between `fork` and writing the
  pid (`Parent`).  No fairness for `runled`'s writes, the switch, or the user who starts `runled`.
- `IotMachine`: weak fairness of both daemons and of systemd (`Pshd`,
  `SwitchShutdown`, `Keepalive`, `StartService`, `StopService`, `KillService`), of
  the machine's power and reset, of time, and of the release of the switch, since
  nobody holds it for ever.  None of the press, an interrupted wait
  (`PshdInterrupted`), the shutdown by the
  administrator, the upgrade of the package, failing calls or hangs.
- `NetworkTime`: strong fairness of `Nitz` and `Tick`.  `chksignal.sh` can take
  an answer before the `select` or `read` of `nitz.sh` sees it, again and again;
  weak fairness would let it do so each time just before the process runs.  A
  `select` whose data were taken before it looks goes on sleeping, but no longer
  than its timeout from the call; data taken after it has returned make the `read`
  of the non-blocking descriptor fail.  Neither the process nor time can be held
  up for ever by what the other one reads.  None of the modem: it need not answer at all, or even appear.
- `UbootEnv` and `SaveRestore` have safety properties only and no fairness.

## 6. Proofs

TLAPS checks the following for every value of the constants that satisfies the
assumptions of the modules (`VersionsAssumption`, `TriesAssumption` and so on;
`ValuesAssumption`: versions and settings are none of the marker strings).

**`FirmwareUpdateProofs`.** `ReleaseVouches` and `OkIsDurable` are not inductive:
that the release file is truthful when it is written depends on where the script
is.  `IInv` adds that the mount point is the partition only between mount and
umount (`NotMountedYet`), that there is no release file between its removal and
its copy (`NoReleaseMeanwhile`), that the ramdisk is in place while the kernel is
copied and both are afterwards (`ImagesInOrder`), that this is so at the umount
even on a torn partition (`VouchesAtUmount`), and that promises are made only
when the script is over (`PromisedWhenIdle`).  `TypeCorrect`,
`ReleaseIsTruthful` and `SuccessIsDurable` follow.  `CheckComesFirst` needs only
`CheckedSoFar`: how much of the package has been checked at each command.

**`SaveRestoreProofs`.** `IInv` adds to the types that `-s` works on `/etc` alone
(`EtcOnly`), where the partition can be mounted (`OnPartition`: while `rm -rf` runs,
only if it was busy at the umount), that an archive
is cut while tar writes it (`CutMeanwhile`), and which parts are "done" and stay
as they are until the umount (`DoneInOrder`, `DoneIsArchived`).  `OnPartition`
is what keeps `rm -rf` of the mount point from the archives of the other part,
except in a call with a busy partition.  `TypeCorrect`, `DoneMeansSaved` and `Refinement` follow, the last one from three lemmas: a step that
only brings the medium and the system together is a `Settle` (`SettleStep`), a
step that touches one archive is `Unsure`, `Settle` or nothing (`ArchiveStep`, and
`PutStep` for those of tar and rm).

**`PowerDaemonProofs`**, for every `LIMIT`, negative ones included.  `CommandInTime`
is not inductive, since the count and the passes of the loss are two variables:
`CountsTheLoss` says that they make up `LIMIT` and that a low battery is only
remembered in the last pass, `NothingBeforeLoss` that nothing is counted before.
The count belongs to one daemon: a restart begins a new one, in the middle of a
loss as well.
`HorizonAssumption` says that the bound of the history variables is beyond
`LIMIT`.  `InTime`, `OnlyWhenDue` (COMMAND never early), `ChargingStops` and
`TypeCorrect` follow.  `LossRunsIfWatched` delimits finding 4: wherever a daemon
looks again, and as long as systemd starts it again, `system()` has been called in
every loss older than LIMIT; through restarts, a `poweroff` that fails, and
COMMANDs that could not be forked.  A loss is old here by the passes none of which
a failing `read` has hidden.  Neither COMMAND nor the loss need be of a kind: only
a daemon that nobody starts again refutes the usage text.

**`UbootEnvProofs`**, for every number of calls and both schemes.  `Progress` ties
the areas to what the call has prepared in memory, `WholeMeanwhile` says that a
call from two whole copies has at most the area torn that it writes at the
moment, `Prepared` which of the two is active on the AX3, and `FromArea2` that an
active area 2 is rewritten with the environment it holds, after area 1.
`AlwaysBoots`, `ChangeTakesEffect`, `Atomicity` and `TypeCorrect` follow.
`EnvironmentIsKept`, the refinement of `EnvRegister`, needs `RInv` besides:
`Stages` (which of the old and new copies is on the flash at each step),
`FlagsUsed` (on the AX3 a copy with a right CRC is active or obsolete),
`Numbered` (the new environment is none of the old ones, so that it can be seen to
stay) and `Replaces` (what a change of whole copies prepares).  From these
`BootsWhile` tells what U-Boot finds at each step; a lemma for each action
follows.

**`FlashProgProofs`**, for every number of blocks and every set of bad blocks, in
four layers.  `TInv` is what holds on every flash, worn NAND included: the types
need `Positions` (how far the four offsets can be apart) and `OnNor` (where they
cannot).  `CInv`, for every flash but worn NAND, is the heart: `InStep` ties the
offsets to each other, `AtGoodBlock` the sector in work to the number of good
blocks before it (the lemmas on `GoodBelow` count them), `Content` what is on the
flash so far, from which `SavesAreRestored` and `VerifiedStays` follow.  `DInv`
says which blocks a deletion has passed (`DeletionsAreComplete`), `PInv` that the
sectors are in order also when no call is running (`CutsArePrefixes`).
`ArchiveIsKept`, the refinement of `ArchiveStore`, rests on `Held`, a consequence of
`CInv`: in the loop a restore stops behind the verified sectors, or one further
while the last write waits for its verify.  What a step spoils lies behind them
(`SpoiledBehind`), `Within` adds that the loop is not left late or with an old
error, and `Gone` that a deletion takes the first sector before any other
(`NothingRead`).
`ErasedFirst` shows, on NOR flash, that a sector reads erased when it is
programmed, in a retry and for a partial sector as well.

**`PushSwitchProofs`**, for every pair of times and any number of unread events.
That only a long press stops the machine is not inductive, because `pshd` counts
ticks of what it knows, one event a tick behind: `EdgesInTurn` says that the
queue alternates, `FlagBeforeQueue` that what is known is the state before its
first edge, `CountIsHeld` that ticks beyond the two for the edge itself are ticks
in which the switch was held.  `TimesAssumption` is what `main` makes of `-r` and
`-h`, for options that are not negative; with one tick (`-r 0`) or two, which a
click fills, `StopNeedsHold` promises nothing of a restart.  `StopsNeedHolds` and `TypeCorrect` follow.

**`IotMachineProofs`**, for every wait and timeout.  `SwitchInv` accounts for the
runs: `HoldsPay` says that those there have been, those the present wait leads to
(`NextRuns`) and those of a hold not yet seen through (`PendingRuns`) are paid
for by two for every hold.  `WatchdogInv` accounts for the time: `FedInTime` gives
what is sure to be left of the timeout at each step of the daemon, `StopsInTime`
what may have gone by since a SIGTERM; `Units` and `LeftBehind` say who is there.
The assumptions are that the timeouts of the watchdog and of systemd exceed
`Interval` and twice the slack.  `RunsAreHeldFor`, `StopIsDisarmed`,
`ResetIsCaused`, `KilledIsForgotten` and `TypeCorrect` follow.

**`NetworkTimeProofs`**, for every number of tries, timeout and backlog.
`FreshBuffer` says that from the flush on there is no old time in the tty nor in
the buffer, since nothing makes a time old while `SIND` runs but a wait with an
empty tty; `RightFromRtc` that a clock set from a right RTC stays right.
`ClockIsKept`, `RtcIsKept` and `TypeCorrect` follow.

**Ends of calls.**  That a call ends is liveness, but what makes it end can be
proved, as a number that the steps of the call make smaller: `StepsLeft` in
`FlashProgProofs` (`CallsAreShort`, worn NAND included, at most 12 a block and 11),
`CommandsLeft` in `FirmwareUpdateProofs` (`RunsAreShort`, 38 for the five attempts of
the source), `NitzLeft` in `NetworkTimeProofs` (`NitzIsShort`, 814 for the 200 tries
of the source; no answer that is late, foreign or missing takes it back).  With
the fairness of section 5 each of them gives `CallEnds`, `RunEnds` and `NitzEnds`;
that last inference is left to TLC.

Only model-checked: all liveness (`RunEnds`, `CallEnds`, `ChargingResumes`,
`LongHoldStops`, `LedsSettle`, `HungIsReset`, `ArmedAgain`, `HoldRuns`,
`HoldTurnsOff`, `NitzEnds`), since liveness under fairness needs ENABLED, which
this prover does not handle.  Every other property of a passing run is proved.

## 7. What was met on the way

Behaviour of the code that the models contain, or that reading showed, and that
no property here claims to be otherwise.

Firmware and settings (`flashcfg.sh`):
- 678: a copy that verifies at the fifth attempt is reported as "retry over"
  (exit 1): the counter is tested after the loop, whichever way it was left.
- 648, 487, 511, 574: the result of `mount` is not looked at.  With a failed
  mount the run says "done" and nothing is installed, saved or deleted.
- 492, 516: the archives are truncated in place, so that an interrupted save
  loses the earlier settings as well.
- 501, 534: `rm -rf` of the mount point after an `umount` that is not checked:
  where another process uses the partition at that moment, all archives go, those
  just reported as saved and those of the other part.  `SettingsStore` allows this
  for such a call (`busy`) and no other.
- 516: `--exclude etc --exclude tmp` is not anchored; directories of these names
  at any depth, `/usr/local/etc` for one, are left out of the userland.
- 154: the trap unmounts on MTD models only, and does not end the script.

Sector writer and environment (`flashcfg.c`):
- 1635: a NAND block that wears out during a save loses a sector, since the
  offsets get out of step.
- 1901: an erase error in a deletion ends it with success.
- 775: on the A6 the counter is copied and zeroed, so that a change has no
  effect while area 1 is the active one; where the counters are equal, U-Boot
  takes area 1, and the tool edits a copy of area 2.
- 627: where MEMGETBADBLOCK fails (A6 and A7), an area is left as it is, or torn in
  the retry after a verify error, and `flash_prog_bootdev` returns success; the
  model takes this ioctl to work and the blocks of this partition to be good.
- On the AX3, a power cut while the active area 1 is rewritten falls back to the
  environment before the current one.
- Error returns of several options leave the partitions writable.

Daemons:
- `runled.c:529`: `-p` sets `spdctl`, not `pmctl`.
- `pshd.c:292`: the green LED comes on at `(halt - reboot) / 2` ticks from the
  press, 7 with the default times, before the restart is due at 10, so that the
  orange LED is never seen.
- `pshd.c:331`: `-r 0` is one tick, and a click counts for two: it restarts the
  machine.
- `pshd.c:207`: one event per tick; a long press right after quick clicks is
  counted late.
- `pshd.c:271`: a stale pid file may name another process.
- `obsiot-power.c:402`: a `read` of a GPIO that fails counts as power and ends the
  countdown; an `open` that fails counts as no power.
- `obsiot-power.c:549`: the count is set to -1 when COMMAND could not be forked as
  well.  A loss that goes on is counted anew, but if power returns in the next
  pass the daemon does not notice and charging stays off, until the next loss
  ends (`forgot` in `ChargingResumes`).
- `obsiot-power.service:7`: a daemon that starts again in a loss turns charging on
  until its first pass, counts anew, and runs COMMAND once more.
- `obsiot-power.c`: `-i` is ignored; a signal that comes before the loop sets
  its flag is lost.

- `pshd_bx1.c:67`: HALT is said to be 5 s "(REBOOT + 3)"; the second wait only
  waits for the release, and after it the third one goes on for as long as the
  switch is held.  After a release before HALT, the third wait ends at the next
  press, and the command runs again (`RunsNeedHolds` has a factor of two).
- `pshd_bx1.c:212`: a bounce that comes after the first look at the level ends the
  first wait, and the hold is then not seen at all (`Missed`).
- `wd-keepalive.c:100`: a SIGTERM between the handler and this line is
  forgotten; the daemon is killed later with the watchdog armed, and the
  machine may be reset in the middle of its shutdown.
- `wd-keepalive.service` gives an interval of 30 on the command line, which
  `main(void)` ignores: it is 20 or 30 by the model.
- `obs-hwclock.c:248`: the RTC is given one second more than it was told.

Modem (`atcmd.c`, `nitz.sh`, `chksignal.sh`):
- `atcmd.c:1705`: the loop of SIND leaves `j` at 200 when all tries have failed,
  and the test that follows is `j == 199`.  So a success at the last try is
  reported as a failure, and 200 failures as a success: `nitz.sh` then calls
  `date` without a time and writes the system clock, whatever it shows, to the
  RTC.  `RtcKept` says what that can do.
- `atcmd` prints its errors where it prints the time: after a single try that
  timed out, `date` refuses the two lines although the time is among them.
- `chksignal.sh:28`: the trap powers the modem off under whoever uses it, and
  does not end the script.

## 8. Not modelled

- In the modelled parts: the branch of `flashcfg.sh` for bpv4 and bpv8; packages
  that change during a run; bad blocks in the environment's partition; the order
  of bytes and the text of the environment, which is a value here; the read-only
  flags of the MTD partitions; the size records of the saved archives; the
  layers of `openblocks-setup` on a CF card (the same restore, once for each
  layer) and the settings of the MTD models; `pshd` with the ioctl of older
  kernels; the speed of `runled`'s LEDs and its thermal control (`ctrl_cpu`,
  which follows a temperature that a model would have to choose freely);
  `runled_bx1`, which shows the colour that a file tells it to; `wdt-keep` of the
  A series, a loop that never disarms; modems other than the EHS6 and the
  commands of `atcmd` that `nitz.sh` does not use; options and usage texts; signals
  other than SIGCHLD to `obsiot-power`, which end it as well; an `rm -rf` of a busy
  partition that other files or processes of it would stop.
- Undefined behaviour: `flashcfg.c:682` verifies from a pointer that was
  advanced; the result of that comparison is not modelled.
- What could be modelled next is in section 2; the small tools and the build kit
  are left out for the reasons in `PROJECT.json`.
- Almost all of the 1.6 million lines of the repository are vendored drivers of
  WLAN chips (`rtl88*`, `rtlwifi_new`), `hostapd` and firmware; the kit compiles
  them unchanged.  The programs of the kit that keep state are a few thousand
  lines, and the models cover those where steps can be interrupted, interleaved
  or fail.  A share of the whole says little here.
