# A verification development for win0-doom

win0-doom runs doom as a native application in Windows Validation OS at
runlevel 0. What the repository itself adds to the engine is a boot-start kernel
driver (`driver/win0doom-display.c`), a platform layer (`native/win0-doom.c`)
and the scripts of `tools/` and `setup/scripts/` that put both into an image and
make it bootable. This directory holds TLA+ modules that model those parts, the
TLC configurations that check them on small instances, and proofs, checked by
TLAPS, that what the runs show of safety holds for every size.

All paths below are relative to the repository; modules and configurations are
files of this directory. `PROJECT.json` maps each definition to the lines it
models and lists runs, mutants, hazards, findings and theorems.

To repeat a check: `tlc -config KeyboardRing.cfg MCKeyboardRing.tla`;
to repeat a proof: `tlapm KeyboardRingProofs.tla`.

## Inventory

| part | code | state it keeps | operations | talks to |
|---|---|---|---|---|
| keyboard ring | `driver/win0doom-display.c:73-157` | ring of 128 records, read and write index, spinlock | queue (service callback, dispatch level), reset (open), drain (ioctl) | service callbacks, programs that open the control device |
| filter devices | `driver/win0doom-display.c:104-130, 206-312` | per keyboard: `Connected`, `UpperConnectData`, the attached devices | AddDevice, connect, remove, service callback | PnP, kbdclass above, the port driver below |
| driver lifecycle | `driver/win0doom-display.c:314-399` | global extension pointer, control device, link, mapping | DriverEntry, Unload | I/O manager |
| present | `driver/win0doom-display.c:159-204` | the framebuffer | scale and swap one frame, without a lock | doom, the display test |
| display test, framebuffer probes | `native/driver-display-test.c`, `native/fb-test.c`, `native/video-test.c` | a frame; a mapping of the framebuffer | draw and present once; map and paint | control device; physical memory, the video driver |
| platform: keyboard | `native/win0-doom.c:438-632` | `keyboard_available`, poll buffer | poll, translate, dispatch, run a frame | control device, engine |
| platform: files | `native/win0-doom.c:130-425` | remembered volume prefix, per file a handle, position, length | open, close, read, write, seek, tell, eof | NT file system, engine |
| platform: clock, memory, exit, print | `native/win0-doom.c` | none | thin calls of ntdll | ntdll |
| application and test-signing preparation | `tools/apply-generated-wim.sh`, `tools/prepare-test-signing.sh`, `tools/enable-test-signing.cmd` | files in the image: marker, boot stores, hives under four names | apply, exchange hives; stage, boot, type, wait, install; build a store, edit a hive, mark, shut down | qemu, qemu-nbd, the guest's shell |
| nbd attachment | `tools/install-payload.sh`, `tools/apply-generated-wim.sh`, `tools/prepare-test-signing.sh` | nbd device, mounts | choose, connect, wait, mount, write, clean up | kernel, qemu-nbd, other scripts |
| deploy, rollback, build | `tools/deploy-vm.sh`, `tools/rollback-vm.sh`, `tools/build-vm-image.sh` | image files under several names | copy, move, keep a failed image | the scripts above, qemu |
| Windows builder | `tools/build-vm-image.ps1` | an image file, its mount, two hives loaded into the host's registry, three flags | create, mount, load, edit, unload, dismount, move | diskpart, reg, other runs |
| VM and monitor scripts | `setup/scripts/*.ps1` | a TCP connection | send a command, read what comes in a window of time | qemu |
| other probes, release builds, registry files | `native/engine-link-test.c`, `native/hello*.c`, `native/input-probe.c`, `*/build-*.sh`, `*.reg` | none | one-shot | - |

The engine, PureDOOM, is a submodule that is not in the tree; it is modelled as
far as `native/win0-doom.c` uses it (key down and key up).

What is hard to test in these parts, and what each must guarantee:

- *Ring.* Callbacks of several keyboards and threads that open and poll meet at
  every memory access. No record may be skipped, doubled, reordered within its
  keyboard, or invented; a full ring gives up the oldest record and nothing
  else; code at dispatch level must come to an end.
- *Filter devices and lifecycle.* Any call can fail; stacks come and go while
  callbacks run. Nothing may leak, no callback may run on a device that has gone
  or read a pointer to freed memory, and a callback must never reach itself.
- *Input path.* Two consumers (ccs and doom) see each record. Nothing ccs had
  before doom opened the device may become doom input, no key may stick, order
  holds through overflow and partial polls, and ccs misses nothing.
- *Present.* Two requests interleave without a lock. Tearing is accepted; a
  pixel in the wrong place or colour, or a write outside the picture, is not.
- *Files.* Volumes appear one after another during boot, and handles share files.
  One volume is used, blocks are not leaked, end of file is where it is, and
  appending appends.
- *Preparation.* Host and guest work on one image in turn without a channel
  between them but typed keys and a marker file; each can stop anywhere. The
  image must have one user, a hive, and after success a complete boot store.
- *Attachment.* Scripts for different images compete for nbd devices.
- *Test pictures.* One picture is written twice, through the driver in RGBA and
  past it in BGR at display size; they are compared by eye and must be the same.
  A painter must stay in what it has mapped.
- *Image files.* Scripts rename and copy one image under names that hold a second
  or a process number, stop anywhere, and ask early whether a VM uses it. The
  target must never be a torn or incomplete image, and whatever a script moves
  away must stay to be found.
- *Windows builder.* An exception at any command; what is given back is decided by
  flags, and hive names are shared by all runs. Nothing it holds may stay behind
  unless the host refused it, and another run's hive is not its to unload.

## Modules

| module | models | actions ↔ code |
|---|---|---|
| `KeyboardRing` | the ring at the grain of memory accesses under the spinlock | `Callback`..`QueueRelease` = `Win0DoomQueueKeyboardAtDpc`; `OpenCall`..`OpenRelease` = `Win0DoomCreateClose`; `PollCall`..`DrainRelease` = the keyboard ioctl and `Win0DoomDrainKeyboard` |
| `InputQueue` | what the ring promises: a bounded queue, one step per operation | abstract specification of `KeyboardRing`; also the ring inside `InputPath` |
| `ScanCodes` | `scan_code_to_doom` | both tables, and which one a prefixed code is looked up in |
| `InputPath` | keyboards, service callback (mirror, then forward), ccs, doom from launch through open and frame loop, a second opener | `Mirror`/`Forward` = `Win0DoomKeyboardServiceCallback`, with the part of a batch kbdclass takes; `OpenDisplay` = `open_display`; `PollKeyboard`, `Drain`, `PollFails` = `poll_keyboard`; `Dispatch` = one turn of `dispatch_keyboard_records`; `Update`, `Present` = the loop of the entry point |
| `FilterDriver` | `DriverEntry`, `Win0DoomAddDevice`, connect, callback, removal, `Win0DoomUnload` | one action per call or assignment whose order matters; `DeleteFilter`, `DeleteControl` = a turn of the loop of `Win0DoomUnload` over the devices it found (`remaining`) |
| `FramePresent` | `IOCTL_WIN0DOOM_PRESENT` | a step is one source pixel written `Scale` times along one destination row |
| `DisplayProbes` | the display test and the two programs that paint the framebuffer, on top of `FramePresent` | `PresentTest` = `driver-display-test.c`; `OpenProbe`, `MapSection`, `MapVideo`, `Paint` = `fb-test.c` and `video-test.c`, a step per row |
| `FileLayer` | `native_open` .. `native_eof` | `OpenCall`, `Found`, `TryNext`, `NotFound`, `Query` are the steps of `native_open`; the other calls are one step each, as the engine is one thread |
| `PrepareSigning` | `apply-generated-wim.sh`, the preparation's host script and the guest's command file | one action per command, or group of commands, between which a stop would leave a different image |
| `NbdAttach` | the attachment as in `install-payload.sh` | one action per command; `Umount`, `UmountFails`, `Disconnect`, `DisconnectFails` = the EXIT trap, which goes on whatever fails in it |
| `ImageFiles` | `build-vm-image.sh`, `deploy-vm.sh`, `rollback-vm.sh`, a VM and the passing of seconds | one action per command that leaves something behind; `Fail` = a failed command and the trap, `Kill` = a death without it |
| `WindowsBuilder` | `build-vm-image.ps1`, on top of `ImageFiles` | one action per command that takes, gives back or moves; `UnloadHive` = the inner finally blocks, `Finally...` = the outer one |

`KeyboardRing` and `InputPath` are composed through `InputQueue`: the first is
shown to implement it (`ImplementsInputQueue`, checked and proved), and the
second takes its ring from it (`INSTANCE InputQueue`), so that the path is
checked over atomic ring operations that the fine-grained model justifies.
`DisplayProbes` composes the present handler with the programs that write the same
framebuffer past it. `PrepareSigning` composes two scripts that work on the hives
of one image; `WindowsBuilder` shares the files, and what a rename does to them,
with `ImageFiles`.

The theorems are in a module per component that extends it: `KeyboardRingProofs`
(with the refinement of `InputQueue`), `InputPathProofs`, `FilterDriverProofs`,
`DisplayProofs` (`FramePresent` and `DisplayProbes`), `FileLayerProofs`,
`PrepareSigningProofs`, `NbdAttachProofs`, and `ImageProofs` (`ImageFiles` and
`WindowsBuilder`).

Modules named `MC...` give an instance its model values, sets and symmetry.
Definitions whose comment starts with *Mutant* are wrong variants of the
definition that follows; nothing uses them but the mutants of `PROJECT.json`.
Variables marked *history* record what properties need and influence nothing.

### What the models leave out

- `KeyboardRing`: the contents of a record. A record is its keyboard and its
  number, so that order, loss and repetition are visible. The model starts
  where `DriverEntry` has returned success; `FilterDriver` has what comes before.
- `InputPath`: a program other than doom that polls. A second opener is there,
  because `native/driver-display-test.c` opens the device; a second poller would
  take records away, which the ring model covers.
- `FilterDriver`: power requests and PnP requests other than removal are passed
  down and change nothing, so they have no action. The return values of the
  allocation routines appear as failures (`MapFails`, `LinkFails`,
  `AttachFails`); a failure of the first call takes nothing and leaves the driver
  as it was.
- `FileLayer`: the bytes. A file is as long as the file system says. Names are
  relative, as the engine's are; a name that starts with a backslash is not
  modelled. A read that is short because the file ends is a read of fewer
  bytes.
- `PrepareSigning`: the individual values written to the registry and the store;
  a stage counts.
- `DisplayProbes`: two painters at once. A row is a step, which is finer than any
  property needs: a painter and a request never write a word in two halves.
- `ImageFiles`: what an image contains, but for a number that changes with every
  write, and whether it is torn (a copy under way), half (a system or a payload that
  is not complete) or whole. `build-release.sh` leaves the image alone. The nbd
  attachment inside `install-payload.sh` is one step here; `NbdAttach` has its parts.
- `WindowsBuilder`: drive letters, the temporary text files, and a stop between a
  command and the assignment of its flag, which only a killed process makes
  (`Die` gives nothing back either way).
- `NbdAttach`: the waiting loops (they end, with or without success) and what is
  copied. A server that goes on for longer than `disconnect_nbd` waits, after it was
  told to disconnect, is not modelled, nor is what becomes of a mount that was left
  behind: each run has a `mount_root` of its own.

### What is assumed of the surroundings

Everything under this heading is outside the tree and marked external in the map.

- PnP sends one request at a time to a stack. A port driver that handles a
  removal calls the service callback no more and waits for one under way. The
  I/O manager unloads a driver only with no handle open and nothing attached
  above its devices, and both stay so while it does (`FilterDriver`).
- `KeAcquireSpinLock` excludes; a processor that waits for a lock that comes free
  again and again obtains it.
- ccs runs a command when it has received the press of Enter that ends it.
- kbdclass may take a part of a batch only and says how much (`InputDataConsumed`);
  the port driver reports what it did not take again, before what is newer. It takes
  everything in the end (`InputPath`, where `MaxRefusals` bounds how often it does
  not).
- The guest's shell keeps what is typed while a command runs and reads it
  afterwards; `shutdown.exe` returns before the guest is down; the guest may die
  at any time; qemu and qemu-nbd exclude each other by the image lock.
- The video driver may report no memory, or too little; the physical memory behind
  `fb-test.c` is there (`DisplayProbes`).
- qemu, qemu-nbd and qemu-img lock the image they have open; a file that is renamed
  stays open under its new name; `pgrep` may miss a VM that was started under another
  spelling of the path, and one may start after it was asked (`ImageFiles`).
- `reg load` fails under a name that is taken; `Move-Item` does not replace a file and
  an image that is mounted is not moved (`WindowsBuilder`).
- qemu-nbd refuses a device already connected and an image that is locked,
  disconnects whatever is connected, or fails to, and the kernel publishes a size later;
  `umount` fails while the mount is in use.

## Runs

| run | checks | instance | what it shows |
|---|---|---|---|
| `ring` | `TypeOK`, `NothingSkipped`, `PendingInOrder`, `ImplementsInputQueue`, `CallsReturn` | 2 keyboards, 1 client, 3 slots, batches up to 2, 2 records each | at every interleaving the locked ring is the bounded queue, loses only the oldest, keeps order; every callback, open and poll returns |
| `input` | `NothingStaleDispatched`, `NoStuckKey`, `DispatchInOrder`, `WaitingIsTaken`, `CcsReceivesAll` | 2 keyboards with Enter, ring of 2, polls of 1, 3 records in batches up to 2, 1 refusal of kbdclass, 2 launches | nothing stale is dispatched, no key sticks, order is kept and no record repeated but those kbdclass refused; doom takes what waits, ccs gets all |
| `input_command` | `CommandNeverDispatched` (violated) | 1 keyboard, Enter and shift, 1 launch | finding 1 |
| `driver` | `TypeOK`, `NothingLeaks`, `ExtensionIsAlive`, `CallbackOnLiveFilter`, `UpperIsClass`, `RemovalEnds` | 2 stacks, 1 handle | every order of load, failures, stacks, connects, callbacks, removal and unload: nothing leaks, also where the unload visits only what it found; removals end |
| `present` | `ProbesTypeOK`, `EveryWordInItsPlace`, `AloneShowsWholeFrame`, `TestPicturesAgree`, `PresentReturns` | doom, the display test and a painter; 2x2 frame scaled by 2 on rows of 4 words, 2 words to spare, 4 levels | tearing never misplaces a pixel, painters stay in their mapping, both test pictures agree, a request ends |
| `file_safety` | `TypeOK`, `OneVolume`, `NothingLeaks`, `EofIsTrue`, `AppendsAtEnd` | 2 volumes, 2 names, 2 handles, files up to 2 long | the file layer under late mounts and failures |
| `prepare` | `OneOwner`, `MarkerIsFresh`, `HiveNeverLost`, `StockStoreKept`, `OnceIsComplete`, `ScriptEnds` | 3 stages, 3 typed commands, 2 attempts, 2 applications | application and preparation with failures anywhere, repeated in any order: no hive and no stock store is lost; the host script ends whatever the guest does |
| `prepare_complete` | `PreparedIsComplete` (violated) | the same | finding 2 |
| `nbd_safety` | `NothingLeftBehind` | 3 scripts, 2 devices, each run twice | a script that ended leaves a mount or a connected image only where its own umount or disconnection failed |
| `nbd_payload` | `PayloadIntoOwnImage` (violated) | the same | finding 3 |
| `images` | `TargetIsSound`, `TargetIsFound`, `DeploymentCanBeUndone`, `OnlyRefusedStays`, `BuildIsKept`, `HiveOwner` | 2 scripts of any kind, or 2 runs of the Windows builder; 2 seconds, 4 contents | whatever stops or races, the target is sound, and what a payload was written over stays in a backup; the Windows builder gives back what it holds and only that |
| `rollback_same_second` | `DisplacedIsKept` (violated) | the same | finding 4 |

`TypeOK` of `InputPath`, `PrepareSigning`, `NbdAttach` and `ImageFiles` says what values
the variables take. No run of the table spends a property on it; it is proved, as a
part of the inductive invariants below.

### Why the bounds are enough

- *Ring.* Three slots hold two records: the ring is empty, half full, full and
  overflowing within three records, both indices wrap, and a batch of two can
  overflow a ring that holds one. Two keyboards and a client give two callbacks, and
  a callback with an open or a poll; safety and liveness share one run, so the
  second client, which only repeats the first one's operations, is left to the
  proofs. They remove all these bounds, here and, for safety, in every other run.
- *Input path.* Three records are a press, a repeat and a release, two presses and
  a release on two keyboards, or one record more than the ring holds; a poll of
  one always leaves something behind. Two launches make a second run of doom
  meet records of the first. One refusal (`MaxRefusals`) sends a
  record, or a part of a batch, round again. One key on each keyboard is the case in
  which two keys stand for one doom key; `input_command` has two keys on one keyboard, and
  the proofs have any keys and refusals.
- *Driver.* Actions of different stacks touch only their own entries and the
  shared pointer and driver state; two stacks give every pair. Counters need
  only handles; whether there is one decides.
- *Present.* Two rows, two columns and two repetitions exercise every counter at
  its first and last value; words after the picture make a wrong stride visible.
  Four values per channel distinguish the channels and the steps of a gradient. That
  the gradients of 320 and 1280 columns, and of 200 and 800 rows, differ by a level
  at most is evaluated at these sizes (`RealGradients` in `MCFramePresent`) and
  proved for all (`NearGradients`).
- *Files.* A file of length up to two has positions before, at and after its end;
  two handles on one file make one handle's length stale.
- *Preparation.* Three stages put one before, one at and one after the stage the
  host looks for; two attempts make a left-over marker possible, and two
  applications the case that the generated hive is taken for the stock one.
- *Attachment.* Three scripts for two devices: one always finds none left, and a
  second run meets what a failed cleanup of the first left behind.
- *Images.* Two scripts give every pair of kinds; two seconds let them share a second
  or not; four contents are the image that was there and three writes: a copy, a
  payload and a write of the guest, or two payloads and a write between. Two runs of
  the Windows builder compete for each hive name and for the output.

### Fairness

- `KeyboardRing!FairSpec`: code between the acquisition and the release of the
  lock runs at dispatch level and is not preempted, and a spinning processor
  gets a lock that comes free again and again. That is strong fairness of the
  rest of each routine. Nothing obliges a keyboard to report or a program to
  poll.
- `InputPath!FairSpec`: the port driver reports what it has and its callback runs
  to its end; doom goes on with its loop. Nothing is asked of users, of the
  second opener, or of ccs to launch doom. That kbdclass takes everything in the end is
  the bound on its refusals.
- `FilterDriver!FairSpec`: driver code that has begun goes on (weak fairness). The wait
  of a removal for a callback under way is with the port driver, which begins no new
  callback for a stack that is being removed for ever: strong fairness of
  `RemoveLower`. Nothing obliges anyone to remove a stack or to unload.
- `FramePresent!FairSpec`, `DisplayProbes!ProbesSpec`: a handler that runs goes on.
  Nothing obliges a program to present or a painter to go on painting.
- `PrepareSigning!FairSpec`: the host script goes on; its waits are bounded by the
  number of turns. Nothing is asked of the guest: it may hang for ever.

`CHECK_DEADLOCK FALSE` is set where the system really stops: a preparation that
is done, and scripts that have been run, or seconds that have passed, as often as the
bound says.

## Findings

1. **The launch command does reach doom in part** (`input_command`).
   `README.md:83-85` says that opening the device discards what is in the ring,
   "so the command you typed to launch doom never becomes doom input". The open
   (`driver/win0doom-display.c:80`) discards what is in the ring at that moment.
   ccs acts on the *press* of Enter; its release, and repeats while it is held,
   are reported after the open and are dispatched to the engine. What does hold
   is `NothingStaleDispatched`: no record ccs had received by the time of the open
   is ever dispatched.
2. **A preparation may succeed with an incomplete boot store**
   (`prepare_complete`). The command is typed every ten seconds for as long as
   the VM runs. A line typed while the command runs is read by the shell after
   `shutdown.exe` has returned; the second run starts over with the store while the
   marker still says ready. If the guest goes down in it, the host installs what it
   finds and reports success. With the command run once the store is complete:
   `OnceIsComplete`.
3. **A script can write into another script's image** (`nbd_payload`). A device
   without a size is chosen, and connected later; a script that loses the race
   for it disconnects the winner's image in its cleanup, since its variable `nbd`
   is set, and run again can put its own image there. `NothingLeftBehind` holds
   nevertheless: disconnecting what `nbd` names leaves the script's own image nowhere.
4. **A displaced image may be overwritten** (`rollback_same_second`). The name a
   rollback moves the target to holds the second it started in (`tools/rollback-vm.sh:15`),
   and `mv` replaces. Of two rollbacks of one second the later replaces what the earlier
   moved away, while `tools/rollback-vm.sh:34` and `README.md:188-189` say that the displaced image
   is kept.

## Proofs

Every invariant of the passing runs, the action property `HiveOwner` and the
refinement `ImplementsInputQueue` are theorems: they hold for every value of the
constants that the named assumptions allow. Each proof module has one theorem
`Invariance` (`Spec => []IInv`) from an initial lemma and one lemma per action or
per conjunct, and one short theorem per property on top of it. Each `IInv` also
holds on the instance of its component's run, by TLC.

| module | theorems | for every |
|---|---|---|
| `KeyboardRingProofs` | `TypeCorrect`, `InOrder` (`PendingInOrder`), `OnlyOldestLost` (`NothingSkipped`), `Refinement` (`ImplementsInputQueue`) | number of keyboards and clients, ring of two slots or more, batch, buffer, number of records |
| `InputPathProofs` | `TypeCorrect`, `StaleKeptOut` (`NothingStaleDispatched`), `KeysComeUp` (`NoStuckKey`), `OrderKept` (`DispatchInOrder`) | set of keyboards and keys, ring, poll buffer, batch, number of records, refusals and launches |
| `FilterDriverProofs` | `TypeCorrect`, `EverythingGivenBack` (`NothingLeaks`), `ExtensionAlive` (`ExtensionIsAlive`), `CallbackLive` (`CallbackOnLiveFilter`), `RecordsReachClass` (`UpperIsClass`) | number of stacks and handles |
| `DisplayProofs` | `TypeCorrect` (`ProbesTypeOK`), `PixelsInPlace` (`EveryWordInItsPlace`), `WholeFrame` (`AloneShowsWholeFrame`), `PicturesAgree` (`TestPicturesAgree`) | frame and display size, scale, number of levels, set of frames and programs |
| `FileLayerProofs` | `TypeCorrect`, `SingleVolume` (`OneVolume`), `BlocksGivenBack` (`NothingLeaks`), `EofCorrect` (`EofIsTrue`), `AppendCorrect` (`AppendsAtEnd`) | number of handles, names and volumes, length of files |
| `PrepareSigningProofs` | `TypeCorrect`, `SingleOwner` (`OneOwner`), `MarkerFresh` (`MarkerIsFresh`), `HiveKept` (`HiveNeverLost`), `StoreKept` (`StockStoreKept`), `SingleRunComplete` (`OnceIsComplete`) | number of stages, typed commands, attempts and applications |
| `NbdAttachProofs` | `TypeCorrect`, `CleanedUp` (`NothingLeftBehind`) | number of scripts, devices and runs, with umounts and disconnections that fail |
| `ImageProofs` | `TypeCorrect` (of the shell scripts), `TargetSound` (`TargetIsSound`), `TargetFound` (`TargetIsFound`), `Undoable` (`DeploymentCanBeUndone`), `GivenBack` (`OnlyRefusedStays`), `ImageKept` (`BuildIsKept`), `OwnHives` (`HiveOwner`) | number of runs, seconds and contents |

### Assumptions

All are the named `ASSUME`s of the modules the proofs extend; TLC evaluates them on
every run. Sizes are numbers, and positive where the code divides by them or an empty
one has no first element. Two kinds deserve a word. A value that stands for none
(`Free`, `None`, `NoOne`, `"nobody"`) is none of the actors, and a word that was
never written (`Blank`) is no number: without that the model could not tell them
apart. And `PictureAssumption`, which only `PicturesAgree` uses, states the proportions
of the code's constants: 1280 is 320 times 4, 64 is 16 times 4, and 255 times 3 is
less than 800. `MaxTime` and `MaxVersion` of `ImageFiles` are positive, as the model
starts in the first second with the first content.

### The inductive invariants

*Ring.* No property of the ring is inductive: each speaks of it as it is when nobody is
in the middle of something. `IInv` adds what every place in the code knows.
`LockInv`: the actor inside a critical section is the one that holds the lock, so at
most one is. `BatchInv`: what a callback still has to queue are the latest records of
its keyboard, numbered without a gap. `StoreInv`: between `MakeRoom` and `Store` there
is a free slot, so that `Store` cannot make a full ring look empty. `AdvanceInv`:
between copying a record and moving the index the ring is not empty. `PendingInv`:
whatever is pending, or was read, has been stored before. From these each action
preserves order and the absence of gaps, by lemmas on what it does to `Contents`: it
appends one record, drops the oldest, empties it, or leaves it alone.

*Refinement of the ring.* The abstract queue is `Contents` while the lock is free, and
what `Contents` was when the lock was taken while it is held (`Waiting`). Every step
inside a critical section is then a stutter, and the release is the operation. That it
is the right operation needs `SinceAcquire`, an invariant that says what has become of
the ring since the lock was taken: in the queue loop the ring holds the newest records
of what was pending followed by the batch so far; in the drain loop what was copied out
followed by what is left is what was pending. `before` is a history variable for this:
no action reads it.

*Input path.* The records of a keyboard pass through five places: wire, batch, ring,
poll buffer, dispatched; what kbdclass refuses goes back from the batch to the front of
the wire. `WireInv` says that what kbdclass has not taken keeps its order, and that a
record which was not in `again` is younger than all that has been mirrored before it;
`RingInv` the same of the places past the ring. That is what makes order survive an
overflow, a partial poll, a fresh open and the records that come again around it.
`StaleInv`: whatever ccs had when doom opened is in none of the places between the ring
and the engine. For `NoStuckKey` the invariant has to know where the release of a press
is, by position, as a press may be mirrored twice: after each press in the wire or a
batch comes its release, or the key is held (`ReleaseInv`); and, unless a record has
been dropped, after each press past the ring, in the same place or one before it
(`StuckInv`). A batch that is mirrored again therefore ends with what the engine should
believe.

*Filter driver.* `ControlInv` says for each place in `DriverEntry` and `Unload` what is
owned, and of the loop that the control device and the mapping are there exactly as long
as the device is still to be visited; `StackInv` the same for each stack: in the loop a
filter device exists if and only if it is in `remaining`, so that a list read too
early, or a turn that does not delete, breaks `NothingLeaks`. `ConnectInv`: a filter
which answered a connect has the callback of kbdclass saved and gave its own below, once,
which is why repeated requests cannot make it call itself; `CallbackInv`: the port
driver calls only through a stack whose removal it has not handled.

*Display.* The index lemmas say, both ways, that the words a turn of the loop writes are
those that lie over its pixel, for every scale and stride (`IndexLemma`,
`IndexConverse`), and `PixelReversed` that the shifts reverse the channels.
`AloneInv`: what a request has passed shows its frame, as long as it is alone.
`PicturesAgree` adds that the display test presents its own frame only, and that the
fraction of a scaled gradient differs by less than a level from that of the original
one (`NearGradients`), while squares are cut at the same places (`SameSquare`).

*File layer.* `OpeningInv`: the open that is under way holds a block of its own and tries
only the remembered volume, once there is one; `HandleInv`: a handle is on that volume,
and while its length is current one that appends is at the end.

*Preparation.* `OwnerInv` ties the places of host and guest together; `MarkerInv` says who
wrote a marker that is found; `HiveInv` and `StoreInv` name, at each place between two
moves, the other name under which what is moved is kept, as the property itself only
looks at the result; `CompleteInv` follows a single run of the guest's command.

*Attachment.* A script may lose its device to another one. What is inductive is
`DeviceInv`: an image is on the device its script remembers until it has disconnected
*that*, or on one which an earlier run of the script failed to disconnect (`refused`, from
which any later disconnection of the device removes it); so disconnecting what the
variable names leaves the image nowhere else, whoever has the device by then. `MountInv`
says the same of a mount and an umount that failed (`stuck`).

*Image files.* On Linux `TargetIsSound` says that what is half under the target's name is a
payload written over an image that was there, never a build, and `DeploymentCanBeUndone` that a
backup holds what was there. `BackupInv` says that a backup
is the deployment's copy, `RaceInv` that the target is still what was copied until
someone else writes it, `PriorInv` that what a content was written over is in the
backup of some deployment, for good, and `HalfInv` that whatever is half there has such a
predecessor, which has to be kept also for files that have been moved or copied
meanwhile (a backup or a rollback's copy may be half itself). `TargetIsFound` needs
`RestoreInv`, that what a rollback is about to move in is its verified copy, and
`FoundInv`, that the rollback which emptied the target's name still has both images.
On Windows the flags of a run say what
it holds up to the place in `finally` where it is given back, and what is held after
that was refused (`HiveInv`, `MountInv`); `PartialInv` and `KeptInv` follow the image a
run has begun.

### What is only model-checked

- Liveness: `CallsReturn`, `WaitingIsTaken`, `CcsReceivesAll`, `RemovalEnds`,
  `PresentReturns`, `ScriptEnds`. The prover has neither `ENABLED` nor fairness.
- The four violations: a counterexample is a proof already.
- What `ScanCodes` maps a single code to: nothing but the code states it. `InputPath`
  is proved about whatever the tables say.

## What the runs do not claim

The models show more disagreements between documents and code than there is a run for.
They follow from a definition or two:

- `README.md:33-35` says that the file layer caches "the volume which contains the wad".
  `native_open` (`native/win0-doom.c:292`, `Found`) remembers the prefix under which *any*
  file was first opened, one it has just created included; a file that is opened before the wad
  decides.
- Two deployments of one second have one name for their backups
  (`tools/deploy-vm.sh:16`, `:26`); one that reads the target when the other's payload is in it writes
  over the backup that `tools/deploy-vm.sh:36-37` tells the user to roll back to, and that
  `README.md:187-188` calls a checked rollback image. `DeploymentCanBeUndone` exempts the case
  by name (`SameSecond`).
- `README.md:165-166` says that `build-vm-image.sh` refuses to overwrite an existing output. It asks
  at its start (line 22, `Check`) and moves the image there hours later (line 53,
  `Publish`): the later of two builds for one output replaces the image of the earlier.
  The Windows builder does not (`BuildIsKept`), as `Move-Item` refuses.

`DeploymentCanBeUndone` also exempts a payload written while another script or the guest
has written the target since the backup was taken (`raced`), which leaves a backup of
something older; the script asks about a running VM only at its start.

A rollback that stopped between its two moves cannot be repeated as it was called:
`realpath -e` wants the target. `TargetIsFound` says what is there to repair it with.
A second `apply-generated-wim.sh` after one that stopped between the application and
the moves keeps the generated hive as the stock one, which is why
`HiveNeverLost` speaks, in its second part, of a system that is applied once; the first holds however
often it is.

Other hazards of the code that no property covers, because no document says what
should happen: a record that kbdclass did not take is mirrored, and may be dispatched,
a second time (`driver/win0doom-display.c:122`), which `DispatchInOrder` exempts by name
(`again`); a key whose release is lost in a full ring or to a second opener stays down
(`NoStuckKey` exempts it); one failed ioctl switches the keyboard off for the rest of the
run (`native/win0-doom.c:626`); the release of one of two keys that share a doom key lets
go of the other (`native/win0-doom.c:550`); `Connected` stays set when the driver
below fails the connect request (`driver/win0doom-display.c:241`); a file length made
stale through another handle or zero by a failed query (`native/win0-doom.c:315`, `:388`);
`native_tell` and `native_gettime` truncate to `int` (`native/win0-doom.c:415`, `:431`).

## Not modelled, and why

- Monitor and start scripts (`setup/scripts/*.ps1`): they write a line to qemu and read
  what comes within fixed delays. What can go wrong, a reply cut short, keys typed at a
  guest that is not ready, a screen dump of an earlier moment, depends on times that
  nothing in the tree bounds; every property would state what the model invented.
- `native_gettime`: two divisions and a truncation to `int`; the engine that uses the
  difference of two results is not in the tree.
- Printing and screen messages: wording.
- Release builds: compilers and signing tools called in sequence.
- Other probes: one call, one printed status; registry files: data.

## Plan

Done, in this order, the most important first: `KeyboardRing` with `InputQueue` and
its proofs; `InputPath`; `FilterDriver`, with its liveness; `FramePresent`;
`FileLayer`; `PrepareSigning`; `NbdAttach`; `ImageFiles` and `WindowsBuilder`;
`DisplayProbes`; `apply-generated-wim.sh` and the kept stores and hives in
`PrepareSigning`.

The invariants of all runs, the one action property on hives and the one refinement
are proved.

Next:

1. An abstract file with positions, and `FileLayer` shown to implement it while the
   queries succeed and handles do not share a file. It says something only once a
   seek of the code is told apart from the other changes of a position.
2. The invariants that the liveness arguments lean on, as lemmas of their own: which
   step a waiting actor can always take, short of `ENABLED`.
