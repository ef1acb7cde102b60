# Verification of the Nexell S5P4418 platform code

This directory holds TLA+ models of the platform's kernel driver and libraries,
TLC configurations that check them on small instances, and proofs that TLAPS
checks for every instance. The reference is always the C and C++ code; file
names below are relative to the repository.

## 1. The system

| Part | State it keeps | Operations | Talks to |
|---|---|---|---|
| VPU kernel driver, `modules/coda960/linux/linux_vpu_drv.c`, `src/nx_vpu_api.c` | table of codec instances, counters of open files, encoders and decoders, power, clock and firmware flags, saved registers, `private_data` of every file | open, close, 15 ioctls, suspend, resume, module load and unload | the VPU's registers; every process that codes video |
| VPU command and wait, `src/nx_vpu_api.c`, `vpu_hw_interface.c` | event flag, interrupt reason, busy flag, `needMoreFrame` | issue, wait, interrupt handler, reset, flush, close | the driver above (under its mutex), the VPU |
| VPU decoder and encoder commands, `src/nx_vpu_api.c` | per instance: stream ring, display flags, parameters | sequence set-up, frame buffers, frames, headers, parameter changes | as above |
| JPU, `src/nx_jpu_api.c` | its own event flag and reason | header, frame | as above |
| Video codec library, `library/src/libnxvpu/nx_video_api.c` | handle with buffers, group-of-pictures counter, display and time stamp queue | open, init, encode, decode, flush, close | the driver by ioctl; the allocator |
| Graphic tools, `library/src/libnxgraphictools/src` | reference count, service object, queue, two semaphores, one thread; surface caches per instance | open, do, close of four tools | client threads, the thread that owns the GL context |
| Movie player, `library/src/libnxmovieplayer` | handle, pipeline, loop thread | open, play, seek, pause, stop, close, bus callback | GStreamer and GLib, the media type finder |
| V4L2 library and its users (display, video input), `library/src/libnxv4l2` | device table; tables of queued buffers, count, streaming flag | init, stream on and off, queue and dequeue, reconfigure | V4L2 devices |
| Audio output, `library/src/libnxaudio` | file, device, playback thread, two flags | init, play, stop, deinit | ALSA |
| Parsers: NMEA, media types, ISO 7816, CEC | little or none | pure functions over a message | files and serial lines |
| ION, GPIO, PWM, ADC, JPEG, scaler, uevent | none | wrappers of system calls | the kernel |

`PROJECT.json` lists every part with its status, and under `hazards` every place
where the code is hard to test, with the line where it bites.

What is hard in this code, and hence what the properties are about:

* **Shared tables under one mutex, read outside it.** An ioctl copies
  `private_data` before it holds the mutex; instances are recycled; counters in
  three functions must agree with a table in a fourth.
* **Power.** Power, clock and firmware follow these counters, while the firmware
  may fail to start, hang, or be busy when the system suspends.
* **Interrupts.** The wait for the VPU ends by an event, a timeout or a signal;
  the event, the interrupt line and the reason register are cleared by
  different parties in different orders.
* **Threads.** One thread serves all users of the GPU through hand-made
  semaphores, a queue of pointers to stack records, and a flag that stops it.
* **Partial failure.** Opens and initialisations take several resources and give
  some of them back when a later one fails.

What makes each part correct:

* VPU driver: an instance belongs to one file; what is taken is counted and
  given back; registers are touched only under power and clock; the firmware's
  state survives a suspend; the last close turns the VPU off.
* Command and wait: no wake-up is missed, every wait ends, the result is that of
  the command, nothing is left behind for the next one.
* Decoder and encoder: stream that was not consumed is not overwritten; a frame
  on display is not decoded into; a pending command is not overrun.
* Graphic tools: each command is run once, before its caller returns; no caller
  waits for ever; the thread stops with its last user and only then. Every
  surface is destroyed by the close, and a draw uses the memory its call names.
* Codec library: no resource is lost on a failure path; the frame type sent
  agrees with the counter; a time stamp leaves with its own frame.
* JPU: as the VPU's wait; the answer is that of the picture asked for.
* Movie player, audio: stop and close return although callbacks and threads are
  at work, and free nothing that these still use; what opens with success plays.
* Video input: every buffer is in one place, its slot, its device or its user,
  and the two halves of a picture leave together.
* Parsers: total, in bounds, inverse to the formatters where there are such.

## 2. Modules

| Module | What it is | Code |
|---|---|---|
| `VpuDriver` | instances, quotas, power and firmware | `linux_vpu_drv.c`, open, close, init, power and resume of `nx_vpu_api.c` |
| `MCVpuDriver` | its instance for TLC, with symmetry | |
| `VpuDriverProofs` | theorems on `VpuDriver` | |
| `VpuIrq` | one command, its interrupt and its wait | `nx_vpu_api.c` 345-503 and its callers |
| `VpuDecoder` | decoder instances on one VPU: stream ring, display flags, paused commands | `nx_vpu_api.c` 1801-3195, decoder calls of `nx_video_api.c` |
| `MCVpuDecoder` | its instances for TLC | |
| `VpuDecoderProofs` | theorems on `VpuDecoder` | |
| `GTRequests` | abstract: what a command to the service promises | |
| `GTService` | the service, implements `GTRequests` | `nx_graphictools.cpp`, `NX_GTService.cpp` 690-890, `NX_Queue.cpp`, `NX_Semaphore.cpp` |
| `MCGTService` | its instance for TLC | |
| `GTServiceProofs` | theorems on `GTService`, and that it implements `GTRequests` | |
| `VidEncoder` | an encoder handle, its driver instance and its memory | `nx_video_api.c` 66-569, 1377-1508, encoder commands of `nx_vpu_api.c` |
| `VidDecoder` | a decoder handle, its memory, pictures and time stamps | `nx_video_api.c` 652-1248, 1510-1733 |
| `MCVidCodec` | their instance for TLC: one or the other | |
| `VidCodecProofs` | theorems on both | |
| `MoviePipeline` | what an open of the movie player builds, as operators | `NX_MoviePlay.c` 250-918 |
| `MoviePlay` | handles, calls, loop threads, bus callbacks | `NX_MoviePlay.c` 19-248, 968-1372 |
| `WaveFilePlayer` | the wave file player and its thread | `nx_audio.cpp` 26-83, 527-545, `CNX_WaveOutApi.cpp` |
| `MCPlayers` | the instance of the two players: one or the other | |
| `PlayersProofs` | theorems on both players | |
| `VideoInput` | capture buffers between queueing and dequeueing threads | `nx_vip.cpp` |
| `GTSurfaces` | the surface caches of a graphic tool's handle | `NX_GTService.cpp` 108-681 |
| `MCBufferTables` | the instance of `VideoInput` and `GTSurfaces`: one or the other | |
| `BufferTablesProofs` | theorems on both | |
| `JpuIrq` | pictures, interrupt handler and wait of the JPU | `nx_jpu_api.c` 264-360, 797-947 |
| `JpuIrqProofs` | theorems on `JpuIrq` | |
| `VpuIrqProofs` | theorems on `VpuIrq` | |

### VpuDriver

`hw` is one record: `on` is `gstIsVPUOn`, `clk` the clock gate, `init` is
`gstIsInitialized`, `busy` is `BIT_BUSY_FLAG`, `regs` says whether the registers
that `NX_VpuSuspend` saves hold what the firmware needs. `fault` is a history
bit that any register access without power or clock sets. The functions of
`nx_vpu_api.c` (`HwOn`, `VpuInit`, `VpuSuspend`, ...) are operators from such a
record to the next, so that a handler reads like its code:
`hw' = Clock(VpuDeInit(Clock(hw, TRUE)), FALSE)`.

Handlers run under `gstDrvMutex`, which cannot be interrupted
(`osapi/drv_osapi_linux.c`), so a handler is one step. The exception is what
`nx_vpu_ioctl` does before it takes the mutex, the copy of `private_data`:
`EnterIoctl` makes the copy, the action that follows uses it, and opens, closes
and other ioctls may come between. `nx_vpu_close` runs when no call of the file
is in progress, as the kernel guarantees. User threads are frozen outside the
driver when the system suspends, so no ioctl is between its two steps then.

What a codec command computes is left out. What it leaves behind is kept: the
busy flag may stay set after a wait that was given up, or after a command that
needs more stream. Three choices stand for the ways the firmware may start:
it answers, it starts but does not answer the version command (and is left
busy), it does not start. Failing copies to and from user space are choices too.
Assumed: a caller issues only the ioctls of the kind (decoder, encoder, JPEG) of
its instance, and `IOCTL_VPU_DEC_FLUSH` only with an instance - the driver does
not check either.

History variables: `owner` (the file that took a slot), `misuse` (a file opened
a second instance, or was told nothing of the one it got), `refused` (a suspend
found the VPU busy).

### VpuIrq

The four parties are the VPU (`HwDone`, `HwNeedsStream`), the interrupt handler
in three steps (`IsrTaken`, `IsrClears`, `IsrWakes`), the signal
(`WaitSignal`) and the driver, whose steps are the accesses to
`gVpuEventPresent`, `BIT_INT_REASON` and `BIT_INT_CLEAR` that another party can
see apart, in the order of `VPU_WaitVpuInterrupt` and `VPU_WaitBitInterrupt`.
A job in the VPU is running, paused for stream, hung or absent. `SWReset` ends it,
or gives up before it has reset anything (`VPU_RET_ERR_TIMEOUT`, lines 588-592), which
no caller looks at. The commands that are waited for by the busy flag
(`BusyFlagCommand`: SET_FRAME_BUF, the flush, header and parameter commands of the
encoder; SEQ_END in `CloseCommand`) raise no interrupt; only SEQ_END resets the VPU
when it times out. So a command that was given up may still be in the VPU when the
next one is issued over it (`stale`), and answer in its place (`HwLate`). `mine`,
`seenMine`, `expired`, `disturbed` and `unreset` (a reset or a busy-flag command failed,
and none since reset the VPU) are history variables. Constants say whether signals
arrive and whether the VPU may answer around its timeout.
Reasons other than completion and need for stream are left out, and so are two
instances at once, which are the subject of `VpuDecoder`.

### VpuDecoder

`inst` holds the fields of `VpuDecInfo` that outlive an ioctl, under their own
names; `reg` holds the three registers that every instance writes and reads;
`job` is the command that asked for more stream and stays in the VPU. An address
is an instance (whose buffer) and an offset, so that a position taken from a
register that another instance wrote is seen to be foreign. Sets of frame
indices stand for bit masks. Bytes have no content: `unread` counts those fed
and not consumed, and the ring is right if its two positions enclose that many.

An ioctl is one step under the mutex, one action per outcome. `FillBuffer`, the
issue or the resumption (`StartPic`, `PicStarted`), the wait and what is taken
over afterwards (`GetOutputInfo`) are operators in the order of the code. The
VPU reads any part of what lies between the pointers, decodes into and shows any
frame that its display flags leave free, or asks for stream, or fails.
`client[i].phase` is the library's view (`isInitialized` and whether a header
was parsed): it decides which ioctls come next. `held` are the frames on
display, `stale` those that a flush or a new header revoked and that the
display may still return, if `LateReturns`.

History: `marks` record a failed command since the last flush, a late return, a
command issued over the instance's own paused one, and a frame decoded into while
held; `crossed` records a command or an open while another instance's command
was paused. The driver does nothing to prevent that: `needMoreFrame` is known to
its instance only, and the mutex is free. What the firmware does then is unknown, so the model ends there, and
deadlock is not checked with two instances.

Assumed of the user, who is not in the repository: it feeds no more than the
room between the reported positions. `FillBuffer` compares the write position
with neither the read position nor the fill, so nothing else protects unread
stream; the comment on `strmReadPos` and `strmWritePos` in `nx_video_api.h:208`
("Remained bitstream buffer size") does not say that they are positions.
Left out: the end-of-stream bit, picture sizes and headers, and
`numFrameBuffer`, which nothing ever sets, so that `outFrameBuffer` is never
filled (the library uses its own copy).

### GTRequests and GTService

`GTRequests` has one variable, the state of every client's request: none,
asked, done; at most one request is under way. `GTService` implements it under
the mapping in its last lines (a request is asked when its caller is inside
`NX_GTServiceCommand`, done when its record has a result).

A client goes through the functions of `nx_graphictools.cpp` and, for each
command, through the calls of `NX_GTServiceCommand` one by one: lock, push,
post, pend, unlock. The service thread goes through its loop: test of
`bThreadRun`, count of the queue, pend, pop, run, post. A semaphore has a value
and one bit for a signal that was sent to its waiter and has not woken it yet;
both semaphores have one waiter at most. `pthread_cond_wait` returns on that
bit, and also without it if `Spurious` is TRUE. `gstInstMutex` is a variable
only because `NX_GTServiceStop` blocks under it. What a tool does with its
surfaces is in `GTSurfaces`; a failing `pthread_create` or `malloc` is left out.

### GTSurfaces

One handle and the client's buffers. `memory` is the memory behind each of the
client's descriptors, `cache` the two tables of the handle, whose slots hold a key
(`luPhyAddr`, or the descriptor of an RGB buffer; `Nil` for the 0 that marks a free
slot) and the memory its surface was made of. The four copies of Open, Do and Close
in the source are one definition each; the differences are `ByFd` (which side of
which tool is looked up by descriptor), `Recorded`, `Targets` and `Draws` (only the
deinterlacer keeps a failed surface out of the cache, returns, and looks before it
draws). `live` counts the surfaces that exist. `wrong` and `marks` are history.
Assumed: a surface holds its memory, so that an address is not given out again while
it is cached (the GL driver's doing, outside the repository), and `maxInOutBufSize`
is at most `MAX_GRAPHIC_BUF_SIZE`, which the code does not check. What goes on to
happen after a draw with NULL is not followed.

### VidEncoder and VidDecoder

`hEnc` and `hDec` hold the fields of the handles that decide anything, under their
names, `encInst` those of the driver's instance. Every buffer has a backing:
`own` (allocated and in the handle), `lost` (allocated, in no handle any more),
`freed` (given back while the driver's live instance still uses it), `user` for
frames of the caller. `Freed`, `Replaced`, `Given` are what freeing,
overwriting and allocating do to it. `NX_VidEncInit` and `NX_VidDecInit` are one
step each, with one disjunct per place where an allocation or an ioctl may fail;
what was done before that place stays done.

A call that fails may be made again: that is what the properties are about. The
code loses memory then, and `EncMemoryAccounted` and `DecMemoryAccounted` say
exactly when: an ioctl of open failed, an init was tried again, an allocation of
init failed (the error path frees `hInstanceBuf` under the live instance), a
header was parsed again. A decoder's init that is called again, with no header
accepted since, adds `addNumBuffers` to `numFrameBuffers` again (mark `retried`), so
that in the end it overruns `hFrameBuffer`: the user is assumed to add no more than there
is room for over what `NX_VidDecParseVideoCfg` told (`minBuffers`), and the code does
not keep to it. The `marks` are the history of these causes. Also
faithful to the code: an init without memory for the rate control returns success
and has set up nothing (`ReadyMeansSetUp` names it); the group-of-pictures counter
moves before the ioctl that may fail; a decode that failed returns `iRet`, which
the driver never wrote (`nx_video_api.c:1149`), so the caller sees success; a
picture with index -1 overwrites the field before the tables (`PutDispInfoNegative`);
a second field always goes to the second place, as an unsigned -10 is compared
with a 64-bit stamp. `InitGoesWild` is an init with more buffers than the tables
have; the model does not follow it further. `BoundEarly` bounds the number that inits
before the first header add up, which the header replaces.

Both stamps of a frame buffer are returned with its picture and set back (`Shown`). A
decode or a flush that fails after the driver carried it out, and a new header, drop
pictures without that; `strays` is the history of the stamps they leave, which are
returned with a later picture unless one is written over them. `StampsKept` shows
that these, and the index of -1, are the only foreign ones.

Left out: what is encoded, headers, picture sizes, rate control. Driver quirks
that are seen and have no effect on these properties: `rotateAngle` is stored
divided by 90 and compared with 90 and 270; `chgFlg | VPU_BIT_CHG_*` is always
true, and harmless, as the register `CHANGE_ENABLE` masks.

### MoviePipeline and MoviePlay

`MoviePipeline` has no state: from a content (which tracks, demuxer, audio type)
and the one element that cannot be made, `Built` says whether open goes on and
which tracks have a whole path. `gst_bin_add_many` and `gst_element_link_many` stop at
the first NULL (`UpToNull`), and links are made only inside the bin, so a parser that
was not made takes the elements after it along. `LinkMany` reports what was linked up to
there: an audio-only open links the source to the queue, finds its parser NULL in
third place, is told TRUE, and succeeds without a path to the sound. The results of
linking the audio beside a video are not looked at at all. `mute` names both cases. The list at `NX_MoviePlay.c:841` lacks its closing NULL; every link it
names is made before the words behind it are read, and a crash there is not
followed. An open without a volume element aborts the program and is excluded.

`MoviePlay` adds handles, calls and threads. Every loop is for the default main
context, so one thread at a time dispatches for all (`ready`, `call`). A handle is
`live` or `freed`; `wild` says that a freed one was used, by its own program, by a
program that was told ERROR, or by a callback, and ends the model. What the code
does and the properties name: ERROR of open does not tell whether the handle was
freed (line 1181) or kept (1164, 1170), so closing it may free twice and not
closing it leaks; the bus watch is never removed and the message of a player may be in
the hands of another player's thread, which its close does not join; a quit that
comes before `g_main_loop_run` is lost, and close hangs. Assumed: a program calls
from one thread per handle and not from its callback (a close there would join
itself).

### WaveFilePlayer

`player` has the fields of the class, `wave` is where its thread is in
`ThreadProc`, `caller` where the program is in a call. The stores to
`m_bStopPlay` and `m_bRunning` and the tests of them are steps of their own. A start
has one outcome per return value. The constructor leaves the two flags as the
memory is, so a stop that waits on a fresh handle may wait for ever (hence no
liveness is claimed). A write lasts as long as the device likes; one that always
fails would never end either, as `WaveOutPlayBuffer` does not look at
`m_bStopPlay`. `NX_AudioDeinit` is possible at any time between calls: it neither stops nor
joins the thread, and its destructor deletes the device and closes the file. When the
thread is under way (`torn`) the thread then uses a deleted object, which
`DevicesAccounted` names and the model does not follow further. A thread that is through is
never joined either. Seen and not modelled: every replay drops a FILE and a closed
`CNX_WaveOut` object; a file with two format chunks is taken, with the position
and size of the file before.

### VideoInput

`pMgmtMem` are the two tables of the handle, `queued` and `streaming` the devices'
side, `held` the buffers in the program's hands. A queueing thread takes a slot under the mutex, hands the
buffer to one device after the other and switches the stream on, a dequeueing
thread tests the count under the mutex, dequeues, takes from the slot and counts
down: a step for each access that another thread can come between. Reading and
clearing a slot is one step. QBUF, STREAMON, STREAMOFF and DQBUF may fail at any time, and
the code looks at no result. A buffer that its device did not take (`refused`) keeps its
slot and its count until the next `NX_VipChangeConfig`. A device that did not start is not
tried again, because `streamOnFlag` is set before. `Got` is what `v4l2_dqbuf` yields; when
it fails the index is whatever was on the stack (`stray`). The model follows a stray
index within the table, and ends at one outside it. `NX_VipChangeConfig` is two steps; if
another call is inside it meanwhile, or a device cannot be stopped, the driver keeps
buffers that the handle forgets and the count may go below zero. `mishaps` is the
history of all this: which calls ran into which (`queue`, `start`, `dequeue`,
`config`) and which ioctls failed (`refused`, `on`, `dqbuf`). It and `stray` begin anew with
a configuration change, or a close, of a handle that no thread is in and whose devices
come to rest.
Assumed: `NX_VipClose`, which takes no lock, is called when no other call runs;
a reconfiguration keeps the mode, which the code does not store.
`NX_VipGetCurrentQueuedCount` of `nx_vip.h` does not exist: the source defines
`NX_VipGetCurrentBufCount`.

### JpuIrq

Like `VpuIrq`, for one picture after another. The differences are in the code: the
handler clears the status register before it stores the reason and sets the
event; after a signal the driver returns whatever reason is stored; after a timeout it
leaves the event alone and resets blocks of the VPU that do not include the JPU,
which may go on. From then on each picture may be answered by its predecessor's
interrupt, and nothing ends that. `mine`, `complete`, `expired` and `disturbed`
are history.

## 3. Runs

| Run | Instance | What it shows |
|---|---|---|
| `vpu_driver` | 3 files, 2 threads, 2 slots, 1 encoder and 1 decoder | all safety properties of `VpuDriver`, and `LastCloseOff` |
| `vpu_suspend` | 1 file, 1 thread | finding: a suspend that found the VPU busy loses the firmware's registers |
| `vpu_irq` | signals and late answers on | no missed interrupt, clean and honest waits though resets may fail, `WaitEnds` |
| `vpu_irq_signal` | signals on, late answers off | finding: a signal makes a later command time out at once |
| `vpu_decoder` | 1 instance, ring of 3, 2 frames, late returns | stream and frames add up through wraps, pauses, failures, flushes, new headers |
| `vpu_decoder_shared` | 2 instances, rings of 2, 1 frame of the first | the same while ioctls interleave, and each instance resumes its own command |
| `gt_service` | 2 clients, 3 openings, 1 drawing command each | safety, `StopReturns`, and the refinement of `GTRequests` |
| `gt_spurious` | spurious wake-ups on | finding: a caller may return before its command was run |
| `vid_codec` | one encoder, or one decoder with 2 frames and 2 stamps | memory through failures and retries, set-up, key frames, time stamps |
| `players` | 2 movie players, or one wave player with up to 3 blocks | handles, devices, whole paths, heeded stops, `CloseReturns` |
| `buffer_tables` | capture: 2 queueing and 2 dequeueing threads, 3 slots, 3 buffers, 3 modes, ioctls that fail; surfaces: 2 buffers, 3 memories, 1 or 2 slots, 2 troubles | buffers accounted for, pairs kept together; surfaces accounted for, draws of what is named |
| `jpu_irq` | no parameters | no missed picture; honest results while no wait is cut short |

Bounds. Three files and two slots make open files outnumber neither slots nor
quotas alone: a third open is refused, a slot is recycled between two others,
and a file can open a second instance while another waits. Two threads are
enough for any two ioctls to overlap, on one file or on two. The proofs remove
the bounds for the properties they cover. In `gt_service` two clients suffice
for a stop racing an open and for a command waiting for the lock; three openings
let the service start, stop and start again with the other client around, in
both ways (the object reused or new). `MaxSessions` and `MaxDos` only bound the
run; deadlock is not checked there because a finished run stops. `VpuIrq` has no
bound. In
`vpu_decoder` a ring of three takes chunks that end before, at and after its end,
and two frames let one be on display while the other is decoded into. In
`vpu_decoder_shared` two offsets and one frame tell own positions and flags from
foreign ones, whose set is empty. `VpuDecoder` has no counter to bound and claims
no liveness.

In `vid_codec` the two handles share nothing but the driver, so a process uses one
of them; the constraint `TroubleWithoutPictures` keeps a decoder whose set-up went
wrong from keeping pictures too, as memory and stamps do not meet. Two stamps, and two
headers, tell own from foreign, and are symmetric. In `players` two movie players are what a foreign dispatch takes; the same
argument as above lets one run serve both libraries, and three blocks let a stop
find one under way, one to come and one too many. In `buffer_tables` two threads a
side are what the two races (slots, halves of a pair) take, and three buffers for three
slots leave one filled, one queued and one on the way; the constraint
`Undisturbed` stops at a stray index or a disturbed reconfiguration, after which neither
property says anything, and at a second refused buffer or failed STREAMON (`MaxFailed`),
which costs a slot like the first. For the
surfaces two buffers overfill one slot, and with the third memory and a replaced
buffer two slots by address; two troubles (`MaxTroubles`, sides that failed and
descriptors that were reused) meet in every combination. Symmetry is
used with safety only. `JpuIrq` has no bound.

Fairness. In `MoviePlay` loop threads are weakly fair, and so is a close whose
thread has ended: they are threads the scheduler runs, and the callback is assumed
to return. In `VpuIrq` the handler and the hardware are weakly fair (an
interrupt that is asserted is taken; a command that does not hang ends) and so
is the driver's own progress: it sleeps only in calls with a timeout, and the
timeout is a kernel timer. Commands, closes and signals are not fair. In
`GTService` the service thread and a client inside a command or a stop are
weakly fair: they are threads the scheduler runs, and where they wait they are
not enabled. Opening, drawing, closing, and entering the lock are not fair.

Each property has a mutant in `PROJECT.json`: a definition changed as a plausible
bug would change it (a quota off by one, a flag not reset, a semaphore posted
without a signal, a reset left out), which the run must reject.

### Findings

1. `linux_vpu_drv.c:661` announces suspend and resume support for the firmware.
   `NX_VpuSuspend` refuses with `VPU_RET_BUSY` when the VPU is busy, before it
   saves anything; the driver ignores the result. `NX_VpuResume` then restores
   registers that were never saved, and `gstIsInitialized` stays set.
   `FirmwareSurvives` shows that this is the only way to lose them.
2. After a signal, the poll may see the interrupt's reason before the handler
   has set the event. The event stays set, and the next command is reported as
   timed out at once. `HonestResults` shows that without signals and late
   answers results are right.
3. `NX_SemaporePend` has no loop around `pthread_cond_wait`. A spurious wake-up
   lets `NX_GTServiceCommand` return early, with its record still in the queue
   or in use. Without spurious wake-ups `gt_service` holds.

## 4. Proofs

`VpuDriverProofs` proves, for any number of files, threads and slots and any
quotas that `Limits` admits:

* `FilesCorrect`: `Spec => []FilesInv`. `FilesInv` says that every variable
  has its type, that `gstCurNumInstance` is the number of open files and never
  more than `MaxInst`, that every ioctl under way is on an open file of a running
  system, and that no file is open while the module is not loaded. That a file is
  closed only when no ioctl of it is running is what makes it inductive. The
  counters of encoders and decoders are only integers at this stage.
* `HandlesAlwaysOwned`: `HandlesOwned` is inductive given `FilesInv`. Slots are
  released in bulk only by a boot of the VPU, a boot happens only when
  `gstCurNumInstance` is 0, and then `FilesInv` leaves no file that could hold
  one. Otherwise only the owner's close releases a slot.
* `HwAlwaysDisciplined`: `HwDiscipline` follows from `PowerInv`, inductive given
  `FilesInv`: between handlers the clock is gated, an initialised VPU is powered
  while the system runs, and whoever holds an instance holds it of an
  initialised VPU. The last part is why `CloseInstance` and the commands, which
  do not look at `gstIsInitialized`, touch a VPU that is on: the VPU goes down
  only with the last file.
* `QuotaAlwaysCovers`: `QuotaCoversHolders` is inductive given `FilesInv` and
  `HandlesOwned`. A close decrements a counter and removes one file from the set
  that it covers; an open increments it and adds one at most. `HandlesOwned`
  gives that the slot a close releases, or an open takes, is in the hands of no
  other file, so no other file changes its kind.
* `TypeCorrect`: `TypeOK`, from `FilesInv` and the previous theorem: only with it
  are the counters known not to fall below 0.

* `QuotaAlwaysExact` and `NeverStaleInit`: while no file was misused, `SlotInv`
  says the converse of `HandlesOwned` (a slot in use belongs to an open file that
  points to it), that the counters are the slots in use, and that only those are
  initialized. That who is within a quota finds a free slot then follows from the
  quotas fitting in the array, by counting.
* `FirmwareAlwaysSurvives`: `FwInv` adds to `FirmwareSurvives` what a suspended
  system keeps in `store`, and that an unloaded module is not suspended. The lemmas on
  the hardware functions say which of them leave the registers as they were.
* `LastCloseAlwaysOff`: the action property `LastCloseOff`; of all steps only a
  close takes the last file away, and it ends in `VpuDeInit`.

`JpuIrqProofs` proves for `JpuIrq`, which has no parameters but unboundedly many
pictures:

* `PictureNeverMissed`: `NoMissedPicture` is inductive as it stands. The event is
  taken back only after a wait, and a start forgets the picture before.
* `PictureAlwaysHonest`: `HonestPicture` follows from `OnePlace`: while no wait was
  cut short, the answer to a picture is in exactly one of the status register, the
  handler's copy, the stored reason and the event, in none of them before the JPU
  is through and in none after the event was taken. The proof has one step per
  action; `WaitTimeout` is the one where the case split on `Silent` matters.
* `JpuTypeCorrect`, on which it rests.

`VpuIrqProofs` proves for `VpuIrq`, with or without signals and late answers:

* `InterruptNeverMissed`: `NoMissedInterrupt` is inductive as it stands. A command
  that is issued has no answer yet, and the event is taken back only after the
  wait is over.
* `AlwaysClean` and `AlwaysHonest`: `CleanBetweenCommands` and `HonestResults`
  follow from `OneAnswer`: while no wait was disturbed, the interrupt of an answer
  is in exactly one place (the line, the handler between clearing it and setting
  the event, or the event), there is none before the VPU answers, and none is left
  once the wait has found it; a reset that fails leaves at most a command that hung, which
  no later one is mistaken for. Neither property is inductive alone: both speak only
  of the time between commands, when everything has been cleaned up.
* `IrqTypeCorrect`, on which they rest.

`VpuDecoderProofs` proves, for every ring size, all sets of frames and any number of
instances (`Parameters`): `RingAlwaysSound`, `FramesAlwaysAccounted`,
`HeldAlwaysIntact`, `PausedCommandAlwaysKept` and `DecoderTypeCorrect`. Until commands of
two instances cross, each open instance has `RingInv` (its positions enclose what is
unread), `PauseInv` (a paused command is its own, has stopped within the unread
stream, and the shared display register is that of this command) and `LentInv` (frames on
display are not free for the VPU, and the converse until something fails). `PauseInv`
is what makes it inductive: it says what the shared registers hold while the
instance's fields are out of date. The lemmas on the ring (`GapIs`, `AheadIs`) replace
the remainder by its two cases, so that the wrap is linear arithmetic.

`GTServiceProofs` proves for any number of clients, of openings and of commands, when
no wake-up is spurious (`~Spurious`; with spurious wake-ups they are false, which
`gt_spurious` shows):

* `AlwaysOneAnswer`, `AlwaysAnsweredFirst`, `WakeupNeverLost`, `NeverStoppedUnderUse`,
  `RestartsAfterExit`, `GTTypeCorrect`. The invariant has three layers. `LockInv`: who is
  between which calls holds which mutex, the reference count is the number of instances,
  and the service runs while it is not 0. `ExchangeInv`: the one command is in one of
  four places (queue, thread, answered, none), by the place of the client that holds
  `hLock`. `TokenInv`: a post that has not been taken is in the value of `hSemCmd`, or
  the thread has passed its pend. None of the properties is inductive alone: that
  an answer is taken depends on the lock, that a wake-up is not lost on the queue.
* `ServiceImplementsRequests`: under the mapping that ends `GTService` every initial
  state is one of `GTRequests` and every step is one of its steps (a request is asked
  when the lock is taken, carried out by the service's run, forgotten on unlock) or a stutter.

`VidCodecProofs` proves, for every group size and table size (`EncParameters`,
`DecParameters`, `BufferNames`):

* `EncMemoryAlwaysAccounted`, `ReadyAlwaysMeansSetUp`, `EncoderTypeCorrect`: with
  `FreshInv`, a handle that is not set up owns nothing that `Init` allocates, unless an
  attempt was abandoned. Every failure path of `Init` is a case of its own.
* `KeyFramesKeepTheirInterval`: by `GopInv`, `GopFrmCnt` is never behind the
  number of pictures since the last I picture.
* `DecMemoryAlwaysAccounted`, `DecoderHandleTypeCorrect`: with `OwnInv`, which says which buffers a
  handle can own at which stage, and that those `FreeDecoderMemory` does not find come
  from a repeated header or set-up only, and `CountInv`: until the first init for a header
  the handle counts as many frames as the header asked for, so that an overrun takes an
  init that was called again, or a switch between own and passed buffers.
* `StampsAlwaysKept`: `StampsKept` is inductive with the types, one frame buffer at a
  time (`KeptAt`): a picture writes one cell of its buffer (`PutKeeps`), and both are set back
  when it is shown (`ShownKeeps`).

`PlayersProofs` proves:

* for files of any number of blocks (`SomeBlocks`), `PlayerAlwaysStops` and
  `DevicesAlwaysAccounted`. `DeviceInv` ties the thread to its device and file until the handle is deleted under it; `StopInv`
  follows the two flags through a stop: between its first and its last step the thread counts
  as running, the request stays set once the thread has begun, and the blocks
  written after it are one at most.
* for any number of movie handles, `HandlesAlwaysAccounted`, `OpenAlwaysMeansPlayable`
  and `MovieTypeCorrect`. `PlayerInv` says in which places of its program a handle is alive and
  linked. That an open which succeeds has built whole paths is a lemma on the operators of
  `MoviePipeline`: lists end before the first element that was not made (`UpToNullIs`), so
  `gst_bin_add_many` adds the path when all of it was made (`HeadIsAdded`), and
  `gst_element_link_many` reports success only when at least two of its elements were
  (`LinkNeedsTwo`). For the video, whose parser is the second of its list, that is
  enough; for the sound, whose parser is the third, it is not, and `mute` takes the rest.

`BufferTablesProofs` proves for `GTSurfaces`, with any number of slots, buffers and
descriptors (`SurfaceBounds`), `SurfacesAlwaysAccounted` and `AlwaysDrawsWhatIsNamed`. `SlotsSound` says
what a slot holds: the memory its key names, or named when its descriptor was reused, or NULL where a
surface failed. `SlotsDistinct` says that no two slots have one key until
then. A draw with NULL and no failure finds all slots taken by different other keys, which are
as many as slots (`AsManyKeysAsSlots`).

It proves for `VideoInput`, for any number of threads, slots (`SizeAssumption`) and
memories (`ThreadsAssumption`: finitely many threads; `NoneIsNoMemory`: an empty slot
is not a memory):

* `SlotsAlwaysAccounted`. The property counts and is not inductive. `VipInv` says
  where every buffer is: with a queuer that still has to hand it to the device
  (`HandOf`), in the device (`queued`), or with a dequeuer that has its index but has
  not emptied the slot (`FillOf`). `Agrees` has one device's table, without the slots
  of refused buffers (`Live`), and these three
  agree, slot by slot and in number; a lemma for each of the five moves of a buffer
  (claimed, handed over, refused, given back, taken out) says that it keeps. The counter covers
  the slots taken, and so a claim that passes the test of `curQueuedSize` finds a slot
  in every table (`ClaimFits`). `StartInv` has no dequeuer let in before every device
  streams, until calls run into each other or a device does not start; so a stray index
  takes one of these, or a DQBUF that fails of itself.
* `PairsAlwaysTogether`. The clipper and the decimator have queues, tables and slot numbers of
  their own and are asked one after the other; what they share is order. `LineOf` is
  a device's memories in the order they will be taken. With one thread at each end
  and nothing refused the lines of both devices are equal (`PairInv`): a claim adds the same memory at the
  end of each, a move along the way changes neither, and taking removes the first of each.

The only assumption of `VpuDriverProofs` is `Limits` (the array is not empty and the two quotas fit
in it, as in `nx_vpu_config.h`). That a first free slot exists, which the code
finds with a loop, is proved (`LeastExists`) by well-founded induction on sets.

Every safety invariant of the passing runs is a theorem, and of their other properties
all but those with fairness.
Out of reach of the prover, and left to TLC: liveness under fairness and `ENABLED`
(`WaitEnds`, `StopReturns`, `CloseReturns`, the fairness part of `KeepsPromise`), and
induction over data or recursive operators, which the modules that are proved about
avoid.

## 5. Not modelled, and the plan

Not modelled, and why:

* Firmware images (three headers of binary tables, half of the repository's lines)
  and `nx_vpu_gdi.c` (register tables): no behaviour between calls.
* GL rendering and shaders of the graphic tools, JPEG and scaler wrappers, GPIO,
  PWM, ADC, uevent, CEC: calls of libraries and devices without state of their own.
* The display half of the V4L2 users, `nx_dsp.cpp`: one index and one flag. Its mutex is
  never used, so it is for one thread.
* The media type finder: a pipeline that runs to its end within one call. The
  movie player takes every content it could report.
* The headers and tables that the VPU and JPU drivers write, the wave and MPEG-4
  header parsers, NMEA and ISO 7816: functions of their input.
* A failing `pthread_create` in the graphic tools' service, after which every
  command would hang (`NX_GTService.cpp:839`).

Next, in this order:

1. An abstract pool of frames (lent, returned, revoked) that `VpuDecoder`
   implements while no frame is returned late.
2. Pure algorithms against reference definitions over bounded inputs: NMEA check
   sums and fields, start-code parsing, header and table writers.
