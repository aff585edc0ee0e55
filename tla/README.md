# Verification of the data logger and its JPEG library

The Android app under `app/` logs Phidget devices (interface kits,
thermometers, accelerometers) that a network server announces, and shows an
MJPEG camera. Its own logic is about 4,000 lines of Java
(`app/src/main/java/com/greenenergyresearch/jamesfolk/datalogger/`) and 320
lines of JNI glue. The camera's pictures are decoded by libjpeg 8d, which the
repository builds from source (`app/src/main/jni/jpeg8d`, 44,000 lines of C):
nine tenths of the code that is compiled here. `phidget21.jar`, AChartEngine
and the Android framework are used as they are. There are no tests, and no docs
of the app beyond comments; the library has its comments and `libjpeg.txt`. The
models are read from the code.

In this document T is `TabsFragmentActivity.java`, G `PhidgetGraphViewTab.java`,
F `PhidgetHardware/PhidgetHardwareFactory.java`, MA `MjpegActivity.java`,
MV `MjpegView.java`, MI `MjpegInputStream.java` and IP `jni/ImageProc/ImageProc.c`;
file names without a directory are those of `jpeg8d`.

## 1. Inventory

| Component | State | Operations | Hard about it | Correct when |
|---|---|---|---|---|
| Library callbacks (T 184-435) | handler monitors, the main looper's queue | four listeners on library threads, four handlers on the main thread | `wait`/`notify` without a condition, two locks in play | no wakeup is lost, a callback returns, and only once its handler ran |
| Device tabs and lifecycle (T, `ServerChooser`) | tab host, `mapTabInfo`, `mLastTab`, fragments, static `m_TabSpeclist`, `m_DeviceManager` | attach, detach, disconnect, select, open, Back, background, restore | static state across instances, transactions after the saved state, rebuild of all tabs on one departure | one tab per announced device, the fragment shown is the current tab's, the process survives |
| Device tab (G, F, `Abstract`-, `InterfaceKit`-, `Temperature`-, `AccelerometerPhidgetHardware`) | chart dataset and renderer, `m_PhidgetPolls`, `m_LogData`, the connection | start, poll, log, plot, toggle logging, show, hide, destroy, restore, link, drop | poller, main thread and library share it without a lock; the device can go between any two calls; the poller waits in a serial executor and never ends | chart consistent, series in step, what is logged is plotted |
| Camera tab (MA, MV) | the view's thread, stream, `mRun`, `surfaceDone`, two `suspending` flags | create, resume, pause, hide, destroy, surface created/destroyed, DoRead answers, the thread's loop | answers that come late or twice, `join` on the main thread, a surface that vanishes | one thread reads, only with a surface; playback resumes; stopping returns; memory outlives its readers |
| Frame scanner (MI) | stream position, `mContentLength` | find SOI, parse header, find EOI, mark, reset, read | where a search begins depends on the frame before; a field hidden by a local | the bytes decoded are one picture, none is skipped |
| Native glue (IP) | static `rgb`, `IMG_WIDTH`, `IMG_HEIGHT` | decode, copy, free | sizes that outlive their stream, a buffer that does not | a copy reads what was decoded |
| DCT (`jfdct*`, `jidct*`, `jcdctmgr.c`, `jddctmgr.c`) | kernels chosen, divisor and multiplier tables | start of a pass, transform and quantize, dequantize and transform back | sixty hand-derived kernels in scaled integers; tables that are shared or kept between passes | a coefficient is the true one to half a step, the inverse gives the block back |
| Huffman coding (`jchuff.c`, `jdhuff.c`) | EOB runs, correction bits, bit position, predictions | MCUs of five kinds of scans, gathering, restarts, resynchronization | suspension inside an MCU, lost data, two passes that must agree | the image comes back; damage stays in its interval; every symbol has a code |
| Arithmetic coding (`jcarith.c`, `jdarith.c`, `jaricom.c`) | registers, statistics bins, contexts | decisions, MCUs, termination, restarts | carries through held-back bytes, a stream cut as short as it can be, damaged data | the same |
| Decompression control (`jdapi*.c`, `jdinput.c`, `jdmarker.c`, `jdcoefct.c`, `jdmaster.c`) | global state, scan numbers, coefficient arrays | the application's calls, markers, input and output passes | any call may suspend; input and output of a buffered image interleave as the application likes; one object, many images | what is shown has the scan asked for; what is begun ends |
| Memory manager (`jmemmgr.c`, `jmemnobs.c`) | pools, virtual arrays, temporary files | small and large objects, realize, access, free | a window of rows slides over a file; an allocation fails half-way | arrays look plain; all is accounted for and freed |
| Compression control, headers (`jcapi*.c`, `jcmaster.c`, `jcparam.c`, `jcmarker.c`, ...) | parameters, scan script | passes, markers | - | only the order of passes is here |
| Colour conversion, sampling, buffers, quantizers | row buffers, colour maps | loops over samples | - | - |
| Transcoding, command-line programs, file formats | - | - | not in the app's library | - |
| Hardware index (F 24-160) | static counters per class | open, close | an index derived from how many are open | no two open devices share an index |
| Tasks and executors (`SplashScreen`, G, MA) | serial executor, thread pool | execute | a task without end on a serial executor | every task runs |
| Mail export (G 404-470, `PhidgetData/*`) | static paths, the list of polls | screenshot, CSV, intent | runs on a thread of its own beside polling and hiding | the mail holds this tab's data |
| Camera address (`SettingsActivity`) | six fields | accept, cancel | unreachable at this commit | - |
| `EmailDialogue`, `GMailSender` | - | - | dead code: nothing launches them | - |

How they interact: the library's threads call listeners of T, which hand the
event to the main thread and wait (UiHandshake); the handler changes the tabs
(DeviceTabs); selecting a tab shows or hides its fragment, which is a device
tab (GraphPolling) or the camera tab (CameraPlayback). The camera's thread
takes a picture from the stream and has it decoded (CameraFrames), which runs
libjpeg's decompressor: the control (DecoderControl) reads markers and MCUs
through an entropy decoder (ProgressiveScans, ArithmeticScans) into arrays of
the memory manager (MemoryManager), and the inverse DCT makes samples of them
(DctCodec). The pollers of the device tabs and the camera's `onResume` share
Android's serial executor.

`PROJECT.json` lists the hazards of this code by line, with the properties that
would catch each, or the reason why none does.

## 2. Modules

| Module | Of | Role |
|---|---|---|
| `UiHandshake` | callbacks and handlers of T | the wait/notify protocol, step by step |
| `SyncCallback` | - | the abstract synchronous call it implements |
| `DeviceTabs`, `MCDeviceTabs` | T | tabs, fragments, lifecycle, several instances |
| `TabDirectory` | - | what the user expects of the tabs: devices come and go, one tab is selected |
| `TabsActivityProofs` | | safety properties and refinements of the handshake and of the tabs, the two parts of T, proved |
| `GraphPolling` | G, F, hardware classes | poller against main thread and device |
| `GraphPollingProofs` | | its safety properties, proved |
| `CameraPlayback` | MA, MV | fragment, views, threads, DoRead tasks |
| `CameraPlaybackProofs` | | its safety properties, proved |
| `CameraFrames`, `MCCameraFrames` | MI, IP | the turns of the camera's loop: scanner and native buffer |
| `CameraFramesProofs` | | what the scanner cuts out and what ends playback, proved for streams of any length |
| `DctScaling`, `FdctKernels`, `IdctKernels` | `jdct.h`, `jfdctint.c`, `jidctint.c` | the kernels, as operators |
| `DctCodec`, `MCDctCodec` | `jcdctmgr.c`, `jddctmgr.c`, `jfdctfst.c`, `jidctfst.c` | the DCT managers around them, and the fast kernels |
| `ProgressiveScans`, `MCProgressiveScans` | `jchuff.c`, `jdhuff.c`, restart recovery of `jdmarker.c` | encoder, a source that suspends or loses data, decoder |
| `ArithmeticCoder` | `jcarith.c`, `jdarith.c`, `jaricom.c` | the registers of the binary coder, as operators |
| `ArithmeticScans`, `MCArithmeticScans` | the same | scans coded and decoded with it |
| `ArithmeticProofs` | | the encoder's registers and bytes, the decoder's registers, place and bins, proved |
| `DecoderControl`, `MCDecoderControl` | `jdapimin.c`, `jdapistd.c`, `jdinput.c`, `jdmaster.c`, `jdcoefct.c`, `jdmarker.c` | the application's calls over a stream that may run dry |
| `DecoderControlProofs` | | its safety properties, proved for any stream |
| `MemoryManager`, `MCMemoryManager` | `jmemmgr.c` | pools and virtual arrays |
| `FlatArrays` | - | what virtual arrays promise: plain arrays of rows |
| `FoldLemmas` | | what the folds of the community modules compute: sums over finite sets, selections from sequences |
| `MemoryManagerProofs` | | windows, books and the share of memory, proved; that they are plain arrays |

### UiHandshake
One action for each step of a callback (`Enter` locks the fresh handler's
monitor, `Post` is `runOnUiThread`, `Wait` is `handler.wait()`, `Wake` its
return) and of a handler (`Run`, `Notify`). The four callbacks and the four
handlers repeat the same text; the map names a different one of them for each
step. A handler object is fresh for each callback, so a handler value may be
taken only when nothing refers to it any more. `wait` may return spuriously in
the threads of `SpuriousThreads`, as `java.lang.Object` permits: no wakeup is
lost then either, but the call of such a thread is no longer synchronous, since
`wait` is not called in a loop. `ReturnsOnlyWhenDone` and the refinement of
`SyncCallback` are about the other threads, `SafeThreads`: whatever a spurious
wakeup does to one callback, it does nothing to another.

### DeviceTabs
Each handler runs alone on the main thread, so it is one action; its body is
an operator on the record of one activity's tabs, call by call (`AddTab`,
`RemoveTab`, `OnTabChanged`). `SetCurrentTab`, `HostAddTab` and `ClearAllTabs`
are Android's TabHost and `Committed` is the fragment manager's refusal of a
transaction after the state was saved: these are external. `m_TabSpeclist` is
static, so it is one variable for all instances. Devices arrive and leave at
the server (`Plug`, `Unplug`); an open manager announces the difference
(`Attach`, `Detach`). `Recreate` restores an activity in the same or in a new
process.

### GraphPolling
The poller's steps are what it does between two questions to the device:
`getNumberOfSeries()` is asked anew in every turn of every loop, and a device
that has been dropped answers 0 or throws. The main thread toggles, hides,
shows and shows progress. `Destroy` is `onDestroyView`, if there are views, and
`onDestroy`, which closes the connection and takes the hardware object for
granted; nothing ends the poller. A tab has no such object if its device is of a
class that `open()` does not know (`Init`), or if Android has restored it:
`Recreate` makes the fragment anew without its bundle, after `Destroy` or after
the end of the process.

`onCreate` starts the poller with `AsyncTask.execute`, on the serial executor
of the process. A poller never returns, so the one that starts first keeps all
others waiting: the tabs opened after it are never polled. `behind` is whether a
task that does not end is before this tab's poller in the queue, any value at the
start and after a restore; `Start` is the executor getting to it. `late` and the
counters of polls, links and drops are history; `Losses` counts the drops and
the closing of the connection.

Outside the model are the thread of the mail export and the drawing of the chart
by AChartEngine, which may throw as well: what is said of how the process ends is
about the tab's own code on the main thread.

### CameraPlayback
The methods of MV are operators on a record of the current view and the
threads. `stopPlayback` is in two parts, since the main thread waits in
`join()`: `Stopping` before and `Joined` after, with nothing else of the main
thread in between. `Hide` is the sequence onPause and surfaceDestroyed that a
detach runs in one piece. `Hide` also fills the serial executor, because the
tab that replaces the camera starts its endless poller there with `execute()`;
a poller of an earlier session may hold it from the start. The thread's loop
reads `mRun`, `surfaceDone` and `mIn` in separate steps. These fields are not
volatile, but every turn of the loop contains calls into other classes and a
native method, so they are not kept in registers across turns. What the
scanner makes of the bytes is a choice of four outcomes: a frame, -1, an
IOException (swallowed by the loop) and an exception that ends the process;
CameraFrames says which of them when.
`late`, `refused`, `starved` and `crowded` record why playback may be off.
Not in the model: devices that leave while the activity is paused but not yet
stopped (a detach in that window does not run onPause again), `RestartApp`,
and Android before 3.0, where DoRead has one executor.

### CameraFrames
A stream is a sequence of frames, each a header of some length and a JPEG
picture; the reader sees only the bytes, and a byte is one of 0xFF, 0xD8, 0xD9
and any other. `Search` is the loop that looks for a marker, `Simplified` and
`FromMark` the two ways to look for the end of a picture. What they find out is
`Found`, `Dropped` when the stream runs dry or `reset()` throws before a length
is known, or `Late` when the marker was found too far behind the mark: then
`mContentLength` has its new value although `reset()` throws, and the next search
goes by it (`Lost`). `ReadMjpegFrame` is one turn of the playback loop, split by
where it gets to: mark, reset, early returns and the native `pixeltobmp` included. The exceptions that the scanner
can throw are told apart in `loop`, as the loop catches only some of them.
Assumed of the camera: headers hold no
marker bytes, a picture no other picture (a thumbnail), and all pictures have
one resolution; of the decoder, that it decodes a whole picture or fails.

`Fits` asks that a frame be shorter than `FRAME_MAX_LENGTH`, not just as long:
where the search behind a short picture stops at the first byte of a frame of
exactly that length, it ends that picture, and from there the next start marker
is one byte out of sight. `getEndOfSeqeunce` answers -1 and `new byte[-1]` ends
the process. The attempt to prove `EndsExplained` for frames up to and including
that length failed on this case; the run now has it, with headers longer than
the pictures.

### DctCodec and its kernels
`FdctKernels` and `IdctKernels` have each butterfly once, with constants as
parameter, since pass 1 and pass 2 of most sizes differ only in them; the
integers are those of the source (`FIX` values of 13 bits, `RIGHT_SHIFT`,
`range_limit` with its wrap-around). The fast kernels are in `DctCodec`, with
the managers: which kernel a component gets, and the tables that belong to it.
A block is a cosine wave, whose transform is one coefficient: what is right for
every kernel is known without any other transform. `JDCT_FLOAT` is not
modelled, as TLC has no reals.

### ProgressiveScans
Encoder and decoder in sequence: the encoder codes each scan twice (counting,
writing), then the stream arrives element by element (`Arrive`), may lose a
stretch of elements in one place (`Lose`), and the decoder decodes MCU by MCU,
each to its end or to where the data runs out. Elements are symbols, bits and
markers; code lengths, byte stuffing and the bit buffer are left out.

### ArithmeticCoder and ArithmeticScans
Down to the bytes: here the code is the registers, so nothing of them is
abstracted. The encoder's actions begin an MCU, code one decision of it,
renormalize by one bit, and finish the scan; the decoder's begin an MCU, take in
a byte or a bit, and decode one decision. Between the two a byte may be damaged
(`Damage`) to each of the values the job names, 0xFF among them, which makes a
marker of what follows it. At a restart the decoder looks for its marker as
`read_restart_marker` and `jpeg_resync_to_restart` do (`ReadRestartMarker`): it
passes a marker that is invalid or one of the last two restarts, drops one that is
the one it wants or too far from it, and leaves any other unread, behind which
`get_byte` gives zeros. The markers that `next_marker` finds are the bytes that
follow a 0xFF and are neither 0 nor 0xFF; `JobsAssumption` says of a scan what
`start_pass` requires: the limits of the band, in order, and at least one block in
an MCU.

### DecoderControl
`cinfo` is the decompression object. Each library call is an action; one that
loops over the input does one element at a time, and `call` names the call in
progress. `Proceed` is the part of the actions that goes on with what was begun,
and data arrives by the element (`Arrive`). An MCU's coefficients are the number of the last scan decoded into
it, so that what a row shows says which scan it has.

### MemoryManager
One action per call: an object of either size class, a request for a virtual
array, each array that `realize_virt_arrays` does, access to rows, a write to a
row that was granted, and the end of an image by `jpeg_abort` or of the object.
`system` says what the machine has: bytes, backing store, the limit the user
has set. The Android build links `jmemnobs.c`, where all rows are always in
memory and the backing store is never opened; the window code is checked with
the backing store of `jmemansi.c`, whose reads and writes succeed.

## 3. Runs

| Run | What it shows | Bounds |
|---|---|---|
| `handshake` | the monitor discipline; every callback returns; the calls of two threads refine `SyncCallback` while the third may wake spuriously | 3 threads, 4 handler objects: a thread can be out of its callback while its old handler is still queued |
| `tabs_session` | shown fragment, crashes, `TabDirectory` in one session | 1 activity, 3 devices, 4 plugs: every order of tabs, a device that returns |
| `tabs_sessions` | tabs and departures over two instances and restores; a plugged device gets its tab | 2 activities, 2 devices of which one has an unknown class, 2 plugs |
| `polling` | chart, series, log and graph of a device whose series depend on the connection | 2 series, 2 drops, 3 polls, 2 clicks, restores, with and without a hardware object, behind another poller or not: one drop inside building and one inside plotting |
| `camera_playback` | which thread reads, when playback crashes or stays dark, and that stopping returns | 3 views, 2 pauses: two answers for one view, a view left behind behind another, a second suspension |
| `camera_frames` | what the scanner cuts out, and what ends playback | every stream of 4 frames with 2 header and 4 picture lengths, with Content-Length or without, and every stream of 5 frames with a header longer than most of 3 pictures; a mark of 16 bytes for the code's 200,000, so that frames are shorter than it and just as long; 2 openings |
| `dct_codec` | every kernel of both directions, with its tables | all 64 frequencies in every block size of the library; two components that share a table; two output passes with any methods |
| `dct_wide` | a violation, see below | the sizes with 12 and 14 samples in a row |
| `progressive` | coding, suspension at every bit, loss, gathering | images of 2 to 12 MCUs and 1 or 2 components, bands of 3 or 24 coefficients, `EOBRUN_MAX` 7 for 0x7FFF and `MAX_CORR_BITS` 66 for 1000, so that both are reached; losses of 7 lengths at every place |
| `decoder` | output, state and progress of the decompressor | 11 streams of up to 2 images of 2 rows, up to 3 scans, three of them with markers out of order; every setting |
| `memory` | the virtual arrays, the books and the share of memory | 2 arrays of 3 and 4 rows with windows down to 1 row; 7 machines from hardly any memory to enough |
| `arithmetic` | registers, damage, termination | 11 scans of 2 to 12 MCUs; carries through stacked bytes and pending zeros, every way a segment ends; any one byte damaged, to up to 13 values, one of which makes a marker |

Deadlock is checked where the system goes on for ever: in the handshake, whose
threads must never block each other, and in the memory manager. The other models stop where the process ends, the
image is decoded or a bound is used up, so their configurations switch the
check off.

What holds, in words:

* Monitors: a callback that has posted its handler keeps the monitor until it
  waits, so `notify` cannot come too early.
* Tabs: while tags are distinct, an activity on the back stack has exactly one
  tab of its own per announced device; the fragment shown is the current tab's,
  although one departure makes every tab current in turn; one activity refines
  `TabDirectory`. An arrival never ends the process; a departure that reaches a
  stopped activity does, unless only the main tab is left.
* Device tab: dataset and renderer differ only between two statements. The
  tab's code ends the main thread in three ways: the user opens the tab exactly
  there; or it has no hardware object and is destroyed, or is told of progress
  before it ever had views. A chart that is stuck with some of its series
  has lost its device before, by a drop or by being destroyed, and stays stuck;
  series are out of step, and rows missing from the graph, by no more than such
  losses and the links account for; at most one row is logged after logging is
  switched off. A device that stays linked is sampled, unless its chart is stuck
  or another tab's poller has the executor.
* Camera tab: at most one thread reads or draws, for the current view, while
  its surface exists. Apart from what the scanner may throw, playback ends the
  process only if two DoReads were pending for one view, which leaving and
  re-entering the tab quickly brings about. A resumed tab that stays dark had a
  failed read, a read queued behind a device's poller, or a stream that came
  while it was paused. The frame buffer is freed under a reader only after such
  a late stream. `stopPlayback` returns unless the camera stalls.
* Frames: where all pictures have their length, or all headers are equally long
  and no fill byte precedes an end marker, what is decoded is a whole picture;
  and none is skipped if besides every frame fits the mark and none is less
  than half as long as the one before it: the search for its end starts where
  the length of the last one puts it. Playback ends early only if no picture
  has ever been decoded, and ends the process only on a frame beyond the mark,
  an irregular stream, or a buffer freed before a picture that cannot be
  decoded.
* DCT: every coefficient of every kernel is right to half a quantization step
  and 3 units, but for one coefficient of a row in the 12-point and 14-point
  kernels, and for a component whose divisors a later one of another block size
  has overwritten in the table both name. The inverse gives the wave back, at
  every output pass.
* Huffman coding: suspension at whatever bit changes nothing; lost data damages
  the intervals it was lost from and no other while no more than two restart
  markers went with it; the output pass emits no symbol that was not counted.
* Arithmetic coding: a damaged byte damages its interval only, whatever it
  makes of the decisions behind it, unless it makes a marker at which the decoder
  stops looking for its own: then all intervals from there on may be lost, since
  `jpeg_resync_to_restart` leaves a valid marker that is no restart unread; each statistics bin has one use; the
  segments are as short as the comment in `finish_pass` says.
* Decompressor: a row shown has the data of the scan asked for, and with block
  smoothing so has the row below; the scan count is right for each image of a
  stream, and no error is reported that the stream does not deserve.
* Memory: rows granted are in memory, initialized and saved in time; the books
  balance also behind an allocation that failed half-way; the arrays realized
  together keep within what was available or take the least they can.

### The violation
`dct_wide` finds that pass 1 of the 12-point kernels (`jfdctint.c:1472`, also
12x6 at 2770) adds `tmp14 - tmp15`, and that of the 14-point kernels (1874,
also 14x7 at 2644) adds `tmp6`, without the shift by `CONST_BITS` that the
products beside them have. One coefficient of each row is off by what that term
is worth, although the comment above each kernel says what the constants
represent, and pass 2 has the shift. `CoefsAccurate` of `dct_codec` excepts
exactly these coefficients, and so shows that no other kernel has such a slip.

### Fairness
* `UiHandshake`: the looper dispatches what is queued, and a library thread
  inside a callback is scheduled. Nothing makes a library thread raise an event.
* `DeviceTabs`: an open manager announces what was plugged or unplugged. It is
  written `[]<>~Pending(a, d)` in place of a WF of the announcement, which is
  enabled exactly in the states where `Pending` holds and makes it false; the
  formula says the same and TLC need not evaluate ENABLED.
* `GraphPolling`: WF of the poller, a thread that only sleeps and calls once it
  runs. Its first step, `Start`, is disabled while an endless task is before it
  in the serial executor, so that the fairness promises nothing to a poller behind
  another; `SampledWhileLinked` excepts it.
* `CameraPlayback`: every live thread leaves each of its steps, but a read only
  when the camera does not stall; `join` returns once its thread has ended.
  Written as `[]<>` formulas for the same reason.
* `DecoderControl`: WF of `Arrive` (data comes in until the stream ends) and of
  `Proceed` (the application repeats a call that was suspended, and asks for
  the rows of a pass it has begun, as `libjpeg.txt` tells it to). Nothing makes
  it begin a call.

## 4. Proofs

Checked by TLAPS for every value of the constants that meets the named
assumptions: `HandshakeAssumption`, `TabsAssumption`, `PollingAssumption`,
`CameraAssumption`, `FramesAssumption`, `ShapeAssumption`, `SizeAssumption` and
`SystemAssumption` (memory manager), `FileAssumption` and `SettingAssumption`
(decompressor), `TableAssumption` and `JobsAssumption` (arithmetic coding). `TableAssumption` bounds the 114 rows of the constant
`jpeg_aritab`; TLC evaluates it on every run of `MCArithmeticScans`.

`TabsActivityProofs`, first part: `HandshakeInv` with the types is inductive. Absence of
lost wakeups alone is not: it needs that each handler belongs to one callback
(`HandlerPerCallback`), that the owner of a monitor is a callback between
locking and waiting (`OwnerReleases`), and that a callback that has posted and
was not notified has its handler ahead (`NotifierAhead`). From it follow
`NoLostWakeup`; for the threads without spurious wakeups `ReturnsOnlyWhenDone`,
through `NotifiedAfterRun`; and that every step is a step of `SyncCallback` or
a stutter, for `phase`, which calls a callback handled as soon as its handler
ran.

`TabsActivityProofs`, second part: for any number of activities and devices, any tags and any
number of plugs. The invariant has three parts, each with a life of its own.
`TypeInv` needs nothing: every handler ends with a current tab just if the host
has tabs, and `mapTabInfo` has under each tag a spec of that tag.
`BookInv` needs distinct tags (`DistinctTags`): each activity's own specs on the
static list are one for the main view and one for each device it has announced
(`Book`), a visible activity has those in its host and in its map (`MappedIn`),
and the tab shown last goes by the tag of the current one (`CurrentIn`).
`TabPerDevice` is not inductive without them: `removeTab` looks for the spec in
the map, takes its first equal off the list that all activities share, empties
the host and fills it from the list, so that list, map, host and current tab
must agree before for the host to be right after; that the list begins with a
main view (`BaseFirst`) is what the refilled host starts with. `SyncInv` says that
the fragment shown is that of `mLastTab`; it fails for restored activities, which
attach fragments of tabs not yet added (section 6), so that it is stated for
steps other than `Recreate`. First come lemmas on an activity's own specs in a
list (`OwnRemoved`, `DevicesRemoved`), then on the calls of the tab host
(`RemoveTabDoes` is the loop of `removeTab`), then one for each handler and part.
The theorems take from them `TypeOK`; `TabPerDevice`; `DeparturesInBackground`
for distinct tags; `CrashesUnseen` under the conditions its comment names, which
are those of `tabs_session`: no restores and no unknown class, either of which
can end the process in the foreground; and for one activity `ShownIsCurrent` and
that every step is one of `TabDirectory` or a stutter. With two activities those
two are false, as TLC shows when `tabs_session` is given a second one: a host also gets tabs of specs that another activity left on the
static list, and such a tab has no fragment of its own.

`GraphPollingProofs`: `PollingInv` with the types is inductive for any number
of series (`PollerAccounted`). The properties are not inductive alone.
`SeriesInStep` bounds the gap between series by the losses; `StepInv` reserves
the one unit of gap for a round that a loss has already cut short (`Cut`)
before the poller notices. `LoggedIsPlotted` bounds missing rows by links and
losses; `RowInv` reserves a unit for a row that is bound to be missing
(`Unplotted`). `PollerInv` ties the poller's step to what it has built, and
`ViewInv` says where a text view can be missing, which the crash property
needs. One lemma per conjunct, one step per action; the theorems at the end
take the properties from the invariant.

`CameraPlaybackProofs`: `IInv` is inductive for any number of views, pauses and
reads and wherever a poller of an earlier session holds the executor; the
properties are not inductive alone. `ThreadInv` says what a live thread is: the
one its view holds, told to run unless `join` waits for it, and at work on the
stream only for the current view with its surface; the thread of a view that
was left behind is between two frames and got its stream late. `SurfaceInv` and
`StopInv` tie a thread to the surface and to the half of `stopPlayback` that is
under way. `CountInv` bounds the threads there are by the views, the pauses, the
reads pending and the read that `onResume` still owes (`owed`). `CrowdInv` says
when a second read may be pending for a view that waits for its stream
(`AwaitsStream`), and `DarkInv` what a resumed tab without a thread waits for.
First come lemmas on the operators of the view (`startPlayback`, the two halves
of `stopPlayback`, `setSource`), then one lemma for each action of the fragment,
the surface, the answer of a DoRead and the thread. From the invariant follow
`TypeOK`, `OneReader`, `CrashNeedsCrowd`, `DarkExplained`, the action property
`FreedUnused`, and that no more than `MaxThreads` threads are ever created, over
which the fairness of the specification quantifies (`ThreadsBounded`).

`CameraFramesProofs`: for streams of any number of frames, any headers and any
pictures that begin and end with their markers and have them nowhere else
(`FramesAssumption`). First where the frames lie (`EndSteps`, `BytesOfPart`) and
that no marker is complete anywhere but at the ends of a picture, also not across
two frames (`StartMarks`, `EndMarks`); from that, what a search finds: the first
picture that begins behind its start (`FindsPicture`) and the end of some picture
(`FindsEnd`), which it misses only behind a fill byte. `WholeFrames` is not
inductive, as it says nothing of the place the reader is in. `Placed` does: with
Content-Length the reader is always at the end of a picture. Without it, it may be
inside one, behind a search that read beyond what `reset()` can undo; but then the
length it goes by is such that the same search, from the next picture, reads
beyond it again (`Far`). A search that finds a marker too late leaves another
length, but also the reader at the end of a picture, where any length will do. Only so is the search from the mark never made from
inside a picture, where it would find that picture's own end and cut the next one
short. `SimplifiedCuts` is that argument, `TurnCuts` what a turn cuts out, for
streams with Content-Length too. `InTurn` says where the reader is when frames fit
and are steady: behind the picture it has handed on, or behind the header after
that, as the length from the mark is counted from the picture. Then the search
window ends behind the next picture's end or before it, and both ways it is cut at
its own end (`SimplifiedNext`, `NextInTurn`). `PictureInSight` is what keeps
`new byte[-1]` from being reached, and needs the strict `Fits`. From the invariant
follow `WholeFrames`, `EndsExplained` and the action property `NoneSkipped`.

`MemoryManagerProofs`: `MemoryInv` is inductive (`WindowsHold`), for any number
of arrays of any size with any window. It says of each array what is in memory
and what in the file: the window is the whole array, or has the rows of one
access with a file behind it (`WindowOK`); rows that are in a clean window are
the same in the file; and what a caller was granted is in the window, zero where
nobody has written and to be saved where it may write (`GrantOK`). One lemma for
each thing access does to an array (flush, move, zero and mark as defined), one
for each action. `NoVirtualBug` takes from it that the library's own check of
the window never fails. In the last part, with `CellOf`, the row as its
caller sees it, wherever it is, every step is a step of `FlatArrays` or a
stutter (`ImplementsFlatArrays`): moving a window changes no cell.

`BooksInv` adds the books to it, likewise inductive (`BooksHold`). Every pool
accounts for its size as bytes used, bytes left and its header (`PoolSet`), so
that what `free_pool` subtracts is what `malloc` gave, and the total is what
`malloc` has given (`MemSet`); every open file is that of an array on the lists
whose allocation is done or has just failed (`FilesInv`), whence `Accounted`.
`SpaceInv` keeps what `realize_virt_arrays` decided: no array gets more rows
than `max_minheights` allows or than it has, and by the choice of
`max_minheights` either the whole arrays fit, or that many times the least does,
or it is 1 (`HeightsFit`). The quotient that defines `max_minheights` bounds the
sum of the products, whence `Parcelled`. The sums are folds over sets, and the
library's induction over finite sets takes an operator; `FoldLemmas` states it
for a set of subsets instead (`SubsetInduction`, from the well-foundedness of the
strict subset order), shows that the recursion behind a fold has a solution, and
gives from it how a sum grows with its summands.

`DecoderControlProofs`: for streams of any markers and MCUs in any order, of any
number of images of one size, and every setting. The only assumptions are on the
shape of elements (`FileAssumption`, `SettingAssumption`). `InStep` and
`ShownComplete` are not inductive: they speak of a whole image of the stream, and a
step sees the next element. `DecoderInv` says what the object knows of the image
that begins at element b. `Parsed`: the scan count is that of the scans from b on, a
SOF has been seen just if there is one, an image taken for one of a single scan has
a first scan with all components, and tables read are still there; a header in
progress is either fresh or of such an image (`Heading`), and a source at rest is
between two images (`BetweenImages`). `Filled`: no coefficient lags the scan in
progress by more than one, and those behind the MCU counter are of that scan,
which is what the interlock of `decompress_data` compares scan and row numbers
for. `Passing`: the output row is the line the application asks for, except where
a second pass of quantization goes over the saved strip; and the target scan is
enough for the scan that is due, also behind the clamp at EOI, where no further
scan can come. `Methods` ties the decompression method to mode and state: in
lockstep input and output are in the same row. At an error the invariant keeps
what was shown and why the stream deserves the error (`Stopped`, `DeservesAt`).
First come lemmas on the scans of a stream (`NextScan`, `ScanByNumber`,
`BeginsOnce`), then on what reading a marker or an MCU does (`MarkerRead`,
`HeaderMarkers`, `ImageMarkers`, `MCUDecoded`), on what a row shows (`RowShown`,
`RowEmitted`), and one for each entry point. From the invariant follow
`InStep` and `ShownComplete`.

`ArithmeticProofs`: `EncoderInv` is inductive together with `EstimatesInv`, that
every estimate is a row of the table (`EncoderRegisters`). The argument is a
bound on c + a, 9*2^24 halved once for each of the ct shifts to go: a turn of
the renormalization doubles c and a and takes one from ct, so that the bound
goes along. When ct is 0 the bound leaves a byte and its carry below 288 in the
upper bits, so that `buffer`, which is written without stuffing, is never 0xFF,
also behind a carry, and every 0xFF in the data is stuffed (`WellStuffed`).

`DecoderInv` needs three more invariants (`DInv`), whatever byte was damaged
(`DecoderRegisters`). `RegsOK` is what the registers are for each ct: c is below a
shifted by ct, which one more byte at ct = 0 keeps, since c then is below a, and so
does either outcome of a decision, since Qe is below Half (`RefilledAt`,
`DecodedAt`). `Placed` says that the decoder is before the last marker of the scan,
or has met an EOI: from there the next byte, the end of a run of 0xFF and a marker
to stop at always exist, so that the CHOOSEs of `PastFF` and `ReadRestartMarker`
name something (`FetchedAt`, `RestartAt`); no damage touches the last two bytes
(`ScanDamaged`). `At` is what the place in an MCU and the bin it asks for have to do
with each other: k is in the band; the contexts of DC are five; and a magnitude of
2^n has come n bins far (`Growing`), which is why the check of m against 0x8000 keeps
the bins of the magnitude's length apart from those of its bits. `DecisionAt` goes
through the fourteen decisions, `AtBlockAt` on to the next block. That a block
always has a decision to make needs Ss <= Se (`AtBlockAsks`), and that a scan that
refines DC never sees ct = -1 needs that its one decision cannot fail (`BandOK`).

Type invariants: those of `UiHandshake`, `GraphPolling`, `CameraPlayback`
and `DeviceTabs` are proved (`HandshakeTypes`, `TypeCorrect`, `TypeHolds`), the last two are
checked by runs as well; the other modules have theirs as part of the invariants
above.

Only model-checked: liveness (`CallbackReturns`, `TabAppears`,
`SampledWhileLinked`, `StopReturns`, `CallsReturn`), since proving it needs
ENABLED; `DctCodec` and `ProgressiveScans`, where the properties
are about arithmetic on tables and what recursive definitions compute;
`Restored` and `ShortestStream` of
`ArithmeticScans`, which compare with what a recursive
definition computes of the whole scan. `Own` of `DeviceTabs` is written as a fold
because SelectSeq of the standard library has no definition the provers can
expand.

## 5. Plan

Done: UiHandshake with SyncCallback and proofs; DeviceTabs with TabDirectory;
GraphPolling with proofs; CameraPlayback; CameraFrames; the parts of libjpeg
that carry its logic; proofs of the device tabs and their refinement, the camera's
playback and its frame scanner, the memory manager with its books, both sides of
the arithmetic coder, and the control of the decompressor.

Next, in this order:
1. An abstract player (stopped, opening, playing) refined by `CameraPlayback`;
   an abstract channel of MCUs refined by `ProgressiveScans`.
2. `DecoderControl` over `FlatArrays`: its coefficient arrays are plain rows
   now, and `ImplementsFlatArrays` says they may be.
3. Main and preprocessing buffers (`jcprepct.c`, `jdmainct.c`, `jdpostct.c`):
   context rows around a strip boundary.
4. `HardwareIndex`: the static counters of F over opens and closes.

## 6. Not modelled

* Colour conversion, up- and downsampling, colour quantizers: loops over
  samples without control, or choices judged by the eye.
* Contents of markers other than what the control reads; `jpeg_gen_optimal_table`
  and derived tables: codes are assumed to be prefix codes.
* The half-size block decoders of `jdhuff.c`, floating-point DCT, backing-store
  reads and writes that fail, `jpeg_read_coefficients` and transcoding, the
  command-line programs.
* `my_jpeg_load_dht` of IP, which puts the standard Huffman tables into every
  picture that is decoded.
* AChartEngine's drawing and `phidget21.jar` beyond the calls above. What
  `Manager.close()` waits for cannot be read here.
* Static hardware index counters, the mail export, the text of rows.
* `EmailDialogue` and `GMailSender`: nothing constructs them.
  `SettingsActivity`, and `RestartApp` behind it: nothing launches it at this
  commit. The overload of `readMjpegFrame` that returns a Bitmap: dead code.
* Two devices with one tag (T 418 makes the tag of the device's type): the runs
  have distinct tags. A restored activity that comes up with the main tab
  although another was saved (T 445), that attaches the fragments of tabs not
  yet added although the comment at T 95 says otherwise, and a restored device
  tab whose button says ON while `m_LogData` is false: these are steps of the
  models, and hazards; no property forbids them.
* Visibility of plain fields between threads beyond sequential consistency.
  The loops concerned all call out of their class in every turn.
