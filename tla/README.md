# A verification project for the wifi doorbell

The repository holds the software of a wifi doorbell built on an Ingenic
camera SoC: `src/bell` (a GoAhead web server turned into a remote control, and
an audio middleware above the SDK) and `src/mpg123-1.25.10` (mpg123, modified to
take its commands from a System V message queue instead of the keyboard). This
directory holds TLA+ models of the parts that were written or changed for the
doorbell, what TLC checks of them and what TLAPS proves.

## 1. Inventory

What runs. `main` starts `WebThread` and nothing else (the calls of
`middleware_init` and `my_audio_init` are compiled out). mpg123 is a process of
its own. The path that is live on the device is therefore: HTTP request, message
queue, player. The audio middleware is complete and is what `my_audio.c`
was written against.

| Part | Where | State | Operations | Talks to |
|---|---|---|---|---|
| Command sender | `bell/application/web/ieparam.c`, `msg_send.c` | `G_msgid` | `CgiProcess`, `msg_send`, `msg_init` | called by the web thread; kernel queue, key 1234 |
| Command decoder | `mpg123/src/msg_recv.c` | `G_msgid`, `G_fileName` | `msg_recv`, `parse_msg`, `set_fileName`, `clear_fileName` | queue, `term.c` |
| Terminal control | `mpg123/src/term.c` | `stopped`, `paused` | `term_init`, `term_control`, `term_handle_input`, `term_handle_key` | `msg_recv.c`, main loop through `intflag`, `skip_tracks` |
| Main loop | `mpg123/src/mpg123.c` | `intflag`, `deathflag`, `skip_tracks`, open track | `open_track`, `play_frame`, `controlled_drain`, `skip_or_die`, signal handlers | `term.c`, output |
| Music thread | `bell/middleware/audio/mw_audio.c` | `playMusicFlag`, `playMusicInterrupted`, `semStartPlayMusic`, last request | `mw_audio_play_file`, `imp_audio_play_file_thread`, `stop_play_music` | any caller, callback, AO device |
| Talk path | `mw_audio.c`, `audio.c` | play ring, `playAudioFlag`, semaphore | `talk_start`, `talk_stop`, `play_voice`, `mw_audio_clear_play`, thread | application, AO device |
| Record path | `mw_audio.c`, `audio.c` | record ring, `recordAudioFlag`, semaphore | `record_start`, `record_stop`, `get_audio`, `mw_audio_clear_record`, thread | application, AI device |
| Device life cycle | `audio.c`, `mw_audio.c`, `middleware.c` | `initAudioRecordErr`, `initAudioPlayErr`, `ready`, threads, buffers | `audio_*_init`, `audio_*_uninit`, `mw_media_audio_open`, `_close`, `middleware_init`, `_uninit` | SDK |
| Parameters, volume | `audio.c` | `aiAttr`, `aoAttr`, `aivol`, `aovol` | `audio_*_param_set/get`, `*_volume_set/get` | life cycle |
| Codecs | `encrypt.c`, `g711.c`, `speex.c` | ADPCM predictor of encoder and decoder | coders and decoders | SDK, once per frame |
| Alarm application | `bell/application/audio/my_audio.c` | `curPlayType` | `StartPlayAlarmAudio`, ... | middleware |
| Child processes | `bell/middleware/common/common.c` | child table of `my_popen` | `my_popen`, `my_pclose`, `my_system` | kernel |
| Web thread | `bell/protocol/web/web.c`, `webs.c`, `sock.c`, `sockGen.c`, `websuemf.c`, `handler.c`, `default.c` | `socketList`, the `webs_t` of each request, `sched` (timers) | `WebThread`, `web_main`; `socketReady`, `socketSelect`, `socketProcess`; `websAccept`, `websReadEvent`, `websDone`; `emfSchedProcess`, `websTimeout` | browsers, command sender |
| CGI programs | `cgi.c`, `default.c` | CGI list | `websCgiHandler`, `websCgiCleanup` | kernel |
| Third party | the rest of GoAhead (parsing, users, SSL), cJSON, libmpg123, libout123, SDK | | | |

What is hard in it, and what would make each part correct:

* *Player.* One message queue between two processes that start, block and die
  independently; keys, signals and messages meet in two flags (`intflag`,
  `stopped`) and a counter (`skip_tracks`) that four loops read and clear.
  Correct: only the last thing asked for is heard, stop and pause take hold
  wherever the loop is, a command is neither lost nor handled twice, the web
  server is not stuck while somebody listens.
* *Music thread.* A request that arrives while the thread decides it is done.
  Correct: no lost request, no second wakeup, the callback only after the file
  was played as often as asked.
* *Rings.* Two indices and four fields per buffer stand for one queue, over any
  number of laps. Correct: audio comes out in order, each unit at most once, and
  a full ring opens again.
* *Talk and record threads.* A semaphore and a flag that is read without the
  lock; blocking SDK calls outside it. Correct: no start is lost, a stop
  silences, a new recording holds nothing of the old one.
* *Life cycle.* Seven steps that may fail and are unwound in reverse by error codes,
  labels and fall-through. Correct: what was enabled is disabled, once.
* *Alarm.* A latch that several threads test before they call another module.
  Correct: nothing takes the place of an alarm that was taken.
* *Codecs.* Tables, segments and limits at the edges of 16 bits; an encoder that
  is cleared before every frame and a decoder that never is. Correct: what is decoded is
  near what was said, and the decoder does not drift.
* *Web thread.* One thread polls, reads, answers and runs the timers; requests
  arrive in parts, clients hang up, reset or fall silent at any step; three tables
  name each other by small numbers that are given away again. Correct: the
  tables agree, a request ends once and for a reason, nobody waits for ever.

`PROJECT.json` lists the hazards line by line ("hazards") and the components with
their state of modelling ("components").

## 2. Plan

| # | Modules | State |
|---|---|---|
| 1 | `Jukebox` (abstract), `PlayerControl`, `PlayerControlProofs` | done |
| 2 | `MusicPlayer` (refines `Jukebox` too), `MusicReopen`, `MusicPlayerProofs` | done |
| 3 | `StreamRing`, `TalkPath`, `RecordPath`; `StreamRingProofs`, `TalkPathProofs`, `RecordPathProofs` | done |
| 4 | `AudioDevice`: `audio_*_init/uninit`, `mw_media_audio_open/close`, `middleware_*` with a failure at any SDK call, against a device that knows what is held; parameter setters; `AudioDeviceProofs` | done |
| 5 | `AlarmAudio` (composed with `MusicPlayer`, proofs in `MusicPlayerProofs`); `Codecs`, `CodecsProofs` | done |
| 6 | `WebServer`: sockets, requests and timers of the web thread; `WebServerProofs` | done |
| 7 | Proofs still wanted: that both paths refine a plain FIFO, from `RingInv`; that `AudioDevice` refines an on/off device, from its `IInv` | next |

Abstract specifications worth having: `Jukebox` (there), a plain FIFO for
`StreamRing`, and an on/off device for `AudioDevice`.

## 3. The modules

### Jukebox

What a listener may rely on: one track is `wanted`, one is `now` playing; asking
for a track or for silence ends the one that plays; only a wanted track begins.
Both players implement it.

### PlayerControl

| Variable | In the code |
|---|---|
| `webId`, `attached` | `G_msgid` of `bell` and of mpg123; `created`: the queue of key 1234 exists |
| `web` | the request the web thread holds in a blocking `msgsnd` |
| `queue` | the kernel's queue; survives `Exit` |
| `player` | where the player's thread is: idle loop, `open_track`, the loop over frames ("frame"), `play_frame` ("reading"), the three places that call `term_control` ("failed", "played", "draining"), the end of a track |
| `name`, `cur`, `skip`, `intflag`, `deathflag`, `stopped` | `G_fileName`, `fname`, `skip_tracks` and the flags of the same name |
| `fresh`, `latest` | history: the open track has made no sound yet; the last play handled |

`CgiProcess` decodes a URL and blocks, `MsgSend` is `msgsnd` returning,
`HandleMessage` one turn of the `while` in `term_handle_input` with the whole
of `parse_msg` and `term_handle_key`; `Leaves` is the condition under which
`term_control` returns; the other actions are the steps of the main loop.
`Signal` and `Exit` may come at any step. `OpenTrack` and `PlayFrame` are the returns of
`open_track` and `play_frame`: mpg123 is built with its network support, a name may be
an http stream, and connecting and reading wait for the server as long as it takes (the timeout
of `mpg123.c` is 0 unless asked for). `BeginFrame` is the test of the loop, after
which a signal no longer keeps the frame from being read.

A command is a record, a name a model value that fits into `G_fileName[256]` or
does not. The kernel limits a queue by bytes; here by messages (`QueueCap`).

### MusicPlayer, MusicReopen

A request is a file, a count (0: for ever) and whether a callback was given.
Each action is one critical section of `mutexForPlayFile`, or a step between
two of them; `Check` is the unlocked look at `playMusicInterrupted`. `Read`
counts frames against the size that the header announces (`Data`) and the frames
that are there (`Avail`), so that trailing chunks and truncated files take their
own paths. `MusicReopen` adds `mw_media_audio_close`, which cancels the thread
anywhere, and `mw_media_audio_open`.

### StreamRing, TalkPath, RecordPath

`StreamRing` is the code both rings share (`push_data` and `push_encode_buffer`,
`get_data` and `mw_audio_get_audio`, the reset loops). Audio is a sequence of
stamps. A push that does not fit closes a buffer and goes on to the next, which may
take it round the whole ring: `Closes(len, k)` says that the `goto` loop closes
`k` buffers, `Frees(k)` the same of the reader. Stale bytes stay in a buffer, so
that reading beyond what was written would be seen.

`TalkPath` and `RecordPath` add the flag, the semaphore, the application's calls
and the thread, one action per critical section and one per blocking call.
`late` counts blocks output after a stop or a reset, `stale` marks a
captured frame that a new recording overtook.

Things the headers say that the model does not rely on because the code does
otherwise: `play_demo` and `status` are listed above `parse_msg` and ignored by
it; `mw_audio_record_start` returns `ERROR_SUCCESS` and never `ERROR_EXIST`;
`get_audio` does not write the needed length to `len`, and delivers one frame, not
three; `play_voice` works without `talk_start`.
`mw_audio_clear_record` also clears what the output device still holds
(`clear_ao_chn`), which `mw_audio_clear_play` does not; the output device's own
buffer is outside the model.

### AudioDevice

| Variable | In the code |
|---|---|
| `build` | `audioEncName`, `audioDecName`, constants of the compiled program; the codecs fall into four kinds the code treats differently |
| `held`, `told` | the SDK: per side the coder channel, registration, channel and device that were acquired and not given back, and the parameters it was given |
| `err` | `initAudioRecordErr`, `initAudioPlayErr` |
| `attr` | `aiAttr`, `aoAttr` |
| `pc`, `threads`, `bufs` | the call open or close is at, or the label that it jumped to; the threads and buffers |
| `ready`, `mw` | `audio->ready`; `mw_audio` null, allocated, or freed and still set |
| `setter` | per caller, the locals of a setter and the parameter that it is about to save, write or put back |
| `raced` | history: sides on which a setter met another one, or an init function, and none was told alone since |

`Failures` lists, for each SDK call of an init function that may fail, what is
held by then and which code the function leaves; `Uninit` is the fall-through
switch of the uninit function under such a code, which the failing init calls
itself. Of the SDK it is assumed that giving back what is held succeeds, and that giving
back what is not held may succeed or fail; its source is not in the repository.
`MiddlewareUninit` is an action of an open device only: after a failed open the code
would join threads it never created, and nothing can be said about that.

The setters run in other threads, any number of them, and nothing locks `aiAttr` and
`aoAttr`. `BeginSet` is the test of `ready`, after which the device may be closed and opened;
`SaveParam`, `WriteParam` and `UndoParam` are one assignment each, `SetPubAttr` is the call of the SDK.
`audio_adc_param_set` and `audio_dac_param_set` are the same but for the side. The width, of which one
value is supported, is left out: a request for another writes the rest and puts it
back, as one that the SDK refuses.

`CodeTellsHeld` speaks of the builds in which the codes mean something. In the
others the model shows what the hazards list: an encoder's failure
leaves the code of an earlier run; and in the shipped build, which is PCM, the play side
starts giving back with a decoder that was never created: where the SDK refuses
that, the output stays enabled.

### AlarmAudio

| Variable | In the code |
|---|---|
| `ready` | `audio->ready` |
| `curPlayType` | the static of `StartPlayAlarmAudio` |
| `call` | what a caller has chosen while it holds `mutexPlayFile` |
| `alarmOn` | history: `play_file` took an alarm |

The threads of the doorbell announce events; `SoundOf` is the switch that turns
one into a file and a count. `ChooseSound` runs up to the call of `play_file`, `Refuse` is the
early return after an alarm, `PlayFile` the call and the unlock: it is
`Request` of MusicPlayer, which is extended, not changed. A device that is not open
refuses, and `curPlayType` keeps what it was set to: an alarm that is
announced too early is latched and never heard (listed as a hazard).

### Codecs

A G.711 byte is a record of sign, segment and the four bits below the leading
one; an ADPCM code a sign and three bits. That the encoder inverts bits and that two codes share
a byte is undone by the decoder and left out. `enc` and `dec` are the statics
`g_nEnAudioPreSample`, `g_nEnAudioIndex` and their decoder twins; `BeginFrame` clears the
first pair, as `MY_5350_Encode_Frm` does, and nothing clears the second. `CodeG711` and `CodeAdpcm`
are one turn of the loops of encoder and decoder. `G711Close` states the error
of every sample, and with it the exception: for samples from -7 to -1 the A-law coder
works on a negative magnitude and the decoder answers -248.

### WebServer

| Variable | In the code |
|---|---|
| `kind`, `end` | the client: what it asks for, and its side of the connection |
| `conn` | `socket_t`: `sent` by the client, `fetched` by `recv`, `taken` by `websReadEvent`; `part`, a line begun in `lineBuf`; `SOCKET_EOF`, `SOCKET_CONNRESET`; `handlerMask` |
| `wp`, `wsid`, `mark` | `wp->state`, `wp->sid`, `wp->timestamp` |
| `slot`, `sched`, `next`, `due` | `socketList`, `sched[]`, the static `next` of `emfSchedProcess`, whether the time of a timer has come |
| `pc`, `cursor`, `events` | the step of `web_main`, the socket that `socketProcess` is at, `currentEvents` |
| `astray` | history: `socketReady` closed the socket of a live request |

A request is a sequence of tokens: a part of a line, the end of a line, a whole line,
posted data. The four kinds take the paths that differ: a document, a first line that is not a
request, posted data with and without a length. Each client has one connection
and stands for its `webs_t`. `Poll` is `socketReady(-1)` and `socketSelect`:
a socket that was reset is closed, one with input buffered is polled
alone, otherwise all are. `socketProcess` goes through the sockets in order
while their events were noted before (`ReadEvent`, `WriteEvent`, `Accept`, `CloseReset`);
`websReadEvent` is one action per turn of its loop; `SchedProcess` runs one timer.

A connection that was never heard has no time mark, and `websTimeout` multiplies
seconds since 1970 by 1000 in an int: the model takes both branches. Data that
was sent before a reset is read before the reset is seen. Time is one action,
`Minute`, for all requests, and passes where the thread waits.

## 4. The runs

| Run | Shows | Bounds |
|---|---|---|
| `player` | `OnlyLatestIsHeard`, `PauseTakesHold`, `BoxSpec`: with two tracks and a name too long, every mixture of play, pause, stop, volume, signals, restarts and a full queue; `WebThreadResumes`, `CommandsAreDrained`, `StopSilences`, `CountedPlayIsOpened` | queue 2, `MaxSkip` 2, `MaxVolume` 1 |
| `music` | `OneWakeup`, `NoLostRequest`, `CallbackEarned`, `BoxSpec`; `RequestIsTaken`, `FiniteRequestEnds`; `AlarmPrevails`, `AlarmStays`: two threads announce start-up, configuring, reset and alarm | a file of the announced size played once, one with a trailer played for ever, one cut short played three times |
| `talk` | `InOrder` (with the shape of the ring), `NoLostStart`, `StopSilences`, `HeardInOrder`, `RingDrains` | 3 buffers of 3 units, blocks of 2, pushes of 1, 2 and 4 (too large), 12 units in all |
| `record` | `RecordingIsFresh`, `FetchedInOrder`, `RecordingStarts` | 2 buffers of 5, frames of 1, blocks of 2 (2048, 400 and 800 bytes: G.711 frames), 16 units |
| `device` | `CodeTellsHeld`, `DownIsOff`, `ThreadsHaveDevice`, `ParamsAgree`: opening and closing for ever, each call failing at will, while two callers are in a setter | none on time; nine builds; both callers set the record side, one to a rate that is not supported |
| `codec` | `G711Close`: every 16-bit sample through u-law and A-law; `AdpcmFollows`, `DriftShrinks`: silence, full scale, alternation, a square wave, a ramp and a whisper through ADPCM | streams of 3 frames, of 32 samples (G.711) or 14 (ADPCM) |
| `web` | `TablesAgree`, `EndsForCause`, `RequestsServed`: connections arrive, send, hang up, reset and fall silent at every step of the loop | two clients: one asks for anything and may hang up, the other sends a bad first line in two parts |

Why the bounds are enough. Two plays in one drain need `skip_tracks` 2. Two messages fill and overflow the queue.
Three buffers are the fewest in which reader, writer and a closed buffer between
them differ; the units allow more than one lap, the sizes a tail shorter than
a block, an empty closed buffer and a push that never fits. `MaxSent`,
`MaxSkip`, `MaxVolume` and `MaxSem` are bounds of the model only. MusicPlayer
and AudioDevice need none: their state is finite as it is. The nine builds of `device` have
every coder on either side and every combination that `Unregisters` tells apart; the record side
alone has setters, as the code of the play side is the same. ADPCM reaches the ends of its
step table and of 16 bits within one frame, and the encoder is cleared between two frames,
so three are enough for what the decoder carries over. In WebServer two
clients suffice for what one connection does to another: one with a partial line keeps
the poll from the other, one stale number closes the other. `codec` stops when
its frames are over, which is why deadlock is not checked there.

### What does not hold

Five runs check a sentence of the repository that the code does not keep:

* `play_served`: two plays handled in one visit of `term_control` are both lost.
* `death_fatal`: "Death is fatal right away" (`mpg123.c`) does not hold since
  the main loop continues where mpg123 left it.
* `music_reopen`: `playMusicFlag` stays up when the device is closed during a file; after
  the next open no file is played any more.
* `whole_frames`: a push of three whole frames is refused although the header
  allows any multiple of a frame, and it closes the whole ring.
* `web_timeout`: a browser that is silent is to be timed out. One that announced
  more posted data than it sent keeps the only thread in `websGetInput`: no
  timer runs and nobody else is served.

Other facts that came up and are listed as hazards: a silent http server stops the
player, then, once the queue is full, the web thread; two setters that overlap can leave the device
and `aiAttr` with different parameters for good (`my_audio_init`, the one caller in the
repository, sets each side once); the alarm that is refused is
latched, the A-law coder for -7 to -1, a socket that is
closed without its request being told (the request, timed out later, closes the socket that has the number
then), a connection that never speaks and may stay 24 days.

### Fairness

Liveness is claimed under weak fairness of the threads only, and of the steps of theirs
that end by themselves. `msgsnd` returns when
there is room; the player's loops sleep for finite times or wait for the
output device; the SDK calls have timeouts of a second or end with the device's clock;
critical sections are short and their mutexes are not held over a blocking
call. No fairness is assumed of clients, callers, restarts or signals. Since
`term_handle_input` drains the queue in a loop, a client that never falls silent can keep the
player there: the liveness properties of PlayerControl are claimed for clients that do
(`ClientsFallSilent`). `open_track` and `play_frame` are not fair: they wait for a server,
without a timeout. `WebThreadResumes` and `CommandsAreDrained` have it as a hypothesis that each
such wait ends (`TracksDeliver`), and so have the two properties that are violated, whose
counterexamples therefore are not just a silent server; `StopSilences` and `CountedPlayIsOpened`
hold without it. `RingDrains` and `RecordingStarts` are claimed
unless the caller stops first.

In `music` only the playing thread is fair: callers may stop between two calls. In
`web` only the web thread is, and not in `Answer`: it calls `CgiProcess`, which waits in `msgsnd`
as long as the queue is full. `RequestsServed` has it as a hypothesis that no such wait is for ever
(`AnswersEnd`); when the player makes room is what `WebThreadResumes` says in PlayerControl. It assumes of the
clients what no server can enforce, that they finish what they began
(`Midway`), and that `socketReady` did not close the socket of a live request. It does not
assume that time passes; `web_timeout` does (strong fairness of
`Minute`, which waits for a step at which the thread waits), since a timer is its subject, and
it makes the whole thread fair, so that what it finds is not a full queue.

## 5. What is proved

`PlayerControlProofs` (for all tracks, levels, queue lengths; from
`ConstantsAssumption`): `TypeCorrect`, `LatestHeard`, `PauseHolds` and
`Refinement`. The invariant adds to `TypeOK` what ties `name`, `cur` and
`latest` together at each place of the main loop: a pending name is the latest
one; while nothing interrupts, so is the open track; what a stopped player is about to
read is the first frame. None of the properties is inductive without it: a step
from "open" to "frame" needs to know of `cur` before it is heard.

`MusicPlayerProofs` (for all files, sizes, counts; from `MusicAssumption`):
`TypeCorrect`, `SingleWakeup`, `RequestsAreKept`, `CallbacksAreEarned`,
`Refinement`. `IInv` says that a pending request is marked by the semaphore or by
the interruption wherever the thread is (`PendingIsMarked`), that an idle thread
left nothing behind (`IdleIsClean`) and that a thread under way has a
request. `CallbackEarned` needs an invariant of its own (`HeardInvariance`): during
a pass the frames heard are those of the passes completed plus the position, which
`PassAdds`, the distributivity lemma, carries from pass to pass.

Of AlarmAudio the same module proves (for all sets of threads and events; from `AlarmAssumption`
as well): `AlarmRefinement`, every step is one of MusicPlayer or leaves
it alone, hence `AlarmBox`, the jukebox, by the theorem of MusicPlayer; and `AlarmIsNotReplaced`, whose
invariant adds to `AlarmPrevails` that one caller at a time holds a choice and
that `curPlayType` names it.

`CodecsProofs` (for all signals; from `CodecsAssumption`): `TypeCorrect`, that no
sample leaves 16 bits and no index its table; `Drift`, that a code never moves the
step indices of encoder and decoder further apart, and keeps them together once they
agree; `Follows`, that after a code the encoder is within an eighth of a step of
the sample or nearer than before; `G711IsClose`, that a G.711 sample comes back within a thirty-second of
itself, which TLC only shows by going through all of them. They rest on lemmas about the tables, `Clamp`,
one code, and the segments: a magnitude lies between 128 and 256 units of its segment, and
a byte stands for the middle of 8 of them (`Quantised`).

`StreamRingProofs` (for all numbers of buffers, capacities and blocks; from
`RingAssumption`) proves no theorem of a specification but what the ring's operations
preserve and deliver. `InOrder` is far from inductive: `RingInv` says where the closed
buffers are (`Laps`: the `m` from the reader's on, and the writer's is the next), which
positions are 0 (`Positions`), and that there is a stamp per buffer, `e`, such that buffer `b` holds the
run from `e[b] + 1` on (`Stamped`). No induction over the
buffers is needed: their order is stated for every pair of them, and that nothing is missing for every
stamp. `RingInvPush` treats a push that closes any number of buffers, up
to the whole ring; `RingInvGet` that of a block that empties some; `RingInvInOrder` is the
conclusion.

`TalkPathProofs` and `RecordPathProofs` (for every set of push sizes, from `TalkAssumption`;
for every frame that fits a buffer, from `RecordAssumption`; both from
`RingAssumption`) put the paths on top of it. Talk: `TypeCorrect`, `RingIsQueue`, `StartIsNoticed`,
`SilenceAfterStop`, `BlocksAreRuns`; `StopSilences` needs `NotYetLate`, that a thread about to
take a block of a stopped talk has counted none, and `HoldsRun`, that the block it holds is a run that was pushed. Record: `TypeCorrect`, `RingIsQueue`,
`FreshAtStart`, `FetchesRuns` (an action property); `RecordingIsFresh` needs `OneStale`, which
ties a frame that was overtaken to the first stamp of the recording, and from `RingInv` that
what is unread was not passed.

`AudioDeviceProofs` (for all sets of builds and parameters; from `DeviceAssumption`):
`TypeCorrect`, `CodesTellHeld`, `DownStaysOff`, `ThreadsKeepDevice`, `ParametersAgree`. Not even
`TypeOK` is inductive: the labels cancel one thread after another and say nothing of a
set of threads no prefix of the order of creation; `SpawnedInOrder` has it. `IInv` adds
for each side that it is complete at the steps and labels at which it is on
(`OnIsComplete`), has neither device nor channel at the others (`OffIsOff`), and that its code claims what
the SDK holds (`CodeIsTrue`); `StagesAgree` ties the buffers to the steps. `ParametersAgree` (for any number of
callers, on both sides, asking for anything) has an invariant of its own, `ParamInv`: on a side without a
race at most one caller is in a setter, and at each of its steps the SDK has what is in the
static, or what it has saved of it and will put back; a race ends with a call of the SDK during which nobody else
is in a setter of the side.

`WebServerProofs` (for every finite set of clients; from `WebConstants`): `WebTypeCorrect`,
`WebTablesAgree`, and the action property `WebEndsForCause`. The invariant is stated
per client (`OneRequest`), per socket and per timer; `CloseEffect` and the `Keeps` lemmas
say what closing, ending and serving do to it, `Frame` that the other clients do not notice.
That a free entry is always found rests on the pigeonhole principle (`FreeEntry`). The
proof shows more than the runs ask for: a socket in use belongs to a
live request that names it even after `socketReady` closed one of a live request; what is lost then is the converse only, and
the client of such a request is gone for good.

Of each of these invariants TLC checked `IInv` over the reachable states of the runs' instances (of the
two paths with smaller bounds) before it was proved.

Only model-checked: everything temporal under fairness, which is beyond the
prover (`WebThreadResumes`, `CommandsAreDrained`, `CountedPlayIsOpened`, PlayerControl's
`StopSilences`, `RequestIsTaken`, `FiniteRequestEnds`, `AlarmStays`, `RingDrains`, `RecordingStarts`,
`RequestsServed`); and `MusicReopen`, which is there for a property that does not hold.

## 6. Not modelled

* The volumes: single values handed to the SDK.
* `common.c`: no function of it has a caller.
* `g711.c`, whose tables have no caller, and `speex.c`, whose library is not in
  the repository.
* `analysis_music_file` is reduced to its outcomes; the chunk arithmetic is not there.
* CGI programs: none is shipped, and the call that names them frees a pointer that was
  not set.
* Of GoAhead: the parsing of lines and URLs, user management, forms and pages
  (`asp.c`, `ejparse.c`, `form.c`, `um.c`), SSL, keep-alive, and answers that do
  not fit into the buffer of the kernel.
* Of mpg123: everything a message cannot reach, which is the command line, remote mode,
  seeking, equaliser, playlists, decoding and output modules.
* cJSON, the headers of OpenSSL and of the SDK: vendored code and declarations, which
  are most of the lines of the repository.
