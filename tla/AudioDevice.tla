---------------------------- MODULE AudioDevice ----------------------------
(***************************************************************************)
(* Bringing the audio device up and down: middleware_init and              *)
(* middleware_uninit (middleware.c) call mw_media_audio_open and _close    *)
(* (mw_audio.c), these call the init and uninit functions of the input     *)
(* "ai" and the output "ao" (audio.c), which call the SDK.  Any call that  *)
(* acquires something may fail; what was acquired is then given back in    *)
(* reverse, guided by an error code per side and by the labels of open.    *)
(* One thread does all of this.  Others may set the parameters of a side    *)
(* meanwhile; nothing locks the static that the parameters are kept in.     *)
(***************************************************************************)
EXTENDS Integers

CONSTANTS
  Builds,   \* what audioEncName and audioDecName are compiled to
  Callers,  \* threads that set parameters
  Values,   \* numbers that they may pass
  Rates,    \* those that audio_param_to_imp knows as a sample rate
  Modes,    \* those that it knows as a number of channels
  Asks,     \* bound: who asks for which side and what
  Initial,  \* what aiAttr and aoAttr are compiled to
  None

Sides == {"ai", "ao"}

\* The two parameters of a side that ever change; the third, the width, has one
\* value, and a request for another comes out as one that the SDK refuses.
Fields == {"rate", "mode"}
Supported(f) == IF f = "rate" THEN Rates ELSE Modes
Attrs == { a \in [Fields -> Rates \cup Modes] : \A f \in Fields : a[f] \in Supported(f) }

\* "hard" is a coder of the SDK, "aec" one of AEC, ADPCM and MAX, which the
\* code tells apart in one place, "own" is one that has to be registered.
Coders == {"pcm", "hard", "aec", "own"}

\* What a setter has on its stack, and the parameter it is about to save,
\* write or put back, in this order: rate, mode.
Setters == [side : Sides, want : [Fields -> Values], saved : Attrs,
            do : {"save", "write", "call", "undo"}, field : Fields]

ASSUME DeviceAssumption ==
  /\ Builds \subseteq [Sides -> Coders]
  /\ Rates \subseteq Values /\ Modes \subseteq Values
  /\ Asks \subseteq Callers \X Sides \X [Fields -> Values]
  /\ Initial \in Attrs
  /\ None \notin Attrs \cup Setters

\* What a side may hold of the SDK, in the order in which it is given back.
Release == <<"coder", "registered", "channel", "device">>
Things == { Release[i] : i \in 1..4 }

\* The error codes of both sides, INIT_AI_ERR_ or INIT_AO_ERR_ left out.
Codes == {"SUCESS", "SET_ATTR", "ENABLE", "SET_CHNPAR", "ENABLE_CHN", "SET_VOL",
          "ENABLE_HPF", "ENABLE_NS", "REG", "CREA"}

VARIABLES
  build,    \* audioEncName, audioDecName: never changed
  held,     \* the SDK: what each side holds
  err,      \* initAudioRecordErr, initAudioPlayErr
  attr,     \* aiAttr, aoAttr
  told,     \* the SDK: the parameters of each side, None before the first
  pc,       \* where open or close is
  threads,  \* the threads that run
  bufs,     \* the buffers of both rings are allocated
  ready,    \* audio->ready
  mw,       \* mw_audio: NULL, allocated or freed
  setter,   \* what each caller is doing in a setter, None outside
  raced     \* history: sides on which a setter overlapped another one, or an
            \* init function, and was not followed by one that did not

setVars == <<attr, setter>>
vars == <<build, held, err, told, raced, setVars, pc, threads, bufs, ready, mw>>

Workers == {"record", "music", "voice"}
Opening == {"alloc", "record", "play", "spawn"}
Closing == {"cancel", "playoff", "recordoff", "free"}

TypeOK ==
  /\ build \in Builds
  /\ held \in [Sides -> SUBSET Things]
  /\ err \in [Sides -> Codes]
  /\ attr \in [Sides -> Attrs]
  /\ told \in [Sides -> Attrs \cup {None}]
  /\ pc \in {"down", "up"} \cup Opening \cup Closing
  /\ threads \subseteq Workers
  /\ bufs \in BOOLEAN /\ ready \in BOOLEAN
  /\ mw \in {"null", "live", "freed"}
  /\ setter \in [Callers -> Setters \cup {None}]
  /\ raced \subseteq Sides

\* Both codes are statically "success".
Init ==
  /\ build \in Builds
  /\ held = [s \in Sides |-> {}]
  /\ err = [s \in Sides |-> "SUCESS"]
  /\ attr = [s \in Sides |-> Initial]
  /\ told = [s \in Sides |-> None]
  /\ pc = "down" /\ threads = {} /\ bufs = FALSE /\ ready = FALSE
  /\ mw = "null"
  /\ setter = [c \in Callers |-> None] /\ raced = {}

-----------------------------------------------------------------------------
(* audio.c: what a failing call leaves behind, and under which code *)

Failure(code, got) == [code |-> code, got |-> got]
On == {"device", "channel"}

\* Mutant: the failure of a filter is reported as one of the channel.
DeviceFailures_WrongCode(s) ==
  { Failure("SET_ATTR", {}), Failure("ENABLE", {}),
    Failure("ENABLE_CHN", {"device"}),
    Failure("SET_VOL", On), Failure("ENABLE_CHN", On) }
  \cup (IF s = "ai" THEN { Failure("SET_CHNPAR", {"device"}) } ELSE {})

\* Up to the filters, which share one code.
DeviceFailures(s) ==
  { Failure("SET_ATTR", {}), Failure("ENABLE", {}),
    Failure("ENABLE_CHN", {"device"}),
    Failure("SET_VOL", On), Failure("ENABLE_HPF", On) }
  \cup (IF s = "ai" THEN { Failure("SET_CHNPAR", {"device"}) } ELSE {})

Registered(s) == IF build[s] = "own" THEN {"registered"} ELSE {}

\* init_audio_encoder sets no code: the last one stays.
EncoderFailures ==
  IF build["ai"] = "pcm" THEN {}
    ELSE { Failure(err["ai"], On), Failure(err["ai"], On \cup Registered("ai")) }

\* init_audio_decoder: IMP_ADEC_ClearChnBuf fails under the code of CreateChn.
DecoderFailures ==
  (IF build["ao"] = "own" THEN { Failure("REG", On) } ELSE {})
  \cup (IF build["ao"] = "pcm" THEN {}
          ELSE { Failure("CREA", On \cup Registered("ao")),
                 Failure("CREA", On \cup Registered("ao") \cup {"coder"}) })

Failures(s) ==
  DeviceFailures(s) \cup IF s = "ai" THEN EncoderFailures ELSE DecoderFailures

Complete(s) ==
  On \cup Registered(s) \cup IF build[s] = "pcm" THEN {} ELSE {"coder"}

CompleteCode(s) == IF s = "ai" /\ build[s] = "pcm" THEN "ENABLE_NS" ELSE "SUCESS"

-----------------------------------------------------------------------------
(* audio.c: the switches that fall through *)

\* The case that a code enters the switch at.
Entry(code) ==
  CASE code = "SUCESS" -> 1
    [] code = "CREA" -> 2
    [] code \in {"REG", "ENABLE_NS", "ENABLE_HPF", "SET_VOL"} -> 3
    [] code \in {"ENABLE_CHN", "SET_CHNPAR"} -> 4
    [] code \in {"ENABLE", "SET_ATTR"} -> 5

CodeAfter == <<"CREA", "REG", "ENABLE_CHN", "ENABLE">>

\* Whether the second case calls the SDK.  The play side asks for the coder of
\* the record side.
Unregisters(s) ==
  IF s = "ai" THEN build[s] = "own"
              ELSE build[s] \in {"aec", "own"} /\ build["ai"] # "aec"

Calls(s, from, to) == { i \in from..to : i = 2 => Unregisters(s) }

\* audio_record_uninit, audio_play_uninit of a side that holds h, under a code.
\* Giving back what is held succeeds, giving back what is not may fail and
\* ends the function.
Uninit(s, h, code) ==
  \E stop \in Entry(code)..5 :
    LET made == Calls(s, Entry(code), stop - 1) IN
    /\ \A i \in Calls(s, Entry(code), 4) : i = stop => Release[i] \notin h
    /\ stop \in Calls(s, Entry(code), 4) \cup {5}
    /\ held' = [held EXCEPT ![s] = h \ { Release[i] : i \in made }]
    /\ err' = [err EXCEPT ![s] =
         IF made = {} THEN code
                      ELSE CodeAfter[CHOOSE i \in made : \A j \in made : j <= i]]

\* The callers in a setter of a side.
Setting(s) == { c \in Callers : setter[c] # None /\ setter[c].side = s }

\* The SDK copies the static as it is, half written if a setter is at it;
\* setters are those of the side that are at it, the one that asks left out.
Tells(s, setters) ==
  /\ told' = [told EXCEPT ![s] = attr[s]]
  /\ raced' = IF setters = {} THEN raced \ {s} ELSE raced \cup {s}

\* audio_record_init, audio_play_init.
Initialises(s, ok) ==
  \/ /\ ok
     /\ held' = [held EXCEPT ![s] = @ \cup Complete(s)]
     /\ err' = [err EXCEPT ![s] = CompleteCode(s)]
     /\ Tells(s, Setting(s))
  \/ /\ ~ok
     /\ \E f \in Failures(s) :
          /\ Uninit(s, held[s] \cup f.got, f.code)
          /\ IF f.code = "SET_ATTR" /\ f.got = {} THEN UNCHANGED <<told, raced>>
                                                ELSE Tells(s, Setting(s))

-----------------------------------------------------------------------------
(* mw_media_audio_open, called by middleware_init *)

\* malloc of the struct; whatever fails, middleware_init returns success, and
\* it may be called again.
MiddlewareInit ==
  /\ pc = "down"
  /\ \/ mw' = "live" /\ pc' = "alloc" /\ ready' = FALSE
     \/ mw' = "null" /\ UNCHANGED <<pc, ready>>
  /\ UNCHANGED <<build, held, err, told, raced, setVars, threads, bufs>>

\* All fifteen buffers, or none after those allocated were freed.
AllocBuffers ==
  /\ pc = "alloc"
  /\ \/ bufs' = TRUE /\ pc' = "record"
     \/ pc' = "down" /\ UNCHANGED bufs
  /\ UNCHANGED <<build, held, err, told, raced, setVars, threads, ready, mw>>

RecordInit ==
  /\ pc = "record"
  /\ \E ok \in BOOLEAN :
       /\ Initialises("ai", ok)
       /\ pc' = IF ok THEN "play" ELSE "free"
  /\ UNCHANGED <<build, setVars, threads, bufs, ready, mw>>

PlayInit ==
  /\ pc = "play"
  /\ \E ok \in BOOLEAN :
       /\ Initialises("ao", ok)
       /\ pc' = IF ok THEN "spawn" ELSE "recordoff"
  /\ UNCHANGED <<build, setVars, threads, bufs, ready, mw>>

\* Mutant: the label is one too far if the first thread cannot be created.
Spawn_WrongLabel ==
  /\ pc = "spawn"
  /\ \/ /\ threads' = CASE threads = {} -> {"record"}
                        [] threads = {"record"} -> {"record", "music"}
                        [] threads = {"record", "music"} -> Workers
        /\ pc' = IF threads' = Workers THEN "up" ELSE "spawn"
        /\ ready' = (threads' = Workers)
     \/ /\ pc' = IF threads = {} THEN "recordoff" ELSE "cancel"
        /\ UNCHANGED <<threads, ready>>
  /\ UNCHANGED <<build, held, err, told, raced, setVars, bufs, mw>>

\* The next of the three threads; they are created in this order.
Spawn ==
  /\ pc = "spawn"
  /\ \/ /\ threads' = CASE threads = {} -> {"record"}
                        [] threads = {"record"} -> {"record", "music"}
                        [] threads = {"record", "music"} -> Workers
        /\ pc' = IF threads' = Workers THEN "up" ELSE "spawn"
        /\ ready' = (threads' = Workers)
     \/ pc' = "cancel" /\ UNCHANGED <<threads, ready>>
  /\ UNCHANGED <<build, held, err, told, raced, setVars, bufs, mw>>

-----------------------------------------------------------------------------
(* mw_media_audio_close, called by middleware_uninit, and the labels of open *)

\* Mutant: the device is switched off before the threads are joined.
MiddlewareUninit_DeviceFirst ==
  /\ pc = "up"
  /\ pc' = "playoff"
  /\ UNCHANGED <<build, held, err, told, raced, setVars, threads, bufs, ready, mw>>

\* ready stays as it is.
MiddlewareUninit ==
  /\ pc = "up"
  /\ pc' = "cancel"
  /\ UNCHANGED <<build, held, err, told, raced, setVars, threads, bufs, ready, mw>>

CancelThreads ==
  /\ pc = "cancel"
  /\ threads' = {} /\ pc' = "playoff"
  /\ UNCHANGED <<build, held, err, told, raced, setVars, bufs, ready, mw>>

\* The results of both are ignored.
PlayUninit ==
  /\ pc = "playoff"
  /\ Uninit("ao", held["ao"], err["ao"])
  /\ pc' = "recordoff"
  /\ UNCHANGED <<build, told, raced, setVars, threads, bufs, ready, mw>>

RecordUninit ==
  /\ pc = "recordoff"
  /\ Uninit("ai", held["ai"], err["ai"])
  /\ pc' = "free"
  /\ UNCHANGED <<build, told, raced, setVars, threads, bufs, ready, mw>>

\* After close the struct is freed too, and mw_audio is not set to NULL.  (A
\* failed open had not set ready.)
FreeBuffers ==
  /\ pc = "free"
  /\ bufs' = FALSE /\ pc' = "down"
  /\ mw' = IF ready THEN "freed" ELSE mw
  /\ UNCHANGED <<build, held, err, told, raced, setVars, threads, ready>>

-----------------------------------------------------------------------------
(* The application, in other threads: audio_adc_param_set and              *)
(* audio_dac_param_set, which differ in the side only                      *)

Doing(c, what) == setter[c] # None /\ setter[c].do = what

\* From a parameter to the next one, and after the last to something else.
Onward(me, next) ==
  IF me.field = "rate" THEN [me EXCEPT !.field = "mode"]
                       ELSE [me EXCEPT !.field = "rate", !.do = next]

devVars == <<build, held, err, pc, threads, bufs, ready, mw>>

\* mw_audio_adc_param_set, mw_audio_dac_param_set: the test of ready.  (Not on
\* a struct that was freed.)  The locals hold nothing yet.
BeginSet(c, s, w) ==
  /\ ready /\ mw = "live"
  /\ setter[c] = None
  /\ setter' = [setter EXCEPT ![c] = [side |-> s, want |-> w, saved |-> Initial,
                                      do |-> "save", field |-> "rate"]]
  /\ raced' = IF Setting(s) = {} THEN raced ELSE raced \cup {s}
  /\ UNCHANGED <<devVars, attr, told>>

SaveParam(c) ==
  /\ Doing(c, "save")
  /\ LET me == setter[c] IN
       setter' = [setter EXCEPT ![c] =
         Onward([me EXCEPT !.saved[me.field] = attr[me.side][me.field]], "write")]
  /\ UNCHANGED <<devVars, attr, told, raced>>

\* Mutant: what is not supported is written all the same.
WriteParam_Unsupported(c) ==
  /\ Doing(c, "write")
  /\ LET me == setter[c]
         known(f) == me.want[f] \in Supported(f) IN
       /\ attr' = [attr EXCEPT ![me.side][me.field] = me.want[me.field]]
       /\ setter' = [setter EXCEPT ![c] =
            Onward(me, IF \A f \in Fields : known(f) THEN "call" ELSE "undo")]
  /\ UNCHANGED <<devVars, told, raced>>

\* audio_param_to_imp: what is supported is written even if the rest is not.
WriteParam(c) ==
  /\ Doing(c, "write")
  /\ LET me == setter[c]
         known(f) == me.want[f] \in Supported(f) IN
       /\ attr' = IF known(me.field)
                    THEN [attr EXCEPT ![me.side][me.field] = me.want[me.field]]
                    ELSE attr
       /\ setter' = [setter EXCEPT ![c] =
            Onward(me, IF \A f \in Fields : known(f) THEN "call" ELSE "undo")]
  /\ UNCHANGED <<devVars, told, raced>>

\* Mutant: a refusal of the SDK is returned without the way round by
\* ERR_HANDLE.
SetPubAttr_KeepsRefused(c) ==
  /\ Doing(c, "call")
  /\ \/ Tells(setter[c].side, Setting(setter[c].side) \ {c})
     \/ UNCHANGED <<told, raced>>
  /\ setter' = [setter EXCEPT ![c] = None]
  /\ UNCHANGED <<devVars, attr>>

\* IMP_AI_SetPubAttr, IMP_AO_SetPubAttr: whether the side is on or not, the
\* SDK may take the parameters or refuse them.
SetPubAttr(c) ==
  /\ Doing(c, "call")
  /\ \/ /\ Tells(setter[c].side, Setting(setter[c].side) \ {c})
        /\ setter' = [setter EXCEPT ![c] = None]
     \/ /\ setter' = [setter EXCEPT ![c].do = "undo"]
        /\ UNCHANGED <<told, raced>>
  /\ UNCHANGED <<devVars, attr>>

\* ERR_HANDLE: what was there when it was saved.
UndoParam(c) ==
  /\ Doing(c, "undo")
  /\ LET me == setter[c] IN
       /\ attr' = [attr EXCEPT ![me.side][me.field] = me.saved[me.field]]
       /\ setter' = [setter EXCEPT ![c] =
            IF me.field = "rate" THEN [me EXCEPT !.field = "mode"] ELSE None]
  /\ UNCHANGED <<devVars, told, raced>>

-----------------------------------------------------------------------------

Next ==
  \/ MiddlewareInit \/ AllocBuffers \/ RecordInit \/ PlayInit \/ Spawn
  \/ MiddlewareUninit \/ CancelThreads \/ PlayUninit \/ RecordUninit
  \/ FreeBuffers
  \/ \E ask \in Asks : BeginSet(ask[1], ask[2], ask[3])
  \/ \E c \in Callers :
       \/ SaveParam(c) \/ WriteParam(c) \/ SetPubAttr(c) \/ UndoParam(c)

Spec == Init /\ [][Next]_vars

-----------------------------------------------------------------------------

\* What a later uninit would give back, judged by the code alone.
Claimed(s) == { Release[i] : i \in Calls(s, Entry(err[s]), 4) }

\* The error code is the only memory of what is on.  Once a side was
\* initialised, whatever failed since, code and SDK agree about device and
\* channel: nothing is forgotten, nothing given back twice.  (For the record
\* side in a build without an encoder, for the play side in one with a
\* decoder that the switch knows.)
CodeTellsHeld ==
  \A s \in Sides :
    /\ told[s] # None
    /\ build[s] \in IF s = "ai" THEN {"pcm"} ELSE {"hard", "own"}
    => Claimed(s) \cap On = held[s] \cap On

\* Down is down, after a close and after an open that failed at any of its
\* calls: no thread, no buffer and, in those builds, no device.
DownIsOff ==
  pc = "down" =>
    /\ threads = {} /\ ~bufs
    /\ build["ai"] = "pcm" => held["ai"] = {}
    /\ build["ao"] \in {"hard", "own"} => held["ao"] \cap On = {}

\* A thread never works on a device that is off or on buffers that are gone.
ThreadsHaveDevice ==
  threads # {} => bufs /\ \A s \in Sides : Complete(s) \subseteq held[s]

\* The program and the device agree about the parameters whenever no setter is
\* under way, through refusals and reopening: only a setter that met another
\* one of its side, or an init function, can leave them apart, until the side is
\* told alone again.
ParamsAgree ==
  \A s \in Sides \ raced : Setting(s) = {} => told[s] \in {None, attr[s]}
============================================================================
