------------------------- MODULE AudioDeviceProofs -------------------------
(***************************************************************************)
(* AudioDevice in every build, for all parameters and any number of        *)
(* callers: the error codes name what the SDK holds, a device that is down *)
(* is off, threads have a device, and program and device agree about the   *)
(* parameters of a side unless setters raced on it.                        *)
(***************************************************************************)
EXTENDS AudioDevice, TLAPS

LEMMA ReleaseLemma ==
  /\ Release[1] = "coder" /\ Release[2] = "registered"
  /\ Release[3] = "channel" /\ Release[4] = "device"
  /\ Things = {"coder", "registered", "channel", "device"}
<1>1. /\ Release[1] = "coder" /\ Release[2] = "registered"
      /\ Release[3] = "channel" /\ Release[4] = "device"
  BY DEF Release
<1>2. 1..4 = {1, 2, 3, 4}
  OBVIOUS
<1> QED BY <1>1, <1>2 DEF Things

LEMMA CodeLemma ==
  /\ CodeAfter[1] = "CREA" /\ CodeAfter[2] = "REG"
  /\ CodeAfter[3] = "ENABLE_CHN" /\ CodeAfter[4] = "ENABLE"
  /\ \A i \in 1..4 : CodeAfter[i] \in Codes
<1>1. /\ CodeAfter[1] = "CREA" /\ CodeAfter[2] = "REG"
      /\ CodeAfter[3] = "ENABLE_CHN" /\ CodeAfter[4] = "ENABLE"
  BY DEF CodeAfter
<1>2. 1..4 = {1, 2, 3, 4}
  OBVIOUS
<1> QED BY <1>1, <1>2 DEF Codes

LEMMA EntryLemma ==
  /\ Entry("SUCESS") = 1 /\ Entry("CREA") = 2 /\ Entry("REG") = 3
  /\ Entry("ENABLE_NS") = 3 /\ Entry("ENABLE_HPF") = 3 /\ Entry("SET_VOL") = 3
  /\ Entry("ENABLE_CHN") = 4 /\ Entry("SET_CHNPAR") = 4
  /\ Entry("ENABLE") = 5 /\ Entry("SET_ATTR") = 5
  /\ \A code \in Codes : Entry(code) \in 1..5
BY DEF Entry, Codes

\* What the uninit function of a side would give back under a code.
Gives(s, code) == { Release[i] : i \in Calls(s, Entry(code), 4) }

LEMMA GivesLemma ==
  ASSUME NEW s \in Sides, NEW code \in Codes
  PROVE  /\ "channel" \in Gives(s, code) <=> Entry(code) <= 3
         /\ "device" \in Gives(s, code) <=> Entry(code) <= 4
         /\ "coder" \in Gives(s, code) <=> Entry(code) = 1
         /\ "registered" \in Gives(s, code) <=> Entry(code) <= 2 /\ Unregisters(s)
         /\ Gives(s, code) \subseteq Things
<1>1. Entry(code) \in 1..5
  BY EntryLemma
<1>2. \A i : i \in Calls(s, Entry(code), 4) <=>
         i \in 1..4 /\ i >= Entry(code) /\ (i = 2 => Unregisters(s))
  BY <1>1 DEF Calls
<1>3. \A x : x \in Gives(s, code) <=>
         \E i \in 1..4 : i >= Entry(code) /\ (i = 2 => Unregisters(s)) /\ x = Release[i]
  BY <1>2 DEF Gives
<1>4. 1..4 = {1, 2, 3, 4}
  OBVIOUS
<1> QED BY <1>1, <1>3, <1>4, ReleaseLemma

\* Whatever an uninit function does, it gives back some of what the side held
\* and leaves a code.
LEMMA UninitLemma ==
  ASSUME TypeOK, NEW s \in Sides, NEW h \in SUBSET Things, NEW code \in Codes,
         Uninit(s, h, code)
  PROVE  \E g \in SUBSET h, c \in Codes :
           held' = [held EXCEPT ![s] = g] /\ err' = [err EXCEPT ![s] = c]
<1>1. PICK stop \in Entry(code)..5 :
        LET made == Calls(s, Entry(code), stop - 1) IN
        /\ held' = [held EXCEPT ![s] = h \ { Release[i] : i \in made }]
        /\ err' = [err EXCEPT ![s] =
             IF made = {} THEN code
                          ELSE CodeAfter[CHOOSE i \in made : \A j \in made : j <= i]]
  BY DEF Uninit
<1> DEFINE made == Calls(s, Entry(code), stop - 1)
           last == CHOOSE i \in made : \A j \in made : j <= i
<1>2. made \subseteq 1..4
  BY EntryLemma DEF Calls
<1>3. made # {} => \E i \in made : \A j \in made : j <= i
  <2> SUFFICES ASSUME made # {} PROVE \E i \in made : \A j \in made : j <= i
    OBVIOUS
  <2>1. \A j \in made : j \in {1, 2, 3, 4}
    BY <1>2
  <2>2. CASE 4 \in made  BY <2>1, <2>2
  <2>3. CASE 4 \notin made /\ 3 \in made  BY <2>1, <2>3
  <2>4. CASE 4 \notin made /\ 3 \notin made /\ 2 \in made  BY <2>1, <2>4
  <2>5. CASE 4 \notin made /\ 3 \notin made /\ 2 \notin made  BY <2>1, <2>5
  <2> QED BY <2>2, <2>3, <2>4, <2>5
<1>4. made # {} => CodeAfter[last] \in Codes
  BY <1>2, <1>3, CodeLemma
<1>5. (IF made = {} THEN code ELSE CodeAfter[last]) \in Codes
  BY <1>4
<1>6. h \ { Release[i] : i \in made } \in SUBSET h
  OBVIOUS
<1> QED BY <1>1, <1>5, <1>6

\* An uninit function that is called for nothing that is not held runs to its
\* end.
LEMMA UninitCompletes ==
  ASSUME TypeOK, NEW s \in Sides, NEW h \in SUBSET Things, NEW code \in Codes,
         Gives(s, code) \subseteq h, Uninit(s, h, code)
  PROVE  /\ held' = [held EXCEPT ![s] = h \ Gives(s, code)]
         /\ err' = [err EXCEPT ![s] = IF Entry(code) = 5 THEN code ELSE "ENABLE"]
<1> DEFINE calls == Calls(s, Entry(code), 4)
<1>1. PICK stop \in Entry(code)..5 :
        LET made == Calls(s, Entry(code), stop - 1) IN
        /\ \A i \in calls : i = stop => Release[i] \notin h
        /\ stop \in calls \cup {5}
        /\ held' = [held EXCEPT ![s] = h \ { Release[i] : i \in made }]
        /\ err' = [err EXCEPT ![s] =
             IF made = {} THEN code
                          ELSE CodeAfter[CHOOSE i \in made : \A j \in made : j <= i]]
  BY DEF Uninit
<1>2. stop = 5
  BY <1>1 DEF Gives
<1>3. Calls(s, Entry(code), stop - 1) = calls
  BY <1>2
<1>4. held' = [held EXCEPT ![s] = h \ Gives(s, code)]
  BY <1>1, <1>3 DEF Gives
<1>5. CASE Entry(code) = 5
  <2>1. calls = {}
    BY <1>5 DEF Calls
  <2> QED BY <1>1, <1>3, <1>4, <1>5, <2>1
<1>6. CASE Entry(code) # 5
  <2>1. calls \subseteq 1..4 /\ 4 \in calls
    BY <1>6, EntryLemma DEF Calls
  <2>2. (CHOOSE i \in calls : \A j \in calls : j <= i) = 4
    <3> DEFINE P(i) == i \in calls /\ \A j \in calls : j <= i
    <3>1. P(4) BY <2>1
    <3>2. \A i : P(i) => i = 4
      BY <2>1
    <3> QED BY <3>1, <3>2
  <2>3. err' = [err EXCEPT ![s] = CodeAfter[4]]
    BY <1>1, <1>3, <2>1, <2>2
  <2> QED BY <1>4, <1>6, <2>3, CodeLemma
<1> QED BY <1>5, <1>6

-----------------------------------------------------------------------------

LEMMA FailureLemma ==
  ASSUME TypeOK, NEW s \in Sides, NEW f \in Failures(s)
  PROVE  f.code \in Codes /\ f.got \in SUBSET Things
<1> USE ReleaseLemma DEF Failures, Failure, On, Registered, Codes, Sides
<1>1. CASE f \in DeviceFailures(s)
  BY <1>1 DEF DeviceFailures
<1>2. CASE s = "ai" /\ f \in EncoderFailures
  BY <1>2 DEF EncoderFailures, TypeOK
<1>3. CASE s = "ao" /\ f \in DecoderFailures
  BY <1>3 DEF DecoderFailures
<1> QED BY <1>1, <1>2, <1>3

LEMMA CompleteLemma ==
  ASSUME NEW s \in Sides
  PROVE  CompleteCode(s) \in Codes /\ Complete(s) \in SUBSET Things
BY ReleaseLemma DEF CompleteCode, Complete, Codes, On, Registered

LEMMA InitialisesType ==
  ASSUME TypeOK, NEW s \in Sides, NEW ok \in BOOLEAN, Initialises(s, ok)
  PROVE  /\ held' \in [Sides -> SUBSET Things] /\ err' \in [Sides -> Codes]
         /\ told' \in [Sides -> Attrs \cup {None}] /\ raced' \subseteq Sides
<1>1. CASE ok
  BY <1>1, CompleteLemma DEF Initialises, Tells, TypeOK
<1>2. CASE ~ok
  <2>1. PICK f \in Failures(s) :
          /\ Uninit(s, held[s] \cup f.got, f.code)
          /\ UNCHANGED <<told, raced>> \/ Tells(s, Setting(s))
    BY <1>2 DEF Initialises
  <2>2. f.code \in Codes /\ held[s] \cup f.got \in SUBSET Things
    BY FailureLemma DEF TypeOK
  <2>3. PICK g \in SUBSET (held[s] \cup f.got), c \in Codes :
          held' = [held EXCEPT ![s] = g] /\ err' = [err EXCEPT ![s] = c]
    BY <2>1, <2>2, UninitLemma
  <2> QED BY <2>1, <2>2, <2>3 DEF Tells, TypeOK
<1> QED BY <1>1, <1>2

LEMMA UninitType ==
  ASSUME TypeOK, NEW s \in Sides, Uninit(s, held[s], err[s])
  PROVE  held' \in [Sides -> SUBSET Things] /\ err' \in [Sides -> Codes]
<1>1. PICK g \in SUBSET held[s], c \in Codes :
        held' = [held EXCEPT ![s] = g] /\ err' = [err EXCEPT ![s] = c]
  BY UninitLemma DEF TypeOK
<1> QED BY <1>1 DEF TypeOK

-----------------------------------------------------------------------------

\* A caller enters one of the setters, or makes its next step in it.
SetterStep ==
  \/ \E ask \in Asks : BeginSet(ask[1], ask[2], ask[3])
  \/ \E c \in Callers :
       SaveParam(c) \/ WriteParam(c) \/ SetPubAttr(c) \/ UndoParam(c)

LEMMA SetterLemma ==
  ASSUME SetterStep
  PROVE  \E c \in Callers :
           \/ \E s \in Sides, w \in [Fields -> Values] : BeginSet(c, s, w)
           \/ SaveParam(c) \/ WriteParam(c) \/ SetPubAttr(c) \/ UndoParam(c)
<1>1. \A ask \in Asks : /\ ask[1] \in Callers /\ ask[2] \in Sides
                        /\ ask[3] \in [Fields -> Values]
  BY DeviceAssumption
<1> QED BY <1>1 DEF SetterStep

\* One parameter of a side is replaced by one of its kind.
LEMMA AttrLemma ==
  /\ \A a \in Attrs, f \in Fields :
       /\ a[f] \in Supported(f)
       /\ \A v \in Supported(f) : [a EXCEPT ![f] = v] \in Attrs
  /\ \A a, b \in Attrs : a["rate"] = b["rate"] /\ a["mode"] = b["mode"] => a = b
BY DEF Attrs, Fields, Supported

LEMMA OnwardLemma ==
  ASSUME NEW me \in Setters, NEW next \in {"save", "write", "call", "undo"}
  PROVE  /\ Onward(me, next) \in Setters
         /\ Onward(me, next).side = me.side /\ Onward(me, next).saved = me.saved
         /\ me.field = "rate" =>
              Onward(me, next).do = me.do /\ Onward(me, next).field = "mode"
         /\ me.field # "rate" =>
              Onward(me, next).do = next /\ Onward(me, next).field = "rate"
BY DEF Onward, Setters, Fields

\* The three threads are created in order while open is at "spawn", and run
\* until they are cancelled.
ThreadsRun == {"spawn", "up", "cancel"}
SpawnedInOrder ==
  /\ threads # {} => pc \in ThreadsRun
  /\ pc = "spawn" => threads \in {{}, {"record"}, {"record", "music"}}

LEMMA TypeInvariance == Spec => [](TypeOK /\ SpawnedInOrder)
<1>1. Init => TypeOK
  <2> SUFFICES ASSUME Init PROVE TypeOK
    OBVIOUS
  <2>1. attr \in [Sides -> Attrs]
    BY DeviceAssumption DEF Init
  <2>2. held \in [Sides -> SUBSET Things] /\ err \in [Sides -> Codes]
    BY DEF Init, Codes
  <2> QED BY <2>1, <2>2 DEF Init, TypeOK
<1>2. TypeOK /\ SpawnedInOrder /\ [Next]_vars => TypeOK'
  <2> SUFFICES ASSUME TypeOK, SpawnedInOrder, [Next]_vars PROVE TypeOK'
    OBVIOUS
  <2>1. CASE MiddlewareInit
    BY <2>1 DEF MiddlewareInit, TypeOK, setVars, Opening
  <2>2. CASE AllocBuffers
    BY <2>2 DEF AllocBuffers, TypeOK, setVars, Opening
  <2>3. CASE RecordInit
    <3>1. PICK ok \in BOOLEAN :
            Initialises("ai", ok) /\ pc' = IF ok THEN "play" ELSE "free"
      BY <2>3 DEF RecordInit
    <3>2. /\ held' \in [Sides -> SUBSET Things] /\ err' \in [Sides -> Codes]
          /\ told' \in [Sides -> Attrs \cup {None}] /\ raced' \subseteq Sides
      BY <3>1, InitialisesType DEF Sides
    <3> QED BY <2>3, <3>1, <3>2 DEF RecordInit, TypeOK, setVars, Opening, Closing
  <2>4. CASE PlayInit
    <3>1. PICK ok \in BOOLEAN :
            Initialises("ao", ok) /\ pc' = IF ok THEN "spawn" ELSE "recordoff"
      BY <2>4 DEF PlayInit
    <3>2. /\ held' \in [Sides -> SUBSET Things] /\ err' \in [Sides -> Codes]
          /\ told' \in [Sides -> Attrs \cup {None}] /\ raced' \subseteq Sides
      BY <3>1, InitialisesType DEF Sides
    <3> QED BY <2>4, <3>1, <3>2 DEF PlayInit, TypeOK, setVars, Opening, Closing
  <2>5. CASE Spawn
    <3>1. threads' \subseteq Workers
      BY <2>5 DEF Spawn, SpawnedInOrder, Workers
    <3>2. pc' \in {"up", "spawn", "cancel"} /\ ready' \in BOOLEAN
      BY <2>5 DEF Spawn, TypeOK
    <3> QED BY <2>5, <3>1, <3>2 DEF Spawn, TypeOK, setVars, Opening, Closing
  <2>6. CASE MiddlewareUninit
    BY <2>6 DEF MiddlewareUninit, TypeOK, setVars, Closing
  <2>7. CASE CancelThreads
    BY <2>7 DEF CancelThreads, TypeOK, setVars, Closing
  <2>8. CASE PlayUninit
    <3>1. held' \in [Sides -> SUBSET Things] /\ err' \in [Sides -> Codes]
      BY <2>8, UninitType DEF PlayUninit, Sides
    <3> QED BY <2>8, <3>1 DEF PlayUninit, TypeOK, setVars, Closing
  <2>9. CASE RecordUninit
    <3>1. held' \in [Sides -> SUBSET Things] /\ err' \in [Sides -> Codes]
      BY <2>9, UninitType DEF RecordUninit, Sides
    <3> QED BY <2>9, <3>1 DEF RecordUninit, TypeOK, setVars, Closing
  <2>10. CASE FreeBuffers
    BY <2>10 DEF FreeBuffers, TypeOK, setVars
  <2>11. CASE SetterStep
    <3>1. PICK c \in Callers :
            \/ \E s \in Sides, w \in [Fields -> Values] : BeginSet(c, s, w)
            \/ SaveParam(c) \/ WriteParam(c) \/ SetPubAttr(c) \/ UndoParam(c)
      BY <2>11, SetterLemma
    <3>2. CASE \E s \in Sides, w \in [Fields -> Values] : BeginSet(c, s, w)
      BY <3>2, DeviceAssumption DEF BeginSet, devVars, TypeOK, Setters, Fields
    <3>3. CASE SaveParam(c)
      <4> DEFINE me == setter[c]
      <4>1. me \in Setters
        BY <3>3 DEF SaveParam, Doing, TypeOK
      <4> DEFINE kept == [me EXCEPT !.saved[me.field] = attr[me.side][me.field]]
      <4>2. kept \in Setters
        BY <4>1, AttrLemma DEF Setters, TypeOK
      <4>3. Onward(kept, "write") \in Setters
        BY <4>2, OnwardLemma
      <4> QED BY <3>3, <4>3 DEF SaveParam, devVars, TypeOK
    <3>4. CASE WriteParam(c)
      <4> DEFINE me == setter[c]
      <4>1. me \in Setters
        BY <3>4 DEF WriteParam, Doing, TypeOK
      <4>2. Onward(me, "call") \in Setters /\ Onward(me, "undo") \in Setters
        BY <4>1, OnwardLemma
      <4>3. attr' \in [Sides -> Attrs]
        BY <3>4, <4>1, AttrLemma DEF WriteParam, Setters, TypeOK
      <4> QED BY <3>4, <4>2, <4>3 DEF WriteParam, devVars, TypeOK
    <3>5. CASE SetPubAttr(c)
      <4>1. setter[c] \in Setters
        BY <3>5 DEF SetPubAttr, Doing, TypeOK
      <4> QED BY <3>5, <4>1 DEF SetPubAttr, Tells, devVars, TypeOK, Setters
    <3>6. CASE UndoParam(c)
      <4> DEFINE me == setter[c]
      <4>1. me \in Setters
        BY <3>6 DEF UndoParam, Doing, TypeOK
      <4>2. attr' \in [Sides -> Attrs]
        <5>1. me.side \in Sides /\ me.field \in Fields /\ me.saved \in Attrs
          BY <4>1 DEF Setters
        <5>2. attr' = [attr EXCEPT ![me.side][me.field] = me.saved[me.field]]
          BY <3>6 DEF UndoParam
        <5> QED BY <5>1, <5>2, AttrLemma DEF TypeOK
      <4>3. [me EXCEPT !.field = "mode"] \in Setters
        BY <4>1 DEF Setters, Fields
      <4> QED BY <3>6, <4>2, <4>3 DEF UndoParam, devVars, TypeOK
    <3> QED BY <3>1, <3>2, <3>3, <3>4, <3>5, <3>6
  <2>12. CASE UNCHANGED vars
    BY <2>12 DEF vars, TypeOK, setVars
  <2> QED
    BY <2>1, <2>2, <2>3, <2>4, <2>5, <2>6, <2>7, <2>8, <2>9, <2>10, <2>11,
       <2>12 DEF Next, SetterStep
<1>3. Init => SpawnedInOrder
  BY DEF Init, SpawnedInOrder
<1>4. SpawnedInOrder /\ [Next]_vars => SpawnedInOrder'
  BY DEF SpawnedInOrder, ThreadsRun, Next, vars, Workers, MiddlewareInit, AllocBuffers,
         RecordInit, PlayInit, Spawn, MiddlewareUninit, CancelThreads,
         PlayUninit, RecordUninit, FreeBuffers, BeginSet, SaveParam, WriteParam,
         SetPubAttr, UndoParam, devVars
<1> QED BY <1>1, <1>2, <1>3, <1>4, PTL DEF Spec

\* Every variable keeps its type: in particular, whatever call fails, the code
\* that is left is one that the switches know.
THEOREM TypeCorrect == Spec => []TypeOK
BY TypeInvariance, PTL

-----------------------------------------------------------------------------

\* Where open and close are, a side is on.
SideOn(s) ==
  IF s = "ai" THEN {"play", "spawn", "up", "cancel", "playoff", "recordoff"}
              ELSE {"spawn", "up", "cancel", "playoff"}

\* The builds in which the codes of a side mean something.
Known(s) == build[s] \in IF s = "ai" THEN {"pcm"} ELSE {"hard", "own"}

\* A side that is on is complete, under the code of a complete one; one that is
\* off holds neither device nor channel, in the builds that are known.
OnIsComplete(s) ==
  pc \in SideOn(s) =>
    Complete(s) \subseteq held[s] /\ err[s] = CompleteCode(s) /\ told[s] # None
OffIsOff(s) == pc \notin SideOn(s) /\ Known(s) => held[s] \cap On = {}

\* What the code of a side claims is held, and device and channel are not
\* without being claimed.  A side that was never initialised holds nothing.
CodeIsTrue(s) ==
  /\ told[s] # None /\ Known(s) =>
       /\ Claimed(s) \subseteq held[s]
       /\ Claimed(s) \cap On = held[s] \cap On
  /\ told[s] = None => held[s] = {}

SideInv(s) ==
  OnIsComplete(s) /\ OffIsOff(s) /\ CodeIsTrue(s)

\* Without an encoder the record side has device and channel at most.
PcmIsPlain == build["ai"] = "pcm" => held["ai"] \subseteq On

\* The buffers come and go with the stages, and what was ready once was
\* initialised, so that a setter finds parameters that the SDK was told.
StagesAgree ==
  /\ bufs <=> pc \notin {"down", "alloc"}
  /\ ready \/ (\E c \in Callers : setter[c] # None) => \A s \in Sides : told[s] # None

IInv ==
  SpawnedInOrder /\ PcmIsPlain /\ StagesAgree /\ \A s \in Sides : SideInv(s)

-----------------------------------------------------------------------------

LEMMA BuildLemma ==
  TypeOK => build["ai"] \in Coders /\ build["ao"] \in Coders
BY DeviceAssumption DEF TypeOK, Sides

\* Where the codes are known, the one of a complete side claims device and
\* channel and nothing that is not there.
LEMMA CompleteIsClaimed ==
  ASSUME TypeOK, NEW s \in Sides, Known(s)
  PROVE  /\ On \subseteq Gives(s, CompleteCode(s))
         /\ Gives(s, CompleteCode(s)) \subseteq Complete(s)
<1>1. CompleteCode(s) \in Codes
  BY CompleteLemma
<1>2. CASE s = "ai"
  <2>1. CompleteCode(s) = "ENABLE_NS" /\ ~Unregisters(s)
    BY <1>2 DEF CompleteCode, Known, Unregisters
  <2> QED BY <1>1, <2>1, GivesLemma, EntryLemma, ReleaseLemma DEF Complete, On
<1>3. CASE s = "ao"
  <2>1. CompleteCode(s) = "SUCESS"
    BY <1>3 DEF CompleteCode
  <2>2. "coder" \in Complete(s) /\ (Unregisters(s) => "registered" \in Complete(s))
    BY <1>3 DEF Known, Unregisters, Complete, Registered
  <2>3. On \subseteq Complete(s)
    BY DEF Complete
  <2>4. Gives(s, "SUCESS") \subseteq Complete(s)
    BY <1>1, <2>1, <2>2, <2>3, GivesLemma, ReleaseLemma DEF On
  <2>5. On \subseteq Gives(s, "SUCESS")
    BY <1>1, <2>1, GivesLemma, EntryLemma DEF On
  <2> QED BY <2>1, <2>4, <2>5
<1> QED BY <1>2, <1>3 DEF Sides

\* A side after its init function has succeeded.
LEMMA InitSucceeds ==
  ASSUME TypeOK, NEW s \in Sides, Initialises(s, TRUE)
  PROVE  /\ \A t \in Sides : t # s => held'[t] = held[t] /\ err'[t] = err[t] /\ told'[t] = told[t]
         /\ held'[s] = held[s] \cup Complete(s)
         /\ err'[s] = CompleteCode(s)
         /\ told'[s] = attr[s] /\ told'[s] # None
BY DeviceAssumption DEF Initialises, Tells, TypeOK

\* A failing init function leaves nothing on and claims nothing, where the
\* codes are known; if it did not even set the parameters it changes nothing.
LEMMA InitFails ==
  ASSUME TypeOK, NEW s \in Sides, Initialises(s, FALSE)
  PROVE  /\ \A t \in Sides : t # s => held'[t] = held[t] /\ err'[t] = err[t] /\ told'[t] = told[t]
         /\ told'[s] = None => told[s] = None /\ held'[s] = held[s]
         /\ build["ai"] = "pcm" /\ held["ai"] \subseteq On => held'["ai"] \subseteq On
         /\ Known(s) /\ held[s] \cap On = {} => /\ held'[s] \cap On = {}
                                                /\ Gives(s, err'[s]) = {}
<1>1. PICK f \in Failures(s) :
        /\ Uninit(s, held[s] \cup f.got, f.code)
        /\ told' = IF f.code = "SET_ATTR" /\ f.got = {} THEN told
                                          ELSE [told EXCEPT ![s] = attr[s]]
  BY DEF Initialises, Tells
<1>2. f.code \in Codes /\ held[s] \cup f.got \in SUBSET Things
  BY FailureLemma DEF TypeOK
<1>3. PICK g \in SUBSET (held[s] \cup f.got), c \in Codes :
        held' = [held EXCEPT ![s] = g] /\ err' = [err EXCEPT ![s] = c]
  BY <1>1, <1>2, UninitLemma
<1>4. \A t \in Sides : t # s => held'[t] = held[t] /\ err'[t] = err[t] /\ told'[t] = told[t]
  BY <1>1, <1>3 DEF TypeOK
<1>5. Gives(s, f.code) \subseteq held[s] \cup f.got =>
        /\ held'[s] = (held[s] \cup f.got) \ Gives(s, f.code)
        /\ err'[s] = IF Entry(f.code) = 5 THEN f.code ELSE "ENABLE"
  <2> SUFFICES ASSUME Gives(s, f.code) \subseteq held[s] \cup f.got
               PROVE  /\ held'[s] = (held[s] \cup f.got) \ Gives(s, f.code)
                      /\ err'[s] = IF Entry(f.code) = 5 THEN f.code ELSE "ENABLE"
    OBVIOUS
  <2>1. Uninit(s, held[s] \cup f.got, f.code)
    BY <1>1
  <2>2. /\ held' = [held EXCEPT ![s] = (held[s] \cup f.got) \ Gives(s, f.code)]
        /\ err' = [err EXCEPT ![s] = IF Entry(f.code) = 5 THEN f.code ELSE "ENABLE"]
    BY <1>2, <2>1, UninitCompletes
  <2> QED BY <2>2 DEF TypeOK
<1>6. told'[s] = None => told[s] = None /\ held'[s] = held[s]
  <2> SUFFICES ASSUME told'[s] = None PROVE told[s] = None /\ held'[s] = held[s]
    OBVIOUS
  <2>1. f.code = "SET_ATTR" /\ f.got = {} /\ told' = told
    BY <1>1, DeviceAssumption DEF TypeOK
  <2>2. Gives(s, f.code) = {}
    BY <1>2, <2>1, GivesLemma, EntryLemma, ReleaseLemma
  <2> QED BY <1>5, <2>1, <2>2
<1>8. build["ai"] = "pcm" /\ held["ai"] \subseteq On => held'["ai"] \subseteq On
  <2> SUFFICES ASSUME build["ai"] = "pcm", held["ai"] \subseteq On
               PROVE  held'["ai"] \subseteq On
    OBVIOUS
  <2>1. CASE s = "ai"
    <3>1. f \in DeviceFailures(s)
      BY <2>1 DEF Failures, EncoderFailures
    <3>2. f.got \subseteq On
      BY <3>1 DEF DeviceFailures, Failure, On
    <3> QED BY <1>3, <2>1, <3>2 DEF TypeOK
  <2>2. CASE s = "ao"
    BY <1>4, <2>2 DEF Sides
  <2> QED BY <2>1, <2>2 DEF Sides
<1>9. Known(s) /\ held[s] \cap On = {} => held'[s] \cap On = {} /\ Gives(s, err'[s]) = {}
  <2> SUFFICES ASSUME Known(s), held[s] \cap On = {}
               PROVE  held'[s] \cap On = {} /\ Gives(s, err'[s]) = {}
    OBVIOUS
  <2>1. /\ Gives(s, f.code) \subseteq f.got
        /\ f.got \cap On \subseteq Gives(s, f.code)
    <3>1. CASE f \in DeviceFailures(s)
      BY <1>2, <3>1, GivesLemma, EntryLemma, ReleaseLemma
      DEF DeviceFailures, Failure, On
    <3>2. CASE s = "ai" /\ f \notin DeviceFailures(s)
      BY <3>2 DEF Failures, EncoderFailures, Known
    <3>3. CASE s = "ao" /\ f \notin DeviceFailures(s)
      <4>1. f \in DecoderFailures
        BY <3>3 DEF Failures
      <4>2. \/ f.code = "REG" /\ f.got = On
            \/ f.code = "CREA" /\ f.got = On \cup Registered("ao")
            \/ f.code = "CREA" /\ f.got = On \cup Registered("ao") \cup {"coder"}
        BY <4>1 DEF DecoderFailures, Failure
      <4>3. Unregisters(s) => "registered" \in Registered("ao")
        BY <3>3 DEF Unregisters, Registered, Known
      <4> QED BY <1>2, <4>2, <4>3, GivesLemma, EntryLemma, ReleaseLemma DEF On
    <3> QED BY <3>1, <3>2, <3>3 DEF Sides
  <2>2. err'[s] \in Codes /\ Entry(err'[s]) = 5
    BY <1>2, <1>5, <2>1, EntryLemma DEF Codes
  <2>3. Gives(s, err'[s]) = {}
    BY <2>2, GivesLemma, ReleaseLemma
  <2> QED BY <1>5, <2>1, <2>3
<1> QED BY <1>4, <1>6, <1>8, <1>9

\* The uninit function of a side whose code is true takes all of it that the
\* code claims and leaves a code that claims nothing.
LEMMA UninitSide ==
  ASSUME TypeOK, NEW s \in Sides, CodeIsTrue(s), Uninit(s, held[s], err[s])
  PROVE  /\ \A t \in Sides : t # s => held'[t] = held[t] /\ err'[t] = err[t]
         /\ held'[s] \subseteq held[s]
         /\ told[s] # None /\ Known(s) => /\ held'[s] \cap On = {}
                                          /\ Gives(s, err'[s]) = {}
<1>1. held[s] \in SUBSET Things /\ err[s] \in Codes
  BY DEF TypeOK
<1>2. PICK g \in SUBSET held[s], c \in Codes :
        held' = [held EXCEPT ![s] = g] /\ err' = [err EXCEPT ![s] = c]
  BY <1>1, UninitLemma
<1>3. ASSUME told[s] # None, Known(s)
      PROVE  held'[s] \cap On = {} /\ Gives(s, err'[s]) = {}
  <2>1. Gives(s, err[s]) \subseteq held[s] /\ Gives(s, err[s]) \cap On = held[s] \cap On
    BY <1>3 DEF CodeIsTrue, Claimed, Gives
  <2>2. /\ held'[s] = held[s] \ Gives(s, err[s])
        /\ err'[s] = IF Entry(err[s]) = 5 THEN err[s] ELSE "ENABLE"
    BY <1>1, <2>1, UninitCompletes DEF TypeOK
  <2>3. err'[s] \in Codes /\ Entry(err'[s]) = 5
    BY <1>1, <2>2, EntryLemma DEF Codes
  <2>4. Gives(s, err'[s]) = {}
    BY <2>3, GivesLemma, ReleaseLemma
  <2> QED BY <2>1, <2>2, <2>4
<1> QED BY <1>2, <1>3 DEF TypeOK

-----------------------------------------------------------------------------

\* The build never changes, and what depends on nothing else with it.
LEMMA BuildStays ==
  ASSUME [Next]_vars
  PROVE  /\ build' = build
         /\ \A s \in Sides : /\ Complete(s)' = Complete(s)
                             /\ CompleteCode(s)' = CompleteCode(s)
                             /\ Known(s)' = Known(s)
                             /\ Claimed(s)' = Gives(s, err'[s])
<1>1. build' = build
  BY DEF Next, vars, MiddlewareInit, AllocBuffers, RecordInit, PlayInit, Spawn,
     MiddlewareUninit, CancelThreads, PlayUninit, RecordUninit, FreeBuffers, BeginSet,
     SaveParam, WriteParam, SetPubAttr, UndoParam, devVars
<1> QED BY <1>1 DEF Complete, CompleteCode, Known, Claimed, Gives, Registered,
                    Calls, Unregisters

\* A step that does not touch a side keeps what is said of it.
LEMMA SideUntouched ==
  ASSUME TypeOK, [Next]_vars, NEW s \in Sides, SideInv(s),
         held'[s] = held[s], err'[s] = err[s], told'[s] = None <=> told[s] = None,
         pc' \in SideOn(s) <=> pc \in SideOn(s)
  PROVE  SideInv(s)'
<1>1. Claimed(s)' = Claimed(s)
  BY BuildStays DEF Claimed, Gives
<1>2. /\ Complete(s)' = Complete(s) /\ CompleteCode(s)' = CompleteCode(s)
      /\ Known(s)' = Known(s)
  BY BuildStays
<1>3. SideOn(s)' = SideOn(s)
  BY DEF SideOn
<1> QED BY <1>1, <1>2, <1>3 DEF SideInv, OnIsComplete, OffIsOff, CodeIsTrue

\* A side that is initialised with success.
LEMMA SideInitialised ==
  ASSUME TypeOK, [Next]_vars, NEW s \in Sides, SideInv(s), Initialises(s, TRUE),
         pc \notin SideOn(s), pc' \in SideOn(s),
         s = "ai" => PcmIsPlain
  PROVE  SideInv(s)'
<1>1. /\ held'[s] = held[s] \cup Complete(s) /\ err'[s] = CompleteCode(s)
      /\ told'[s] = attr[s] /\ told'[s] # None
  BY InitSucceeds
<1>2. /\ Complete(s)' = Complete(s) /\ CompleteCode(s)' = CompleteCode(s)
      /\ Known(s)' = Known(s) /\ Claimed(s)' = Gives(s, CompleteCode(s))
  BY <1>1, BuildStays
<1>3. SideOn(s)' = SideOn(s)
  BY DEF SideOn
<1>4. Known(s) => /\ On \subseteq Gives(s, CompleteCode(s))
                  /\ Gives(s, CompleteCode(s)) \subseteq Complete(s)
  BY CompleteIsClaimed
<1> QED BY <1>1, <1>2, <1>3, <1>4
        DEF SideInv, OnIsComplete, OffIsOff, CodeIsTrue

\* A side whose initialisation failed.
LEMMA SideFailed ==
  ASSUME TypeOK, [Next]_vars, NEW s \in Sides, SideInv(s), Initialises(s, FALSE),
         pc \notin SideOn(s), pc' \notin SideOn(s)
  PROVE  SideInv(s)'
<1>1. /\ told'[s] = None => told[s] = None /\ held'[s] = held[s]
      /\ Known(s) /\ held[s] \cap On = {} => held'[s] \cap On = {} /\ Gives(s, err'[s]) = {}
  BY InitFails
<1>2. Known(s)' = Known(s) /\ Claimed(s)' = Gives(s, err'[s]) /\ SideOn(s)' = SideOn(s)
  BY BuildStays DEF SideOn
<1> QED BY <1>1, <1>2 DEF SideInv, OnIsComplete, OffIsOff, CodeIsTrue

\* A side that is switched off.
LEMMA SideReleased ==
  ASSUME TypeOK, [Next]_vars, NEW s \in Sides, SideInv(s),
         Uninit(s, held[s], err[s]),
         pc \in SideOn(s), pc' \notin SideOn(s), told' = told
  PROVE  SideInv(s)'
<1>1. told[s] # None /\ CodeIsTrue(s)
  BY DEF SideInv, OnIsComplete
<1>2. Known(s) => held'[s] \cap On = {} /\ Gives(s, err'[s]) = {}
  BY <1>1, UninitSide
<1>3. Known(s)' = Known(s) /\ Claimed(s)' = Gives(s, err'[s]) /\ SideOn(s)' = SideOn(s)
  BY BuildStays DEF SideOn
<1> QED BY <1>1, <1>2, <1>3 DEF SideInv, OnIsComplete, OffIsOff, CodeIsTrue

LEMMA StepKeepsInvariant ==
  ASSUME TypeOK, SpawnedInOrder, SpawnedInOrder', IInv, [Next]_vars
  PROVE  IInv'
<1>1. SUFFICES PcmIsPlain' /\ StagesAgree' /\ \A s \in Sides : SideInv(s)'
  BY DEF IInv
<1>2. /\ \A s \in Sides : SideInv(s) /\ CodeIsTrue(s)
      /\ PcmIsPlain /\ StagesAgree
  BY DEF IInv, SideInv
<1>3. build' = build
  BY BuildStays
<1>4. \A s \in Sides : SideInv(s) => (pc \in SideOn(s) => told[s] # None)
  BY DEF SideInv, OnIsComplete
<1> USE DEF Sides, SideOn
<1>5. CASE MiddlewareInit
  <2>1. \A s \in Sides : SideInv(s)'
    BY <1>2, <1>5, SideUntouched DEF MiddlewareInit
  <2> QED BY <1>2, <1>5, <2>1 DEF MiddlewareInit, PcmIsPlain, StagesAgree, setVars
<1>6. CASE AllocBuffers
  <2>1. \A s \in Sides : SideInv(s)'
    BY <1>2, <1>6, SideUntouched DEF AllocBuffers
  <2> QED BY <1>2, <1>6, <2>1 DEF AllocBuffers, PcmIsPlain, StagesAgree, setVars
<1>7. CASE RecordInit
  <2>1. PICK ok \in BOOLEAN : Initialises("ai", ok) /\ pc' = IF ok THEN "play" ELSE "free"
    BY <1>7 DEF RecordInit
  <2>2. CASE ok = TRUE
    <3>1. Initialises("ai", TRUE) /\ pc' = "play"
      BY <2>1, <2>2
    <3>2. SideInv("ai")'
      BY <1>2, <1>7, <3>1, SideInitialised DEF RecordInit
    <3>3. /\ held'["ao"] = held["ao"] /\ err'["ao"] = err["ao"] /\ told'["ao"] = told["ao"]
          /\ held'["ai"] = held["ai"] \cup Complete("ai") /\ told'["ai"] # None
      BY <3>1, InitSucceeds
    <3>4. SideInv("ao")'
      BY <1>2, <1>7, <3>1, <3>3, SideUntouched DEF RecordInit
    <3>5. PcmIsPlain'
      BY <1>2, <1>3, <3>3 DEF PcmIsPlain, Complete, Registered
    <3>6. StagesAgree'
      BY <1>2, <1>7, <3>1, <3>3 DEF RecordInit, StagesAgree, setVars
    <3> QED BY <3>2, <3>4, <3>5, <3>6
  <2>3. CASE ok = FALSE
    <3>1. Initialises("ai", FALSE) /\ pc' = "free"
      BY <2>1, <2>3
    <3>2. SideInv("ai")'
      BY <1>2, <1>7, <3>1, SideFailed DEF RecordInit
    <3>3. /\ held'["ao"] = held["ao"] /\ err'["ao"] = err["ao"] /\ told'["ao"] = told["ao"]
          /\ build["ai"] = "pcm" /\ held["ai"] \subseteq On => held'["ai"] \subseteq On
          /\ told'["ai"] = None => told["ai"] = None
      BY <3>1, InitFails
    <3>4. SideInv("ao")'
      BY <1>2, <1>7, <3>1, <3>3, SideUntouched DEF RecordInit
    <3>5. PcmIsPlain'
      BY <1>2, <1>3, <3>3 DEF PcmIsPlain
    <3>6. StagesAgree'
      BY <1>2, <1>7, <3>1, <3>3 DEF RecordInit, StagesAgree, setVars
    <3> QED BY <3>2, <3>4, <3>5, <3>6
  <2> QED BY <2>2, <2>3
<1>8. CASE PlayInit
  <2>1. PICK ok \in BOOLEAN : Initialises("ao", ok) /\ pc' = IF ok THEN "spawn" ELSE "recordoff"
    BY <1>8 DEF PlayInit
  <2>2. CASE ok = TRUE
    <3>1. Initialises("ao", TRUE) /\ pc' = "spawn"
      BY <2>1, <2>2
    <3>2. SideInv("ao")'
      BY <1>2, <1>8, <3>1, SideInitialised DEF PlayInit
    <3>3. /\ held'["ai"] = held["ai"] /\ err'["ai"] = err["ai"] /\ told'["ai"] = told["ai"]
          /\ told'["ao"] # None
      BY <3>1, InitSucceeds
    <3>4. SideInv("ai")'
      BY <1>2, <1>8, <3>1, <3>3, SideUntouched DEF PlayInit
    <3>5. PcmIsPlain'
      BY <1>2, <1>3, <3>3 DEF PcmIsPlain
    <3>6. StagesAgree'
      BY <1>2, <1>8, <3>1, <3>3 DEF PlayInit, StagesAgree, setVars
    <3> QED BY <3>2, <3>4, <3>5, <3>6
  <2>3. CASE ok = FALSE
    <3>1. Initialises("ao", FALSE) /\ pc' = "recordoff"
      BY <2>1, <2>3
    <3>2. SideInv("ao")'
      BY <1>2, <1>8, <3>1, SideFailed DEF PlayInit
    <3>3. /\ held'["ai"] = held["ai"] /\ err'["ai"] = err["ai"] /\ told'["ai"] = told["ai"]
          /\ told'["ao"] = None => told["ao"] = None
      BY <3>1, InitFails
    <3>4. SideInv("ai")'
      BY <1>2, <1>8, <3>1, <3>3, SideUntouched DEF PlayInit
    <3>5. PcmIsPlain'
      BY <1>2, <1>3, <3>3 DEF PcmIsPlain
    <3>6. StagesAgree'
      BY <1>2, <1>8, <3>1, <3>3 DEF PlayInit, StagesAgree, setVars
    <3> QED BY <3>2, <3>4, <3>5, <3>6
  <2> QED BY <2>2, <2>3
<1>9. CASE Spawn
  <2>1. pc' \in {"up", "spawn", "cancel"}
    BY <1>9 DEF Spawn
  <2>2. \A s \in Sides : SideInv(s)'
    BY <1>2, <1>9, <2>1, SideUntouched DEF Spawn
  <2> QED BY <1>2, <1>4, <1>9, <2>1, <2>2 DEF Spawn, PcmIsPlain, StagesAgree
<1>10. CASE MiddlewareUninit
  <2>1. \A s \in Sides : SideInv(s)'
    BY <1>2, <1>10, SideUntouched DEF MiddlewareUninit
  <2> QED BY <1>2, <1>10, <2>1 DEF MiddlewareUninit, PcmIsPlain, StagesAgree, setVars
<1>11. CASE CancelThreads
  <2>1. \A s \in Sides : SideInv(s)'
    BY <1>2, <1>11, SideUntouched DEF CancelThreads
  <2> QED BY <1>2, <1>11, <2>1 DEF CancelThreads, PcmIsPlain, StagesAgree, setVars
<1>12. CASE PlayUninit
  <2>1. Uninit("ao", held["ao"], err["ao"]) /\ pc = "playoff" /\ pc' = "recordoff"
    BY <1>12 DEF PlayUninit
  <2>2. SideInv("ao")'
    BY <1>2, <1>12, <2>1, SideReleased DEF PlayUninit
  <2>3. held'["ai"] = held["ai"] /\ err'["ai"] = err["ai"]
    BY <1>2, <2>1, UninitSide
  <2>4. SideInv("ai")'
    BY <1>2, <1>12, <2>1, <2>3, SideUntouched DEF PlayUninit
  <2> QED BY <1>2, <1>12, <2>2, <2>3, <2>4 DEF PlayUninit, PcmIsPlain, StagesAgree, setVars
<1>13. CASE RecordUninit
  <2>1. Uninit("ai", held["ai"], err["ai"]) /\ pc = "recordoff" /\ pc' = "free"
    BY <1>13 DEF RecordUninit
  <2>2. SideInv("ai")'
    BY <1>2, <1>13, <2>1, SideReleased DEF RecordUninit
  <2>3. held'["ao"] = held["ao"] /\ err'["ao"] = err["ao"] /\ held'["ai"] \subseteq held["ai"]
    BY <1>2, <2>1, UninitSide
  <2>4. SideInv("ao")'
    BY <1>2, <1>13, <2>1, <2>3, SideUntouched DEF RecordUninit
  <2> QED BY <1>2, <1>13, <2>2, <2>3, <2>4 DEF RecordUninit, PcmIsPlain, StagesAgree, setVars
<1>14. CASE FreeBuffers
  <2>1. \A s \in Sides : SideInv(s)'
    BY <1>2, <1>14, SideUntouched DEF FreeBuffers
  <2> QED BY <1>2, <1>14, <2>1 DEF FreeBuffers, PcmIsPlain, StagesAgree, setVars
<1>15. CASE SetterStep
  <2>1. PICK c \in Callers :
          \/ \E s \in Sides, w \in [Fields -> Values] : BeginSet(c, s, w)
          \/ SaveParam(c) \/ WriteParam(c) \/ SetPubAttr(c) \/ UndoParam(c)
    BY <1>15, SetterLemma
  <2>2. UNCHANGED devVars
    BY <2>1 DEF BeginSet, SaveParam, WriteParam, SetPubAttr, UndoParam
  <2>3. ready \/ setter[c] # None
    BY <2>1 DEF BeginSet, SaveParam, WriteParam, SetPubAttr, UndoParam, Doing
  <2>4. \A s \in Sides : told[s] # None
    BY <1>2, <2>3 DEF StagesAgree
  <2>5. \A s \in Sides : told'[s] # None
    <3>1. \A s \in Sides : attr[s] # None
      BY DeviceAssumption DEF TypeOK
    <3> QED BY <2>1, <2>4, <3>1
            DEF BeginSet, SaveParam, WriteParam, SetPubAttr, UndoParam, Tells, TypeOK
  <2>6. \A s \in Sides : SideInv(s)'
    BY <1>2, <2>2, <2>4, <2>5, SideUntouched DEF devVars
  <2> QED BY <1>2, <2>2, <2>5, <2>6 DEF devVars, PcmIsPlain, StagesAgree
<1>16. CASE UNCHANGED vars
  <2>1. \A s \in Sides : SideInv(s)'
    BY <1>2, <1>16, SideUntouched DEF vars
  <2> QED BY <1>2, <1>16, <2>1 DEF vars, PcmIsPlain, StagesAgree, setVars
<1> QED
  BY <1>5, <1>6, <1>7, <1>8, <1>9, <1>10, <1>11, <1>12, <1>13, <1>14, <1>15,
     <1>16 DEF Next, SetterStep

THEOREM Invariance == Spec => [](TypeOK /\ IInv)
<1>1. Init => IInv
  <2> SUFFICES ASSUME Init PROVE IInv
    OBVIOUS
  <2>1. \A s \in Sides : held[s] = {} /\ told[s] = None
    BY DEF Init
  <2>2. \A c \in Callers : setter[c] = None
    BY DEF Init
  <2> QED BY <2>1, <2>2 DEF Init, IInv, SpawnedInOrder, PcmIsPlain, StagesAgree, SideInv,
                      OnIsComplete, OffIsOff, CodeIsTrue, SideOn, Sides
<1>2. TypeOK /\ SpawnedInOrder /\ SpawnedInOrder' /\ IInv /\ [Next]_vars => IInv'
  BY StepKeepsInvariant
<1> QED BY <1>1, <1>2, TypeInvariance, PTL DEF Spec

\* Once a side was initialised, whatever failed since, its error code claims
\* device and channel exactly if the SDK holds them.
THEOREM CodesTellHeld == Spec => []CodeTellsHeld
<1>1. IInv => CodeTellsHeld
  BY DEF IInv, SideInv, CodeIsTrue, CodeTellsHeld, Known
<1> QED BY <1>1, Invariance, PTL

\* After a close, and after an open that failed at any of its calls, no thread
\* runs, no buffer is allocated and the device is off.
THEOREM DownStaysOff == Spec => []DownIsOff
<1>1. TypeOK /\ IInv => DownIsOff
  <2> SUFFICES ASSUME TypeOK, IInv, pc = "down"
               PROVE  /\ threads = {} /\ ~bufs
                      /\ build["ai"] = "pcm" => held["ai"] = {}
                      /\ build["ao"] \in {"hard", "own"} => held["ao"] \cap On = {}
    BY DEF DownIsOff
  <2>1. threads = {} /\ ~bufs
    BY DEF IInv, SpawnedInOrder, ThreadsRun, StagesAgree
  <2>2. \A s \in Sides : Known(s) => held[s] \cap On = {}
    BY DEF IInv, SideInv, OffIsOff, SideOn
  <2> QED BY <2>1, <2>2 DEF IInv, PcmIsPlain, Known, Sides
<1> QED BY <1>1, Invariance, PTL

\* As long as a thread of the device runs, both sides are complete and the
\* buffers are there.
THEOREM ThreadsKeepDevice == Spec => []ThreadsHaveDevice
<1>1. IInv => ThreadsHaveDevice
  BY DEF IInv, SpawnedInOrder, ThreadsRun, StagesAgree, SideInv, OnIsComplete,
         SideOn, ThreadsHaveDevice
<1> QED BY <1>1, Invariance, PTL

-----------------------------------------------------------------------------

\* A setter that met nobody: the locals hold what the SDK was told, as far as
\* they are saved, and so does the static, as far as it was not written, or was
\* put back.
Unmet(c) ==
  LET me == setter[c]
      last == told[me.side] IN
  /\ me.do = "save" => /\ attr[me.side] = last
                       /\ me.field = "mode" => me.saved["rate"] = last["rate"]
  /\ me.do # "save" => me.saved = last
  /\ me.do = "call" => me.field = "rate"
  /\ me.do = "undo" /\ me.field = "mode" => attr[me.side]["rate"] = last["rate"]

\* On a side that was not raced on there is one setter at most, and it met
\* nobody; without one, program and SDK agree.
ParamInv(s) ==
  s \notin raced =>
    /\ \A c, d \in Setting(s) : c = d
    /\ \A c \in Setting(s) : Unmet(c)
    /\ Setting(s) = {} => told[s] \in {None, attr[s]}

\* A side whose parameters and setters a step leaves alone.
LEMMA ParamUntouched ==
  ASSUME TypeOK, NEW s \in Sides, ParamInv(s),
         told'[s] = told[s], attr'[s] = attr[s],
         s \in raced' <=> s \in raced,
         Setting(s)' = Setting(s), \A c \in Setting(s) : setter'[c] = setter[c]
  PROVE  ParamInv(s)'
<1>1. \A c \in Setting(s) : setter[c].side = s
  BY DEF Setting
<1>2. \A c \in Setting(s) : Unmet(c)' = Unmet(c)
  BY <1>1 DEF Unmet
<1> QED BY <1>2 DEF ParamInv

\* An init function tells the SDK, or is refused by it.
LEMMA ParamInitialised ==
  ASSUME TypeOK, NEW t \in Sides, NEW ok \in BOOLEAN, Initialises(t, ok),
         UNCHANGED setVars, \A s \in Sides : ParamInv(s)
  PROVE  \A s \in Sides : ParamInv(s)'
<1>1. UNCHANGED <<told, raced>> \/ Tells(t, Setting(t))
  BY DEF Initialises
<1>2. \A s \in Sides : Setting(s)' = Setting(s)
  BY DEF Setting, setVars
<1>3. CASE UNCHANGED <<told, raced>>
  BY <1>2, <1>3, ParamUntouched DEF setVars
<1>4. CASE Tells(t, Setting(t))
  <2> TAKE s \in Sides
  <2>1. CASE s # t
    <3>1. told'[s] = told[s] /\ (s \in raced' <=> s \in raced)
      BY <1>4, <2>1 DEF Tells, TypeOK
    <3> QED BY <1>2, <3>1, ParamUntouched DEF setVars
  <2>2. CASE s = t
    <3>1. told'[s] = attr'[s]
      BY <1>4, <2>2 DEF Tells, TypeOK, setVars
    <3>2. Setting(s) # {} => s \in raced'
      BY <1>4, <2>2 DEF Tells
    <3> QED BY <1>2, <3>1, <3>2 DEF ParamInv
  <2> QED BY <2>1, <2>2
<1> QED BY <1>1, <1>3, <1>4

\* A step within a setter is seen by no other side and by no other setter.
LEMMA ParamStep ==
  ASSUME TypeOK, StagesAgree, SetterStep, \A s \in Sides : ParamInv(s), TypeOK'
  PROVE  \A s \in Sides : ParamInv(s)'
<1>1. PICK c \in Callers :
        \/ \E s \in Sides, w \in [Fields -> Values] : BeginSet(c, s, w)
        \/ SaveParam(c) \/ WriteParam(c) \/ SetPubAttr(c) \/ UndoParam(c)
  BY SetterLemma
<1>2. CASE \E s \in Sides, w \in [Fields -> Values] : BeginSet(c, s, w)
  <2>1. PICK t \in Sides, w \in [Fields -> Values] : BeginSet(c, t, w)
    BY <1>2
  <2> DEFINE new == [side |-> t, want |-> w, saved |-> Initial,
                     do |-> "save", field |-> "rate"]
  <2>2. /\ setter[c] = None /\ setter' = [setter EXCEPT ![c] = new] /\ ready
        /\ raced' = IF Setting(t) = {} THEN raced ELSE raced \cup {t}
        /\ told' = told /\ attr' = attr
    BY <2>1 DEF BeginSet
  <2>3. new # None
    BY DeviceAssumption DEF Setters, Fields
  <2>4. /\ setter'[c] = new /\ new.side = t
        /\ \A d \in Callers : d # c => setter'[d] = setter[d]
    BY <2>2 DEF TypeOK
  <2>5. \A s \in Sides : Setting(s)' = IF s = t THEN Setting(s) \cup {c} ELSE Setting(s)
    BY <2>2, <2>3, <2>4 DEF Setting
  <2>6. c \notin Setting(t)
    BY <2>2 DEF Setting
  <2> TAKE s \in Sides
  <2>7. CASE s # t
    <3>1. \A d \in Setting(s) : setter'[d] = setter[d]
      BY <2>2, <2>4 DEF Setting
    <3>2. s \in raced' <=> s \in raced
      BY <2>2, <2>7
    <3> QED BY <2>2, <2>5, <2>7, <3>1, <3>2, ParamUntouched
  <2>8. CASE s = t
    <3> SUFFICES ASSUME s \notin raced' PROVE ParamInv(s)'
      BY DEF ParamInv
    <3>1. Setting(s) = {} /\ s \notin raced
      BY <2>2, <2>8
    <3>2. Setting(s)' = {c}
      BY <2>5, <2>8, <3>1
    <3>3. told[s] = attr[s]
      BY <2>2, <3>1 DEF ParamInv, StagesAgree
    <3>4. Unmet(c)'
      BY <2>2, <2>4, <2>8, <3>3 DEF Unmet
    <3> QED BY <3>2, <3>4 DEF ParamInv
  <2> QED BY <2>7, <2>8
<1> DEFINE me == setter[c]
<1> PICK t : t = me.side
  OBVIOUS
<1>3. ASSUME SaveParam(c) \/ WriteParam(c) \/ SetPubAttr(c) \/ UndoParam(c)
      PROVE  /\ me \in Setters /\ me # None /\ t \in Sides /\ c \in Setting(t)
             /\ me.field \in Fields /\ me.saved \in Attrs
             /\ attr[t] \in Attrs /\ told[t] \in Attrs
             /\ \A d \in Callers : d # c => setter'[d] = setter[d]
  <2>1. me # None /\ me \in Setters
    BY <1>3 DEF SaveParam, WriteParam, SetPubAttr, UndoParam, Doing, TypeOK
  <2>2. t \in Sides /\ me.field \in Fields /\ me.saved \in Attrs
    BY <2>1 DEF Setters
  <2>3. told[t] # None
    BY <2>1, <2>2 DEF StagesAgree
  <2>4. \A d \in Callers : d # c => setter'[d] = setter[d]
    BY <1>3 DEF SaveParam, WriteParam, SetPubAttr, UndoParam, TypeOK
  <2> QED BY <2>1, <2>2, <2>3, <2>4 DEF TypeOK, Setting
<1>4. ASSUME SaveParam(c) \/ WriteParam(c) \/ SetPubAttr(c) \/ UndoParam(c)
      PROVE  \/ setter'[c] = None /\ Setting(t)' = Setting(t) \ {c}
             \/ setter'[c] # None /\ setter'[c].side = t /\ Setting(t)' = Setting(t)
  <2> DEFINE kept == [me EXCEPT !.saved[me.field] = attr[t][me.field]]
  <2>1. /\ kept \in Setters /\ kept.side = t
        /\ [me EXCEPT !.do = "undo"].side = t /\ [me EXCEPT !.do = "undo"] \in Setters
        /\ [me EXCEPT !.field = "mode"].side = t /\ [me EXCEPT !.field = "mode"] \in Setters
    BY <1>3, <1>4, AttrLemma DEF Setters, Fields
  <2>2. None \notin Setters
    BY DeviceAssumption
  <2>3. \A what \in {"write", "call", "undo"} :
          Onward(me, what) \in Setters /\ Onward(me, what).side = t
    BY <1>3, <1>4, OnwardLemma
  <2>4. Onward(kept, "write") \in Setters /\ Onward(kept, "write").side = t
    BY <2>1, OnwardLemma
  <2>5. setter'[c] = None \/ (setter'[c] # None /\ setter'[c].side = t)
    <3>1. CASE SaveParam(c)
      BY <2>2, <2>4, <3>1 DEF SaveParam, TypeOK
    <3>2. CASE WriteParam(c)
      BY <2>2, <2>3, <3>2 DEF WriteParam, TypeOK
    <3>3. CASE SetPubAttr(c)
      <4> DEFINE undo == [me EXCEPT !.do = "undo"]
      <4>1. /\ setter \in [Callers -> Setters \cup {None}]
            /\ \/ setter' = [setter EXCEPT ![c] = None]
               \/ setter' = [setter EXCEPT ![c] = undo]
        BY <3>3 DEF SetPubAttr, TypeOK
      <4>2. setter'[c] = None \/ setter'[c] = undo
        BY <4>1
      <4>3. undo \in Setters /\ undo.side = t
        BY <2>1
      <4> HIDE DEF undo
      <4> QED BY <2>2, <4>2, <4>3
    <3>4. CASE UndoParam(c)
      <4> DEFINE undo == [me EXCEPT !.field = "mode"]
      <4>1. /\ setter \in [Callers -> Setters \cup {None}]
            /\ \/ setter' = [setter EXCEPT ![c] = None]
               \/ setter' = [setter EXCEPT ![c] = undo]
        BY <3>4 DEF UndoParam, TypeOK
      <4>2. setter'[c] = None \/ setter'[c] = undo
        BY <4>1
      <4>3. undo \in Setters /\ undo.side = t
        BY <2>1
      <4> HIDE DEF undo
      <4> QED BY <2>2, <4>2, <4>3
    <3> QED BY <1>4, <3>1, <3>2, <3>3, <3>4
  <2> QED BY <1>3, <1>4, <2>5 DEF Setting
<1>5. ASSUME SaveParam(c) \/ WriteParam(c) \/ SetPubAttr(c) \/ UndoParam(c),
             NEW s \in Sides, s # t
      PROVE  ParamInv(s)'
  <2>1. told'[s] = told[s] /\ attr'[s] = attr[s] /\ (s \in raced' <=> s \in raced)
    BY <1>3, <1>5 DEF SaveParam, WriteParam, SetPubAttr, UndoParam, Tells, TypeOK
  <2>2. Setting(s)' = Setting(s) /\ \A d \in Setting(s) : setter'[d] = setter[d]
    BY <1>3, <1>4, <1>5 DEF Setting
  <2> QED BY <2>1, <2>2, ParamUntouched
<1>6. ASSUME SaveParam(c) \/ WriteParam(c) \/ SetPubAttr(c) \/ UndoParam(c),
             setter'[c] # None, UNCHANGED <<told, raced>>,
             t \notin raced /\ Unmet(c) => Unmet(c)'
      PROVE  ParamInv(t)'
  <2>1. Setting(t)' = Setting(t) /\ c \in Setting(t)
    BY <1>3, <1>4, <1>6
  <2>2. ParamInv(t)
    BY <1>3, <1>6
  <2> SUFFICES ASSUME t \notin raced'
               PROVE  (ParamInv(t)')
    BY <1>6 DEF ParamInv
  <2>3. /\ \A d, e \in Setting(t) : d = e
        /\ Unmet(c)
    BY <1>6, <2>1, <2>2 DEF ParamInv
  <2>4. \A d \in Setting(t) : d = c
    BY <2>1, <2>3
  <2>5. Unmet(c)'
    BY <1>6, <2>3
  <2> QED BY <2>1, <2>4, <2>5 DEF ParamInv
<1>7. CASE SaveParam(c)
  <2> DEFINE kept == [me EXCEPT !.saved[me.field] = attr[t][me.field]]
  <2>1. setter'[c] = Onward(kept, "write")
    BY <1>3, <1>7 DEF SaveParam, TypeOK
  <2>2. me.do = "save" /\ UNCHANGED <<told, attr, raced>>
    BY <1>7 DEF SaveParam, Doing
  <2>3. /\ kept \in Setters /\ kept.field = me.field /\ kept.do = "save" /\ kept.side = t
        /\ kept.saved = [me.saved EXCEPT ![me.field] = attr[t][me.field]]
    BY <1>3, <1>7, <2>2, AttrLemma DEF Setters
  <2> HIDE DEF kept
  <2>4. /\ setter'[c] \in Setters /\ setter'[c].side = t /\ setter'[c].saved = kept.saved
        /\ me.field = "rate" => setter'[c].do = "save" /\ setter'[c].field = "mode"
        /\ me.field # "rate" => setter'[c].do = "write"
    BY <2>1, <2>3, OnwardLemma
  <2>5. ASSUME Unmet(c) PROVE Unmet(c)'
    <3>1. attr[t] = told[t] /\ (me.field = "mode" => me.saved["rate"] = told[t]["rate"])
      BY <2>2, <2>5 DEF Unmet
    <3>2. CASE me.field = "rate"
      <4>1. kept.saved["rate"] = told[t]["rate"]
        BY <1>3, <1>7, <2>3, <3>1, <3>2 DEF Attrs, Fields
      <4> QED BY <2>2, <2>4, <3>1, <3>2, <4>1 DEF Unmet
    <3>3. CASE me.field = "mode"
      <4>1. kept.saved["rate"] = told[t]["rate"] /\ kept.saved["mode"] = told[t]["mode"]
        BY <1>3, <1>7, <2>3, <3>1, <3>3 DEF Attrs, Fields
      <4>2. kept.saved = told[t]
        BY <1>3, <1>7, <2>3, <4>1, AttrLemma DEF Setters
      <4> QED BY <2>2, <2>4, <3>3, <4>2 DEF Unmet
    <3> QED BY <1>3, <1>7, <3>2, <3>3 DEF Fields
  <2>6. setter'[c] # None
    BY <2>4, DeviceAssumption
  <2>7. ParamInv(t)'
    BY <1>6, <1>7, <2>2, <2>5, <2>6
  <2> QED BY <1>5, <1>7, <2>7
<1>8. CASE WriteParam(c)
  <2>1. PICK what \in {"call", "undo"} : setter'[c] = Onward(me, what)
    BY <1>3, <1>8 DEF WriteParam, TypeOK
  <2>2. me.do = "write" /\ UNCHANGED <<told, raced>>
    BY <1>8 DEF WriteParam, Doing
  <2>3. /\ setter'[c] \in Setters /\ setter'[c].side = t /\ setter'[c].saved = me.saved
        /\ setter'[c].do # "save"
        /\ setter'[c].do \in {"call", "undo"} => setter'[c].field = "rate"
    BY <1>3, <1>8, <2>1, <2>2, OnwardLemma DEF Fields
  <2>4. ASSUME Unmet(c) PROVE Unmet(c)'
    <3>1. me.saved = told[t]
      BY <2>2, <2>4 DEF Unmet
    <3> QED BY <2>2, <2>3, <3>1 DEF Unmet
  <2>5. setter'[c] # None
    BY <2>3, DeviceAssumption
  <2>6. ParamInv(t)'
    BY <1>6, <1>8, <2>2, <2>4, <2>5
  <2> QED BY <1>5, <1>8, <2>6
<1>9. CASE SetPubAttr(c)
  <2>1. me.do = "call" /\ UNCHANGED attr
    BY <1>9 DEF SetPubAttr, Doing
  <2>2. CASE Tells(t, Setting(t) \ {c}) /\ setter' = [setter EXCEPT ![c] = None]
    <3>1. setter'[c] = None /\ Setting(t)' = Setting(t) \ {c}
      BY <1>3, <1>4, <1>9, <2>2 DEF TypeOK
    <3>2. told'[t] = attr'[t]
      BY <1>3, <1>9, <2>1, <2>2 DEF Tells, TypeOK
    <3>3. Setting(t) \ {c} # {} => t \in raced'
      BY <2>2 DEF Tells
    <3>4. ParamInv(t)'
      BY <3>1, <3>2, <3>3 DEF ParamInv
    <3> QED BY <1>5, <1>9, <3>4
  <2>3. CASE setter' = [setter EXCEPT ![c].do = "undo"] /\ UNCHANGED <<told, raced>>
    <3>1. setter'[c] = [me EXCEPT !.do = "undo"]
      BY <1>3, <1>9, <2>3 DEF TypeOK
    <3> DEFINE undo == [me EXCEPT !.do = "undo"]
    <3>2. undo \in Setters /\ undo.side = t /\ undo.saved = me.saved /\ undo.do = "undo"
          /\ undo.field = me.field
      BY <1>3, <1>9 DEF Setters
    <3>3. ASSUME Unmet(c) PROVE Unmet(c)'
      <4>1. me.saved = told[t] /\ me.field = "rate"
        BY <2>1, <3>3 DEF Unmet
      <4> QED BY <2>3, <3>1, <3>2, <3>3, <4>1 DEF Unmet
    <3>4. setter'[c] # None
      BY <3>1, <3>2, DeviceAssumption
    <3> QED BY <1>5, <1>6, <1>9, <2>3, <3>3, <3>4
  <2> QED BY <1>9, <2>2, <2>3 DEF SetPubAttr
<1>10. CASE UndoParam(c)
  <2>1. /\ me.do = "undo" /\ UNCHANGED <<told, raced>>
        /\ attr' = [attr EXCEPT ![t][me.field] = me.saved[me.field]]
        /\ setter'[c] = IF me.field = "rate" THEN [me EXCEPT !.field = "mode"] ELSE None
    BY <1>3, <1>10 DEF UndoParam, Doing, TypeOK
  <2>2. attr'[t] = [attr[t] EXCEPT ![me.field] = me.saved[me.field]] /\ attr'[t] \in Attrs
    BY <1>3, <1>10, <2>1 DEF TypeOK
  <2>3. CASE me.field = "rate"
    <3> DEFINE next == [me EXCEPT !.field = "mode"]
    <3>1. /\ setter'[c] = next /\ next \in Setters /\ next.side = t
          /\ next.saved = me.saved /\ next.do = "undo" /\ next.field = "mode"
      BY <1>3, <1>10, <2>1, <2>3 DEF Setters, Fields
    <3>2. ASSUME Unmet(c) PROVE Unmet(c)'
      <4>1. me.saved = told[t]
        BY <2>1, <3>2 DEF Unmet
      <4>2. attr'[t]["rate"] = told[t]["rate"]
        BY <1>3, <1>10, <2>2, <2>3, <4>1 DEF Attrs, Fields
      <4> QED BY <2>1, <3>1, <4>1, <4>2 DEF Unmet
    <3>3. setter'[c] # None
      BY <3>1, DeviceAssumption
    <3> QED BY <1>5, <1>6, <1>10, <2>1, <3>2, <3>3
  <2>4. CASE me.field = "mode"
    <3>1. setter'[c] = None /\ Setting(t)' = Setting(t) \ {c}
      BY <1>4, <1>10, <2>1, <2>4
    <3>2. ASSUME t \notin raced PROVE Setting(t)' = {} /\ told'[t] = attr'[t]
      <4>1. Unmet(c) /\ \A d \in Setting(t) : d = c
        BY <1>3, <1>10, <3>2 DEF ParamInv
      <4>2. me.saved = told[t] /\ attr[t]["rate"] = told[t]["rate"]
        BY <2>1, <2>4, <4>1 DEF Unmet
      <4>3. attr'[t]["rate"] = told[t]["rate"] /\ attr'[t]["mode"] = told[t]["mode"]
        BY <1>3, <1>10, <2>2, <2>4, <4>2 DEF Attrs, Fields
      <4>4. attr'[t] = told[t]
        BY <1>3, <1>10, <2>2, <4>3, AttrLemma
      <4> QED BY <2>1, <3>1, <4>1, <4>4
    <3>3. ParamInv(t)'
      BY <2>1, <3>1, <3>2 DEF ParamInv
    <3> QED BY <1>5, <1>10, <3>3
  <2> QED BY <1>3, <1>10, <2>3, <2>4 DEF Fields
<1> QED BY <1>1, <1>2, <1>7, <1>8, <1>9, <1>10

LEMMA ParamInvariance == Spec => [](\A s \in Sides : ParamInv(s))
<1>1. Init => \A s \in Sides : ParamInv(s)
  <2> SUFFICES ASSUME Init, NEW s \in Sides PROVE ParamInv(s)
    OBVIOUS
  <2>1. Setting(s) = {} /\ told[s] = None
    BY DEF Init, Setting
  <2> QED BY <2>1 DEF ParamInv
<1>2. TypeOK /\ TypeOK' /\ IInv /\ (\A s \in Sides : ParamInv(s)) /\ [Next]_vars
        => (\A s \in Sides : ParamInv(s))'
  <2> SUFFICES ASSUME TypeOK, TypeOK', IInv, \A s \in Sides : ParamInv(s), [Next]_vars
               PROVE  \A s \in Sides : ParamInv(s)'
    OBVIOUS
  <2>1. CASE RecordInit
    BY <2>1, ParamInitialised DEF RecordInit, Sides
  <2>2. CASE PlayInit
    BY <2>2, ParamInitialised DEF PlayInit, Sides
  <2>3. CASE SetterStep
    BY <2>3, ParamStep DEF IInv
  <2>4. CASE UNCHANGED <<told, raced, setVars>>
    <3>1. \A s \in Sides : Setting(s)' = Setting(s)
      BY <2>4 DEF Setting, setVars
    <3> QED BY <2>4, <3>1, ParamUntouched DEF setVars
  <2>5. \/ RecordInit \/ PlayInit \/ SetterStep
        \/ UNCHANGED <<told, raced, setVars>>
    BY DEF Next, SetterStep, vars, MiddlewareInit, AllocBuffers, Spawn,
       MiddlewareUninit, CancelThreads, PlayUninit, RecordUninit, FreeBuffers
  <2> QED BY <2>1, <2>2, <2>3, <2>4, <2>5
<1> QED BY <1>1, <1>2, Invariance, PTL DEF Spec

\* As long as no setter of a side is under way, the parameters that the program
\* keeps are the ones that the SDK was given last, unless two setters, or a
\* setter and an init function, were at them at the same time and nobody told
\* the SDK alone since: for any number of callers and any requests.
THEOREM ParametersAgree == Spec => []ParamsAgree
<1>1. (\A s \in Sides : ParamInv(s)) => ParamsAgree
  BY DEF ParamInv, ParamsAgree
<1> QED BY <1>1, ParamInvariance, PTL
============================================================================
