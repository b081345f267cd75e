--------------------------- MODULE WebServerProofs ---------------------------
(***************************************************************************)
(* The web thread, for any number of clients: the socket list, the timers  *)
(* and the requests agree, and a request ends for a reason.                *)
(***************************************************************************)
EXTENDS WebServer, FiniteSetTheorems, TLAPS

-----------------------------------------------------------------------------
(* Numbers of sockets and timers *)

LEMMA MinIsIn ==
  ASSUME NEW S \in SUBSET Nat, S # {}
  PROVE  Min(S) \in S
<1> DEFINE R == OpToRel(<, Nat)
<1>1. IsWellFoundedOn(R, Nat)
  BY NatLessThanWellFounded
<1>2. \A x, y \in Nat : x < y => <<x, y>> \in R
  BY DEF OpToRel
<1> HIDE DEF R
<1>3. PICK x \in S : \A y \in S : ~ (<<y, x>> \in R)
  BY <1>1, WFMin
<1>4. \E m \in S : \A y \in S : m =< y
  <2>1. ASSUME NEW y \in S PROVE x =< y
    <3>1. ~ (y < x)
      BY <1>2, <1>3
    <3> QED BY <3>1
  <2> QED BY <2>1
<1>5. (CHOOSE m \in S : \A y \in S : m =< y) \in S
  BY <1>4
<1> QED BY <1>5 DEF Min

LEMMA SlotsAre ==
  /\ Cardinality(Clients) \in Nat
  /\ Slots = 1..Cardinality(Clients)
  /\ None \notin Clients
BY FS_CardinalityType, WebConstants DEF Slots

\* While a client is in no entry of a table that has no client twice, the table
\* has a free entry.
LEMMA FreeEntry ==
  ASSUME NEW table \in [Slots -> Clients \union {None}],
         NEW c \in Clients, \A s \in Slots : table[s] # c,
         \A s, t \in Slots : table[s] = table[t] /\ table[s] # None => s = t
  PROVE  Min(FreeEntries(table)) \in Slots /\ table[Min(FreeEntries(table))] = None
<1>1. FreeEntries(table) # {}
  <2> SUFFICES ASSUME \A s \in Slots : table[s] # None PROVE FALSE
    BY DEF FreeEntries
  <2>1. table \in [Slots -> Clients \ {c}]
    OBVIOUS
  <2>2. IsFiniteSet(Slots) /\ Cardinality(Slots) = Cardinality(Clients)
    BY SlotsAre, FS_Interval
  <2>3. /\ IsFiniteSet(Clients \ {c})
        /\ Cardinality(Clients \ {c}) = Cardinality(Clients) - 1
    BY FS_RemoveElement, WebConstants
  <2>4. Cardinality(Clients \ {c}) < Cardinality(Slots)
    BY <2>2, <2>3, SlotsAre
  <2>5. \E s, t \in Slots : s # t /\ table[s] = table[t]
    BY <2>1, <2>2, <2>3, <2>4, FS_PigeonHole
  <2> QED BY <2>5
<1>2. FreeEntries(table) \in SUBSET Nat
  BY SlotsAre DEF FreeEntries
<1>3. Min(FreeEntries(table)) \in FreeEntries(table)
  BY <1>1, <1>2, MinIsIn
<1> QED BY <1>3 DEF FreeEntries

LEMMA Scripts ==
  /\ Len(Script("get")) = 2 /\ Len(Script("bad")) = 2
  /\ Len(Script("length")) = 6 /\ Len(Script("stream")) = 6
  /\ \A i \in 1..2 : Script("get")[i] = "nl" => i = 2
BY DEF Script

-----------------------------------------------------------------------------
(* The invariant *)

Kinds == {"get", "bad", "length", "stream"}
LiveStates == {"BEGIN", "HEADER", "CLEN", "POST", "PROCESSING"}
Conns == [sent : Nat, fetched : Nat, taken : Nat, part : BOOLEAN,
          eof : BOOLEAN, reset : BOOLEAN, mask : {"none", "read", "write"}]

Types ==
  /\ kind \in [Clients -> Kinds]
  /\ end \in [Clients -> {"out", "open", "fin", "reset", "gone"}]
  /\ conn \in [Clients -> Conns]
  /\ wp \in [Clients -> {"none", "answered", "dropped"} \union LiveStates]
  /\ wsid \in [Clients -> {0} \union Slots]
  /\ slot \in [Slots -> Clients \union {None}]
  /\ sched \in [Slots -> Clients \union {None}]
  /\ astray \in BOOLEAN

\* A structure whose counts are in order, for a script of n tokens.
Fits(k, n) == k.taken <= k.fetched /\ k.fetched <= k.sent /\ k.sent <= n

Has(c) == wsid[c] \in Slots /\ slot[wsid[c]] = c
HasTimer(c) == \E t \in Slots : \A u \in Slots : sched[u] = c <=> u = t

\* A request without its socket has lost the connection for good, and only
\* socketReady takes a socket from a live one.
OneRequest(c) ==
  /\ Fits(conn[c], Len(Script(kind[c])))
  /\ end[c] = "out" => wp[c] = "none" /\ conn[c] = Fresh
  /\ Live(c) => wsid[c] \in Slots /\ HasTimer(c)
  /\ Live(c) /\ ~astray => Has(c)
  /\ wp[c] # "none" /\ ~Has(c) => conn[c] = Fresh /\ end[c] = "gone"
  /\ wp[c] = "CLEN" => kind[c] = "length"
  /\ wp[c] = "POST" => kind[c] = "stream"
  /\ Has(c) => (conn[c].mask = "write" <=> wp[c] = "PROCESSING")
  /\ wp[c] = "PROCESSING" /\ Has(c) => HadAll(c)

\* A socket in use belongs to a live request that names it, whatever was closed
\* before; a timer belongs to a live request.
Sockets == \A s \in Slots : slot[s] # None => Live(slot[s]) /\ wsid[slot[s]] = s
Timers == \A t \in Slots : sched[t] # None => Live(sched[t])

Data == Types /\ Sockets /\ Timers /\ \A c \in Clients : OneRequest(c)

\* While the thread is inside the handler of a socket, the socket is in use and
\* has the mask of that handler.
Loop ==
  /\ mark \in [Clients -> {"never", "fresh", "old"}]
  /\ due \in [Clients -> BOOLEAN]
  /\ next \in 1..Cardinality(Clients) + 1
  /\ pc \in {"poll", "process", "read", "write", "sched"}
  /\ cursor \in 0..Cardinality(Clients) + 1
  /\ events \subseteq {0} \union Slots
  /\ pc \in {"read", "write"} => cursor \in Owned
  /\ pc = "read" => conn[slot[cursor]].mask = "read"
  /\ pc = "write" => conn[slot[cursor]].mask = "write"

IInv == Data /\ Loop

LEMMA ConnFields ==
  ASSUME NEW k \in Conns
  PROVE  /\ k.sent \in Nat /\ k.fetched \in Nat /\ k.taken \in Nat
         /\ k.part \in BOOLEAN /\ k.eof \in BOOLEAN /\ k.reset \in BOOLEAN
         /\ k.mask \in {"none", "read", "write"}
BY DEF Conns

LEMMA FreshFits ==
  /\ Fresh \in Conns /\ Fresh.mask = "none" /\ Fresh.taken = 0
  /\ \A kd \in Kinds : Fits(Fresh, Len(Script(kd)))
BY Scripts DEF Fresh, Conns, Fits, Kinds

LEMMA LiveMeans ==
  ASSUME Types, NEW c \in Clients
  PROVE  Live(c) <=> wp[c] \in LiveStates
BY DEF Types, Live, LiveStates

LEMMA HadAllMeans ==
  ASSUME Types, NEW c \in Clients
  PROVE  HadAll(c) <=> \/ kind[c] = "bad"
                       \/ kind[c] = "stream" /\ Closing(c)
                       \/ kind[c] = "get" /\ conn[c].taken >= 1
                       \/ kind[c] = "length" /\ conn[c].taken >= 5
<1>1. kind[c] \in Kinds /\ conn[c].taken \in Nat
  BY ConnFields DEF Types
<1>2. CASE kind[c] = "bad"
  BY <1>2 DEF HadAll
<1>3. CASE kind[c] = "stream"
  BY <1>3 DEF HadAll
<1>4. CASE kind[c] = "get"
  <2>1. HadAll(c) <=> conn[c].taken >= Len(Script(kind[c])) - 1
    BY <1>4 DEF HadAll
  <2>2. Len(Script(kind[c])) - 1 = 1
    BY <1>4, Scripts
  <2>3. HadAll(c) <=> conn[c].taken >= 1
    BY <2>1, <2>2, Zenon
  <2> QED BY <1>4, <2>3
<1>5. CASE kind[c] = "length"
  <2>1. HadAll(c) <=> conn[c].taken >= Len(Script(kind[c])) - 1
    BY <1>5 DEF HadAll
  <2>2. Len(Script(kind[c])) - 1 = 5
    BY <1>5, Scripts
  <2>3. HadAll(c) <=> conn[c].taken >= 5
    BY <2>1, <2>2, Zenon
  <2> QED BY <1>5, <2>3
<1> QED BY <1>1, <1>2, <1>3, <1>4, <1>5 DEF Kinds

-----------------------------------------------------------------------------
(* What the operations do to the tables *)

\* A client that a step does not concern.
LEMMA Frame ==
  ASSUME Data, NEW c \in Clients, Has(c)' <=> Has(c),
         \A t \in Slots : sched'[t] = c <=> sched[t] = c,
         kind'[c] = kind[c], end'[c] = end[c], conn'[c] = conn[c],
         wp'[c] = wp[c], wsid'[c] = wsid[c], astray => astray'
  PROVE  OneRequest(c)'
<1>1. OneRequest(c) /\ astray \in BOOLEAN
  BY DEF Data, Types
<1>2. (HadAll(c))' <=> HadAll(c)
  BY DEF HadAll, Closing
<1>3. HasTimer(c)' <=> HasTimer(c)
  BY DEF HasTimer
<1>4. Live(c)' <=> Live(c)
  BY DEF Live
<1> QED BY <1>1, <1>2, <1>3, <1>4 DEF OneRequest

\* socketCloseConnection: the entry is free, and its owner, if it had one, is
\* without a connection.
LEMMA CloseEffect ==
  ASSUME Types, NEW s \in Slots, Close(s)
  PROVE  /\ slot' \in [Slots -> Clients \union {None}]
         /\ conn' \in [Clients -> Conns]
         /\ end' \in [Clients -> {"out", "open", "fin", "reset", "gone"}]
         /\ \A u \in Slots : slot'[u] = IF u = s THEN None ELSE slot[u]
         /\ \A c \in Clients : IF slot[s] = c THEN conn'[c] = Fresh /\ end'[c] = "gone"
                                              ELSE conn'[c] = conn[c] /\ end'[c] = end[c]
<1>1. CASE s \in Owned
  <2>1. slot[s] \in Clients /\ slot[s] # None
    BY <1>1 DEF Types, Owned
  <2>2. /\ slot' = [slot EXCEPT ![s] = None]
        /\ conn' = [conn EXCEPT ![slot[s]] = Fresh]
        /\ end' = [end EXCEPT ![slot[s]] = "gone"]
    BY <1>1 DEF Close
  <2> QED BY <2>1, <2>2, FreshFits DEF Types
<1>2. CASE s \notin Owned
  <2>1. slot[s] = None /\ slot' = slot /\ conn' = conn /\ end' = end
    BY <1>2 DEF Close, Owned
  <2> QED BY <2>1, SlotsAre DEF Types
<1> QED BY <1>1, <1>2

\* socketReady closes a socket in use: from then on the tables are astray.
LEMMA CloseKeeps ==
  ASSUME Data, NEW s \in Owned, Close(s), astray' = (astray \/ Live(slot[s])),
         UNCHANGED <<kind, wp, wsid, sched>>
  PROVE  Data'
<1>1. s \in Slots /\ slot[s] \in Clients /\ Live(slot[s]) /\ wsid[slot[s]] = s
  BY DEF Owned, Data, Types, Sockets
<1>2. /\ slot' \in [Slots -> Clients \union {None}]
      /\ conn' \in [Clients -> Conns]
      /\ end' \in [Clients -> {"out", "open", "fin", "reset", "gone"}]
      /\ \A u \in Slots : slot'[u] = IF u = s THEN None ELSE slot[u]
      /\ \A c \in Clients : IF slot[s] = c THEN conn'[c] = Fresh /\ end'[c] = "gone"
                                           ELSE conn'[c] = conn[c] /\ end'[c] = end[c]
  BY <1>1, CloseEffect DEF Data
<1>3. astray' = TRUE
  BY <1>1
<1>4. Types'
  BY <1>2, <1>3 DEF Data, Types
<1>5. \A c \in Clients : Live(c)' <=> Live(c)
  BY DEF Live
<1>6. Sockets'
  <2> SUFFICES ASSUME NEW u \in Slots, slot'[u] # None
               PROVE  Live(slot[u]) /\ wsid[slot[u]] = u /\ slot'[u] = slot[u]
    BY DEF Sockets, Live
  <2> QED BY <1>2 DEF Data, Sockets
<1>7. Timers'
  BY DEF Data, Timers, Live
<1>8. ASSUME NEW c \in Clients PROVE OneRequest(c)'
  <2>1. CASE slot[s] = c
    <3>1. /\ conn'[c] = Fresh /\ end'[c] = "gone" /\ kind'[c] = kind[c] /\ kind[c] \in Kinds
          /\ wp'[c] = wp[c] /\ wsid'[c] = wsid[c]
      BY <1>2, <2>1 DEF Data, Types
    <3>2. ~Has(c)'
      BY <1>1, <1>2, <2>1, SlotsAre DEF Has
    <3>3. HasTimer(c)' <=> HasTimer(c)
      BY DEF HasTimer
    <3>4. OneRequest(c)
      BY DEF Data
    <3> QED BY <1>3, <1>5, <3>1, <3>2, <3>3, <3>4, FreshFits DEF OneRequest
  <2>2. CASE slot[s] # c
    <3>1. Has(c)' <=> Has(c)
      BY <1>2, <2>2, SlotsAre DEF Has
    <3>2. conn'[c] = conn[c] /\ end'[c] = end[c]
      BY <1>2, <2>2
    <3> QED BY <1>3, <3>1, <3>2, Frame
  <2> QED BY <2>1, <2>2
<1> QED BY <1>4, <1>6, <1>7, <1>8 DEF Data

\* websDone, websFree of a live request, whether it still has its socket or the
\* number it names was given to another.
LEMMA DoneKeeps ==
  ASSUME Data, NEW c \in Clients, Live(c), NEW answered \in BOOLEAN, Done(c, answered),
         astray' = astray
  PROVE  /\ Data'
         /\ due' = [due EXCEPT ![c] = FALSE] /\ mark' = [mark EXCEPT ![c] = "never"]
         /\ wp' = [wp EXCEPT ![c] = IF answered THEN "answered" ELSE "dropped"]
<1> DEFINE s == wsid[c]
<1>1. /\ s \in Slots /\ wp[c] # "none"
      /\ ~Has(c) => conn[c] = Fresh /\ end[c] = "gone" /\ astray
  BY DEF Data, OneRequest, Live, Types
<1>2. /\ slot' \in [Slots -> Clients \union {None}]
      /\ conn' \in [Clients -> Conns]
      /\ end' \in [Clients -> {"out", "open", "fin", "reset", "gone"}]
      /\ \A u \in Slots : slot'[u] = IF u = s THEN None ELSE slot[u]
      /\ \A x \in Clients : IF slot[s] = x THEN conn'[x] = Fresh /\ end'[x] = "gone"
                                           ELSE conn'[x] = conn[x] /\ end'[x] = end[x]
  BY <1>1, CloseEffect DEF Data, Done
<1>3. /\ wp' = [wp EXCEPT ![c] = IF answered THEN "answered" ELSE "dropped"]
      /\ kind' = [kind EXCEPT ![c] = "get"]
      /\ wsid' = [wsid EXCEPT ![c] = 0]
      /\ sched' = [t \in Slots |-> IF sched[t] = c THEN None ELSE sched[t]]
      /\ due' = [due EXCEPT ![c] = FALSE] /\ mark' = [mark EXCEPT ![c] = "never"]
  BY DEF Done
<1> HIDE DEF s
<1>4. Types'
  BY <1>2, <1>3 DEF Data, Types, Kinds
<1>5. \A x \in Clients \ {c} : /\ wp'[x] = wp[x] /\ kind'[x] = kind[x] /\ wsid'[x] = wsid[x]
                               /\ Live(x)' <=> Live(x)
  BY <1>3 DEF Data, Types, Live
<1>6. /\ wp'[c] \in {"answered", "dropped"} /\ kind'[c] = "get" /\ wsid'[c] = 0
      /\ ~Live(c)'
  BY <1>3 DEF Data, Types, Live
<1>7. Sockets'
  <2> SUFFICES ASSUME NEW u \in Slots, slot'[u] # None
               PROVE  Live(slot[u])' /\ wsid'[slot[u]] = u /\ slot'[u] = slot[u]
    BY DEF Sockets, Live
  <2>1. u # s /\ slot'[u] = slot[u]
    BY <1>2
  <2>2. Live(slot[u]) /\ wsid[slot[u]] = u /\ slot[u] \in Clients
    BY <2>1 DEF Data, Sockets, Types
  <2>3. slot[u] # c
    BY <2>1, <2>2 DEF s
  <2> QED BY <1>5, <2>1, <2>2, <2>3
<1>8. Timers'
  <2> SUFFICES ASSUME NEW t \in Slots, sched'[t] # None
               PROVE  Live(sched[t])'
    BY DEF Timers, Live
  <2>1. sched'[t] = sched[t] /\ sched[t] # c
    BY <1>3
  <2>2. Live(sched[t]) /\ sched[t] \in Clients
    BY <2>1 DEF Data, Timers, Types
  <2> QED BY <1>5, <2>1, <2>2
<1>9. ASSUME NEW x \in Clients PROVE OneRequest(x)'
  <2>1. CASE x = c
    <3>1. conn'[c] = Fresh /\ end'[c] = "gone"
      BY <1>1, <1>2 DEF Has, s
    <3>2. ~Has(c)'
      BY <1>6, SlotsAre DEF Has
    <3> QED BY <1>6, <2>1, <3>1, <3>2, FreshFits DEF OneRequest, Kinds
  <2>2. CASE x # c /\ slot[s] = x
    <3>1. /\ conn'[x] = Fresh /\ end'[x] = "gone" /\ kind'[x] \in Kinds
          /\ wp'[x] = wp[x] /\ wsid'[x] = wsid[x] /\ kind'[x] = kind[x]
      BY <1>2, <1>5, <2>2 DEF Data, Types
    <3>2. wsid[x] = s
      BY <1>1, <2>2, SlotsAre DEF Data, Sockets
    <3>3. ~Has(x)' /\ astray'
      BY <1>1, <1>2, <2>2, <3>1, <3>2, SlotsAre DEF Has, s
    <3>4. HasTimer(x)' <=> HasTimer(x)
      BY <1>3, <2>2, SlotsAre DEF HasTimer
    <3>5. OneRequest(x) /\ (Live(x)' <=> Live(x))
      BY <1>5, <2>2 DEF Data
    <3> QED BY <3>1, <3>3, <3>4, <3>5, FreshFits DEF OneRequest
  <2>3. CASE x # c /\ slot[s] # x
    <3>1. Has(x)' <=> Has(x)
      BY <1>2, <1>5, <2>3, SlotsAre DEF Has
    <3>2. \A t \in Slots : sched'[t] = x <=> sched[t] = x
      BY <1>3, <2>3, SlotsAre
    <3>3. conn'[x] = conn[x] /\ end'[x] = end[x]
      BY <1>2, <2>3
    <3> QED BY <1>5, <2>3, <3>1, <3>2, <3>3, Frame
  <2> QED BY <2>1, <2>2, <2>3
<1> QED BY <1>3, <1>4, <1>7, <1>8, <1>9 DEF Data

\* A step of a live request that has its socket.
LEMMA ServeKeeps ==
  ASSUME Data, NEW c \in Clients, Has(c), Live(c), NEW st \in LiveStates, NEW k \in Conns,
         wp' = [wp EXCEPT ![c] = st], conn' = [conn EXCEPT ![c] = k],
         UNCHANGED <<kind, end, wsid, sched, slot, astray>>,
         Fits(k, Len(Script(kind[c]))),
         st = "CLEN" => kind[c] = "length",
         st = "POST" => kind[c] = "stream",
         k.mask = "write" <=> st = "PROCESSING",
         st = "PROCESSING" => HadAll(c)'
  PROVE  Data'
<1>1. Types'
  BY DEF Data, Types
<1>2. wp'[c] = st /\ conn'[c] = k /\ wp[c] # "none"
  BY DEF Data, Types, Live
<1>3. \A x \in Clients \ {c} : wp'[x] = wp[x] /\ conn'[x] = conn[x]
  BY DEF Data, Types
<1>4. \A x \in Clients : Live(x)' <=> Live(x)
  BY <1>2, <1>3 DEF Live, LiveStates
<1>5. Sockets' /\ Timers'
  <2>1. ASSUME NEW s \in Slots, slot[s] # None PROVE Live(slot[s])' /\ wsid[slot[s]] = s
    BY <1>4, <2>1 DEF Data, Types, Sockets
  <2>2. ASSUME NEW t \in Slots, sched[t] # None PROVE Live(sched[t])'
    BY <1>4, <2>2 DEF Data, Types, Timers
  <2> QED BY <2>1, <2>2 DEF Sockets, Timers, Live
<1>6. ASSUME NEW x \in Clients PROVE OneRequest(x)'
  <2>1. CASE x = c
    <3>1. Has(c)' /\ (HasTimer(c)' <=> HasTimer(c))
      BY DEF Has, HasTimer
    <3>2. OneRequest(c)
      BY DEF Data
    <3>3. end'[c] # "out"
      BY <1>2, <3>2 DEF OneRequest
    <3> QED BY <1>2, <1>4, <2>1, <3>1, <3>2, <3>3 DEF OneRequest
  <2>2. CASE x # c
    <3>1. Has(x)' <=> Has(x)
      BY DEF Has
    <3> QED BY <1>3, <2>2, <3>1, Frame
  <2> QED BY <2>1, <2>2
<1> QED BY <1>1, <1>5, <1>6 DEF Data

\* A table has an entry for a client that is not yet accepted.
LEMMA RoomFor ==
  ASSUME Data, NEW c \in Clients, wp[c] = "none"
  PROVE  /\ Min(FreeEntries(slot)) \in Slots /\ slot[Min(FreeEntries(slot))] = None
         /\ Min(FreeEntries(sched)) \in Slots /\ sched[Min(FreeEntries(sched))] = None
         /\ \A t \in Slots : slot[t] # c /\ sched[t] # c
<1>1. ~Live(c)
  BY DEF Live
<1>2. \A t \in Slots : slot[t] # c /\ sched[t] # c
  BY <1>1, SlotsAre DEF Data, Sockets, Timers
<1>3. \A s, t \in Slots : slot[s] = slot[t] /\ slot[s] # None => s = t
  BY DEF Data, Sockets
<1>4. \A s, t \in Slots : sched[s] = sched[t] /\ sched[s] # None => s = t
  <2> SUFFICES ASSUME NEW s \in Slots, NEW t \in Slots, sched[s] = sched[t], sched[s] # None
               PROVE  s = t
    OBVIOUS
  <2>1. sched[s] \in Clients /\ Live(sched[s])
    BY DEF Data, Types, Timers
  <2>2. HasTimer(sched[s])
    BY <2>1 DEF Data, OneRequest
  <2> QED BY <2>2 DEF HasTimer
<1>5. slot \in [Slots -> Clients \union {None}] /\ sched \in [Slots -> Clients \union {None}]
  BY DEF Data, Types
<1> QED BY <1>2, <1>3, <1>4, <1>5, FreeEntry

LEMMA AcceptKeeps ==
  ASSUME Data, NEW c \in Clients, Accept(c)
  PROVE  Data'
<1> DEFINE s == Min(FreeEntries(slot))
           t == Min(FreeEntries(sched))
<1>1. /\ s \in Slots /\ slot[s] = None /\ t \in Slots /\ sched[t] = None
      /\ \A u \in Slots : slot[u] # c /\ sched[u] # c
      /\ wp[c] = "none" /\ end[c] \notin {"out", "gone"}
  BY RoomFor DEF Accept, Waiting
<1>2. /\ slot' = [slot EXCEPT ![s] = c]
      /\ sched' = [sched EXCEPT ![t] = c]
      /\ wsid' = [wsid EXCEPT ![c] = s]
      /\ conn' = [conn EXCEPT ![c].mask = "read"]
      /\ wp' = [wp EXCEPT ![c] = "BEGIN"]
      /\ UNCHANGED <<kind, end, astray>>
  BY DEF Accept, client
<1> HIDE DEF s, t
<1>3. conn[c] \in Conns /\ conn'[c] = [conn[c] EXCEPT !.mask = "read"]
  BY <1>2 DEF Data, Types
<1>4. /\ conn'[c] \in Conns /\ conn'[c].mask = "read"
      /\ conn'[c].sent = conn[c].sent /\ conn'[c].fetched = conn[c].fetched
      /\ conn'[c].taken = conn[c].taken
  BY <1>3 DEF Conns
<1>5. \A x \in Clients \ {c} : /\ conn'[x] = conn[x] /\ wp'[x] = wp[x] /\ wsid'[x] = wsid[x]
  BY <1>2 DEF Data, Types
<1>6. wp'[c] = "BEGIN" /\ wsid'[c] = s
  BY <1>2 DEF Data, Types
<1>7. /\ \A u \in Slots : slot'[u] = IF u = s THEN c ELSE slot[u]
      /\ \A u \in Slots : sched'[u] = IF u = t THEN c ELSE sched[u]
  BY <1>1, <1>2 DEF Data, Types
<1>8. Types'
  <2>1. conn' \in [Clients -> Conns]
    BY <1>2, <1>4, <1>5 DEF Data, Types
  <2> QED BY <1>1, <1>2, <2>1 DEF Data, Types, LiveStates
<1>9. \A x \in Clients : Live(x)' <=> (Live(x) \/ x = c)
  BY <1>5, <1>6 DEF Live
<1>10. Sockets' /\ Timers'
  <2>1. ASSUME NEW u \in Slots, slot'[u] # None PROVE (Live(slot[u]) /\ wsid[slot[u]] = u)'
    <3>1. CASE u = s
      <4>1. slot'[u] = c /\ Live(c)'
        BY <1>7, <1>9, <3>1
      <4> QED BY <1>6, <3>1, <4>1 DEF Live
    <3>2. CASE u # s
      <4>1. slot'[u] = slot[u] /\ slot[u] \in Clients \ {c} /\ Live(slot[u]) /\ wsid[slot[u]] = u
        BY <1>1, <1>7, <2>1, <3>2 DEF Data, Types, Sockets
      <4> QED BY <1>5, <4>1 DEF Live
    <3> QED BY <3>1, <3>2
  <2>2. ASSUME NEW u \in Slots, sched'[u] # None PROVE Live(sched[u])'
    <3>1. CASE u = t
      <4>1. sched'[u] = c /\ Live(c)'
        BY <1>7, <1>9, <3>1
      <4> QED BY <4>1 DEF Live
    <3>2. CASE u # t
      <4>1. sched'[u] = sched[u] /\ sched[u] \in Clients \ {c} /\ Live(sched[u])
        BY <1>1, <1>7, <2>2, <3>2 DEF Data, Types, Timers
      <4> QED BY <1>5, <4>1 DEF Live
    <3> QED BY <3>1, <3>2
  <2> QED BY <2>1, <2>2 DEF Sockets, Timers
<1>11. ASSUME NEW x \in Clients PROVE OneRequest(x)'
  <2>1. CASE x = c
    <3>1. Has(c)'
      BY <1>1, <1>6, <1>7, SlotsAre DEF Has
    <3>2. HasTimer(c)'
      <4>1. \A u \in Slots : sched'[u] = c <=> u = t
        BY <1>1, <1>7
      <4> QED BY <1>1, <4>1 DEF HasTimer
    <3>3. Fits(conn[c], Len(Script(kind[c])))
      BY DEF Data, OneRequest
    <3>4. Fits(conn[c], Len(Script(kind[c])))'
      BY <1>2, <1>4, <3>3 DEF Fits
    <3> QED BY <1>1, <1>2, <1>4, <1>6, <2>1, <3>1, <3>2, <3>4, SlotsAre DEF OneRequest
  <2>2. CASE x # c
    <3>1. Has(x)' <=> Has(x)
      BY <1>1, <1>5, <1>7, <2>2, SlotsAre DEF Has
    <3>2. \A u \in Slots : sched'[u] = x <=> sched[u] = x
      BY <1>1, <1>7, <2>2, SlotsAre
    <3> QED BY <1>2, <1>5, <2>2, <3>1, <3>2, Frame
  <2> QED BY <2>1, <2>2
<1> QED BY <1>8, <1>10, <1>11 DEF Data

\* The client's own steps.
LEMMA ClientKeeps ==
  ASSUME Data, NEW c \in Clients, Connect(c) \/ Send(c) \/ Hangup(c)
  PROVE  Data' /\ \A x \in Clients : conn'[x].mask = conn[x].mask
<1>1. UNCHANGED <<wp, wsid, slot, sched, astray>>
  BY DEF Connect, Send, Hangup, request, timers
<1>2. \A x \in Clients : /\ Live(x)' <=> Live(x)
                         /\ Has(x)' <=> Has(x)
                         /\ HasTimer(x)' <=> HasTimer(x)
  BY <1>1 DEF Live, Has, HasTimer
<1>3. Sockets' /\ Timers'
  BY <1>1 DEF Data, Sockets, Timers, Live
<1>4. OneRequest(c) /\ Types /\ conn[c] \in Conns /\ kind[c] \in Kinds
  BY DEF Data, Types
<1>5. CASE Connect(c)
  <2>1. PICK k \in Asks[c] : /\ end[c] = "out" /\ end' = [end EXCEPT ![c] = "open"]
                             /\ kind' = [kind EXCEPT ![c] = k] /\ conn' = conn
    BY <1>5 DEF Connect
  <2>2. k \in Kinds
    BY WebConstants DEF Kinds
  <2>3. Types'
    BY <1>1, <2>1, <2>2 DEF Data, Types
  <2>4. /\ wp[c] = "none" /\ conn[c] = Fresh /\ conn'[c] = Fresh /\ wp'[c] = "none"
        /\ kind'[c] = k /\ end'[c] = "open"
    BY <1>1, <1>4, <2>1 DEF OneRequest, Types
  <2>5. OneRequest(c)'
    BY <2>2, <2>4, FreshFits DEF OneRequest, Live
  <2>6. \A x \in Clients \ {c} : OneRequest(x)'
    BY <1>1, <1>2, <2>1, Frame DEF Data, Types
  <2> QED BY <1>3, <2>1, <2>3, <2>5, <2>6 DEF Data
<1>6. CASE Send(c)
  <2>1. /\ end[c] = "open" /\ conn[c].sent # Len(Script(kind[c]))
        /\ conn' = [conn EXCEPT ![c].sent = @ + 1] /\ kind' = kind /\ end' = end
    BY <1>6 DEF Send, Sent, client
  <2>2. conn'[c] = [conn[c] EXCEPT !.sent = conn[c].sent + 1]
    BY <2>1 DEF Data, Types
  <2>3. /\ conn'[c] \in Conns /\ conn'[c].mask = conn[c].mask
        /\ conn'[c].sent = conn[c].sent + 1 /\ conn'[c].fetched = conn[c].fetched
        /\ conn'[c].taken = conn[c].taken
    BY <1>4, <2>2 DEF Conns
  <2>4. Types' /\ \A x \in Clients \ {c} : conn'[x] = conn[x]
    BY <1>1, <2>1, <2>3 DEF Data, Types
  <2>5. Fits(conn[c], Len(Script(kind[c])))'
    <3>1. Fits(conn[c], Len(Script(kind[c]))) /\ Len(Script(kind[c])) \in Nat
      BY <1>4, Scripts DEF OneRequest, Kinds
    <3> QED BY <1>4, <2>1, <2>3, <3>1, ConnFields DEF Fits
  <2>6. HadAll(c)' <=> HadAll(c)
    BY <2>1, <2>3 DEF HadAll, Closing
  <2>7. OneRequest(c)'
    BY <1>1, <1>2, <1>4, <2>1, <2>3, <2>5, <2>6 DEF OneRequest
  <2>8. \A x \in Clients \ {c} : OneRequest(x)'
    BY <1>1, <1>2, <2>1, <2>4, Frame
  <2> QED BY <1>3, <2>3, <2>4, <2>7, <2>8 DEF Data
<1>7. CASE Hangup(c)
  <2>1. /\ kind' = kind /\ conn' = conn
        /\ end[c] \in {"open", "fin"}
        /\ end' = [end EXCEPT ![c] = "fin"] \/ end' = [end EXCEPT ![c] = "reset"]
    BY <1>7 DEF Hangup
  <2>2. /\ Types' /\ end'[c] \in {"fin", "reset"}
        /\ \A x \in Clients \ {c} : end'[x] = end[x]
    BY <1>1, <2>1 DEF Data, Types
  <2>3. HadAll(c) => HadAll(c)'
    BY <1>4, <2>1, <2>2, HadAllMeans DEF HadAll, Closing
  <2>4. OneRequest(c)'
    BY <1>1, <1>2, <1>4, <2>1, <2>2, <2>3 DEF OneRequest
  <2>5. \A x \in Clients \ {c} : OneRequest(x)'
    BY <1>1, <1>2, <2>1, <2>2, Frame
  <2> QED BY <1>3, <2>1, <2>2, <2>4, <2>5 DEF Data
<1> QED BY <1>5, <1>6, <1>7

-----------------------------------------------------------------------------
(* What a handler makes of a request *)

\* The request goes on, in the same event or with the next one.
Moves(c) ==
  \E st \in LiveStates, k \in Conns :
    /\ wp' = [wp EXCEPT ![c] = st] /\ conn' = [conn EXCEPT ![c] = k]
    /\ Fits(k, Len(Script(kind[c])))
    /\ st = "CLEN" => kind[c] = "length"
    /\ st = "POST" => kind[c] = "stream"
    /\ k.mask = "write" <=> st = "PROCESSING"
    /\ st = "PROCESSING" => HadAll(c)'
    /\ UNCHANGED <<kind, end, wsid, mark, due, sched, slot>>
    /\ Leave \/ (UNCHANGED <<pc, cursor>> /\ k.mask = conn[c].mask)

\* It ends, for a reason.
Finishes(c) ==
  \E answered \in BOOLEAN :
    /\ Done(c, answered) /\ Leave
    /\ IF answered THEN HadAll(c) ELSE Closing(c)

\* The request that the thread is serving.
LEMMA ServedMeans ==
  ASSUME IInv, NEW c \in Clients, pc \in {"read", "write"}, Served(c)
  PROVE  /\ Has(c) /\ Live(c) /\ OneRequest(c) /\ cursor \in Slots /\ slot[cursor] = c
         /\ wp[c] \in LiveStates /\ conn[c] \in Conns /\ kind[c] \in Kinds
         /\ pc = "read" => conn[c].mask = "read" /\ wp[c] # "PROCESSING"
         /\ pc = "write" => conn[c].mask = "write" /\ wp[c] = "PROCESSING"
<1>1. cursor \in Slots /\ slot[cursor] = c /\ slot[cursor] # None
  BY DEF Served, Owned
<1>2. Live(c) /\ wsid[c] = cursor
  BY <1>1 DEF IInv, Data, Sockets
<1>3. Has(c) /\ OneRequest(c) /\ wp[c] \in LiveStates /\ conn[c] \in Conns /\ kind[c] \in Kinds
  BY <1>1, <1>2, LiveMeans DEF Has, IInv, Data, Types
<1>4. /\ pc = "read" => conn[c].mask = "read"
      /\ pc = "write" => conn[c].mask = "write"
  BY <1>1 DEF IInv, Loop
<1> QED BY <1>1, <1>2, <1>3, <1>4 DEF OneRequest

LEMMA AnswerNowOutcome ==
  ASSUME NEW c \in Clients, AnswerNow(c), HadAll(c)
  PROVE  Finishes(c)
<1>1. end[c] # "reset" \/ Closing(c)
  BY DEF Closing
<1> QED BY <1>1 DEF AnswerNow, Finishes

\* A structure after some reading is still in order and has read no less.
Later(c, k) ==
  /\ k \in Conns /\ Fits(k, Len(Script(kind[c])))
  /\ k.taken >= conn[c].taken /\ k.mask = conn[c].mask

LEMMA HandleOutcome ==
  ASSUME IInv, NEW c \in Clients, Reading(c), NEW k, Later(c, k), Handle(c, k), HadAll(c)
  PROVE  Moves(c) \/ Finishes(c)
<1>1. CASE AnswerNow(c)
  BY <1>1, AnswerNowOutcome
<1>2. CASE /\ conn' = [conn EXCEPT ![c] = [k EXCEPT !.mask = "write"]]
           /\ wp' = [wp EXCEPT ![c] = "PROCESSING"]
           /\ Leave
           /\ UNCHANGED <<client, wsid, mark, due, sched, slot>>
  <2> DEFINE w == [k EXCEPT !.mask = "write"]
  <2>1. /\ w \in Conns /\ w.mask = "write" /\ w.taken = k.taken
        /\ w.fetched = k.fetched /\ w.sent = k.sent
    BY DEF Later, Conns
  <2>2. Fits(w, Len(Script(kind[c])))
    BY <2>1 DEF Later, Fits
  <2>3. conn'[c] = w /\ kind'[c] = kind[c] /\ end'[c] = end[c]
    BY <1>2 DEF IInv, Data, Types, client
  <2> HIDE DEF w
  <2>4. HadAll(c)'
    <3>1. Types
      BY DEF IInv, Data
    <3>2. \/ kind[c] = "bad"
          \/ kind[c] = "stream" /\ Closing(c)
          \/ kind[c] = "get" /\ conn[c].taken >= 1
          \/ kind[c] = "length" /\ conn[c].taken >= 5
      BY <3>1, HadAllMeans
    <3>3. w.taken \in Nat /\ conn[c].taken \in Nat /\ w.taken >= conn[c].taken
      <4>1. k \in Conns /\ k.taken >= conn[c].taken /\ conn[c] \in Conns
        BY <3>1 DEF Later, Types
      <4> QED BY <2>1, <4>1, ConnFields
    <3>4. CASE kind[c] = "bad"
      BY <2>3, <3>4 DEF HadAll
    <3>5. CASE kind[c] = "stream"
      BY <2>3, <3>2, <3>5 DEF HadAll, Closing
    <3>6. CASE kind[c] \in {"get", "length"}
      <4>1. HadAll(c)' <=> w.taken >= Len(Script(kind[c])) - 1
        BY <2>3, <3>6 DEF HadAll
      <4>2. w.taken >= Len(Script(kind[c])) - 1
        <5>1. CASE kind[c] = "get"
          <6>1. Len(Script(kind[c])) - 1 = 1
            BY <5>1, Scripts
          <6>2. conn[c].taken >= 1
            BY <3>2, <5>1
          <6>3. w.taken >= 1
            BY <3>3, <6>2
          <6> QED BY <6>1, <6>3, Zenon
        <5>2. CASE kind[c] = "length"
          <6>1. Len(Script(kind[c])) - 1 = 5
            BY <5>2, Scripts
          <6>2. conn[c].taken >= 5
            BY <3>2, <5>2
          <6>3. w.taken >= 5
            BY <3>3, <6>2
          <6> QED BY <6>1, <6>3, Zenon
        <5> QED BY <3>6, <5>1, <5>2
      <4> QED BY <4>1, <4>2
    <3> QED BY <3>2, <3>4, <3>5, <3>6
  <2>5. Moves(c)
    BY <1>2, <2>1, <2>2, <2>4 DEF Moves, LiveStates, client, w
  <2> QED BY <2>5
<1> QED BY <1>1, <1>2 DEF Handle

LEMMA GoesOnOutcome ==
  ASSUME IInv, NEW c \in Clients, Reading(c), NEW k, Later(c, k), NEW st,
         st \in LiveStates \ {"PROCESSING"},
         st = "CLEN" => kind[c] = "length", st = "POST" => kind[c] = "stream",
         GoesOn(c, st, k)
  PROVE  Moves(c)
<1>1. k.mask = "read" /\ conn[c].mask = "read"
  BY ServedMeans DEF Reading, Later
<1>2. /\ wp' = [wp EXCEPT ![c] = st] /\ conn' = [conn EXCEPT ![c] = k]
      /\ UNCHANGED <<kind, end, wsid, mark, due, sched, slot, pc, cursor>>
  BY DEF GoesOn, client
<1> QED BY <1>1, <1>2 DEF Later, Moves

LEMMA LeavesOutcome ==
  ASSUME IInv, NEW c \in Clients, Reading(c), NEW k, Later(c, k), LeavesWith(c, k)
  PROVE  Moves(c)
<1>1. k.mask = "read" /\ wp[c] \in LiveStates \ {"PROCESSING"} /\ OneRequest(c)
  BY ServedMeans DEF Reading, Later
<1>2. wp' = [wp EXCEPT ![c] = wp[c]]
  BY DEF LeavesWith, IInv, Data, Types
<1>3. /\ conn' = [conn EXCEPT ![c] = k] /\ Leave
      /\ UNCHANGED <<kind, end, wsid, mark, due, sched, slot>>
  BY DEF LeavesWith, client
<1> QED BY <1>1, <1>2, <1>3 DEF Later, Moves, OneRequest

LEMMA LineOutcome ==
  ASSUME IInv, NEW c \in Clients, Reading(c), NEW k, Later(c, k), Line(c, k)
  PROVE  Moves(c) \/ Finishes(c)
<1> DEFINE read == [k EXCEPT !.part = FALSE]
<1>1. Later(c, read)
  BY DEF Later, Conns, Fits
<1> HIDE DEF read
<1>2. \/ wp[c] = "BEGIN" /\ kind[c] = "bad" /\ AnswerNow(c)
      \/ wp[c] = "BEGIN" /\ kind[c] # "bad" /\ GoesOn(c, "HEADER", read)
      \/ wp[c] = "HEADER" /\ GoesOn(c, "HEADER", read)
      \/ wp[c] = "POST" /\ LeavesWith(c, read)
  BY DEF Line, read
<1>3. CASE kind[c] = "bad" /\ AnswerNow(c)
  <2>1. HadAll(c)
    BY <1>3 DEF HadAll
  <2> QED BY <1>3, <2>1, AnswerNowOutcome
<1>4. CASE GoesOn(c, "HEADER", read)
  <2>1. "HEADER" \in LiveStates \ {"PROCESSING"}
    BY DEF LiveStates
  <2> QED BY <1>1, <1>4, <2>1, GoesOnOutcome
<1>5. CASE LeavesWith(c, read)
  BY <1>1, <1>5, LeavesOutcome
<1> QED BY <1>2, <1>3, <1>4, <1>5

LEMMA BlankOutcome ==
  ASSUME IInv, NEW c \in Clients, Reading(c), NEW k, Later(c, k), Blank(c, k),
         kind[c] = "get" => conn[c].taken >= 1
  PROVE  Moves(c) \/ Finishes(c)
<1>1. CASE LeavesWith(c, k)
  BY <1>1, LeavesOutcome
<1>2. CASE kind[c] = "length" /\ GoesOn(c, "CLEN", k)
  <2>1. "CLEN" \in LiveStates \ {"PROCESSING"}
    BY DEF LiveStates
  <2> QED BY <1>2, <2>1, GoesOnOutcome
<1>3. CASE kind[c] = "stream" /\ GoesOn(c, "POST", k)
  <2>1. "POST" \in LiveStates \ {"PROCESSING"}
    BY DEF LiveStates
  <2> QED BY <1>3, <2>1, GoesOnOutcome
<1>4. CASE kind[c] \notin {"length", "stream"} /\ Handle(c, k)
  <2>1. kind[c] \in {"get", "bad"}
    BY <1>4 DEF IInv, Data, Types, Kinds
  <2>2. HadAll(c)
    BY <2>1, HadAllMeans DEF IInv, Data
  <2> QED BY <1>4, <2>2, HandleOutcome
<1> QED BY <1>1, <1>2, <1>3, <1>4 DEF Blank

LEMMA TakeIsLater ==
  ASSUME IInv, NEW c \in Clients, Reading(c), Unread(c)
  PROVE  /\ Later(c, Take(c)) /\ Later(c, [Take(c) EXCEPT !.part = TRUE])
         /\ Take(c).taken = conn[c].taken + 1
         /\ kind[c] = "get" /\ Token(c) = "nl" => conn[c].taken >= 1
<1>1. conn[c] \in Conns /\ kind[c] \in Kinds /\ Fits(conn[c], Len(Script(kind[c])))
  BY ServedMeans DEF Reading, OneRequest
<1>2. conn[c].taken < conn[c].sent
  BY DEF Unread
<1> DEFINE k == Take(c)
           got == IF conn[c].taken < conn[c].fetched THEN conn[c].fetched ELSE conn[c].sent
<1>3. k = [conn[c] EXCEPT !.taken = conn[c].taken + 1, !.fetched = got]
  BY DEF Take
<1>4. got \in Nat /\ conn[c].taken + 1 <= got /\ got <= conn[c].sent
  BY <1>1, <1>2, ConnFields DEF Fits
<1> HIDE DEF k, got
<1>5. /\ k \in Conns /\ k.taken = conn[c].taken + 1 /\ k.fetched = got
      /\ k.sent = conn[c].sent /\ k.mask = conn[c].mask
  <2>1. PICK n \in Nat : n = conn[c].taken + 1
    BY <1>1, ConnFields
  <2>2. k = [conn[c] EXCEPT !.taken = n, !.fetched = got]
    BY <1>3, <2>1
  <2> QED BY <1>1, <1>4, <2>1, <2>2 DEF Conns
<1>6. Later(c, k)
  <2>1. Fits(k, Len(Script(kind[c])))
    BY <1>1, <1>4, <1>5 DEF Fits
  <2>2. k.taken >= conn[c].taken
    BY <1>1, <1>5, ConnFields
  <2> QED BY <1>5, <2>1, <2>2 DEF Later
<1>7. Later(c, [k EXCEPT !.part = TRUE])
  BY <1>6 DEF Later, Conns, Fits
<1>8. kind[c] = "get" /\ Token(c) = "nl" => conn[c].taken >= 1
  <2> SUFFICES ASSUME kind[c] = "get", Token(c) = "nl" PROVE conn[c].taken >= 1
    OBVIOUS
  <2>1. Script("get")[conn[c].taken + 1] = "nl"
    BY DEF Token
  <2>2. conn[c].taken \in Nat /\ conn[c].sent \in Nat /\ conn[c].sent <= 2
    BY <1>1, ConnFields, Scripts DEF Fits
  <2>3. conn[c].taken + 1 \in 1..2
    BY <1>2, <2>2
  <2>4. conn[c].taken + 1 = 2
    BY <2>1, <2>3, Scripts
  <2> QED BY <2>2, <2>4
<1> QED BY <1>5, <1>6, <1>7, <1>8 DEF k

LEMMA EndedIsLater ==
  ASSUME IInv, NEW c \in Clients, Reading(c)
  PROVE  Later(c, Ended(c)) /\ Later(c, conn[c])
<1>1. conn[c] \in Conns /\ Fits(conn[c], Len(Script(kind[c])))
  BY ServedMeans DEF Reading, OneRequest
<1>2. PICK r \in BOOLEAN : Ended(c) = [conn[c] EXCEPT !.eof = TRUE, !.reset = r]
  <2>1. conn[c].reset \in BOOLEAN
    BY <1>1, ConnFields
  <2> QED BY <2>1 DEF Ended
<1>3. /\ Ended(c) \in Conns /\ Ended(c).taken = conn[c].taken /\ Ended(c).sent = conn[c].sent
      /\ Ended(c).fetched = conn[c].fetched /\ Ended(c).mask = conn[c].mask
  BY <1>1, <1>2 DEF Conns
<1>4. conn[c].taken >= conn[c].taken
  BY <1>1, ConnFields
<1> QED BY <1>1, <1>3, <1>4 DEF Later, Fits

\* Whatever the thread does for the request it is serving.
LEMMA ServeOutcome ==
  ASSUME IInv, NEW c \in Clients,
         \/ ReadLine(c) \/ ReadPause(c) \/ ReadEnd(c) \/ ReadBody(c) \/ Spin(c) \/ Answer(c)
  PROVE  pc \in {"read", "write"} /\ Served(c) /\ (Moves(c) \/ Finishes(c)) /\ ReadOnly
<1>1. ASSUME ReadLine(c) PROVE Reading(c) /\ ReadOnly /\ (Moves(c) \/ Finishes(c))
  <2>1. Reading(c) /\ Unread(c) /\ wp[c] # "CLEN" /\ ReadOnly
    BY <1>1 DEF ReadLine
  <2>2. /\ Later(c, Take(c)) /\ Later(c, [Take(c) EXCEPT !.part = TRUE])
        /\ kind[c] = "get" /\ Token(c) = "nl" => conn[c].taken >= 1
    BY <2>1, TakeIsLater
  <2>3. CASE GoesOn(c, wp[c], [Take(c) EXCEPT !.part = TRUE])
    <3>1. wp[c] \in LiveStates \ {"PROCESSING"} /\ (wp[c] = "POST" => kind[c] = "stream")
      BY <2>1, ServedMeans DEF Reading, OneRequest
    <3> QED BY <2>1, <2>2, <2>3, <3>1, GoesOnOutcome
  <2>4. CASE Line(c, Take(c))
    BY <2>1, <2>2, <2>4, LineOutcome
  <2>5. CASE Token(c) = "nl" /\ Blank(c, Take(c))
    BY <2>1, <2>2, <2>5, BlankOutcome
  <2> QED BY <1>1, <2>1, <2>3, <2>4, <2>5 DEF ReadLine
<1>2. ASSUME ReadPause(c) PROVE Reading(c) /\ ReadOnly /\ (Moves(c) \/ Finishes(c))
  BY <1>2, EndedIsLater, LeavesOutcome DEF ReadPause
<1>3. ASSUME ReadEnd(c) PROVE Reading(c) /\ ReadOnly /\ (Moves(c) \/ Finishes(c))
  <2>1. Reading(c) /\ ReadOnly /\ Closing(c) /\ Later(c, Ended(c))
    BY <1>3, EndedIsLater DEF ReadEnd
  <2>2. CASE Line(c, Ended(c))
    BY <2>1, <2>2, LineOutcome
  <2>3. CASE wp[c] = "POST" /\ Handle(c, Ended(c))
    <3>1. kind[c] = "stream"
      BY <2>1, <2>3, ServedMeans DEF Reading, OneRequest
    <3>2. HadAll(c)
      BY <2>1, <3>1 DEF HadAll
    <3> QED BY <2>1, <2>3, <3>2, HandleOutcome
  <2>4. CASE Done(c, FALSE) /\ Leave
    BY <2>1, <2>4 DEF Finishes
  <2> QED BY <1>3, <2>1, <2>2, <2>3, <2>4 DEF ReadEnd
<1>4. ASSUME ReadBody(c) PROVE Reading(c) /\ ReadOnly /\ (Moves(c) \/ Finishes(c))
  <2>1. Reading(c) /\ ReadOnly /\ wp[c] = "CLEN" /\ Unread(c)
    BY <1>4 DEF ReadBody
  <2>2. kind[c] = "length" /\ conn[c] \in Conns
    BY <2>1, ServedMeans DEF Reading, OneRequest
  <2>3. Later(c, Take(c)) /\ Take(c).taken = conn[c].taken + 1
    BY <2>1, TakeIsLater
  <2>4. CASE GoesOn(c, "CLEN", Take(c))
    <3>1. "CLEN" \in LiveStates \ {"PROCESSING"}
      BY DEF LiveStates
    <3> QED BY <2>1, <2>2, <2>3, <2>4, <3>1, GoesOnOutcome
  <2>5. CASE Take(c).taken = Len(Script(kind[c])) /\ Handle(c, Take(c))
    <3>1. conn[c].taken = 5
      <4>1. Len(Script(kind[c])) = 6
        BY <2>2, Scripts
      <4>2. conn[c].taken \in Nat /\ conn[c].taken + 1 = 6
        BY <2>2, <2>3, <2>5, <4>1, ConnFields
      <4> QED BY <4>2
    <3>2. HadAll(c)
      <4>1. conn[c].taken >= 5
        BY <3>1
      <4> QED BY <2>2, <4>1, HadAllMeans DEF IInv, Data
    <3> QED BY <2>1, <2>3, <2>5, <3>2, HandleOutcome
  <2> QED BY <1>4, <2>1, <2>4, <2>5 DEF ReadBody
<1>5. ASSUME Spin(c) PROVE Reading(c) /\ ReadOnly /\ (Moves(c) \/ Finishes(c))
  <2>1. /\ Reading(c) /\ ReadOnly /\ wp[c] = "CLEN"
        /\ \E k : Later(c, k) /\ GoesOn(c, "CLEN", k)
    BY <1>5, EndedIsLater DEF Spin
  <2>2. kind[c] = "length" /\ "CLEN" \in LiveStates \ {"PROCESSING"}
    BY <2>1, ServedMeans DEF Reading, OneRequest, LiveStates
  <2> QED BY <2>1, <2>2, GoesOnOutcome
<1>6. ASSUME Answer(c) PROVE pc = "write" /\ Served(c) /\ ReadOnly /\ Finishes(c)
  <2>1. pc = "write" /\ Served(c) /\ ReadOnly /\ AnswerNow(c)
    BY <1>6 DEF Answer
  <2>2. HadAll(c)
    BY <2>1, ServedMeans DEF OneRequest
  <2> QED BY <2>1, <2>2, AnswerNowOutcome
<1> QED BY <1>1, <1>2, <1>3, <1>4, <1>5, <1>6 DEF Reading

-----------------------------------------------------------------------------
(* Every step keeps the invariant, and ends a request only for a reason *)

Cause(c) ==
  Live(c) /\ ~(Live(c))' /\ ~astray =>
    IF wp'[c] = "answered" THEN HadAll(c) ELSE Closing(c) \/ mark[c] # "fresh"

Kept == IInv' /\ \A c \in Clients : Cause(c)

LEMMA DataStutter ==
  ASSUME Data, UNCHANGED <<kind, end, conn, wp, wsid, slot, sched, astray>>
  PROVE  Data' /\ \A c \in Clients : Cause(c)
<1>1. Types' /\ Sockets' /\ Timers'
  BY DEF Data, Types, Sockets, Timers, Live
<1>2. ASSUME NEW c \in Clients PROVE OneRequest(c)'
  <2>1. Has(c)' <=> Has(c)
    BY DEF Has
  <2> QED BY <2>1, Frame
<1>3. \A c \in Clients : Cause(c)
  BY DEF Cause, Live
<1> QED BY <1>1, <1>2, <1>3 DEF Data

LEMMA OwnedAre ==
  ASSUME Data, NEW s \in Owned
  PROVE  s \in Slots /\ s \in Nat /\ slot[s] \in Clients
BY SlotsAre DEF Owned, Data, Types

LEMMA SelectedAre == \A closed : Selected(closed) \subseteq {0} \union Slots
BY DEF Selected, Owned

LEMMA TurnIs ==
  ASSUME Loop, Turn # {}
  PROVE  /\ Min(Turn) \in Turn /\ Min(Turn) \in 0..Cardinality(Clients)
         /\ Work(Min(Turn))
<1>1. Turn \in SUBSET Nat /\ Turn \subseteq 0..Cardinality(Clients)
  BY SlotsAre DEF Loop, Turn
<1>2. Min(Turn) \in Turn
  BY <1>1, MinIsIn
<1> QED BY <1>1, <1>2 DEF Turn

LEMMA PollKeeps == ASSUME IInv, Poll PROVE Kept
<1>1. /\ pc = "poll" /\ UNCHANGED <<kind, wp, wsid, mark, due, sched, next>>
  BY DEF Poll, request, timers
<1>2. CASE Attention = {}
  <2>1. SelectAll({}) /\ UNCHANGED <<slot, conn, end, astray>>
    BY <1>2 DEF Poll
  <2>2. Data' /\ \A c \in Clients : Cause(c)
    BY <1>1, <2>1, DataStutter DEF IInv
  <2>3. Loop'
    BY <1>1, <2>1, SelectedAre, SlotsAre DEF IInv, Loop, SelectAll
  <2> QED BY <2>2, <2>3 DEF Kept, IInv
<1>3. CASE Attention # {}
  <2> DEFINE s == Min(Attention)
  <2>1. s \in Owned
    <3>1. Attention \in SUBSET Nat
      BY OwnedAre DEF Attention, IInv
    <3>2. s \in Attention
      BY <1>3, <3>1, MinIsIn
    <3> QED BY <3>2 DEF Attention
  <2>2. \/ /\ SelectAll({s}) /\ Close(s) /\ astray' = (astray \/ Live(slot[s]))
        \/ /\ events' = IF Readable(slot[s]) THEN {s} ELSE {}
           /\ pc' = "process" /\ cursor' = 0
           /\ UNCHANGED <<slot, conn, end, astray>>
    BY <1>3 DEF Poll
  <2> HIDE DEF s
  <2>3. CASE SelectAll({s}) /\ Close(s) /\ astray' = (astray \/ Live(slot[s]))
    <3>1. Data'
      BY <1>1, <2>1, <2>3, CloseKeeps DEF IInv
    <3>2. Loop'
      BY <1>1, <2>3, SelectedAre, SlotsAre DEF IInv, Loop, SelectAll
    <3>3. \A c \in Clients : Cause(c)
      BY <1>1 DEF Cause, Live
    <3> QED BY <3>1, <3>2, <3>3 DEF Kept, IInv
  <2>4. CASE /\ events' = IF Readable(slot[s]) THEN {s} ELSE {}
             /\ pc' = "process" /\ cursor' = 0
             /\ UNCHANGED <<slot, conn, end, astray>>
    <3>1. Data' /\ \A c \in Clients : Cause(c)
      BY <1>1, <2>4, DataStutter DEF IInv
    <3>2. events' \subseteq {0} \union Slots
      BY <2>1, <2>4, OwnedAre DEF IInv
    <3>3. Loop'
      BY <1>1, <2>4, <3>2, SlotsAre DEF IInv, Loop
    <3> QED BY <3>1, <3>3 DEF Kept, IInv
  <2> QED BY <2>2, <2>3, <2>4
<1> QED BY <1>2, <1>3

LEMMA CloseResetKeeps == ASSUME IInv, CloseReset PROVE Kept
<1> DEFINE s == Min(Turn)
<1>1. /\ pc = "process" /\ IsReset(s) /\ Close(s) /\ s \in 0..Cardinality(Clients)
      /\ astray' = (astray \/ Live(slot[s])) /\ cursor' = s + 1
      /\ UNCHANGED <<kind, wp, wsid, mark, due, sched, next, pc, events>>
  BY TurnIs DEF CloseReset, IInv, request, timers
<1> HIDE DEF s
<1>2. s \in Owned
  BY <1>1 DEF IsReset
<1>3. Data'
  BY <1>1, <1>2, CloseKeeps DEF IInv
<1>4. Loop'
  BY <1>1, SlotsAre DEF IInv, Loop
<1>5. \A c \in Clients : Cause(c)
  BY <1>1 DEF Cause, Live
<1> QED BY <1>3, <1>4, <1>5 DEF Kept, IInv

LEMMA ServeKept ==
  ASSUME IInv, NEW c \in Clients, pc \in {"read", "write"}, Served(c), ReadOnly,
         Moves(c) \/ Finishes(c)
  PROVE  Kept
<1>1. /\ Has(c) /\ Live(c) /\ cursor \in Slots /\ slot[cursor] = c
      /\ UNCHANGED <<next, events, astray>>
      /\ cursor + 1 \in 0..Cardinality(Clients) + 1
  BY ServedMeans, SlotsAre DEF ReadOnly
<1>2. CASE Moves(c)
  <2>1. PICK st \in LiveStates, k \in Conns :
          /\ wp' = [wp EXCEPT ![c] = st] /\ conn' = [conn EXCEPT ![c] = k]
          /\ Fits(k, Len(Script(kind[c])))
          /\ st = "CLEN" => kind[c] = "length"
          /\ st = "POST" => kind[c] = "stream"
          /\ k.mask = "write" <=> st = "PROCESSING"
          /\ st = "PROCESSING" => HadAll(c)'
          /\ UNCHANGED <<kind, end, wsid, mark, due, sched, slot>>
          /\ Leave \/ (UNCHANGED <<pc, cursor>> /\ k.mask = conn[c].mask)
    BY <1>2 DEF Moves
  <2>2. Data'
    BY <1>1, <2>1, ServeKeeps DEF IInv
  <2>3. Loop'
    <3>1. CASE Leave
      BY <1>1, <2>1, <3>1, SlotsAre DEF IInv, Loop, Leave
    <3>2. CASE UNCHANGED <<pc, cursor>> /\ k.mask = conn[c].mask
      <4>1. slot'[cursor'] = c /\ conn'[c] = k /\ Owned' = Owned
        BY <1>1, <2>1, <3>2 DEF IInv, Data, Types, Owned
      <4>2. (pc = "read" => conn[c].mask = "read") /\ (pc = "write" => conn[c].mask = "write")
        BY <1>1 DEF IInv, Loop
      <4> QED BY <1>1, <2>1, <3>2, <4>1, <4>2 DEF IInv, Loop
    <3> QED BY <2>1, <3>1, <3>2
  <2>4. \A x \in Clients : Live(x) => Live(x)'
    BY <2>1 DEF IInv, Data, Types, Live, LiveStates
  <2> QED BY <2>2, <2>3, <2>4 DEF Kept, IInv, Cause
<1>3. CASE Finishes(c)
  <2>1. PICK answered \in BOOLEAN : /\ Done(c, answered) /\ Leave
                                    /\ IF answered THEN HadAll(c) ELSE Closing(c)
    BY <1>3 DEF Finishes
  <2>2. /\ Data'
        /\ due' = [due EXCEPT ![c] = FALSE] /\ mark' = [mark EXCEPT ![c] = "never"]
        /\ wp' = [wp EXCEPT ![c] = IF answered THEN "answered" ELSE "dropped"]
    BY <1>1, <2>1, DoneKeeps DEF IInv
  <2>3. Loop'
    BY <1>1, <2>1, <2>2, SlotsAre DEF IInv, Loop, Leave
  <2>4. ASSUME NEW x \in Clients PROVE Cause(x)
    <3>1. CASE x # c
      BY <2>2, <3>1 DEF IInv, Data, Types, Live, Cause
    <3>2. CASE x = c
      BY <2>1, <2>2, <3>2 DEF IInv, Data, Types, Cause
    <3> QED BY <3>1, <3>2
  <2> QED BY <2>2, <2>3, <2>4 DEF Kept, IInv
<1> QED BY <1>2, <1>3

\* The timer that emfSchedProcess comes to is one that is due.
LEMMA FirstDueIsDue == DueEntries # {} => FirstDue \in DueEntries
<1> SUFFICES ASSUME DueEntries # {} PROVE FirstDue \in DueEntries
  OBVIOUS
<1>1. DueEntries \in SUBSET Nat
  BY SlotsAre DEF DueEntries
<1>2. CASE \E t \in DueEntries : t >= From
  <2>1. {t \in DueEntries : t >= From} # {} /\ {t \in DueEntries : t >= From} \in SUBSET Nat
    BY <1>1, <1>2
  <2>2. Min({t \in DueEntries : t >= From}) \in {t \in DueEntries : t >= From}
    BY <2>1, MinIsIn
  <2> QED BY <1>2, <2>2 DEF FirstDue
<1>3. CASE ~ \E t \in DueEntries : t >= From
  BY <1>1, <1>3, MinIsIn DEF FirstDue
<1> QED BY <1>2, <1>3

LEMMA SchedKeeps == ASSUME IInv, SchedProcess PROVE Kept
<1>1. pc' = "poll" /\ UNCHANGED <<cursor, events, astray>>
  BY DEF SchedProcess
<1>2. CASE DueEntries = {}
  <2>1. /\ next' = IF Entries = 0 THEN next ELSE From
        /\ UNCHANGED <<kind, end, conn, wp, wsid, mark, due, sched, slot>>
    BY <1>2 DEF SchedProcess, client
  <2>2. next' \in 1..Cardinality(Clients) + 1
    BY <2>1, SlotsAre DEF From, IInv, Loop
  <2>3. Loop'
    BY <1>1, <2>1, <2>2 DEF IInv, Loop
  <2>4. Data' /\ \A c \in Clients : Cause(c)
    BY <1>1, <2>1, DataStutter DEF IInv
  <2> QED BY <2>3, <2>4 DEF Kept, IInv
<1>3. CASE DueEntries # {}
  <2>1. PICK t \in Slots : t = FirstDue /\ sched[t] # None
    BY <1>3, FirstDueIsDue DEF DueEntries
  <2>2. PICK c \in Clients : c = sched[t] /\ Live(c)
    BY <2>1 DEF IInv, Data, Types, Timers
  <2>3. next' = t + 1 /\ Timeout(c)
    BY <1>3, <2>1, <2>2 DEF SchedProcess
  <2>4. next' \in 1..Cardinality(Clients) + 1
    BY <2>3, SlotsAre
  <2>5. CASE mark[c] # "fresh" /\ Done(c, FALSE)
    <3>1. /\ Data'
          /\ due' = [due EXCEPT ![c] = FALSE] /\ mark' = [mark EXCEPT ![c] = "never"]
          /\ wp' = [wp EXCEPT ![c] = "dropped"]
      BY <1>1, <2>2, <2>5, DoneKeeps DEF IInv
    <3>2. Loop'
      BY <1>1, <2>4, <3>1 DEF IInv, Loop
    <3>3. ASSUME NEW x \in Clients PROVE Cause(x)
      <4>1. CASE x # c
        BY <3>1, <4>1 DEF IInv, Data, Types, Live, Cause
      <4>2. CASE x = c
        BY <2>5, <3>1, <4>2 DEF IInv, Data, Types, Cause
      <4> QED BY <4>1, <4>2
    <3> QED BY <3>1, <3>2, <3>3 DEF Kept, IInv
  <2>6. CASE /\ due' = [due EXCEPT ![c] = FALSE]
             /\ mark' = [mark EXCEPT ![c] = IF @ = "never" THEN "old" ELSE @]
             /\ UNCHANGED <<client, conn, wp, wsid, sched, slot>>
    <3>1. Data' /\ \A x \in Clients : Cause(x)
      BY <1>1, <2>6, DataStutter DEF IInv, client
    <3>2. mark' \in [Clients -> {"never", "fresh", "old"}]
      BY <2>6 DEF IInv, Loop
    <3>3. Loop'
      BY <1>1, <2>4, <2>6, <3>2 DEF IInv, Loop
    <3> QED BY <3>1, <3>3 DEF Kept, IInv
  <2> QED BY <2>3, <2>5, <2>6 DEF Timeout
<1> QED BY <1>2, <1>3

\* websReadEvent and the write handler are entered for a socket in use.
LEMMA EventKeeps ==
  ASSUME IInv, NEW c \in Clients, ReadEvent(c) \/ WriteEvent(c)
  PROVE  Kept
<1> DEFINE s == Min(Turn)
<1>1. /\ UNCHANGED <<kind, end, conn, wp, wsid, due, sched, next, slot, events, astray>>
      /\ mark' = [mark EXCEPT ![c] = "fresh"]
      /\ cursor' = s /\ s \in 0..Cardinality(Clients)
      /\ \/ pc' = "read" /\ Reads(s)
         \/ pc' = "write" /\ Writes(s)
  BY TurnIs DEF IInv, ReadEvent, WriteEvent, client, timers
<1> HIDE DEF s
<1>2. Data' /\ \A x \in Clients : Cause(x)
  BY <1>1, DataStutter DEF IInv
<1>3. /\ s \in Owned
      /\ pc' = "read" => conn[slot[s]].mask = "read"
      /\ pc' = "write" => conn[slot[s]].mask = "write"
  BY <1>1 DEF Reads, Writes
<1>4. Owned' = Owned /\ s \in 0..Cardinality(Clients) + 1
  BY <1>1, SlotsAre DEF Owned
<1>5. mark' \in [Clients -> {"never", "fresh", "old"}]
  BY <1>1 DEF IInv, Loop
<1>6. Loop'
  BY <1>1, <1>3, <1>4, <1>5 DEF IInv, Loop
<1> QED BY <1>2, <1>6 DEF Kept, IInv

LEMMA StepKeeps == IInv /\ [Next]_vars => Kept
<1> SUFFICES ASSUME IInv, [Next]_vars PROVE Kept
  OBVIOUS
<1>1. CASE Poll
  BY <1>1, PollKeeps
<1>2. CASE Processed
  <2>1. Data' /\ \A c \in Clients : Cause(c)
    BY <1>2, DataStutter DEF Processed, IInv, client, request, timers
  <2>2. Loop'
    BY <1>2, SlotsAre DEF Processed, IInv, Loop, request, timers
  <2> QED BY <2>1, <2>2 DEF Kept, IInv
<1>3. CASE CloseReset
  BY <1>3, CloseResetKeeps
<1>4. CASE SchedProcess
  BY <1>4, SchedKeeps
<1>5. ASSUME NEW c \in Clients, Accept(c) PROVE Kept
  <2>1. Data'
    BY <1>5, AcceptKeeps DEF IInv
  <2>2. /\ pc = "process" /\ cursor' = 1 /\ UNCHANGED <<mark, due, next, pc, events>>
        /\ wp' = [wp EXCEPT ![c] = "BEGIN"]
    BY <1>5 DEF Accept
  <2>3. Loop'
    BY <2>2, SlotsAre DEF IInv, Loop
  <2>4. \A x \in Clients : Cause(x)
    BY <2>2 DEF IInv, Data, Types, Live, Cause
  <2> QED BY <2>1, <2>3, <2>4 DEF Kept, IInv
<1>6. ASSUME NEW c \in Clients, ReadEvent(c) \/ WriteEvent(c) PROVE Kept
  BY <1>6, EventKeeps
<1>7. ASSUME NEW c \in Clients,
             \/ ReadLine(c) \/ ReadPause(c) \/ ReadEnd(c) \/ ReadBody(c) \/ Spin(c)
             \/ Answer(c)
      PROVE  Kept
  BY <1>7, ServeOutcome, ServeKept
<1>8. CASE Minute
  <2>1. /\ due' = [c \in Clients |-> Live(c)]
        /\ mark' = [c \in Clients |-> IF mark[c] = "never" THEN "never" ELSE "old"]
        /\ UNCHANGED <<kind, end, conn, wp, wsid, sched, next, slot, pc, cursor, events, astray>>
    BY <1>8 DEF Minute, client, loop
  <2>2. Data' /\ \A c \in Clients : Cause(c)
    BY <2>1, DataStutter DEF IInv
  <2>3. due' \in [Clients -> BOOLEAN]
    BY <2>1 DEF Live
  <2>4. mark' \in [Clients -> {"never", "fresh", "old"}]
    BY <2>1
  <2>5. Loop'
    BY <2>1, <2>3, <2>4 DEF IInv, Loop, Owned
  <2> QED BY <2>2, <2>5 DEF Kept, IInv
<1>9. ASSUME NEW c \in Clients, Connect(c) \/ Send(c) \/ Hangup(c) PROVE Kept
  <2>1. Data' /\ \A x \in Clients : conn'[x].mask = conn[x].mask
    BY <1>9, ClientKeeps DEF IInv
  <2>2. UNCHANGED <<wp, wsid, mark, due, sched, next, slot, pc, cursor, events, astray>>
    BY <1>9 DEF Connect, Send, Hangup, request, timers, loop
  <2>3. pc \in {"read", "write"} => slot[cursor] \in Clients
    BY OwnedAre DEF IInv, Loop
  <2>4. Loop'
    BY <2>1, <2>2, <2>3 DEF IInv, Loop, Owned
  <2>5. \A x \in Clients : Cause(x)
    BY <2>2 DEF Cause, Live
  <2> QED BY <2>1, <2>4, <2>5 DEF Kept, IInv
<1>10. CASE UNCHANGED vars
  <2>1. UNCHANGED <<kind, end, conn, wp, wsid, mark, due, sched, next, slot, pc, cursor, events, astray>>
    BY <1>10 DEF vars, client, request, timers, loop
  <2>2. Data' /\ \A c \in Clients : Cause(c)
    BY <2>1, DataStutter DEF IInv
  <2>3. Loop'
    BY <2>1 DEF IInv, Loop, Owned
  <2> QED BY <2>2, <2>3 DEF Kept, IInv
<1> QED
  BY <1>1, <1>2, <1>3, <1>4, <1>5, <1>6, <1>7, <1>8, <1>9, <1>10 DEF Next, Thread, Prompt, Serve

LEMMA InitKept == Init => IInv
<1> SUFFICES ASSUME Init PROVE IInv
  OBVIOUS
<1>1. Types
  BY FreshFits, SlotsAre DEF Init, Types, Kinds
<1>2. Sockets /\ Timers
  BY DEF Init, Sockets, Timers
<1>3. ASSUME NEW c \in Clients PROVE OneRequest(c)
  <2>1. wp[c] = "none" /\ conn[c] = Fresh /\ kind[c] \in Kinds /\ wsid[c] = 0
    BY DEF Init, Kinds
  <2>2. ~Has(c)
    BY <2>1, SlotsAre DEF Has
  <2> QED BY <2>1, <2>2, FreshFits DEF OneRequest, Live
<1>4. Loop
  BY SlotsAre DEF Init, Loop
<1> QED BY <1>1, <1>2, <1>3, <1>4 DEF IInv, Data

LEMMA Invariance == WebSpec => []IInv
<1>1. IInv /\ [Next]_vars => IInv'
  BY StepKeeps DEF Kept
<1> QED BY <1>1, InitKept, PTL DEF WebSpec

-----------------------------------------------------------------------------

\* Every variable keeps its type: tokens are read after they were sent and no
\* further, and a handler runs for a socket in use.
THEOREM WebTypeCorrect == WebSpec => []WebTypeOK
<1>1. IInv => WebTypeOK
  <2> SUFFICES ASSUME IInv PROVE WebTypeOK
    OBVIOUS
  <2>1. ASSUME NEW c \in Clients
        PROVE  /\ conn[c].taken <= conn[c].fetched
               /\ conn[c].fetched <= conn[c].sent
               /\ conn[c].sent <= Len(Script(kind[c]))
               /\ conn[c].mask \in {"none", "read", "write"}
    <3>1. conn[c] \in Conns /\ OneRequest(c)
      BY DEF IInv, Data, Types
    <3> QED BY <3>1, ConnFields DEF OneRequest, Fits
  <2> QED BY <2>1 DEF IInv, Data, Types, Loop, WebTypeOK, Kinds, LiveStates
<1> QED BY <1>1, Invariance, PTL

\* The socket list, the timers and the requests agree, until socketReady closes
\* the socket of a live request; the timers agree even then.
THEOREM WebTablesAgree == WebSpec => []TablesAgree
<1>1. IInv => TablesAgree
  <2> SUFFICES ASSUME IInv PROVE TablesAgree
    OBVIOUS
  <2>1. ASSUME NEW c \in Clients, Live(c)
        PROVE  Cardinality({t \in Slots : sched[t] = c}) = 1
    <3>1. PICK t \in Slots : \A u \in Slots : sched[u] = c <=> u = t
      BY <2>1 DEF IInv, Data, OneRequest, HasTimer
    <3>2. {u \in Slots : sched[u] = c} = {t}
      BY <3>1
    <3> QED BY <3>2, FS_Singleton
  <2>2. ~astray => \A c \in Clients : Live(c) => wsid[c] \in Slots /\ slot[wsid[c]] = c
    BY DEF IInv, Data, OneRequest, Has
  <2>3. \A s \in Owned : Live(slot[s])
    BY DEF IInv, Data, Sockets, Owned
  <2>4. \A t \in Slots : sched[t] # None => Live(sched[t])
    BY DEF IInv, Data, Timers
  <2> QED BY <2>1, <2>2, <2>3, <2>4 DEF TablesAgree
<1> QED BY <1>1, Invariance, PTL

\* A request is answered only after all of it was read, and dropped only when
\* the client has hung up or was not heard for a minute.
THEOREM WebEndsForCause == WebSpec => EndsForCause
<1> DEFINE Ends ==
      \A c \in Clients :
        Live(c) /\ ~(Live(c))' /\ ~astray =>
          IF wp'[c] = "answered" THEN HadAll(c) ELSE Closing(c) \/ mark[c] # "fresh"
<1>1. IInv /\ [Next]_vars => [Ends]_vars
  BY StepKeeps DEF Kept, Cause
<1> QED BY <1>1, Invariance, PTL DEF WebSpec, EndsForCause
=============================================================================
