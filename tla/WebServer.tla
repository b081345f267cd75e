------------------------------ MODULE WebServer ------------------------------
(***************************************************************************)
(* The web thread: one thread that polls its sockets (sockGen.c), reads    *)
(* requests line by line (webs.c, sock.c), answers them (handler.c,        *)
(* default.c) and runs one timer per round (websuemf.c).  Each client      *)
(* opens one connection, and stands for its webs_t as well.  A request is  *)
(* a sequence of "part" (bytes of a line), "nl", "line" and "body".  CGI programs, *)
(* SSL and answers longer than the kernel's buffer are left out.           *)
(***************************************************************************)
EXTENDS Integers, Sequences, FiniteSetsExt

CONSTANTS Clients,
          Asks,      \* what each client may ask for
          Quitters,  \* the clients that may hang up before the server does
          None

ASSUME WebConstants == /\ IsFiniteSet(Clients) /\ None \notin Clients
                       /\ Asks \in [Clients -> SUBSET {"get", "bad", "length", "stream"}]
                       /\ Quitters \subseteq Clients

VARIABLES
    kind,    \* what the client asks for
    end,     \* its side of the connection: out, open, fin, reset or gone
    conn,    \* the socket structure of its connection
    wp,      \* state of its webs_t, at last answered or dropped
    wsid,    \* wp->sid
    mark,    \* wp->timestamp: never set, within the last minute, or older
    due,     \* has the time of its timer come
    slot,    \* socketList; the listening socket is number 0
    sched,   \* sched[], the timers
    next,    \* where emfSchedProcess starts
    pc, cursor,  \* step of the loop of web_main, and of socketProcess
    events,  \* the sockets with currentEvents
    astray   \* history: socketReady has closed a socket of a live webs_t

client == <<kind, end>>
request == <<wp, wsid, mark>>
timers == <<due, sched, next>>
loop == <<pc, cursor, events>>
vars == <<client, conn, request, timers, slot, loop, astray>>

Slots == 1..Cardinality(Clients)

\* A page; a line that is no request; a POST with and without a length.
Script(k) == CASE k = "get" -> <<"line", "nl">>
               [] k = "bad" -> <<"part", "nl">>
               [] k = "length" -> <<"line", "part", "nl", "nl", "body", "body">>
               [] k = "stream" -> <<"part", "nl", "nl", "part", "nl", "nl">>

Fresh == [sent |-> 0, fetched |-> 0, taken |-> 0, part |-> FALSE,
          eof |-> FALSE, reset |-> FALSE, mask |-> "none"]

Live(c) == wp[c] \notin {"none", "answered", "dropped"}
Sent(c) == conn[c].sent = Len(Script(kind[c]))
Closing(c) == end[c] \in {"fin", "reset"}

-----------------------------------------------------------------------------
(* The sockets *)

Readable(c) == conn[c].fetched < conn[c].sent \/ Closing(c)

\* socketInputBuffered: a line begun, or bytes received and not yet looked at.
Buffered(c) == ~conn[c].eof /\ (conn[c].part \/ conn[c].taken < conn[c].fetched)

Owned == {s \in Slots : slot[s] # None}
Reads(s) == s \in Owned /\ conn[slot[s]].mask = "read"
Writes(s) == s \in Owned /\ conn[slot[s]].mask = "write"
IsReset(s) == s \in Owned /\ conn[slot[s]].reset
HasInput(s) == Reads(s) /\ Buffered(slot[s])

Waiting == {c \in Clients : end[c] \notin {"out", "gone"} /\ wp[c] = "none"}

\* socketCloseConnection of the socket with this number, whoever has it now.
Close(s) == IF s \in Owned
            THEN /\ slot' = [slot EXCEPT ![s] = None]
                 /\ conn' = [conn EXCEPT ![slot[s]] = Fresh]
                 /\ end' = [end EXCEPT ![slot[s]] = "gone"]
            ELSE UNCHANGED <<slot, conn, end>>

\* What select reports once the sockets in closed are gone; input that is
\* buffered counts only if the kernel reports something else.
Selected(closed) ==
    LET kernel == {s \in Owned \ closed : \/ Writes(s)
                                          \/ Reads(s) /\ Readable(slot[s])}
                      \union (IF Waiting # {} THEN {0} ELSE {})
    IN  IF kernel = {} THEN {}
        ELSE kernel \union {s \in Owned \ closed : Buffered(slot[s])}

SelectAll(closed) ==
    /\ events' = Selected(closed)
    /\ IF events' = {} THEN pc' = "sched" /\ UNCHANGED cursor
                       ELSE pc' = "process" /\ cursor' = 0

\* socketReady(-1): the first socket that was reset is closed; the first that
\* has input buffered is polled alone.  With neither all sockets are polled.
Attention == {s \in Owned : IsReset(s) \/ HasInput(s)}

Poll ==
    /\ pc = "poll"
    /\ IF Attention = {} THEN SelectAll({}) /\ UNCHANGED <<slot, conn, end, astray>>
       ELSE LET s == Min(Attention)
            IN  IF IsReset(s)
                THEN /\ SelectAll({s})
                     /\ Close(s)
                     /\ astray' = (astray \/ Live(slot[s]))
                ELSE /\ events' = IF Readable(slot[s]) THEN {s} ELSE {}
                     /\ pc' = "process" /\ cursor' = 0
                     /\ UNCHANGED <<slot, conn, end, astray>>
    /\ UNCHANGED <<kind, request, timers>>

\* socketProcess goes through the sockets in the order of their numbers.
Work(s) == \/ s = 0 /\ 0 \in events
           \/ IsReset(s)
           \/ HasInput(s)
           \/ s \in events /\ (Reads(s) \/ Writes(s))
Turn == {s \in cursor..Cardinality(Clients) : Work(s)}

Processed ==
    /\ pc = "process" /\ Turn = {}
    /\ pc' = "sched" /\ cursor' = 0 /\ events' = {}
    /\ UNCHANGED <<client, conn, request, timers, slot, astray>>

\* socketReady(s) finds the connection reset: the webs_t is not told.
CloseReset ==
    /\ pc = "process" /\ Turn # {} /\ IsReset(Min(Turn))
    /\ Close(Min(Turn))
    /\ astray' = (astray \/ Live(slot[Min(Turn)]))
    /\ cursor' = Min(Turn) + 1
    /\ UNCHANGED <<kind, request, timers, pc, events>>

FreeEntries(table) == {s \in Slots : table[s] = None}

\* socketAccept, websAccept: the lowest free number, a webs_t and a timer.
Accept(c) ==
    /\ pc = "process" /\ Turn # {} /\ Min(Turn) = 0
    /\ c \in Waiting
    /\ LET s == Min(FreeEntries(slot))
           t == Min(FreeEntries(sched))
       IN  /\ slot' = [slot EXCEPT ![s] = c]
           /\ sched' = [sched EXCEPT ![t] = c]
           /\ wsid' = [wsid EXCEPT ![c] = s]
    /\ conn' = [conn EXCEPT ![c].mask = "read"]
    /\ wp' = [wp EXCEPT ![c] = "BEGIN"]
    /\ cursor' = 1
    /\ UNCHANGED <<client, mark, due, next, pc, events, astray>>

-----------------------------------------------------------------------------
(* Requests *)

Leave == pc' = "process" /\ cursor' = cursor + 1

\* websDone, websFree: the socket is closed by its number; the timer goes too.
Done_KeepsTimer(c, answered) ==
    /\ Close(wsid[c])
    /\ wp' = [wp EXCEPT ![c] = IF answered THEN "answered" ELSE "dropped"]
    /\ kind' = [kind EXCEPT ![c] = "get"]
    /\ wsid' = [wsid EXCEPT ![c] = 0]
    /\ mark' = [mark EXCEPT ![c] = "never"]
    /\ UNCHANGED <<sched, due>>

Done(c, answered) ==
    /\ Close(wsid[c])
    /\ wp' = [wp EXCEPT ![c] = IF answered THEN "answered" ELSE "dropped"]
    /\ kind' = [kind EXCEPT ![c] = "get"]
    /\ wsid' = [wsid EXCEPT ![c] = 0]
    /\ mark' = [mark EXCEPT ![c] = "never"]
    /\ sched' = [t \in Slots |-> IF sched[t] = c THEN None ELSE sched[t]]
    /\ due' = [due EXCEPT ![c] = FALSE]

\* The client that websReadEvent or the write handler serves.
Served(c) == cursor \in Owned /\ slot[cursor] = c

ReadEvent(c) ==
    /\ pc = "process" /\ Turn # {}
    /\ LET s == Min(Turn)
       IN  /\ Reads(s) /\ ~IsReset(s) /\ slot[s] = c
           /\ cursor' = s
    /\ mark' = [mark EXCEPT ![c] = "fresh"]
    /\ pc' = "read"
    /\ UNCHANGED <<client, conn, wp, wsid, timers, slot, events, astray>>

\* websError, websRedirect, a HEAD request: answered at once.
AnswerNow_GoesOn(c) == Done(c, end[c] # "reset") /\ UNCHANGED <<pc, cursor>>
AnswerNow(c) == Done(c, end[c] # "reset") /\ Leave

\* websUrlHandlerRequest: a document is written when the socket is writable.
Handle_NotWritable(c, k) ==
    \/ AnswerNow(c)
    \/ /\ conn' = [conn EXCEPT ![c] = [k EXCEPT !.mask = "none"]]
       /\ wp' = [wp EXCEPT ![c] = "PROCESSING"]
       /\ Leave
       /\ UNCHANGED <<client, wsid, mark, due, sched, slot>>

Handle(c, k) ==
    \/ AnswerNow(c)
    \/ /\ conn' = [conn EXCEPT ![c] = [k EXCEPT !.mask = "write"]]
       /\ wp' = [wp EXCEPT ![c] = "PROCESSING"]
       /\ Leave
       /\ UNCHANGED <<client, wsid, mark, due, sched, slot>>

\* The loop of websReadEvent goes on in state st, with connection structure k.
GoesOn(c, st, k) ==
    /\ wp' = [wp EXCEPT ![c] = st]
    /\ conn' = [conn EXCEPT ![c] = k]
    /\ UNCHANGED <<client, wsid, mark, due, sched, slot, pc, cursor>>

LeavesWith(c, k) ==
    /\ conn' = [conn EXCEPT ![c] = k]
    /\ Leave
    /\ UNCHANGED <<client, wp, wsid, mark, due, sched, slot>>

Unread(c) == conn[c].taken < conn[c].sent
Token(c) == Script(kind[c])[conn[c].taken + 1]

\* The structure once a token is taken; recv fetches all there is when the
\* input buffer is empty.
Take(c) == [conn[c] EXCEPT !.taken = @ + 1,
                           !.fetched = IF conn[c].taken < @ THEN @ ELSE conn[c].sent]

\* socketGets has a line: the first one, a header, or a line of posted data,
\* of which each event takes one.
Line(c, k) ==
    LET read == [k EXCEPT !.part = FALSE]
    IN  \/ wp[c] = "BEGIN" /\ kind[c] = "bad" /\ AnswerNow(c)
        \/ wp[c] = "BEGIN" /\ kind[c] # "bad" /\ GoesOn(c, "HEADER", read)
        \/ wp[c] = "HEADER" /\ GoesOn(c, "HEADER", read)
        \/ wp[c] = "POST" /\ LeavesWith(c, read)

\* An empty line ends the header and nothing else.
Blank(c, k) ==
    \/ wp[c] # "HEADER" /\ LeavesWith(c, k)
    \/ wp[c] = "HEADER" /\ kind[c] = "length" /\ GoesOn(c, "CLEN", k)
    \/ wp[c] = "HEADER" /\ kind[c] = "stream" /\ GoesOn(c, "POST", k)
    \/ wp[c] = "HEADER" /\ kind[c] \notin {"length", "stream"} /\ Handle(c, k)

Reading(c) == pc = "read" /\ Served(c)
ReadOnly == UNCHANGED <<next, events, astray>>

ReadLine(c) ==
    /\ Reading(c) /\ wp[c] # "CLEN" /\ Unread(c)
    /\ \/ Token(c) = "part" /\ GoesOn(c, wp[c], [Take(c) EXCEPT !.part = TRUE])
       \/ (Token(c) = "line" \/ (Token(c) = "nl" /\ conn[c].part)) /\ Line(c, Take(c))
       \/ Token(c) = "nl" /\ ~conn[c].part /\ Blank(c, Take(c))
    /\ ReadOnly

\* Nothing more now: the event is over, whatever has been read of the line.
ReadPause(c) ==
    /\ Reading(c) /\ wp[c] # "CLEN" /\ ~Unread(c) /\ ~Closing(c)
    /\ LeavesWith(c, conn[c])
    /\ ReadOnly

\* recv returns 0 or ECONNRESET; both end the input.
Ended(c) == [conn[c] EXCEPT !.eof = TRUE, !.reset = @ \/ (end[c] = "reset" /\ ~conn[c].eof)]

\* The end of input ends the line as well, then the data posted without a
\* length; in any other state the connection is closed.
ReadEnd(c) ==
    /\ Reading(c) /\ wp[c] # "CLEN" /\ ~Unread(c) /\ Closing(c)
    /\ \/ conn[c].part /\ Line(c, Ended(c))
       \/ ~conn[c].part /\ wp[c] = "POST" /\ Handle(c, Ended(c))
       \/ ~conn[c].part /\ wp[c] # "POST" /\ Done(c, FALSE) /\ Leave
    /\ ReadOnly

\* Posted data of a known length goes to the handler when it is complete.
ReadBody_First(c) ==
    /\ Reading(c) /\ wp[c] = "CLEN" /\ Unread(c)
    /\ Handle(c, Take(c))
    /\ ReadOnly

ReadBody(c) ==
    /\ Reading(c) /\ wp[c] = "CLEN" /\ Unread(c)
    /\ \/ Take(c).taken < Len(Script(kind[c])) /\ GoesOn(c, "CLEN", Take(c))
       \/ Take(c).taken = Len(Script(kind[c])) /\ Handle(c, Take(c))
    /\ ReadOnly

\* websGetInput returns 0 and is called again until there is data: the thread
\* spins, for ever if the input has ended.
Spin(c) ==
    /\ Reading(c) /\ wp[c] = "CLEN" /\ ~Unread(c)
    /\ GoesOn(c, "CLEN", IF Closing(c) THEN Ended(c) ELSE conn[c])
    /\ ReadOnly

\* websDefaultWriteEvent is called.
WriteEvent(c) ==
    /\ pc = "process" /\ Turn # {}
    /\ LET s == Min(Turn)
       IN  /\ Writes(s) /\ ~IsReset(s) /\ slot[s] = c
           /\ cursor' = s
    /\ mark' = [mark EXCEPT ![c] = "fresh"]
    /\ pc' = "write"
    /\ UNCHANGED <<client, conn, wp, wsid, timers, slot, events, astray>>

\* It reads the page, or calls CgiProcess, which waits in msgsnd until the player
\* has made room in the queue; then the request is done.
Answer(c) ==
    /\ pc = "write" /\ Served(c)
    /\ AnswerNow(c)
    /\ ReadOnly

-----------------------------------------------------------------------------
(* Timers *)

\* emfSchedProcess looks round the table from next for a timer that is due.
Entries == Max({0} \union {t \in Slots : sched[t] # None})
From == IF next > Entries THEN 1 ELSE next
DueEntries == {t \in Slots : sched[t] # None /\ due[sched[t]]}
FirstDue == IF \E t \in DueEntries : t >= From
            THEN Min({t \in DueEntries : t >= From}) ELSE Min(DueEntries)

\* websTimeout: a minute since the mark ends the request.  Without a mark the
\* milliseconds since 1970 overflow, and either branch may be taken; the delay
\* computed then, up to 24 days, ends when the overflowed difference is a minute.
Timeout(c) ==
    \/ mark[c] # "fresh" /\ Done(c, FALSE)
    \/ /\ mark[c] # "old"
       /\ due' = [due EXCEPT ![c] = FALSE]
       /\ mark' = [mark EXCEPT ![c] = IF @ = "never" THEN "old" ELSE @]
       /\ UNCHANGED <<client, conn, wp, wsid, sched, slot>>

SchedProcess ==
    /\ pc = "sched"
    /\ IF DueEntries = {}
       THEN /\ next' = IF Entries = 0 THEN next ELSE From
            /\ UNCHANGED <<client, conn, wp, wsid, mark, due, sched, slot>>
       ELSE next' = FirstDue + 1 /\ Timeout(sched[FirstDue])
    /\ pc' = "poll"
    /\ UNCHANGED <<cursor, events, astray>>

-----------------------------------------------------------------------------
(* Clients and time *)

Connect(c) ==
    /\ end[c] = "out"
    /\ end' = [end EXCEPT ![c] = "open"]
    /\ \E k \in Asks[c] : kind' = [kind EXCEPT ![c] = k]
    /\ UNCHANGED <<conn, request, timers, slot, loop, astray>>

Send(c) ==
    /\ end[c] = "open" /\ ~Sent(c)
    /\ conn' = [conn EXCEPT ![c].sent = @ + 1]
    /\ UNCHANGED <<client, request, timers, slot, loop, astray>>

Hangup(c) ==
    /\ c \in Quitters
    /\ \/ end[c] = "open" /\ end' = [end EXCEPT ![c] = "fin"]
       \/ end[c] \in {"open", "fin"} /\ end' = [end EXCEPT ![c] = "reset"]
    /\ UNCHANGED <<kind, conn, request, timers, slot, loop, astray>>

\* The thread waits: in select, in CgiProcess, or for data.
Waits == \/ pc \in {"poll", "write"}
         \/ pc = "read" /\ \E c \in Clients : Served(c) /\ wp[c] = "CLEN" /\ ~Unread(c)

\* A minute passes for every request.
Minute ==
    /\ Waits /\ \E c \in Clients : Live(c) /\ ~due[c]
    /\ due' = [c \in Clients |-> Live(c)]
    /\ mark' = [c \in Clients |-> IF mark[c] = "never" THEN "never" ELSE "old"]
    /\ UNCHANGED <<client, conn, wp, wsid, sched, next, slot, loop, astray>>

Init ==
    /\ kind = [c \in Clients |-> "get"]
    /\ end = [c \in Clients |-> "out"]
    /\ conn = [c \in Clients |-> Fresh]
    /\ wp = [c \in Clients |-> "none"]
    /\ wsid = [c \in Clients |-> 0]
    /\ mark = [c \in Clients |-> "never"]
    /\ due = [c \in Clients |-> FALSE]
    /\ slot = [s \in Slots |-> None]
    /\ sched = [s \in Slots |-> None]
    /\ next = 1
    /\ pc = "poll" /\ cursor = 0 /\ events = {} /\ astray = FALSE

Serve(c) == \/ Accept(c) \/ ReadEvent(c) \/ ReadLine(c) \/ ReadPause(c) \/ ReadEnd(c)
            \/ ReadBody(c) \/ Spin(c) \/ WriteEvent(c)

\* The steps that end by themselves, and the one that waits for the player.
Prompt == Poll \/ Processed \/ CloseReset \/ SchedProcess \/ \E c \in Clients : Serve(c)

Thread == Prompt \/ \E c \in Clients : Answer(c)

Next == Thread \/ Minute \/ \E c \in Clients : Connect(c) \/ Send(c) \/ Hangup(c)

WebSpec == Init /\ [][Next]_vars

\* The web thread runs, but msg_send waits without a timeout as long as the
\* queue is full.  In WebTimed no such wait is for ever, and time passes.
WebLive == WebSpec /\ WF_vars(Prompt)
WebTimed == WebLive /\ WF_vars(Thread) /\ SF_vars(Minute)

-----------------------------------------------------------------------------
(* Properties *)

WebTypeOK ==
    /\ kind \in [Clients -> {"get", "bad", "length", "stream"}]
    /\ end \in [Clients -> {"out", "open", "fin", "reset", "gone"}]
    /\ \A c \in Clients : /\ conn[c].taken <= conn[c].fetched
                           /\ conn[c].fetched <= conn[c].sent
                           /\ conn[c].sent <= Len(Script(kind[c]))
                           /\ conn[c].mask \in {"none", "read", "write"}
    /\ wp \in [Clients -> {"none", "BEGIN", "HEADER", "CLEN", "POST", "PROCESSING", "answered", "dropped"}]
    /\ wsid \in [Clients -> {0} \union Slots]
    /\ mark \in [Clients -> {"never", "fresh", "old"}]
    /\ due \in [Clients -> BOOLEAN]
    /\ slot \in [Slots -> Clients \union {None}]
    /\ sched \in [Slots -> Clients \union {None}]
    /\ next \in 1..Cardinality(Clients) + 1
    /\ pc \in {"poll", "process", "read", "write", "sched"}
    /\ cursor \in 0..Cardinality(Clients) + 1
    /\ events \subseteq {0} \union Slots /\ astray \in BOOLEAN
    /\ pc \in {"read", "write"} => cursor \in Owned

\* The three tables of the thread agree: a live request has the socket it names
\* and exactly one timer, no socket and no timer outlives its request.  It holds
\* as long as socketReady has not closed the socket of a live request.
TablesAgree ==
    /\ \A t \in Slots : sched[t] # None => Live(sched[t])
    /\ \A c \in Clients : Live(c) => Cardinality({t \in Slots : sched[t] = c}) = 1
    /\ ~astray => /\ \A c \in Clients : Live(c) => wsid[c] \in Slots /\ slot[wsid[c]] = c
                  /\ \A s \in Owned : Live(slot[s])

HadAll(c) == CASE kind[c] = "bad" -> TRUE
               [] kind[c] = "stream" -> Closing(c)
               [] OTHER -> conn[c].taken >= Len(Script(kind[c])) - 1

\* A request ends for a reason: it is answered after all of it was read, or it is
\* dropped when the client has hung up or was not heard for a minute (also as
\* long as socketReady has not closed the socket of a live request).
EndsForCause ==
    [][\A c \in Clients :
          Live(c) /\ ~(Live(c))' /\ ~astray =>
             IF wp'[c] = "answered" THEN HadAll(c) ELSE Closing(c) \/ mark[c] # "fresh"]_vars

\* The client has begun a request and not finished it; hanging up finishes it,
\* but not for posted data of a known length.
Midway(c) == \/ Live(c) /\ end[c] = "open" /\ (~Sent(c) \/ kind[c] = "stream")
             \/ wp[c] = "CLEN" /\ ~Sent(c)

\* No call of CgiProcess waits for ever: the player drains the queue, which
\* PlayerControl says when it does.
AnswersEnd == []<>(pc # "write")

\* If every client finishes its request and the player makes room for every
\* message, the loop ends every request, without the help of a timer (and as
\* long as no socket of a live request is closed).
RequestsServed ==
    []~astray /\ AnswersEnd /\ (\A c \in Clients : <>[]~Midway(c)) =>
        \A c \in Clients : Live(c) ~> ~Live(c)

\* What the comment on websTimeout says: a browser that was heard and is silent
\* for WEBS_TIMEOUT is timed out.
Reaped == \A c \in Clients : (Live(c) /\ mark[c] # "never") ~> ~Live(c)
=============================================================================
