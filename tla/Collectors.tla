---------------------------- MODULE Collectors ----------------------------
(* The network collector process: an API poller, a file tailer, an HTTP     *)
(* receiver and a syslog receiver feed one spool on disk, which the main    *)
(* loop forwards to the gateway. Each source promises something else about  *)
(* a crash: the poller and the tailer by a checkpoint file, the HTTP        *)
(* receiver by its answer, the syslog receiver nothing.                     *)
EXTENDS Naturals, Sequences, FiniteSets

CONSTANTS
    Configured,    \* the sets of sources a collector is configured with
    Pages,         \* the API's pages in cursor order, each a set of events
    MaximumPages,  \* pages taken in one poll
    Requests,      \* HTTP requests, each a set of events
    Messages,      \* syslog messages, each sent once
    MaxLines,      \* bound: lines written to the file in one generation
    PrefixLines,   \* lines that fill the 64 bytes of the fingerprint
    MaxBytes,      \* events the spool has room for
    EventBuffer,   \* events the syslog channel has room for
    BatchSize,     \* events of one flush
    MaxTrouble     \* bound: crashes, outages of the API and the gateway

ASSUME CollectorsAssumption ==
    /\ \A n \in {MaximumPages, MaxLines, PrefixLines, MaxBytes, EventBuffer, BatchSize} :
         n \in Nat \ {0}
    /\ MaxTrouble \in Nat
    /\ Pages # <<>>
    /\ \A p \in 1 .. Len(Pages) : Cardinality(Pages[p]) <= MaxBytes   \* else a poll never ends

VARIABLES
    sources,    \* the sources of this collector
    spool,      \* the files of the disk queue: [event, copy], copy 0 is unique
    delivered,  \* events the gateway has accepted
    trouble,    \* faults so far
    cursorFile, \* the committed API cursor: pages behind it
    poller,     \* the poll under way: [at, cursor, page, left, taken]
    lines,      \* lines written to each generation of the file
    generation, \* the generation the path names
    checkpoint, \* the committed file checkpoint: [offset, fingerprint]
    tailer,     \* the read under way: [at, gen, offset, fingerprint, dirty]
    counts,     \* history: the generation whose lines the checkpoint counts
    blind,      \* history: an offset was applied to another generation
    requests,   \* state and remaining events of each HTTP request
    channel,    \* syslog events in memory
    sent,       \* syslog messages their source has sent
    loop        \* the main loop: [at, batch, item, held]

apiVars == <<cursorFile, poller>>
fileVars == <<lines, generation, checkpoint, tailer, counts, blind>>
syslogVars == <<channel, sent>>
workVars == <<spool, delivered, trouble, apiVars, fileVars, requests, syslogVars, loop>>
collectorVars == <<sources, workVars>>

Idle == [at |-> "idle", cursor |-> 0, page |-> 0, left |-> {}, taken |-> 0]
NoRead == [at |-> "idle", gen |-> 0, offset |-> 0, fingerprint |-> 0, dirty |-> FALSE]
NoFlush == [at |-> "select", batch |-> {}, item |-> {}, held |-> <<>>]
Waiting(r) == [state |-> "client", left |-> r]

CollectorInit ==
    /\ sources \in Configured
    /\ spool = {} /\ delivered = {} /\ trouble = 0
    /\ cursorFile = 0 /\ poller = Idle
    /\ lines = <<0, 0>> /\ generation = 1
    /\ checkpoint = [offset |-> 0, fingerprint |-> 0]
    /\ tailer = NoRead /\ counts = 1 /\ blind = FALSE
    /\ requests = [r \in Requests |-> Waiting(r)]
    /\ channel = <<>> /\ sent = {} /\ loop = NoFlush

----------------------------------------------------------------------------
(* The disk queue                                                           *)

full == Cardinality(spool) >= MaxBytes

\* A plain event gets a file name of its own.
Enqueue(e) ==
    /\ ~full
    /\ LET used == {q.copy : q \in {i \in spool : i.event = e}}
           copy == CHOOSE n \in 1 .. MaxBytes : n \notin used
       IN spool' = spool \cup {[event |-> e, copy |-> copy]}

\* The file name of a unique event is derived from its stable identity.
EnqueueUnique(e) ==
    /\ ~full \/ [event |-> e, copy |-> 0] \in spool
    /\ spool' = spool \cup {[event |-> e, copy |-> 0]}

kept(e) == e \in delivered \/ \E i \in spool : i.event = e

----------------------------------------------------------------------------
(* The API poller                                                           *)

hasMore(page) == page < Len(Pages)

\* A poll starts at, and a page is requested with, the runtime's cursor. The
\* API's answer past its last page is empty, repeats the cursor and ends the
\* poll with nothing changed.
fetchPage ==
    /\ "api" \in sources
    /\ poller.at \in {"idle", "fetch"} /\ poller.cursor < Len(Pages)
    /\ poller' = [at |-> "page", cursor |-> poller.cursor, page |-> poller.cursor + 1,
                  left |-> Pages[poller.cursor + 1], taken |-> poller.taken]
    /\ UNCHANGED <<spool, delivered, trouble, cursorFile, fileVars, requests, syslogVars, loop>>

\* A poll that fails leaves the runtime's cursor where it is.
pollError == poller' = [Idle EXCEPT !.cursor = poller.cursor]

fetchFails ==
    /\ trouble < MaxTrouble /\ trouble' = trouble + 1
    /\ poller.at \in {"fetch", "page"}
    /\ pollError
    /\ UNCHANGED <<spool, delivered, cursorFile, fileVars, requests, syslogVars, loop>>

enqueuePage ==
    /\ poller.at = "page"
    /\ \E e \in poller.left :
         \/ /\ EnqueueUnique(e)
            /\ poller' = [at |-> "page", cursor |-> poller.cursor, page |-> poller.page,
                          left |-> poller.left \ {e}, taken |-> poller.taken]
         \/ /\ full /\ [event |-> e, copy |-> 0] \notin spool
            /\ pollError /\ UNCHANGED spool
    /\ UNCHANGED <<delivered, trouble, cursorFile, fileVars, requests, syslogVars, loop>>

\* Mutants: the checkpoint is written with the poll's progress unfinished, and
\* an empty page is refused before its cursor is stored.
commitEarly ==
    /\ poller.at = "page" /\ cursorFile' = poller.page
    /\ poller' = IF poller.left = {} THEN [Idle EXCEPT !.cursor = poller.page] ELSE poller
    /\ UNCHANGED <<spool, delivered, trouble, fileVars, requests, syslogVars, loop>>
refuseEmptyPage ==
    /\ poller.at = "page" /\ poller.left = {}
    /\ IF Pages[poller.page] = {} /\ hasMore(poller.page)
       THEN pollError /\ UNCHANGED cursorFile
       ELSE cursorFile' = poller.page /\ poller' = [Idle EXCEPT !.cursor = poller.page]
    /\ UNCHANGED <<spool, delivered, trouble, fileVars, requests, syslogVars, loop>>

\* After the last event of the page. An empty page ends the poll with an
\* error, as the comparison is with the cursor just stored; so does the page
\* that reaches MaximumPages. Both keep the new cursor.
commitAPICheckpoint ==
    /\ poller.at = "page" /\ poller.left = {}
    /\ cursorFile' = poller.page
    /\ poller' = IF hasMore(poller.page) /\ Pages[poller.page] # {}
                     /\ poller.taken + 1 < MaximumPages
                 THEN [at |-> "fetch", cursor |-> poller.page, page |-> poller.page, left |-> {},
                       taken |-> poller.taken + 1]
                 ELSE [Idle EXCEPT !.cursor = poller.page]
    /\ UNCHANGED <<spool, delivered, trouble, fileVars, requests, syslogVars, loop>>

----------------------------------------------------------------------------
(* The file tailer                                                          *)

\* A file shorter than the prefix has no fingerprint.
filePrefixFingerprint(g) == IF lines[g] >= PrefixLines THEN g ELSE 0

AppendLine ==
    /\ "file" \in sources /\ lines[generation] < MaxLines
    /\ lines' = [lines EXCEPT ![generation] = @ + 1]
    /\ UNCHANGED <<spool, delivered, trouble, apiVars, generation, checkpoint, tailer,
                   counts, blind, requests, syslogVars, loop>>

RotateFile ==
    /\ generation < Len(lines) /\ lines[generation] > 0
    /\ generation' = generation + 1
    /\ UNCHANGED <<spool, delivered, trouble, apiVars, lines, checkpoint, tailer, counts,
                   blind, requests, syslogVars, loop>>

startsOver ==
    LET fingerprint == filePrefixFingerprint(generation)
    IN \/ checkpoint.offset > lines[generation]
       \/ /\ checkpoint.fingerprint # 0 /\ fingerprint # 0
          /\ checkpoint.fingerprint # fingerprint

\* pollSource, up to the first line.
openFile ==
    /\ tailer.at = "idle"
    /\ LET offset == IF startsOver THEN 0 ELSE checkpoint.offset
       IN /\ offset < lines[generation]
          /\ tailer' = [at |-> "read", gen |-> generation, offset |-> offset,
                        fingerprint |-> filePrefixFingerprint(generation), dirty |-> FALSE]
          /\ blind' = (blind \/ (offset > 0 /\ counts # generation
                                 /\ 0 \in {checkpoint.fingerprint, filePrefixFingerprint(generation)}))
    /\ UNCHANGED <<spool, delivered, trouble, apiVars, lines, generation, checkpoint, counts,
                   requests, syslogVars, loop>>

line(g, n) == <<"line", g, n>>

readLine ==
    /\ tailer.at = "read" /\ tailer.offset < lines[tailer.gen]
    /\ IF full
       THEN /\ tailer' = [at |-> "stop", gen |-> tailer.gen, offset |-> tailer.offset,
                          fingerprint |-> tailer.fingerprint, dirty |-> tailer.dirty]
            /\ UNCHANGED spool
       ELSE /\ Enqueue(line(tailer.gen, tailer.offset + 1))
            /\ tailer' = [at |-> "read", gen |-> tailer.gen, offset |-> tailer.offset + 1,
                          fingerprint |-> tailer.fingerprint, dirty |-> TRUE]
    /\ UNCHANGED <<delivered, trouble, apiVars, lines, generation, checkpoint, counts, blind,
                   requests, syslogVars, loop>>

\* At the end of the file, when the spool is full or the lines of one poll
\* are used up: what was enqueued is committed once.
commitCheckpoint ==
    /\ tailer.at \in {"read", "stop"}
    /\ tailer' = NoRead
    /\ IF tailer.dirty
       THEN /\ checkpoint' = [offset |-> tailer.offset, fingerprint |-> tailer.fingerprint]
            /\ counts' = tailer.gen
       ELSE UNCHANGED <<checkpoint, counts>>
    /\ UNCHANGED <<spool, delivered, trouble, apiVars, lines, generation, blind, requests,
                   syslogVars, loop>>

----------------------------------------------------------------------------
(* The HTTP receiver                                                        *)

requestGoes(r, state, left) == requests' = [requests EXCEPT ![r] = [state |-> state, left |-> left]]

\* The events of a request are spooled one by one; 202 says all of them are.
receive(r) ==
    /\ "http" \in sources /\ requests[r].state \in {"client", "refused"}
    /\ requestGoes(r, "handler", r)
    /\ UNCHANGED <<spool, delivered, trouble, apiVars, fileVars, syslogVars, loop>>

sink(r) ==
    /\ requests[r].state = "handler"
    /\ \E e \in requests[r].left :
         \/ Enqueue(e) /\ requestGoes(r, "handler", requests[r].left \ {e})
         \/ full /\ UNCHANGED spool /\ requestGoes(r, "refused", requests[r].left)
    /\ UNCHANGED <<delivered, trouble, apiVars, fileVars, syslogVars, loop>>

accept(r) ==
    /\ requests[r].state = "handler" /\ requests[r].left = {}
    /\ requestGoes(r, "accepted", {})
    /\ UNCHANGED <<spool, delivered, trouble, apiVars, fileVars, syslogVars, loop>>

----------------------------------------------------------------------------
(* The syslog receiver and the main loop                                    *)

emit(m) ==
    /\ "syslog" \in sources /\ m \notin sent /\ Len(channel) < EventBuffer
    /\ sent' = sent \cup {m}
    /\ channel' = Append(channel, m)
    /\ UNCHANGED <<spool, delivered, trouble, apiVars, fileVars, requests, loop>>

takeEvent ==
    /\ loop.at = "select" /\ channel # <<>>
    /\ channel' = Tail(channel)
    /\ IF full
       THEN loop' = [at |-> "peek", batch |-> {}, item |-> {}, held |-> Head(channel)] /\ UNCHANGED spool
       ELSE Enqueue(Head(channel)) /\ UNCHANGED loop
    /\ UNCHANGED <<delivered, trouble, apiVars, fileVars, requests, sent>>

\* flush, on the ticker or to make room: the oldest files, plain names first.
Peek ==
    /\ loop.at \in {"select", "peek"} /\ spool # {}
    /\ LET plain == {i \in spool : i.copy > 0}
       IN \E batch \in SUBSET spool :
            /\ Cardinality(batch) = IF Cardinality(spool) < BatchSize
                                    THEN Cardinality(spool) ELSE BatchSize
            /\ plain \subseteq batch \/ batch \subseteq plain
            /\ loop' = [at |-> "send", batch |-> batch, item |-> {}, held |-> loop.held]
    /\ UNCHANGED <<spool, delivered, trouble, apiVars, fileVars, requests, syslogVars>>

Send ==
    /\ loop.at = "send"
    /\ \E i \in loop.batch : /\ loop' = [at |-> "ack", batch |-> loop.batch, item |-> {i}, held |-> loop.held]
                             /\ delivered' = delivered \cup {i.event}
    /\ UNCHANGED <<spool, trouble, apiVars, fileVars, requests, syslogVars>>

Ack ==
    /\ loop.at = "ack"
    /\ spool' = spool \ loop.item
    /\ loop' = LET rest == loop.batch \ loop.item
               IN [at |-> IF rest # {} THEN "send"
                          ELSE IF loop.held = <<>> THEN "select" ELSE "retry",
                   batch |-> rest, item |-> {}, held |-> loop.held]
    /\ UNCHANGED <<delivered, trouble, apiVars, fileVars, requests, syslogVars>>

\* All the collector keeps in memory is lost; its sources start again from
\* their checkpoints and its HTTP clients repeat what was not answered.
restart ==
    /\ poller' = [Idle EXCEPT !.cursor = cursorFile]
    /\ tailer' = NoRead /\ loop' = NoFlush /\ channel' = <<>>
    /\ requests' = [r \in Requests |->
                      IF requests[r].state = "handler" THEN Waiting(r) ELSE requests[r]]
    /\ UNCHANGED <<cursorFile, lines, generation, checkpoint, counts, blind, sent>>

\* Room may have gone again: then the collector ends, as it does when the
\* flush fails, and the event it holds is lost.
retryEnqueue ==
    /\ loop.at = "retry"
    /\ \/ /\ Enqueue(loop.held) /\ loop' = NoFlush
          /\ UNCHANGED <<apiVars, fileVars, requests, syslogVars>>
       \/ full /\ restart /\ UNCHANGED spool
    /\ UNCHANGED <<delivered, trouble>>

SendFails ==
    /\ trouble < MaxTrouble /\ trouble' = trouble + 1
    /\ loop.at = "send"
    /\ IF loop.held = <<>>
       THEN loop' = NoFlush /\ UNCHANGED <<apiVars, fileVars, requests, syslogVars>>
       ELSE restart
    /\ UNCHANGED <<spool, delivered>>

CollectorCrash ==
    /\ trouble < MaxTrouble /\ trouble' = trouble + 1
    /\ restart
    /\ UNCHANGED <<spool, delivered>>

PollerStep == fetchPage \/ enqueuePage \/ commitAPICheckpoint
LoopStep == takeEvent \/ Peek \/ Send \/ Ack \/ retryEnqueue

CollectorStep ==
    \/ PollerStep \/ LoopStep
    \/ openFile \/ readLine \/ commitCheckpoint
    \/ \E r \in Requests : receive(r) \/ sink(r) \/ accept(r)
    \/ fetchFails \/ SendFails \/ CollectorCrash
    \/ AppendLine \/ RotateFile
    \/ \E m \in Messages : emit(m)

CollectorNext == CollectorStep /\ UNCHANGED sources

CollectorSpec == CollectorInit /\ [][CollectorNext]_collectorVars

----------------------------------------------------------------------------

\* Whatever a source regards as handed over is on disk or at the gateway:
\* the events of every API page behind the committed cursor, the file's lines
\* below the committed offset and the events of every HTTP request answered
\* with 202, whenever the process dies. The exception is a rotated file whose
\* offset is applied to its successor, as one of the two is too short to have
\* a fingerprint.
SpoolCoversCheckpoint ==
    /\ \A p \in 1 .. cursorFile : \A e \in Pages[p] : kept(e)
    /\ blind \/ \A n \in 1 .. checkpoint.offset : kept(line(counts, n))
    /\ \A r \in Requests : requests[r].state = "accepted" => \A e \in r : kept(e)

\* Every event of the API is delivered in the end, through crashes and
\* outages of the API and the gateway, full spools, empty pages and polls cut
\* short by MaximumPages.
APIDrains == "api" \in sources => <>(\A p \in 1 .. Len(Pages) : Pages[p] \subseteq delivered)

=============================================================================
