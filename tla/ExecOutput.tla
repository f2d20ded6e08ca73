------------------------------ MODULE ExecOutput ------------------------------
(***************************************************************************)
(* The output of one command: the remote process writes two streams, each   *)
(* passes through a redactor per private ID (internal/backend/windmill) to  *)
(* an auditWriter (internal/gate), which stores it in pieces under a limit  *)
(* both streams share (AppendOutput, internal/storage) and relays what was  *)
(* stored to the agent (protocolSink, internal/agent).  The command may be  *)
(* cancelled, its agent may leave and the store may fail at any point.      *)
(***************************************************************************)
EXTENDS Redaction, Integers, Sequences, SequencesExt

CONSTANTS
    Streams,      \* "stdout" and "stderr"
    Bytes,        \* what texts, secrets and the mark of a secret are made of
    TextsOf,      \* the texts the process may set out to write on each stream
    SecretLists,  \* what is to be redacted: the session ID, or it and a host
    Limits,       \* the limits the daemon may have been started with
    MaxWrite,     \* bound on the bytes of one read from the process
    PieceSize,    \* the pieces an auditWriter cuts its input into
    Marker,       \* "[gate: output truncated]"
    Lead, Trail,  \* the two bytes of a non-ASCII character
    Broken        \* U+FFFD

ASSUME OutputAssumption ==
    /\ Streams = {"stdout", "stderr"}
    /\ \A n \in Limits : n \in Nat \ {0}
    /\ MaxWrite \in Nat \ {0}
    /\ PieceSize \in Nat \ {0}

(* An execution has one or two secrets; the marker of a cut output is told  *)
(* from what a process writes.                                              *)
ASSUME TextAssumption ==
    /\ \A s \in Streams : \A w \in TextsOf[s] : w \in Seq(Bytes)
    /\ \A list \in SecretLists :
          list \in Seq(Seq(Bytes)) /\ Len(list) \in 1 .. 2
    /\ Redacted \in Bytes
    /\ Marker \notin Bytes \cup {Broken}

VARIABLES
    text,       \* what the process would write on each stream if left alone
    secrets,    \* the secrets of the execution, the session ID first
    limit,      \* Service.limit
    emitted,    \* bytes of the text written so far
    process,    \* "running", "exited", or "returned" from Exec
    closed,     \* how many redactors are closed
    pending,    \* the bytes each redactor of a stream holds
    trimmed,    \* what they hold once the write under way has succeeded
    broken,     \* a write failed: the stream is no longer copied
    todo,       \* what an auditWriter has yet to store of the current write
    at,         \* where the auditWriter of a stream stands
    stored,     \* what AppendOutput has returned
    truncated,  \* and whether it has cut it
    err,        \* auditWriter.err
    marked,     \* auditWriter.markerDelivered
    rows,       \* the rows of command_output, in the order of their sequence
    sent,       \* the output frames the agent was sent
    cancelled,  \* the context of the execution is cancelled
    left,       \* the agent has left: nothing can be sent
    result      \* what execute makes of it: "exit" or "failed"

inputVars == <<text, secrets, limit>>
processVars == <<emitted, process, closed>>
writerVars == <<todo, at, stored, truncated, err, marked>>
vars == <<inputVars, processVars, pending, trimmed, broken, writerVars, rows,
          sent, cancelled, left, result>>

Init ==
    /\ text \in [Streams -> UNION {TextsOf[s] : s \in Streams}]
    /\ \A s \in Streams : text[s] \in TextsOf[s]
    /\ secrets \in SecretLists
    /\ limit \in Limits
    /\ emitted = [s \in Streams |-> 0]
    /\ process = "running"
    /\ closed = 0
    /\ pending = [s \in Streams |-> [i \in DOMAIN secrets |-> <<>>]]
    /\ trimmed = pending
    /\ broken = [s \in Streams |-> FALSE]
    /\ todo = [s \in Streams |-> <<>>]
    /\ at = [s \in Streams |-> "idle"]
    /\ stored = [s \in Streams |-> <<>>]
    /\ truncated = [s \in Streams |-> FALSE]
    /\ err = [s \in Streams |-> FALSE]
    /\ marked = [s \in Streams |-> FALSE]
    /\ rows = <<>>
    /\ sent = <<>>
    /\ cancelled = FALSE
    /\ left = FALSE
    /\ result = "none"

-----------------------------------------------------------------------------
(* The redactors of a stream, the session ID's first.                       *)

(* One Write with its tail held back, or the Close that gives it up: what   *)
(* the redactor passes on, and what it holds when that has succeeded or     *)
(* failed.                                                                  *)
Passed(held, data, secret, closing) ==
    LET all == held \o data
        n == IF closing THEN Len(all) ELSE FlushLen(all, secret)
    IN  [out |-> Redact(SubSeq(all, 1, n), secret),
         held |-> SubSeq(all, n + 1, Len(all)),
         failed |-> IF closing THEN <<>> ELSE all]

(* What comes to redactor j of a stream goes on from it: what has come out  *)
(* of those before, and what they hold.                                     *)
Onward(s, before, j, closing) ==
    LET now == Passed(pending[s][j], before.out, secrets[j], closing)
    IN  [out |-> now.out,
         held |-> [before.held EXCEPT ![j] = now.held],
         failed |-> [before.failed EXCEPT ![j] = now.failed]]

(* Data enters redactor i and goes down the chain; a redactor with nothing  *)
(* to pass on does not write to the next.                                   *)
Chain(s, i, data, closing) ==
    LET down[j \in i - 1 .. Len(secrets)] ==
            IF j = i - 1 THEN [out |-> data, held |-> pending[s], failed |-> pending[s]]
            ELSE Onward(s, down[j - 1], j, closing /\ j = i)
    IN  down[Len(secrets)]

(* A write reaches the auditWriter, which refuses it after an error.        *)
Write(s, down) ==
    /\ trimmed' = [trimmed EXCEPT ![s] = down.held]
    /\ pending' = [pending EXCEPT ![s] = IF down.out = <<>> THEN down.held
                                                           ELSE down.failed]
    /\ IF down.out = <<>> \/ err[s]
       THEN /\ broken' = [broken EXCEPT ![s] = @ \/ down.out # <<>>]
            /\ UNCHANGED <<todo, at>>
       ELSE /\ todo' = [todo EXCEPT ![s] = down.out]
            /\ at' = [at EXCEPT ![s] = "append"]
            /\ UNCHANGED broken

(* The process writes and the copying goroutine of the stream reads.        *)
Emit(s) ==
    /\ process = "running"
    /\ at[s] = "idle"
    /\ ~broken[s]
    /\ \E n \in 1 .. MaxWrite :
          /\ emitted[s] + n <= Len(text[s])
          /\ emitted' = [emitted EXCEPT ![s] = @ + n]
          /\ Write(s, Chain(s, 1, SubSeq(text[s], emitted[s] + 1, emitted[s] + n),
                            FALSE))
    /\ UNCHANGED <<inputVars, process, closed, stored, truncated, err, marked,
                   rows, sent, cancelled, left, result>>

-----------------------------------------------------------------------------
(* The auditWriter of a stream, under its own mutex.                        *)

(* A frame is JSON text: a byte that is not part of a whole character       *)
(* within the frame is replaced.                                            *)
Frame(data) ==
    [i \in DOMAIN data |->
        IF \/ data[i] = Lead /\ (i = Len(data) \/ data[i + 1] # Trail)
           \/ data[i] = Trail /\ (i = 1 \/ data[i - 1] # Lead)
        THEN Broken ELSE data[i]]

(* The entries at some places, in their order.                              *)
Kept(entries, places) ==
    LET kept[n \in 0 .. Len(entries)] ==
            IF n = 0 THEN <<>>
            ELSE IF n \in places THEN Append(kept[n - 1], entries[n])
                 ELSE kept[n - 1]
    IN  kept[Len(entries)]

(* The entries of a stream, and the bytes of entries put together.          *)
Of(s, entries) == Kept(entries, {i \in DOMAIN entries : entries[i].stream = s})
Joined(entries) == FlattenSeq([i \in DOMAIN entries |-> entries[i].data])

(* Mutation: the limit is measured on one of the streams.                   *)
UsedByStdout == Len(Joined(Of("stdout", rows)))

Used == Len(Joined(rows))
WasTruncated == \E i \in DOMAIN rows : rows[i].truncated

(* Mutation: the piece is turned into text before it is stored.             *)
PieceAsText(s) ==
    Frame(SubSeq(todo[s], 1, IF Len(todo[s]) < PieceSize THEN Len(todo[s])
                                                         ELSE PieceSize))

Piece(s) == SubSeq(todo[s], 1, IF Len(todo[s]) < PieceSize THEN Len(todo[s])
                                                           ELSE PieceSize)
NextPieces(s) == SubSeq(todo[s], PieceSize + 1, Len(todo[s]))

(* An error is kept, and ends the copying of the stream.                    *)
Fail(s) ==
    /\ err' = [err EXCEPT ![s] = TRUE]
    /\ broken' = [broken EXCEPT ![s] = TRUE]
    /\ at' = [at EXCEPT ![s] = "idle"]
    /\ todo' = [todo EXCEPT ![s] = <<>>]

(* AppendOutput: one transaction, and the store has one connection.  It     *)
(* stores what the limit leaves of the piece, and nothing, not even a row,  *)
(* when it leaves nothing.                                                  *)
AppendOutput(s) ==
    LET full == WasTruncated \/ Used >= limit
        cut == Len(Piece(s)) > limit - Used
        data == IF cut THEN SubSeq(Piece(s), 1, limit - Used) ELSE Piece(s)
    IN
    /\ at[s] = "append"
    /\ ~cancelled
    /\ stored' = [stored EXCEPT ![s] = IF full THEN <<>> ELSE data]
    /\ truncated' = [truncated EXCEPT ![s] = full \/ cut]
    /\ rows' = IF full THEN rows
               ELSE Append(rows, [stream |-> s, data |-> data, truncated |-> cut])
    /\ at' = [at EXCEPT ![s] = "relay"]
    /\ UNCHANGED <<inputVars, processVars, pending, trimmed, broken, todo, err,
                   marked, sent, cancelled, left, result>>

(* It fails when the context is cancelled, and may fail by itself.          *)
AppendFails(s) ==
    /\ at[s] = "append"
    /\ Fail(s)
    /\ UNCHANGED <<inputVars, processVars, pending, trimmed, stored, truncated,
                   marked, rows, sent, cancelled, left, result>>

(* The rest of the write, or back through the redactors, which now forget   *)
(* what they have passed on.                                                *)
Continue(s) ==
    /\ todo' = [todo EXCEPT ![s] = NextPieces(s)]
    /\ IF NextPieces(s) = <<>>
       THEN /\ at' = [at EXCEPT ![s] = "idle"]
            /\ pending' = [pending EXCEPT ![s] = trimmed[s]]
       ELSE /\ at' = [at EXCEPT ![s] = "append"]
            /\ UNCHANGED pending

(* Mutation: the marker is sent for every piece that is cut.                *)
ToMarkAgain(s) == truncated[s]

ToMark(s) == truncated[s] /\ ~marked[s]

(* What was stored is sent ...                                              *)
Relay(s) ==
    /\ at[s] = "relay"
    /\ IF stored[s] # <<>> /\ left
       THEN Fail(s) /\ UNCHANGED <<sent, pending>>
       ELSE /\ sent' = IF stored[s] = <<>> THEN sent
                       ELSE Append(sent, [stream |-> s, data |-> Frame(stored[s])])
            /\ IF ToMark(s)
               THEN at' = [at EXCEPT ![s] = "mark"] /\ UNCHANGED <<todo, pending>>
               ELSE Continue(s)
            /\ UNCHANGED <<err, broken>>
    /\ UNCHANGED <<inputVars, processVars, trimmed, stored, truncated, marked,
                   rows, cancelled, left, result>>

(* ... and, the first time something was cut, the marker.                   *)
Mark(s) ==
    /\ at[s] = "mark"
    /\ marked' = [marked EXCEPT ![s] = TRUE]
    /\ IF left
       THEN Fail(s) /\ UNCHANGED <<sent, pending>>
       ELSE /\ sent' = Append(sent, [stream |-> s, data |-> <<Marker>>])
            /\ Continue(s)
            /\ UNCHANGED <<err, broken>>
    /\ UNCHANGED <<inputVars, processVars, trimmed, stored, truncated, rows,
                   cancelled, left, result>>

-----------------------------------------------------------------------------
(* The end of the process and of the execution.                             *)

(* The process exits by itself or is killed when the context is cancelled,  *)
(* and Run returns when the copying goroutines have.  An exit status, also  *)
(* that of a killed ssh, is a result; anything else is an error.            *)
RunReturns ==
    /\ process = "running"
    /\ \A s \in Streams : at[s] = "idle"
    /\ process' = "exited"
    /\ result' \in {"none", "failed"}
    /\ UNCHANGED <<inputVars, emitted, closed, pending, trimmed, broken,
                   writerVars, rows, sent, cancelled, left>>

(* The deferred Close of the redactors: a stream's from the first to the    *)
(* last, the streams one after the other.                                   *)
Closings == <<<<"stdout", 1>>, <<"stdout", 2>>, <<"stderr", 1>>, <<"stderr", 2>>>>

CloseRedactor(k) ==
    LET s == Closings[k][1]
        i == Closings[k][2]
    IN
    /\ process = "exited"
    /\ closed = k - 1
    /\ \A r \in Streams : at[r] = "idle"
    /\ closed' = k
    /\ IF i \in DOMAIN secrets /\ pending[s][i] # <<>>
       THEN Write(s, Chain(s, i, <<>>, TRUE))
       ELSE UNCHANGED <<pending, trimmed, todo, at, broken>>
    /\ UNCHANGED <<inputVars, emitted, process, stored, truncated, err, marked,
                   rows, sent, cancelled, left, result>>

(* Mutation: execute looks at the error of Exec alone.                      *)
ReturnOnExec ==
    /\ process = "exited"
    /\ closed = Len(Closings)
    /\ \A s \in Streams : at[s] = "idle"
    /\ process' = "returned"
    /\ result' = IF result = "failed" THEN "failed" ELSE "exit"
    /\ UNCHANGED <<inputVars, emitted, closed, pending, trimmed, broken, writerVars,
                   rows, sent, cancelled, left>>

(* execute reads the errors of both writers after Exec has returned.        *)
Return ==
    /\ process = "exited"
    /\ closed = Len(Closings)
    /\ \A s \in Streams : at[s] = "idle"
    /\ process' = "returned"
    /\ result' = IF result = "failed" \/ \E s \in Streams : err[s]
                 THEN "failed" ELSE "exit"
    /\ UNCHANGED <<inputVars, emitted, closed, pending, trimmed, broken,
                   writerVars, rows, sent, cancelled, left>>

Cancel ==
    /\ ~cancelled
    /\ process # "returned"
    /\ cancelled' = TRUE
    /\ UNCHANGED <<inputVars, processVars, pending, trimmed, broken, writerVars,
                   rows, sent, left, result>>

AgentLeaves ==
    /\ ~left
    /\ process # "returned"
    /\ left' = TRUE
    /\ UNCHANGED <<inputVars, processVars, pending, trimmed, broken, writerVars,
                   rows, sent, cancelled, result>>

Next ==
    \/ \E s \in Streams : Emit(s) \/ AppendOutput(s) \/ AppendFails(s) \/ Relay(s)
                            \/ Mark(s)
    \/ \E k \in DOMAIN Closings : CloseRedactor(k)
    \/ RunReturns
    \/ Return
    \/ Cancel
    \/ AgentLeaves

Spec == Init /\ [][Next]_vars

-----------------------------------------------------------------------------
(* Properties.                                                              *)

IsMarker(frame) == frame.data = <<Marker>>

(* The frames of a stream that carry output.                                *)
DataOf(s) ==
    Kept(sent, {i \in DOMAIN sent : sent[i].stream = s /\ ~IsMarker(sent[i])})

(* The output so far, with every secret replaced as if it came in one       *)
(* piece.                                                                   *)
Expected(s) == RedactMany(SubSeq(text[s], 1, emitted[s]), secrets)
Separable == \A i \in DOMAIN secrets : Borderless(secrets[i])

TypeOK ==
    /\ \A s \in Streams : text[s] \in TextsOf[s]
    /\ secrets \in SecretLists
    /\ limit \in Limits
    /\ emitted \in [Streams -> Nat]
    /\ \A s \in Streams : emitted[s] <= Len(text[s])
    /\ process \in {"running", "exited", "returned"}
    /\ closed \in 0 .. Len(Closings)
    /\ pending \in [Streams -> [DOMAIN secrets -> Seq(Bytes)]]
    /\ trimmed \in [Streams -> [DOMAIN secrets -> Seq(Bytes)]]
    /\ broken \in [Streams -> BOOLEAN]
    /\ todo \in [Streams -> Seq(Bytes)]
    /\ at \in [Streams -> {"idle", "append", "relay", "mark"}]
    /\ stored \in [Streams -> Seq(Bytes)]
    /\ truncated \in [Streams -> BOOLEAN]
    /\ err \in [Streams -> BOOLEAN]
    /\ marked \in [Streams -> BOOLEAN]
    /\ rows \in Seq([stream : Streams, data : Seq(Bytes), truncated : BOOLEAN])
    /\ sent \in Seq([stream : Streams, data : Seq(Bytes \cup {Marker, Broken})])
    /\ cancelled \in BOOLEAN
    /\ left \in BOOLEAN
    /\ result \in {"none", "failed", "exit"}

(* However the output is cut into reads and pieces, whatever fails and      *)
(* whatever is retried, the rows of a stream hold a beginning of its        *)
(* redacted text: no secret, nothing twice, nothing skipped.  Secrets that  *)
(* overlap themselves are excepted.                                         *)
StoredIsRedacted ==
    Separable => \A s \in Streams : IsPrefix(Joined(Of(s, rows)), Expected(s))

(* The agent is sent what is in the rows, in their order and never before   *)
(* they are written; the marker comes last, once per stream.                *)
RelayFollowsStore ==
    \A s \in Streams :
        LET frames == [i \in DOMAIN Of(s, rows) |-> Frame(Of(s, rows)[i].data)]
            data == [i \in DOMAIN DataOf(s) |-> DataOf(s)[i].data]
        IN  /\ IsPrefix(data, frames)
            /\ at[s] # "relay" /\ ~err[s] => data = frames
            /\ \A i \in DOMAIN Of(s, sent) :
                  IsMarker(Of(s, sent)[i]) => i = Len(Of(s, sent))

(* The limit holds for both streams together, is used up before anything    *)
(* is dropped, and no row follows a truncated one.                          *)
LimitHeld ==
    /\ Len(Joined(rows)) <= limit
    /\ \A s \in Streams : marked[s] \/ truncated[s] => Len(Joined(rows)) = limit
    /\ \A i \in DOMAIN rows : rows[i].truncated => i = Len(rows)

(* A command gets an exit status only if its output is accounted for: each  *)
(* stream is stored and sent to its end, or the agent was told that it was  *)
(* cut.                                                                     *)
ResultIsComplete ==
    result = "exit" /\ Separable =>
        \A s \in Streams :
            /\ Len(DataOf(s)) = Len(Of(s, rows))
            /\ \/ Joined(Of(s, rows)) = Expected(s)
               \/ \E i \in DOMAIN sent : sent[i].stream = s /\ IsMarker(sent[i])
=============================================================================
