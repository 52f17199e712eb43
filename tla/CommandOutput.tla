----------------------------- MODULE CommandOutput -----------------------------
(***************************************************************************)
(* One command in a standalone terminal and the function that orchestrates *)
(* it: its lines are kept in memory, shown to the user in chunks, written  *)
(* to a log once there are too many, and handed to the background tracker  *)
(* when the user proceeds while it runs or the time limit passes.          *)
(*                                                                         *)
(* Sources: src/integrations/terminal/CommandOrchestrator.ts, the tracker  *)
(* of standalone/StandaloneTerminalManager.ts and the events of            *)
(* standalone/StandaloneTerminalProcess.ts.  A line is its number.  Which  *)
(* lines make the output or the buffer large in bytes is left open.  Every *)
(* await of say, ask or a timer lets other events in; a say or an ask of   *)
(* an aborted task throws.  The VS Code terminal, whose process stops its  *)
(* lines on continue, the stuck timers (telemetry only) and the text of    *)
(* the replies are left out.                                               *)
(***************************************************************************)
EXTENDS Naturals, Integers, Sequences

CONSTANTS MaxLines,     \* bound on the lines of the command
          FileAfter,    \* MAX_LINES_BEFORE_FILE
          Chunk,        \* CHUNK_LINE_COUNT
          Keep          \* SUMMARY_LINES_TO_KEEP

ASSUME OutputAssumption == /\ MaxLines \in Nat /\ FileAfter \in Nat /\ Chunk \in Nat \ {0}
                           /\ Keep \in Nat \ {0} /\ 2 * Keep <= FileAfter

VARIABLES limited,      \* a timeout was given
          interactive,  \* not suppressUserInteraction
          proc,         \* the child process
          emitted,      \* lines it has emitted
          memory,       \* outputLines
          buffer,       \* outputBuffer
          timer,        \* chunkTimer is armed
          total,        \* totalLineCount
          inFile,       \* isWritingToFile
          stream,       \* largeOutputLogStream
          log,          \* what it was given
          first, last,  \* firstLines, lastLines
          switch,       \* the say that switchToFileBased awaits
          held,         \* the line whose handler awaits it, or 0
          asked,        \* an ask of this command waits for its answer
          didContinue,
          cancelled,    \* didCancelViaUi
          feedback,     \* userFeedback is set
          announcing,   \* answers whose say is awaited before process.continue
          background,   \* what set backgroundTrackingResult
          tracks,       \* the log of each tracker
          main,         \* where the function is
          reply,        \* what it has returned
          aborted,      \* taskState.abort
          unlogged,     \* history variable: lines that came while the log was not open
          early         \* history variable: the log began before FileAfter lines

process == <<limited, interactive, proc, emitted>>
text == <<memory, total, inFile, stream, log, first, last, switch, held, unlogged, early>>
ui == <<buffer, timer, asked>>
answers == <<didContinue, cancelled, feedback, announcing>>
result == <<background, tracks, main, reply>>
vars == <<process, text, ui, answers, result, aborted>>

Lines == 1..MaxLines
NoReply == [kind |-> "none", shown |-> <<>>, skipped |-> 0]

LinesOK == /\ emitted \in 0..MaxLines /\ total \in 0..MaxLines /\ held \in 0..MaxLines
           /\ memory \in Seq(Lines) /\ buffer \in Seq(Lines) /\ log \in Seq(Lines)
           /\ first \in Seq(Lines) /\ last \in Seq(Lines) /\ unlogged \subseteq Lines

FlagsOK == /\ limited \in BOOLEAN /\ interactive \in BOOLEAN /\ aborted \in BOOLEAN
           /\ inFile \in BOOLEAN /\ timer \in BOOLEAN /\ asked \in BOOLEAN /\ early \in BOOLEAN
           /\ didContinue \in BOOLEAN /\ cancelled \in BOOLEAN /\ feedback \in BOOLEAN

StagesOK == /\ proc \in {"running", "closed", "failed"}
            /\ stream \in {"none", "open", "ended"}
            /\ switch \in {"none", "flushing", "telling", "done", "broken"}
            /\ announcing \subseteq {"proceed", "cancel"}
            /\ background \in {"none", "proceed", "timeout"}
            /\ main \in {"waiting", "timed out", "settling", "returned", "thrown"}

ResultOK == /\ tracks \in Seq(Seq(Lines))
            /\ reply.kind \in {"none", "background", "cancelled", "feedback", "completed", "running"}
            /\ reply.shown \in Seq(Lines) /\ reply.skipped \in Int

TypeOK == LinesOK /\ FlagsOK /\ StagesOK /\ ResultOK

Init == /\ limited \in BOOLEAN /\ interactive \in BOOLEAN
        /\ proc = "running" /\ emitted = 0
        /\ memory = <<>> /\ buffer = <<>> /\ log = <<>> /\ first = <<>> /\ last = <<>>
        /\ total = 0 /\ inFile = FALSE /\ stream = "none" /\ switch = "none" /\ held = 0
        /\ timer = FALSE /\ asked = FALSE
        /\ didContinue = FALSE /\ cancelled = FALSE /\ feedback = FALSE /\ announcing = {}
        /\ background = "none" /\ tracks = <<>> /\ main = "waiting" /\ reply = NoReply
        /\ aborted = FALSE /\ unlogged = {} /\ early = FALSE

-----------------------------------------------------------------------------
Start(s, n) == SubSeq(s, 1, IF Len(s) < n THEN Len(s) ELSE n)

End(s, n) == SubSeq(s, IF Len(s) < n THEN 1 ELSE Len(s) - n + 1, Len(s))

\* say makes a pending ask throw; in an aborted task it throws itself.
Throws == interactive /\ aborted
Say == asked' = (asked /\ Throws)
Ask == asked' = ((interactive /\ ~Throws) \/ (asked /\ Throws))

\* flushBuffer with something to show.
Flush == /\ buffer' = <<>>
         /\ IF didContinue THEN Say ELSE Ask

Return(kind, shown, skipped) ==
  /\ main' = "returned"
  /\ reply' = [kind |-> kind, shown |-> shown, skipped |-> skipped]
  /\ stream' = IF stream = "open" THEN "ended" ELSE stream

\* Mutant: a command that is tracked is not continued.
ResumeUntracked == IF main # "waiting" \/ background # "none" THEN UNCHANGED <<main, reply, stream>>
                   ELSE main' = "settling" /\ UNCHANGED <<reply, stream>>

\* The promise the function awaits resolves, by process.continue or the end of the process.
Resume == IF main # "waiting" THEN UNCHANGED <<main, reply, stream>>
          ELSE IF background # "none" THEN Return("background", memory, 0)
          ELSE main' = "settling" /\ UNCHANGED <<reply, stream>>

\* Mutant: the tracker is given what the user has not seen yet.
TrackBuffer == tracks' = Append(tracks, buffer)

\* onProceedWhileRunning: the log begins with the captured lines, and the tracker listens.
Track == tracks' = Append(tracks, memory)

-----------------------------------------------------------------------------
\* The "line" handler.

Listening == ~cancelled /\ background = "none"

\* Mutant: only the last lines go to the log.
OpenLogWithSummary(n) == /\ timer' = FALSE
                         /\ stream' = "open" /\ log' = End(memory, Keep)
                         /\ first' = Start(memory, Keep) /\ last' = End(memory, Keep)
                         /\ switch' = IF Throws THEN "broken" ELSE "telling"
                         /\ unlogged' = IF Throws THEN unlogged \union {n} ELSE unlogged
                         /\ held' = IF Throws THEN 0 ELSE n
                         /\ Say

\* switchToFileBased from the creation of the stream to its last say; that one throws in
\* an aborted task, and the line whose handler called it is not written.
OpenLog(n) == /\ timer' = FALSE
              /\ stream' = "open" /\ log' = memory
              /\ first' = Start(memory, Keep) /\ last' = End(memory, Keep)
              /\ switch' = IF Throws THEN "broken" ELSE "telling"
              /\ unlogged' = IF Throws THEN unlogged \union {n} ELSE unlogged
              /\ held' = IF Throws THEN 0 ELSE n
              /\ Say

\* The line that makes the output large.  What is buffered is shown before.
BeginSwitch(n) ==
  /\ inFile' = TRUE /\ buffer' = <<>>
  /\ early' = (Len(memory) < FileAfter)
  /\ IF buffer # <<>> /\ ~didContinue
       THEN /\ Say
            /\ switch' = IF Throws THEN "broken" ELSE "flushing"
            /\ held' = IF Throws THEN 0 ELSE n
            /\ unlogged' = IF Throws THEN unlogged \union {n} ELSE unlogged
            /\ UNCHANGED <<timer, stream, log, first, last>>
       ELSE OpenLog(n)
  /\ UNCHANGED memory

\* A line in file mode.  Without a stream it is in lastLines only, which the opening of
\* the log replaces.
LogLine(n) == /\ log' = IF stream = "open" THEN Append(log, n) ELSE log
              /\ last' = End(Append(last, n), Keep)
              /\ unlogged' = IF stream = "open" THEN unlogged ELSE unlogged \union {n}
              /\ UNCHANGED <<memory, inFile, buffer, early, timer, stream, first, switch, held, asked>>

KeepLine(n) ==
  /\ memory' = Append(memory, n)
  /\ \/ didContinue /\ Say /\ UNCHANGED <<buffer, timer>>
     \/ /\ ~didContinue
        /\ \/ Ask /\ buffer' = <<>> /\ UNCHANGED timer
           \/ /\ Len(buffer) + 1 < Chunk
              /\ buffer' = Append(buffer, n) /\ timer' = TRUE /\ UNCHANGED asked
  /\ UNCHANGED <<inFile, stream, log, first, last, switch, held, unlogged, early>>

Line == LET n == emitted + 1 IN
  /\ proc = "running" /\ emitted < MaxLines
  /\ emitted' = n
  /\ tracks' = [i \in DOMAIN tracks |-> Append(tracks[i], n)]
  /\ IF Listening
       THEN /\ total' = total + 1
            /\ \/ inFile /\ LogLine(n)
               \/ ~inFile /\ BeginSwitch(n)
               \/ ~inFile /\ Len(memory) < FileAfter /\ KeepLine(n)
       ELSE UNCHANGED <<text, ui>>
  /\ UNCHANGED <<limited, interactive, proc, answers, background, main, reply, aborted>>

\* The first say of the switch returns, then the last, and the line is written.
SwitchFlushed == /\ switch = "flushing"
                 /\ OpenLog(held)
                 /\ UNCHANGED <<process, memory, total, inFile, early, buffer, answers, result, aborted>>

SwitchTold == /\ switch = "telling" /\ switch' = "done" /\ held' = 0
              /\ log' = IF stream = "open" THEN Append(log, held) ELSE log
              /\ unlogged' = IF stream = "open" THEN unlogged ELSE unlogged \union {held}
              /\ last' = End(Append(last, held), Keep)
              /\ UNCHANGED <<process, memory, total, inFile, stream, first, early, ui, answers, result,
                             aborted>>

ChunkTimer == /\ timer /\ timer' = FALSE
              /\ IF buffer = <<>> THEN UNCHANGED <<buffer, asked>> ELSE Flush
              /\ UNCHANGED <<process, text, answers, result, aborted>>

-----------------------------------------------------------------------------
\* The answer to the pending ask.

\* "Proceed While Running": the tracker starts, and a say precedes process.continue; if
\* it throws, the process is not continued.
Proceed == /\ asked
           /\ didContinue' = TRUE /\ timer' = FALSE
           /\ feedback' \in {feedback, TRUE}
           /\ background' = "proceed" /\ Track
           /\ asked' = FALSE
           /\ announcing' = IF Throws THEN announcing ELSE announcing \union {"proceed"}
           /\ UNCHANGED <<process, text, buffer, cancelled, main, reply, aborted>>

CancelViaUi == /\ asked
               /\ cancelled' = TRUE /\ feedback' = FALSE /\ didContinue' = TRUE
               /\ buffer' = <<>> /\ asked' = FALSE
               /\ announcing' = IF Throws THEN announcing ELSE announcing \union {"cancel"}
               /\ UNCHANGED <<process, text, timer, result, aborted>>

Message == /\ asked
           /\ feedback' = TRUE /\ didContinue' = TRUE
           /\ Resume
           /\ asked' = FALSE /\ buffer' = <<>>
           /\ UNCHANGED <<process, memory, total, inFile, log, first, last, switch, held, unlogged, early,
                          timer, cancelled, announcing, background, tracks, aborted>>

\* The say returns, and the process is continued.
Announced == \E a \in announcing :
  /\ announcing' = announcing \ {a}
  /\ Resume
  /\ UNCHANGED <<process, memory, total, inFile, log, first, last, switch, held, unlogged, early, ui,
                 didContinue, cancelled, feedback, background, tracks, aborted>>

-----------------------------------------------------------------------------
\* The process ends: what is buffered is shown first.
Complete == /\ proc = "running" /\ proc' = "closed"
            /\ IF didContinue \/ buffer = <<>> THEN UNCHANGED <<buffer, timer, asked>>
                                              ELSE buffer' = <<>> /\ timer' = FALSE /\ Ask
            /\ Resume
            /\ UNCHANGED <<limited, interactive, emitted, memory, total, inFile, log, first, last, switch, held, unlogged, early,
                           answers, background, tracks, aborted>>

\* The process could not be spawned: the function throws.
Fail == /\ proc = "running" /\ emitted = 0 /\ main = "waiting"
        /\ proc' = "failed" /\ main' = "thrown"
        /\ UNCHANGED <<limited, interactive, emitted, text, ui, answers, background, tracks, reply, aborted>>

\* The time limit: the tracker starts, whether or not an answer has started one.
TimeLimit == /\ limited /\ main = "waiting"
             /\ didContinue' = TRUE /\ timer' = FALSE
             /\ background' = "timeout" /\ Track
             /\ main' = IF Throws THEN "thrown" ELSE "timed out"
             /\ Say
             /\ UNCHANGED <<process, text, buffer, cancelled, feedback, announcing, reply, aborted>>

TimeLimitSaid == /\ main = "timed out"
                 /\ Return("background", memory, 0)
                 /\ UNCHANGED <<process, memory, total, inFile, log, first, last, switch, held, unlogged,
                                early, ui, answers, background, tracks, aborted>>

Outcome == IF cancelled THEN "cancelled" ELSE IF feedback THEN "feedback"
           ELSE IF proc = "closed" THEN "completed" ELSE "running"

\* 50 ms after the promise resolved: the log is closed and the result built.  The user's
\* feedback is said before it is returned.
Settled == /\ main = "settling"
           /\ \/ /\ ~(Outcome = "feedback" /\ Throws)
                 /\ Return(Outcome, IF inFile THEN first \o last ELSE memory,
                           IF inFile THEN total - Len(first) - Len(last) ELSE 0)
              \/ /\ Outcome = "feedback" /\ Throws
                 /\ main' = "thrown" /\ UNCHANGED reply
                 /\ stream' = IF stream = "open" THEN "ended" ELSE stream
           /\ IF Outcome = "feedback" THEN Say ELSE UNCHANGED asked
           /\ UNCHANGED <<process, memory, total, inFile, log, first, last, switch, held, unlogged, early,
                          buffer, timer, answers, background, tracks, aborted>>

\* abortTask sets the flag.
Abort == /\ ~aborted /\ aborted' = TRUE
         /\ UNCHANGED <<process, text, ui, answers, result>>

-----------------------------------------------------------------------------
Saying == SwitchFlushed \/ SwitchTold \/ Announced \/ TimeLimitSaid

Next == \/ Line \/ Complete \/ Fail
        \/ Saying \/ ChunkTimer \/ TimeLimit \/ Settled
        \/ Proceed \/ CancelViaUi \/ Message \/ Abort

Spec == Init /\ [][Next]_vars

\* Timers fire and says return.  The command need not end, nor the user answer.
FairSpec == Spec /\ WF_vars(Saying) /\ WF_vars(TimeLimit) /\ WF_vars(Settled)

-----------------------------------------------------------------------------
Upto(n) == [i \in 1..n |-> i]
Once(s) == \A i, j \in DOMAIN s : s[i] = s[j] => i = j
In(s) == {s[i] : i \in DOMAIN s}

\* The log of a large output has every line once ("Full output saved to"), unless the
\* output was cancelled or handed over, a line came while the log was not open, or the
\* say before it threw.  A line awaited is on its way.
LogIsWhole ==
  (stream # "none" /\ Listening /\ unlogged = {} /\ held = 0)
    => Len(log) = emitted /\ In(log) = 1..emitted

\* The first log of a command in the background has its output from the first line to the
\* last, in order: no line falls between the captured lines and the tracker's own listener,
\* however answers, time limit and lines interleave, unless the output had become large.
\* (A time limit that passes while the answer is announced starts a second tracker, whose
\* log misses the lines in between.)
BackgroundLogIsWhole ==
  ~inFile /\ ~cancelled /\ tracks # <<>> => tracks[1] = Upto(emitted)

\* The summary shows no line twice and skips no negative number of lines, unless the
\* log began early: a few long lines are first lines and last lines at once.
SummaryIsSound == ~early => Once(reply.shown) /\ reply.skipped >= 0

\* A command that ends, and one with a time limit, is answered for, with the user's
\* answer to the output or without.
Answers == proc # "running" \/ limited ~> main \in {"returned", "thrown"}

\* The reply of a command that ended says "Full output saved to": its log has every line,
\* once the switch to it is over.
FullOutputSaved ==
  [][stream = "open" /\ switch = "done" /\ reply'.kind = "completed" => In(log) = 1..emitted]_vars

=============================================================================
