------------------------- MODULE CommandOutput_proofs -------------------------
(***************************************************************************)
(* Proofs about CommandOutput for any number of lines and any limits.      *)
(*                                                                         *)
(* LogIsWhole and BackgroundLogIsWhole are strengthened by what the memory *)
(* holds at each stage: all lines before the switch (MemoryIsWhole), all   *)
(* but the awaited one until the log is opened (SwitchIsWhole), and all    *)
(* but the awaited one in the log (LogMissesHeld).                         *)
(***************************************************************************)
EXTENDS CommandOutput, RemoteSession, FunctionTheorems, SequenceTheorems, FiniteSetTheorems, TLAPS

Stages == /\ stream = "none" => log = <<>>
          /\ stream # "none" => inFile
          /\ ~inFile => switch = "none"
          /\ held # 0 <=> switch \in {"flushing", "telling"}
          /\ inFile /\ stream = "none" => switch = "flushing" \/ unlogged # {}
          /\ switch = "flushing" => stream = "none"
          /\ switch \in {"telling", "done"} => stream # "none"
          /\ background = "none" <=> tracks = <<>>

Counted == total <= emitted

MemoryIsWhole == Listening /\ ~inFile => memory = Upto(emitted)

SwitchIsWhole == (Listening /\ inFile /\ stream = "none" /\ unlogged = {})
                   => emitted > 0 /\ memory = Upto(emitted - 1) /\ held = emitted

LogMissesHeld == (Listening /\ stream # "none" /\ unlogged = {} /\ held # 0)
                   => /\ held \in 1..emitted
                      /\ Len(log) = emitted - 1 /\ In(log) = 1..emitted \ {held}

IInv == /\ TypeOK
        /\ Counted
        /\ Stages
        /\ MemoryIsWhole
        /\ SwitchIsWhole
        /\ LogMissesHeld
        /\ LogIsWhole
        /\ BackgroundLogIsWhole

-----------------------------------------------------------------------------
\* Sequences of lines.

LEMMA UptoNext == ASSUME NEW n \in Nat PROVE /\ Append(Upto(n), n + 1) = Upto(n + 1)
                                             /\ Len(Upto(n)) = n /\ In(Upto(n)) = 1..n
<1>1. Upto(n) \in Seq(Nat) /\ Len(Upto(n)) = n /\ DOMAIN Upto(n) = 1..n
  BY DEF Upto
<1>2. Append(Upto(n), n + 1) = Upto(n + 1)
  BY <1>1 DEF Upto
<1>3. In(Upto(n)) = 1..n
  BY <1>1 DEF Upto, In
<1> QED BY <1>1, <1>2, <1>3

LEMMA InAppend == ASSUME NEW s \in Seq(Lines), NEW x \in Lines
                  PROVE  In(Append(s, x)) = In(s) \union {x} /\ Len(Append(s, x)) = Len(s) + 1
<1>1. DOMAIN Append(s, x) = 1..(Len(s) + 1) /\ DOMAIN s = 1..Len(s) /\ Len(s) \in Nat
  OBVIOUS
<1>2. \A i \in 1..Len(s) : Append(s, x)[i] = s[i]
  OBVIOUS
<1>3. Append(s, x)[Len(s) + 1] = x
  OBVIOUS
<1> QED BY <1>1, <1>2, <1>3 DEF In

LEMMA Parts == ASSUME NEW s \in Seq(Lines), NEW n \in Nat \ {0}
               PROVE  Start(s, n) \in Seq(Lines) /\ End(s, n) \in Seq(Lines)
<1>1. Len(s) \in Nat /\ \A i \in 1..Len(s) : s[i] \in Lines
  OBVIOUS
<1>2. ASSUME NEW a \in 1..(Len(s) + 1), NEW b \in 0..Len(s) PROVE SubSeq(s, a, b) \in Seq(Lines)
  BY <1>1
<1>3. Start(s, n) \in Seq(Lines)
  BY <1>1, <1>2 DEF Start
<1>4. End(s, n) \in Seq(Lines)
  BY <1>1, <1>2 DEF End
<1> QED BY <1>3, <1>4

LEMMA InitIInv == Init => IInv
<1> SUFFICES ASSUME Init PROVE IInv
  OBVIOUS
<1>1. emitted = 0 /\ emitted \in 0..MaxLines
  BY OutputAssumption DEF Init
<1>2. TypeOK
  <2>1. LinesOK
    BY <1>1 DEF Init, LinesOK
  <2>2. FlagsOK
    BY DEF Init, FlagsOK
  <2>3. StagesOK
    BY DEF Init, StagesOK
  <2>4. ResultOK
    BY DEF Init, ResultOK, NoReply
  <2> QED BY <2>1, <2>2, <2>3, <2>4 DEF TypeOK
<1>3. Upto(0) = <<>>
  BY DEF Upto
<1> QED BY <1>1, <1>2, <1>3 DEF Init, IInv, Counted, Stages, MemoryIsWhole, SwitchIsWhole, LogMissesHeld, LogIsWhole,
           BackgroundLogIsWhole

-----------------------------------------------------------------------------
\* Steps that leave the lines alone: the log may be closed, the output cancelled, and a
\* tracker started with what the memory holds.
LEMMA QuietStep ==
  ASSUME IInv, TypeOK',
         UNCHANGED <<emitted, total, memory, inFile, log, switch, held, unlogged>>,
         stream' = stream \/ (stream = "open" /\ stream' = "ended"),
         cancelled => cancelled',
         UNCHANGED <<tracks, background>> \/ (Track /\ background' # "none")
  PROVE  IInv'
<1>1. Listening' => Listening
  <2>1. background # "none" => background' # "none"
    BY DEF IInv, Stages
  <2> QED BY <2>1 DEF Listening
<1>2. tracks' = <<>> <=> background' = "none"
  BY DEF IInv, Stages, TypeOK, ResultOK, Track
<1>3. Stages'
  BY <1>2 DEF IInv, Stages
<1>4. MemoryIsWhole' /\ SwitchIsWhole' /\ LogMissesHeld' /\ LogIsWhole'
  BY <1>1 DEF IInv, MemoryIsWhole, SwitchIsWhole, LogMissesHeld, LogIsWhole, Upto, In
<1>5. BackgroundLogIsWhole'
  <2> SUFFICES ASSUME ~inFile, ~cancelled, tracks' # <<>> PROVE tracks'[1] = Upto(emitted)
    BY DEF BackgroundLogIsWhole, Upto
  <2>1. CASE tracks # <<>>
    <3>1. tracks'[1] = tracks[1]
      <4>1. tracks \in Seq(Seq(Lines)) /\ Len(tracks) \in Nat \ {0}
        BY <2>1, EmptySeq DEF IInv, TypeOK, ResultOK
      <4>2. Append(tracks, memory)[1] = tracks[1]
        BY <4>1
      <4> QED BY <4>2 DEF Track
    <3> QED BY <2>1, <3>1 DEF IInv, BackgroundLogIsWhole
  <2>2. CASE tracks = <<>>
    <3>1. background = "none" /\ memory = Upto(emitted)
      BY <2>2 DEF IInv, Stages, MemoryIsWhole, Listening
    <3>2. tracks' = <<memory>>
      BY <2>2 DEF Track
    <3> QED BY <3>1, <3>2
  <2> QED BY <2>1, <2>2
<1> QED BY <1>3, <1>4, <1>5 DEF IInv, Counted

Replied == /\ reply'.kind \in {"none", "background", "cancelled", "feedback", "completed", "running"}
           /\ reply'.shown \in Seq(Lines) /\ reply'.skipped \in Int

LEMMA ReturnTypes ==
  ASSUME NEW kind \in {"background", "cancelled", "feedback", "completed", "running"},
         NEW shown \in Seq(Lines), NEW skipped \in Int, Return(kind, shown, skipped)
  PROVE  Replied
BY DEF Return, Replied

LEMMA ResumeTypes ==
  ASSUME TypeOK, Resume
  PROVE  /\ main' \in {"waiting", "timed out", "settling", "returned", "thrown"}
         /\ Replied
         /\ stream' \in {"none", "open", "ended"}
         /\ stream' = stream \/ (stream = "open" /\ stream' = "ended")
<1>1. CASE main # "waiting"
  BY <1>1 DEF TypeOK, StagesOK, ResultOK, Resume, Replied
<1>2. CASE main = "waiting" /\ background # "none"
  <2>1. Return("background", memory, 0)
    BY <1>2 DEF Resume
  <2>2. Replied
    BY <2>1, ReturnTypes DEF TypeOK, LinesOK
  <2> QED BY <2>1, <2>2 DEF TypeOK, StagesOK, Return
<1>3. CASE main = "waiting" /\ background = "none"
  BY <1>3 DEF TypeOK, StagesOK, ResultOK, Resume, Replied
<1> QED BY <1>1, <1>2, <1>3

LEMMA TrackTypes == ASSUME TypeOK, Track PROVE tracks' \in Seq(Seq(Lines))
BY DEF TypeOK, LinesOK, ResultOK, Track

\* The lines from their parts.
LEMMA LinesFrom ==
  ASSUME emitted' \in 0..MaxLines, total' \in 0..MaxLines, held' \in 0..MaxLines,
         memory' \in Seq(Lines), buffer' \in Seq(Lines), log' \in Seq(Lines),
         first' \in Seq(Lines), last' \in Seq(Lines), unlogged' \subseteq Lines
  PROVE  LinesOK'
<1>1. Lines' = Lines
  BY DEF Lines
<1> QED BY <1>1 DEF LinesOK

\* The lines stay as they are but for what is buffered.
LEMMA SameLines ==
  ASSUME TypeOK, UNCHANGED <<emitted, total, held, memory, log, first, last, unlogged>>,
         buffer' = <<>> \/ buffer' = buffer
  PROVE  LinesOK'
<1>1. <<>> \in Seq(Lines)
  OBVIOUS
<1>2. buffer \in Seq(Lines)
  BY DEF TypeOK, LinesOK
<1>3. buffer' \in Seq(Lines)
  <2>1. CASE buffer' = <<>>
    BY <1>1, <2>1
  <2>2. CASE buffer' = buffer
    BY <1>2, <2>2
  <2> QED BY <2>1, <2>2
<1>4. /\ emitted' \in 0..MaxLines /\ total' \in 0..MaxLines /\ held' \in 0..MaxLines
      /\ memory' \in Seq(Lines) /\ log' \in Seq(Lines)
      /\ first' \in Seq(Lines) /\ last' \in Seq(Lines) /\ unlogged' \subseteq Lines
  BY DEF TypeOK, LinesOK
<1> QED BY <1>3, <1>4, LinesFrom

LEMMA ChunkTimerKeepsIInv == ASSUME IInv, ChunkTimer PROVE IInv'
<1>1. LinesOK'
  <2>1. buffer' = <<>> \/ buffer' = buffer
    BY DEF ChunkTimer, Flush
  <2> QED BY <2>1, SameLines DEF ChunkTimer, IInv, process, text
<1>2. FlagsOK'
  BY DEF ChunkTimer, Flush, Say, Ask, IInv, TypeOK, FlagsOK, process, text, answers
<1>3. StagesOK' /\ ResultOK'
  <2>1. StagesOK'
    BY DEF ChunkTimer, IInv, TypeOK, StagesOK, process, text, answers, result
  <2>2. ResultOK'
    BY DEF ChunkTimer, IInv, TypeOK, ResultOK, process, text, answers, result
  <2> QED BY <2>1, <2>2
<1> QED BY <1>1, <1>2, <1>3, QuietStep DEF TypeOK, ChunkTimer, process, text, answers, result

LEMMA ProceedKeepsIInv == ASSUME IInv, Proceed PROVE IInv'
<1>1. LinesOK'
  BY SameLines DEF Proceed, IInv, TypeOK, LinesOK, process, text
<1>2. FlagsOK'
  BY DEF Proceed, IInv, TypeOK, FlagsOK, process, text
<1>3. StagesOK' /\ ResultOK'
  <2>1. StagesOK'
    BY TrackTypes DEF Proceed, IInv, TypeOK, StagesOK, process, text
  <2>2. ResultOK'
    BY TrackTypes DEF Proceed, IInv, TypeOK, ResultOK, process, text
  <2> QED BY <2>1, <2>2
<1> QED BY <1>1, <1>2, <1>3, QuietStep DEF TypeOK, Proceed, process, text

LEMMA CancelKeepsIInv == ASSUME IInv, CancelViaUi PROVE IInv'
<1>1. LinesOK'
  BY SameLines DEF CancelViaUi, IInv, process, text
<1>2. FlagsOK'
  BY DEF CancelViaUi, IInv, TypeOK, FlagsOK, process, text
<1>3. StagesOK' /\ ResultOK'
  <2>1. StagesOK'
    BY DEF CancelViaUi, IInv, TypeOK, StagesOK, process, text, result
  <2>2. ResultOK'
    BY DEF CancelViaUi, IInv, TypeOK, ResultOK, process, text, result
  <2> QED BY <2>1, <2>2
<1> QED BY <1>1, <1>2, <1>3, QuietStep DEF TypeOK, CancelViaUi, process, text, result

LEMMA MessageKeepsIInv == ASSUME IInv, Message PROVE IInv'
<1>1. LinesOK'
  BY SameLines DEF Message, IInv, process
<1>2. FlagsOK'
  BY DEF Message, IInv, TypeOK, FlagsOK, process
<1>3. StagesOK' /\ ResultOK'
  <2>1. StagesOK'
    BY ResumeTypes DEF Message, IInv, TypeOK, StagesOK, process, Replied
  <2>2. ResultOK'
    BY ResumeTypes DEF Message, IInv, TypeOK, ResultOK, process, Replied
  <2> QED BY <2>1, <2>2
<1> QED BY <1>1, <1>2, <1>3, ResumeTypes, QuietStep DEF TypeOK, Message, process, IInv

LEMMA AnnouncedKeepsIInv == ASSUME IInv, Announced PROVE IInv'
<1>1. LinesOK'
  BY SameLines DEF Announced, IInv, TypeOK, LinesOK, process, ui
<1>2. FlagsOK'
  BY DEF Announced, IInv, TypeOK, FlagsOK, process, ui
<1>3. StagesOK' /\ ResultOK'
  <2>1. StagesOK'
    BY ResumeTypes DEF Announced, IInv, TypeOK, StagesOK, process, ui, Replied
  <2>2. ResultOK'
    BY ResumeTypes DEF Announced, IInv, TypeOK, ResultOK, process, ui, Replied
  <2> QED BY <2>1, <2>2
<1>4. stream' = stream \/ (stream = "open" /\ stream' = "ended")
  BY ResumeTypes DEF Announced, IInv
<1>5. UNCHANGED <<emitted, total, memory, inFile, log, switch, held, unlogged, cancelled, tracks, background>>
  BY DEF Announced, process
<1> QED BY <1>1, <1>2, <1>3, <1>4, <1>5, QuietStep DEF TypeOK

LEMMA CompleteKeepsIInv == ASSUME IInv, Complete PROVE IInv'
<1>1. LinesOK'
  <2>1. buffer' = <<>> \/ buffer' = buffer
    BY DEF Complete
  <2> QED BY <2>1, SameLines DEF Complete, IInv
<1>2. FlagsOK'
  BY DEF Complete, Ask, IInv, TypeOK, FlagsOK, answers
<1>3. StagesOK' /\ ResultOK'
  <2>1. StagesOK'
    BY ResumeTypes DEF Complete, IInv, TypeOK, StagesOK, answers, Replied
  <2>2. ResultOK'
    BY ResumeTypes DEF Complete, IInv, TypeOK, ResultOK, answers, Replied
  <2> QED BY <2>1, <2>2
<1> QED BY <1>1, <1>2, <1>3, ResumeTypes, QuietStep DEF TypeOK, Complete, answers, IInv

LEMMA FailKeepsIInv == ASSUME IInv, Fail PROVE IInv'
<1>1. LinesOK'
  BY SameLines DEF Fail, IInv, TypeOK, LinesOK, text, ui
<1>2. FlagsOK'
  BY DEF Fail, IInv, TypeOK, FlagsOK, text, ui, answers
<1>3. StagesOK' /\ ResultOK'
  <2>1. StagesOK'
    BY DEF Fail, IInv, TypeOK, StagesOK, text, answers
  <2>2. ResultOK'
    BY DEF Fail, IInv, TypeOK, ResultOK, text, answers
  <2> QED BY <2>1, <2>2
<1> QED BY <1>1, <1>2, <1>3, QuietStep DEF TypeOK, Fail, text, answers

LEMMA TimeLimitKeepsIInv == ASSUME IInv, TimeLimit PROVE IInv'
<1>1. LinesOK'
  BY SameLines DEF TimeLimit, IInv, TypeOK, LinesOK, process, text
<1>2. FlagsOK'
  BY DEF TimeLimit, Say, IInv, TypeOK, FlagsOK, process, text
<1>3. StagesOK' /\ ResultOK'
  <2>1. StagesOK'
    BY TrackTypes DEF TimeLimit, IInv, TypeOK, StagesOK, process, text
  <2>2. ResultOK'
    BY TrackTypes DEF TimeLimit, IInv, TypeOK, ResultOK, process, text
  <2> QED BY <2>1, <2>2
<1> QED BY <1>1, <1>2, <1>3, QuietStep DEF TypeOK, TimeLimit, process, text

LEMMA TimeLimitSaidKeepsIInv == ASSUME IInv, TimeLimitSaid PROVE IInv'
<1>1. /\ main' = "returned" /\ stream' = IF stream = "open" THEN "ended" ELSE stream
      /\ Replied
  <2>1. Return("background", memory, 0) /\ memory \in Seq(Lines)
    BY DEF TimeLimitSaid, IInv, TypeOK, LinesOK
  <2>2. Replied
    BY <2>1, ReturnTypes
  <2> QED BY <2>1, <2>2 DEF Return
<1>2. LinesOK'
  BY SameLines DEF TimeLimitSaid, IInv, TypeOK, LinesOK, process, ui
<1>3. FlagsOK'
  BY DEF TimeLimitSaid, IInv, TypeOK, FlagsOK, process, ui, answers
<1>4. StagesOK' /\ ResultOK'
  BY <1>1 DEF TimeLimitSaid, IInv, TypeOK, StagesOK, ResultOK, Replied, process, answers
<1> QED BY <1>1, <1>2, <1>3, <1>4, QuietStep DEF TypeOK, TimeLimitSaid, process, answers

LEMMA SettledKeepsIInv == ASSUME IInv, Settled PROVE IInv'
<1>1. main' \in {"returned", "thrown"} /\ stream' = IF stream = "open" THEN "ended" ELSE stream
  BY DEF Settled, Return
<1>2. Replied
  <2>1. first \o last \in Seq(Lines) /\ memory \in Seq(Lines)
        /\ total - Len(first) - Len(last) \in Int
    BY DEF IInv, TypeOK, LinesOK
  <2>2. Outcome \in {"none", "background", "cancelled", "feedback", "completed", "running"}
    BY DEF Outcome
  <2>3. CASE reply' = reply
    BY <2>3 DEF IInv, TypeOK, ResultOK, Replied
  <2>4. CASE Return(Outcome, IF inFile THEN first \o last ELSE memory,
                    IF inFile THEN total - Len(first) - Len(last) ELSE 0)
    <3> HIDE DEF Outcome
    <3> QED BY <2>1, <2>2, <2>4 DEF Return, Replied
  <2> HIDE DEF Outcome
  <2> QED BY <2>3, <2>4 DEF Settled
<1>3. LinesOK'
  BY SameLines DEF Settled, IInv, TypeOK, LinesOK, process
<1>4. FlagsOK'
  BY DEF Settled, Say, IInv, TypeOK, FlagsOK, process, answers
<1>5. StagesOK' /\ ResultOK'
  <2>1. StagesOK'
    BY <1>1, <1>2 DEF Settled, IInv, TypeOK, StagesOK, Replied, process, answers
  <2>2. ResultOK'
    BY <1>1, <1>2 DEF Settled, IInv, TypeOK, ResultOK, Replied, process, answers
  <2> QED BY <2>1, <2>2
<1> QED BY <1>1, <1>3, <1>4, <1>5, QuietStep DEF TypeOK, Settled, process, answers

LEMMA AbortKeepsIInv == ASSUME IInv, Abort PROVE IInv'
<1>1. LinesOK'
  BY SameLines DEF Abort, IInv, TypeOK, LinesOK, process, text, ui
<1>2. FlagsOK'
  BY DEF Abort, IInv, TypeOK, FlagsOK, process, text, ui, answers
<1>3. StagesOK' /\ ResultOK'
  <2>1. StagesOK'
    BY DEF Abort, IInv, TypeOK, StagesOK, process, text, answers, result
  <2>2. ResultOK'
    BY DEF Abort, IInv, TypeOK, ResultOK, process, text, answers, result
  <2> QED BY <2>1, <2>2
<1> QED BY <1>1, <1>2, <1>3, QuietStep DEF TypeOK, Abort, process, text, answers, result

-----------------------------------------------------------------------------
\* The switch: the log is opened with the memory, and misses the awaited line.
LEMMA OpenLogTypes ==
  ASSUME TypeOK, NEW n \in Lines, OpenLog(n)
  PROVE  /\ timer' = FALSE /\ stream' = "open" /\ log' = memory /\ asked' \in BOOLEAN
         /\ first' \in Seq(Lines) /\ last' \in Seq(Lines)
         /\ \/ switch' = "telling" /\ held' = n /\ unlogged' = unlogged
            \/ switch' = "broken" /\ held' = 0 /\ unlogged' = unlogged \union {n}
BY Parts, OutputAssumption DEF TypeOK, LinesOK, FlagsOK, OpenLog, Say

LEMMA SwitchFlushedKeepsIInv == ASSUME IInv, SwitchFlushed PROVE IInv'
<1>1. held \in Lines /\ inFile /\ stream = "none"
  <2>1. held # 0 /\ stream = "none" /\ inFile
    BY DEF IInv, TypeOK, FlagsOK, Stages, SwitchFlushed
  <2>2. held \in Lines
    BY <2>1, OutputAssumption DEF IInv, TypeOK, LinesOK, Lines
  <2> QED BY <2>1, <2>2
<1>2. /\ timer' = FALSE /\ stream' = "open" /\ log' = memory /\ asked' \in BOOLEAN
      /\ first' \in Seq(Lines) /\ last' \in Seq(Lines)
      /\ \/ switch' = "telling" /\ held' = held /\ unlogged' = unlogged
         \/ switch' = "broken" /\ held' = 0 /\ unlogged' = unlogged \union {held}
  BY <1>1, OpenLogTypes DEF IInv, SwitchFlushed
<1>3. UNCHANGED <<limited, interactive, proc, emitted, memory, total, inFile, early, buffer, didContinue, cancelled,
                 feedback, announcing, background, tracks, main, reply, aborted>>
  BY DEF SwitchFlushed, process, answers, result
<1>4. TypeOK'
  <2>1. LinesOK'
    <3>0. held \in 0..MaxLines /\ 0 \in 0..MaxLines /\ unlogged \subseteq Lines
      BY OutputAssumption DEF IInv, TypeOK, LinesOK
    <3>1. held' \in 0..MaxLines /\ unlogged' \subseteq Lines
      BY <1>1, <1>2, <3>0
    <3>2. /\ emitted' \in 0..MaxLines /\ total' \in 0..MaxLines
          /\ memory' \in Seq(Lines) /\ buffer' \in Seq(Lines) /\ log' \in Seq(Lines)
      BY <1>2, <1>3 DEF IInv, TypeOK, LinesOK
    <3> QED BY <1>2, <3>1, <3>2, LinesFrom
  <2>2. FlagsOK'
    BY <1>1, <1>2, <1>3 DEF IInv, TypeOK, FlagsOK
  <2>3. StagesOK' /\ ResultOK'
    BY <1>1, <1>2, <1>3 DEF IInv, TypeOK, StagesOK, ResultOK
  <2> QED BY <2>1, <2>2, <2>3 DEF TypeOK
<1>5. Stages'
  BY <1>1, <1>2, <1>3 DEF IInv, Stages, SwitchFlushed
<1>6. MemoryIsWhole' /\ SwitchIsWhole' /\ BackgroundLogIsWhole'
  BY <1>1, <1>2, <1>3 DEF MemoryIsWhole, SwitchIsWhole, BackgroundLogIsWhole
<1>7. ASSUME Listening', unlogged' = {}
      PROVE  held' = held /\ held # 0 /\ emitted > 0 /\ memory = Upto(emitted - 1) /\ held = emitted
  BY <1>1, <1>2, <1>3, <1>7 DEF IInv, SwitchIsWhole, Listening, Stages, SwitchFlushed
<1>8. ASSUME Listening', unlogged' = {}
      PROVE  held \in 1..emitted /\ Len(log') = emitted - 1 /\ In(log') = 1..emitted \ {held}
  <2>1. emitted - 1 \in Nat /\ emitted \in Nat
    BY <1>7, <1>8 DEF IInv, TypeOK, LinesOK
  <2>2. Len(log') = emitted - 1 /\ In(log') = 1..(emitted - 1)
    BY <1>2, <1>7, <1>8, <2>1, UptoNext
  <2> QED BY <1>7, <1>8, <2>1, <2>2
<1>9. LogMissesHeld' /\ LogIsWhole'
  BY <1>3, <1>7, <1>8 DEF LogMissesHeld, LogIsWhole, In
<1>10. Counted'
  BY <1>3 DEF IInv, Counted
<1> QED BY <1>4, <1>5, <1>6, <1>9, <1>10 DEF IInv

LEMMA SwitchToldKeepsIInv == ASSUME IInv, SwitchTold PROVE IInv'
<1>1. held \in Lines /\ inFile /\ stream # "none" /\ held' = 0 /\ switch' = "done"
  <2>1. held # 0 /\ held' = 0 /\ switch' = "done"
    BY DEF IInv, Stages, SwitchTold
  <2>2. held \in Lines
    BY <2>1, OutputAssumption DEF IInv, TypeOK, LinesOK, Lines
  <2>3. inFile /\ stream # "none"
    BY DEF IInv, TypeOK, FlagsOK, Stages, SwitchTold
  <2> QED BY <2>1, <2>2, <2>3
<1>2. UNCHANGED <<limited, interactive, proc, emitted, memory, total, inFile, stream, first, early, buffer, timer,
                 asked, didContinue, cancelled, feedback, announcing, background, tracks, main, reply, aborted>>
  BY DEF SwitchTold, process, ui, answers, result
<1>3. /\ log' = IF stream = "open" THEN Append(log, held) ELSE log
      /\ unlogged' = IF stream = "open" THEN unlogged ELSE unlogged \union {held}
      /\ last' \in Seq(Lines)
  <2>1. Append(last, held) \in Seq(Lines)
    BY <1>1 DEF IInv, TypeOK, LinesOK
  <2> QED BY <2>1, Parts, OutputAssumption DEF SwitchTold
<1>4. TypeOK'
  <2>1. LinesOK'
    <3>1. held' \in 0..MaxLines /\ unlogged' \subseteq Lines
      BY <1>1, <1>3, OutputAssumption DEF IInv, TypeOK, LinesOK
    <3>2. log' \in Seq(Lines)
      <4>1. log \in Seq(Lines) /\ Append(log, held) \in Seq(Lines)
        BY <1>1 DEF IInv, TypeOK, LinesOK
      <4> QED BY <1>3, <4>1
    <3>3. /\ emitted' \in 0..MaxLines /\ total' \in 0..MaxLines
          /\ memory' \in Seq(Lines) /\ buffer' \in Seq(Lines) /\ first' \in Seq(Lines)
      BY <1>2 DEF IInv, TypeOK, LinesOK
    <3> QED BY <1>3, <3>1, <3>2, <3>3, LinesFrom
  <2>2. FlagsOK'
    BY <1>1, <1>2, <1>3 DEF IInv, TypeOK, FlagsOK
  <2>3. StagesOK' /\ ResultOK'
    BY <1>1, <1>2, <1>3 DEF IInv, TypeOK, StagesOK, ResultOK
  <2> QED BY <2>1, <2>2, <2>3 DEF TypeOK
<1>5. Stages'
  BY <1>1, <1>2, <1>3 DEF IInv, Stages
<1>6. MemoryIsWhole' /\ SwitchIsWhole' /\ BackgroundLogIsWhole' /\ LogMissesHeld'
  BY <1>1, <1>2, <1>3 DEF IInv, MemoryIsWhole, SwitchIsWhole, BackgroundLogIsWhole, LogMissesHeld
<1>7. LogIsWhole'
  <2> SUFFICES ASSUME Listening, unlogged' = {} PROVE Len(log') = emitted /\ In(log') = 1..emitted
    BY <1>2 DEF LogIsWhole, Listening, In
  <2>1. stream = "open" /\ unlogged = {} /\ log' = Append(log, held)
    BY <1>1, <1>3 DEF IInv, TypeOK, LinesOK
  <2>2. held \in 1..emitted /\ Len(log) = emitted - 1 /\ In(log) = 1..emitted \ {held}
    BY <1>1, <2>1 DEF IInv, LogMissesHeld, Lines
  <2>3. log \in Seq(Lines) /\ emitted \in Nat
    BY OutputAssumption DEF IInv, TypeOK, LinesOK
  <2>4. In(log') = In(log) \union {held} /\ Len(log') = Len(log) + 1
    BY <1>1, <2>1, <2>3, InAppend
  <2> QED BY <2>2, <2>3, <2>4
<1>8. Counted'
  BY <1>2 DEF IInv, Counted
<1> QED BY <1>4, <1>5, <1>6, <1>7, <1>8 DEF IInv

-----------------------------------------------------------------------------
\* A line.

\* What a line does wherever it goes: it is counted, and every tracker takes it.
LEMMA LineCounts ==
  ASSUME IInv, Line
  PROVE  /\ emitted \in Nat /\ emitted + 1 \in Lines
         /\ emitted' = emitted + 1 /\ emitted' \in 0..MaxLines
         /\ tracks' \in Seq(Seq(Lines))
         /\ tracks' = <<>> <=> tracks = <<>>
         /\ tracks # <<>> => tracks'[1] = Append(tracks[1], emitted + 1)
         /\ UNCHANGED <<limited, interactive, proc, didContinue, cancelled, feedback, announcing,
                       background, main, reply, aborted>>
<1>1. emitted \in Nat /\ emitted + 1 \in Lines /\ emitted' = emitted + 1 /\ emitted' \in 0..MaxLines
  BY OutputAssumption DEF Line, IInv, TypeOK, LinesOK, Lines
<1>2. tracks \in Seq(Seq(Lines)) /\ Len(tracks) \in Nat /\ DOMAIN tracks = 1..Len(tracks)
  BY DEF IInv, TypeOK, ResultOK
<1>3. tracks' = [i \in 1..Len(tracks) |-> Append(tracks[i], emitted + 1)]
  BY <1>2 DEF Line
<1>4. \A i \in 1..Len(tracks) : Append(tracks[i], emitted + 1) \in Seq(Lines)
  BY <1>1, <1>2
<1>5. tracks' \in Seq(Seq(Lines)) /\ Len(tracks') = Len(tracks)
  BY <1>2, <1>3, <1>4
<1>6. tracks # <<>> => tracks'[1] = Append(tracks[1], emitted + 1)
  BY <1>2, <1>3, EmptySeq
<1>7. tracks' = <<>> <=> tracks = <<>>
  BY <1>2, <1>5, EmptySeq
<1>8. UNCHANGED <<limited, interactive, proc, didContinue, cancelled, feedback, announcing, background, main,
                 reply, aborted>>
  BY DEF Line, answers
<1> QED BY <1>1, <1>5, <1>6, <1>7, <1>8

\* What is left to show of a line that is taken by the handler, or ignored.
LEMMA LineKeepsTheRest ==
  ASSUME IInv, Line, total' \in 0..MaxLines, held' \in 0..MaxLines,
         memory' \in Seq(Lines), buffer' \in Seq(Lines), log' \in Seq(Lines),
         first' \in Seq(Lines), last' \in Seq(Lines), unlogged' \subseteq Lines,
         inFile' \in BOOLEAN, timer' \in BOOLEAN, asked' \in BOOLEAN, early' \in BOOLEAN,
         stream' \in {"none", "open", "ended"},
         switch' \in {"none", "flushing", "telling", "done", "broken"},
         inFile => inFile'
  PROVE  TypeOK' /\ BackgroundLogIsWhole' /\ (background' = "none" <=> tracks' = <<>>)
<1>1. LinesOK'
  BY LineCounts, LinesFrom
<1>2. FlagsOK'
  BY LineCounts DEF IInv, TypeOK, FlagsOK
<1>3. StagesOK' /\ ResultOK'
  <2>1. tracks' \in Seq(Seq(Lines)) /\ UNCHANGED <<proc, announcing, background, main, reply>>
    BY LineCounts
  <2>2. Lines' = Lines
    BY DEF Lines
  <2> QED BY <2>1, <2>2 DEF IInv, TypeOK, StagesOK, ResultOK
<1>4. BackgroundLogIsWhole'
  <2> SUFFICES ASSUME ~inFile', ~cancelled', tracks' # <<>> PROVE tracks'[1] = Upto(emitted')
    BY DEF BackgroundLogIsWhole, Upto
  <2>1. tracks # <<>> /\ tracks'[1] = Append(tracks[1], emitted + 1) /\ cancelled' = cancelled
        /\ emitted' = emitted + 1 /\ emitted \in Nat
    BY LineCounts
  <2>2. tracks[1] = Upto(emitted)
    BY <2>1 DEF IInv, BackgroundLogIsWhole
  <2> QED BY <2>1, <2>2, UptoNext
<1>5. background' = "none" <=> tracks' = <<>>
  BY LineCounts DEF IInv, Stages
<1> QED BY <1>1, <1>2, <1>3, <1>4, <1>5 DEF TypeOK

\* After the output was cancelled or handed over.
LEMMA IgnoredLine == ASSUME IInv, Line, ~Listening PROVE IInv'
<1>1. UNCHANGED <<memory, total, inFile, stream, log, first, last, switch, held, unlogged, early, buffer, timer,
                 asked>>
  BY DEF Line, text, ui
<1>2. TypeOK' /\ BackgroundLogIsWhole' /\ (background' = "none" <=> tracks' = <<>>)
  <2>1. /\ total \in 0..MaxLines /\ held \in 0..MaxLines
        /\ memory \in Seq(Lines) /\ buffer \in Seq(Lines) /\ log \in Seq(Lines)
        /\ first \in Seq(Lines) /\ last \in Seq(Lines) /\ unlogged \subseteq Lines
    BY DEF IInv, TypeOK, LinesOK
  <2>2. /\ inFile \in BOOLEAN /\ timer \in BOOLEAN /\ asked \in BOOLEAN /\ early \in BOOLEAN
        /\ stream \in {"none", "open", "ended"}
        /\ switch \in {"none", "flushing", "telling", "done", "broken"}
    BY DEF IInv, TypeOK, FlagsOK, StagesOK
  <2> QED BY <1>1, <2>1, <2>2, LineKeepsTheRest
<1>3. Stages'
  BY <1>1, <1>2 DEF IInv, Stages
<1>4. ~Listening'
  BY LineCounts DEF Listening
<1>5. Counted'
  BY <1>1, LineCounts DEF IInv, TypeOK, LinesOK, Counted
<1> QED BY <1>2, <1>3, <1>4, <1>5 DEF IInv, MemoryIsWhole, SwitchIsWhole, LogMissesHeld, LogIsWhole

LEMMA LoggedLine ==
  ASSUME IInv, Line, Listening, inFile, total' = total + 1, total' \in 0..MaxLines, LogLine(emitted + 1)
  PROVE  IInv'
<1> DEFINE n == emitted + 1
<1>1. n \in Lines /\ emitted \in Nat /\ emitted' = n /\ UNCHANGED <<background, cancelled>>
  BY LineCounts
<1>2. UNCHANGED <<memory, inFile, buffer, early, timer, stream, first, switch, held, asked>>
  BY DEF LogLine
<1>3. /\ log' = IF stream = "open" THEN Append(log, n) ELSE log
      /\ unlogged' = IF stream = "open" THEN unlogged ELSE unlogged \union {n}
  BY DEF LogLine
<1>0. Counted'
  BY LineCounts DEF IInv, TypeOK, LinesOK, Counted
<1> HIDE DEF n
<1>4. TypeOK' /\ BackgroundLogIsWhole' /\ (background' = "none" <=> tracks' = <<>>)
  <2>1. /\ held \in 0..MaxLines
        /\ memory \in Seq(Lines) /\ buffer \in Seq(Lines) /\ log \in Seq(Lines)
        /\ first \in Seq(Lines) /\ last \in Seq(Lines) /\ unlogged \subseteq Lines
    BY DEF IInv, TypeOK, LinesOK
  <2>2. /\ inFile \in BOOLEAN /\ timer \in BOOLEAN /\ asked \in BOOLEAN /\ early \in BOOLEAN
        /\ stream \in {"none", "open", "ended"}
        /\ switch \in {"none", "flushing", "telling", "done", "broken"}
    BY DEF IInv, TypeOK, FlagsOK, StagesOK
  <2>3. Append(log, n) \in Seq(Lines) /\ Append(last, n) \in Seq(Lines)
    BY <1>1, <2>1
  <2>4. last' \in Seq(Lines)
    BY <2>3, Parts, OutputAssumption DEF LogLine, n
  <2>5. log' \in Seq(Lines) /\ unlogged' \subseteq Lines
    BY <1>1, <1>3, <2>1, <2>3
  <2> QED BY <1>2, <2>1, <2>2, <2>4, <2>5, LineKeepsTheRest
<1>5. Stages'
  BY <1>2, <1>3, <1>4 DEF IInv, Stages
<1>6. MemoryIsWhole' /\ SwitchIsWhole'
  BY <1>2, <1>3 DEF MemoryIsWhole, SwitchIsWhole, IInv, TypeOK, LinesOK
<1>7. ASSUME stream # "none", unlogged' = {}
      PROVE  /\ unlogged = {} /\ In(log') = In(log) \union {n} /\ Len(log') = Len(log) + 1
             /\ Len(log) \in Nat
  <2>1. log \in Seq(Lines)
    BY DEF IInv, TypeOK, LinesOK
  <2>2. unlogged = {} /\ log' = Append(log, n)
    BY <1>3, <1>7
  <2> QED BY <1>1, <2>1, <2>2, InAppend
<1>8. LogMissesHeld'
  <2> SUFFICES ASSUME stream # "none", unlogged' = {}, held # 0
               PROVE  held \in 1..n /\ Len(log') = n - 1 /\ In(log') = 1..n \ {held}
    BY <1>1, <1>2 DEF LogMissesHeld, In
  <2>1. held \in 1..emitted /\ Len(log) = emitted - 1 /\ In(log) = 1..emitted \ {held}
    BY <1>7 DEF IInv, LogMissesHeld
  <2> QED BY <1>1, <1>7, <2>1 DEF n
<1>9. LogIsWhole'
  <2> SUFFICES ASSUME stream # "none", unlogged' = {}, held = 0
               PROVE  Len(log') = n /\ In(log') = 1..n
    BY <1>1, <1>2 DEF LogIsWhole, In
  <2>1. Len(log) = emitted /\ In(log) = 1..emitted
    BY <1>7 DEF IInv, LogIsWhole
  <2>2. 1..n = 1..emitted \union {n} /\ n = emitted + 1
    BY <1>1 DEF n
  <2>3. Len(log') = n
    BY <1>7, <2>1, <2>2
  <2>4. In(log') = 1..emitted \union {n}
    BY <1>7, <2>1
  <2> QED BY <2>2, <2>3, <2>4
<1> QED BY <1>0, <1>4, <1>5, <1>6, <1>8, <1>9 DEF IInv

LEMMA KeptLine ==
  ASSUME IInv, Line, Listening, ~inFile, total' = total + 1, total' \in 0..MaxLines, KeepLine(emitted + 1)
  PROVE  IInv'
<1> DEFINE n == emitted + 1
<1>1. n \in Lines /\ emitted \in Nat /\ emitted' = n /\ UNCHANGED <<background, cancelled>>
  BY LineCounts
<1>2. UNCHANGED <<inFile, stream, log, first, last, switch, held, unlogged, early>> /\ memory' = Append(memory, n)
  BY DEF KeepLine
<1>3. buffer' \in {buffer, <<>>, Append(buffer, n)} /\ timer' \in {timer, TRUE} /\ asked' \in BOOLEAN
  <2>1. asked \in BOOLEAN
    BY DEF IInv, TypeOK, FlagsOK
  <2> QED BY <2>1 DEF KeepLine, Say, Ask
<1>0. Counted'
  BY LineCounts DEF IInv, TypeOK, LinesOK, Counted
<1> HIDE DEF n
<1>4. TypeOK' /\ BackgroundLogIsWhole' /\ (background' = "none" <=> tracks' = <<>>)
  <2>1. /\ held \in 0..MaxLines
        /\ memory \in Seq(Lines) /\ buffer \in Seq(Lines) /\ log \in Seq(Lines)
        /\ first \in Seq(Lines) /\ last \in Seq(Lines) /\ unlogged \subseteq Lines
    BY DEF IInv, TypeOK, LinesOK
  <2>2. /\ inFile \in BOOLEAN /\ timer \in BOOLEAN /\ early \in BOOLEAN
        /\ stream \in {"none", "open", "ended"}
        /\ switch \in {"none", "flushing", "telling", "done", "broken"}
    BY DEF IInv, TypeOK, FlagsOK, StagesOK
  <2>3. <<>> \in Seq(Lines) /\ Append(buffer, n) \in Seq(Lines) /\ Append(memory, n) \in Seq(Lines)
    BY <1>1, <2>1
  <2>4. buffer' \in Seq(Lines)
    BY <1>3, <2>1, <2>3
  <2>5. timer' \in BOOLEAN
    BY <1>3, <2>2
  <2> QED BY <1>2, <1>3, <2>1, <2>2, <2>3, <2>4, <2>5, LineKeepsTheRest
<1>5. Stages'
  BY <1>2, <1>4 DEF IInv, Stages
<1>6. MemoryIsWhole'
  <2>1. memory = Upto(emitted)
    BY DEF IInv, MemoryIsWhole
  <2>2. memory' = Upto(emitted')
    BY <1>1, <1>2, <2>1, UptoNext DEF n
  <2> QED BY <2>2 DEF MemoryIsWhole, Upto
<1>7. SwitchIsWhole' /\ LogMissesHeld' /\ LogIsWhole'
  <2>1. stream' = "none" /\ ~inFile'
    BY <1>2 DEF IInv, Stages
  <2> QED BY <2>1 DEF SwitchIsWhole, LogMissesHeld, LogIsWhole
<1> QED BY <1>0, <1>4, <1>5, <1>6, <1>7 DEF IInv

\* The line that makes the output large.
LEMMA SwitchingLine ==
  ASSUME IInv, Line, Listening, ~inFile, total' = total + 1, total' \in 0..MaxLines, BeginSwitch(emitted + 1)
  PROVE  IInv'
<1> DEFINE n == emitted + 1
<1>1. n \in Lines /\ emitted \in Nat /\ emitted' = n /\ UNCHANGED <<background, cancelled>>
  BY LineCounts
<1>2. /\ stream = "none" /\ switch = "none" /\ held = 0 /\ log = <<>>
      /\ memory = Upto(emitted) /\ memory' = memory
      /\ inFile' = TRUE /\ buffer' = <<>> /\ early' \in BOOLEAN
  <2>1. stream = "none" /\ switch = "none" /\ held = 0 /\ log = <<>>
    BY DEF IInv, Stages
  <2>2. memory = Upto(emitted)
    BY DEF IInv, MemoryIsWhole
  <2>3. memory' = memory /\ inFile' = TRUE /\ buffer' = <<>> /\ early' = (Len(memory) < FileAfter)
    BY DEF BeginSwitch, OpenLog
  <2>4. (Len(memory) < FileAfter) \in BOOLEAN
    OBVIOUS
  <2> QED BY <2>1, <2>2, <2>3, <2>4
<1>3. /\ timer' \in BOOLEAN /\ asked' \in BOOLEAN /\ first' \in Seq(Lines) /\ last' \in Seq(Lines)
      /\ \/ /\ stream' = "none" /\ log' = <<>>
            /\ \/ switch' = "flushing" /\ held' = n /\ unlogged' = unlogged
               \/ switch' = "broken" /\ held' = 0 /\ unlogged' = unlogged \union {n}
         \/ /\ stream' = "open" /\ log' = memory
            /\ \/ switch' = "telling" /\ held' = n /\ unlogged' = unlogged
               \/ switch' = "broken" /\ held' = 0 /\ unlogged' = unlogged \union {n}
  <2>1. CASE OpenLog(n)
    BY <1>1, <2>1, OpenLogTypes DEF IInv
  <2>2. CASE ~OpenLog(n)
    <3>1. /\ UNCHANGED <<timer, stream, log, first, last>> /\ asked' = (asked /\ Throws)
          /\ \/ switch' = "flushing" /\ held' = n /\ unlogged' = unlogged
             \/ switch' = "broken" /\ held' = 0 /\ unlogged' = unlogged \union {n}
      BY <2>2 DEF BeginSwitch, Say
    <3>2. asked \in BOOLEAN /\ timer \in BOOLEAN /\ first \in Seq(Lines) /\ last \in Seq(Lines)
      BY DEF IInv, TypeOK, FlagsOK, LinesOK
    <3> QED BY <1>2, <3>1, <3>2
  <2> QED BY <2>1, <2>2
<1>0. Counted'
  BY LineCounts DEF IInv, TypeOK, LinesOK, Counted
<1> HIDE DEF n
<1>4. TypeOK' /\ BackgroundLogIsWhole' /\ (background' = "none" <=> tracks' = <<>>)
  <2>1. memory \in Seq(Lines) /\ <<>> \in Seq(Lines) /\ unlogged \subseteq Lines
    BY DEF IInv, TypeOK, LinesOK
  <2>2. n \in 0..MaxLines /\ 0 \in 0..MaxLines
    BY <1>1, OutputAssumption DEF Lines
  <2>3. held' \in 0..MaxLines /\ unlogged' \subseteq Lines /\ log' \in Seq(Lines)
    BY <1>1, <1>3, <2>1, <2>2
  <2>4. /\ stream' \in {"none", "open", "ended"}
        /\ switch' \in {"none", "flushing", "telling", "done", "broken"}
    BY <1>3
  <2> QED BY <1>2, <1>3, <2>1, <2>3, <2>4, LineKeepsTheRest
<1>5. Stages'
  <2>1. n # 0 /\ unlogged \union {n} # {}
    BY <1>1 DEF n
  <2> QED BY <1>2, <1>3, <1>4, <2>1 DEF Stages
<1>6. MemoryIsWhole'
  BY <1>2 DEF MemoryIsWhole
<1>7. SwitchIsWhole'
  <2> SUFFICES ASSUME stream' = "none", unlogged' = {}
               PROVE  emitted' > 0 /\ memory' = Upto(emitted' - 1) /\ held' = emitted'
    BY DEF SwitchIsWhole, Upto
  <2>1. held' = n
    BY <1>3
  <2>2. n - 1 = emitted
    BY <1>1 DEF n
  <2> QED BY <1>1, <1>2, <2>1, <2>2 DEF n
<1>8. LogMissesHeld' /\ LogIsWhole'
  <2> SUFFICES ASSUME stream' # "none", unlogged' = {}
               PROVE  /\ held' = n /\ held' # 0 /\ held' \in 1..n
                      /\ Len(log') = n - 1 /\ In(log') = 1..n \ {n}
    BY <1>1 DEF LogMissesHeld, LogIsWhole, In
  <2>1. held' = n /\ log' = Upto(emitted)
    BY <1>2, <1>3
  <2>2. Len(log') = emitted /\ In(log') = 1..emitted
    BY <1>1, <2>1, UptoNext
  <2> QED BY <1>1, <2>1, <2>2 DEF n
<1> QED BY <1>0, <1>4, <1>5, <1>6, <1>7, <1>8 DEF IInv

LEMMA LineKeepsIInv == ASSUME IInv, Line PROVE IInv'
<1> DEFINE n == emitted + 1
<1>1. CASE ~Listening
  BY <1>1, IgnoredLine
<1>2. CASE Listening
  <2>1. total' = total + 1
        /\ \/ inFile /\ LogLine(n)
           \/ ~inFile /\ BeginSwitch(n)
           \/ ~inFile /\ KeepLine(n)
    BY <1>2 DEF Line
  <2>2. total' \in 0..MaxLines
    <3>1. total \in 0..MaxLines /\ emitted \in 0..MaxLines /\ total <= emitted /\ emitted < MaxLines
      BY DEF IInv, TypeOK, LinesOK, Counted, Line
    <3> QED BY <2>1, <3>1, OutputAssumption
  <2> QED BY <1>2, <2>1, <2>2, LoggedLine, SwitchingLine, KeptLine
<1> QED BY <1>1, <1>2

-----------------------------------------------------------------------------
LEMMA StepKeepsIInv == ASSUME IInv, [Next]_vars PROVE IInv'
<1>1. CASE UNCHANGED vars
  <2>1. UNCHANGED <<limited, interactive, proc, emitted, memory, total, inFile, stream, log, first, last, switch,
                   held, unlogged, early, buffer, timer, asked, didContinue, cancelled, feedback, announcing,
                   background, tracks, main, reply, aborted>>
    BY <1>1 DEF vars, process, text, ui, answers, result
  <2>2. TypeOK'
    <3>1. LinesOK'
      BY <2>1, SameLines DEF IInv
    <3>2. FlagsOK'
      BY <2>1 DEF IInv, TypeOK, FlagsOK
    <3>3. StagesOK'
      BY <2>1 DEF IInv, TypeOK, StagesOK
    <3>4. Lines' = Lines
      BY DEF Lines
    <3>5. ResultOK'
      BY <2>1, <3>4 DEF IInv, TypeOK, ResultOK
    <3> QED BY <3>1, <3>2, <3>3, <3>5 DEF TypeOK
  <2> QED BY <2>1, <2>2, QuietStep
<1>2. CASE Next
  BY <1>2, LineKeepsIInv, CompleteKeepsIInv, FailKeepsIInv, SwitchFlushedKeepsIInv, SwitchToldKeepsIInv,
     AnnouncedKeepsIInv, TimeLimitSaidKeepsIInv, ChunkTimerKeepsIInv, TimeLimitKeepsIInv, SettledKeepsIInv,
     ProceedKeepsIInv, CancelKeepsIInv, MessageKeepsIInv, AbortKeepsIInv DEF Next, Saying
<1> QED BY <1>1, <1>2

LEMMA IInvHolds == Spec => []IInv
BY InitIInv, StepKeepsIInv, PTL DEF Spec

\* The state of the orchestration is always one of those the declarations name: no answer,
\* timer, line or end of the process leaves it elsewhere.
THEOREM TypeCorrect == Spec => []TypeOK
<1>1. IInv => TypeOK
  BY DEF IInv
<1> QED BY <1>1, IInvHolds, PTL

\* Whatever lines, says, answers and timers interleave, the log of a large output has every
\* line once, unless one came before it was open.
THEOREM LogHasEveryLine == Spec => []LogIsWhole
<1>1. IInv => LogIsWhole
  BY DEF IInv
<1> QED BY <1>1, IInvHolds, PTL

\* No line is lost or repeated in the handover to the background tracker.
THEOREM BackgroundLogHasEveryLine == Spec => []BackgroundLogIsWhole
<1>1. IInv => BackgroundLogIsWhole
  BY DEF IInv
<1> QED BY <1>1, IInvHolds, PTL

-----------------------------------------------------------------------------
(***************************************************************************)
(* RemoteSession, for every set of operations, commands and files.  That no *)
(* output is lost needs the frames on their way to be counted: what a caller *)
(* was given and what the stream still holds of its command is what the child *)
(* has written (NoOutputLost), and the response is behind them (LastWord). *)
(* That edits and work survive needs what dispose has seen at each of its  *)
(* stages (EditsOK, WorkOK), and that nothing runs any more when it pulls  *)
(* (StageOK).                                                              *)
(***************************************************************************)

\* How often a frame is in a stream of them.
Places(s, m) == {i \in 1..Len(s) : s[i] = m}
HowMany(s, m) == Cardinality(Places(s, m))

LEMMA PlacesAreFinite ==
  ASSUME NEW S, NEW s \in Seq(S), NEW m
  PROVE  IsFiniteSet(Places(s, m)) /\ HowMany(s, m) \in Nat
<1>1. Len(s) \in Nat
  OBVIOUS
<1>2. IsFiniteSet(1..Len(s)) /\ Places(s, m) \in SUBSET (1..Len(s))
  BY <1>1, FS_Interval DEF Places
<1>3. IsFiniteSet(Places(s, m))
  BY <1>2, FS_Subset
<1> QED BY <1>3, FS_CardinalityType DEF HowMany

LEMMA OneMore ==
  ASSUME NEW S, NEW s \in Seq(S), NEW e \in S, NEW m
  PROVE  HowMany(Append(s, e), m) = HowMany(s, m) + (IF e = m THEN 1 ELSE 0)
<1> DEFINE t == Append(s, e)  n == Len(s) + 1
<1>1. /\ Len(s) \in Nat /\ Len(t) = n /\ t[n] = e /\ \A i \in 1..Len(s) : t[i] = s[i]
  OBVIOUS
<1> HIDE DEF t
<1>2. CASE e = m
  <2>1. Places(t, m) = Places(s, m) \union {n}
    BY <1>1, <1>2 DEF Places
  <2>2. n \notin Places(s, m)
    BY <1>1 DEF Places
  <2>3. Cardinality(Places(s, m) \union {n}) = Cardinality(Places(s, m)) + 1
    BY <2>2, PlacesAreFinite, FS_AddElement
  <2> QED BY <1>2, <2>1, <2>3 DEF HowMany, t
<1>3. CASE e # m
  <2>1. Places(t, m) = Places(s, m)
    BY <1>1, <1>3 DEF Places
  <2> QED BY <1>3, <2>1, PlacesAreFinite DEF HowMany, t
<1> QED BY <1>2, <1>3

LEMMA OneLess ==
  ASSUME NEW S, NEW s \in Seq(S), s # <<>>, NEW m
  PROVE  HowMany(s, m) = HowMany(Tail(s), m) + (IF Head(s) = m THEN 1 ELSE 0)
<1> DEFINE t == Tail(s)
           P == Places(s, m)
           T == Places(t, m)
           R == P \ {1}
           F == [i \in T |-> i + 1]
<1>1. /\ Len(s) \in Nat \ {0} /\ Len(t) = Len(s) - 1 /\ t \in Seq(S) /\ Head(s) = s[1]
      /\ \A i \in 1..(Len(s) - 1) : t[i] = s[i + 1]
  OBVIOUS
<1> HIDE DEF t
<1>2. T \subseteq Nat /\ \A i \in T : i + 1 \in R
  BY <1>1 DEF Places
<1>3. \A j \in R : j - 1 \in T /\ (j - 1) + 1 = j
  BY <1>1 DEF Places
<1> HIDE DEF P, T, R
<1>4. F \in Bijection(T, R)
  <2>1. F \in [T -> R]
    BY <1>2
  <2>2. \A i, j \in T : F[i] = F[j] => i = j
    BY <1>2
  <2>3. \A j \in R : \E i \in T : F[i] = j
    BY <1>3
  <2> QED BY <2>1, <2>2, <2>3, Fun_IsBij
<1>5. IsFiniteSet(P) /\ IsFiniteSet(T)
  BY <1>1, PlacesAreFinite DEF P, T
<1>6. Cardinality(R) = Cardinality(T)
  BY <1>4, <1>5, FS_Bijection, Fun_ExistsBij DEF R
<1>7. Cardinality(P) \in Nat /\ Cardinality(R) = IF 1 \in P THEN Cardinality(P) - 1 ELSE Cardinality(P)
  BY <1>5, FS_RemoveElement, FS_CardinalityType DEF R
<1>8. 1 \in P <=> Head(s) = m
  BY <1>1 DEF P, Places
<1> QED BY <1>6, <1>7, <1>8 DEF HowMany, P, T, t

LEMMA NoneThere ==
  ASSUME NEW S, NEW s \in Seq(S), NEW m, \A i \in 1..Len(s) : s[i] # m
  PROVE  HowMany(s, m) = 0
<1>1. Places(s, m) = {}
  BY DEF Places
<1> QED BY <1>1, FS_EmptySet DEF HowMany

LEMMA SomeThere ==
  ASSUME NEW S, NEW s \in Seq(S), NEW m, HowMany(s, m) = 0
  PROVE  \A i \in 1..Len(s) : s[i] # m
<1>1. Places(s, m) = {}
  BY PlacesAreFinite, FS_EmptySet DEF HowMany
<1> QED BY <1>1 DEF Places
-----------------------------------------------------------------------------
Output(c) == [kind |-> "output", of |-> c]

\* Nothing is done for a call that has not been made.
Begun == \A r \in Requests : call[r] = "idle" => job[r] = "none"

\* A request is on its way once, and before anything is done for it.
ToDaemon == /\ \A i \in 1..Len(outgoing) : outgoing[i].kind = "request" =>
                  call[outgoing[i].of] # "idle" /\ job[outgoing[i].of] = "none"
            /\ \A i, k \in 1..Len(outgoing) :
                  outgoing[i].kind = "request" /\ outgoing[i] = outgoing[k] => i = k
            /\ \A i \in 1..Len(outgoing) :
                  \/ outgoing[i].kind = "request"
                  \/ outgoing[i].kind = "abort" /\ outgoing[i].of \in Commands

\* What comes back is output of a child, or the response to what is done.
FromDaemon == \A i \in 1..Len(incoming) :
                /\ incoming[i].kind \in {"response", "output"}
                /\ incoming[i].kind = "response" => job[incoming[i].of] = "done"
                /\ incoming[i].kind = "output" => incoming[i].of \in Commands /\ job[incoming[i].of] # "none"

\* No output comes behind the response.
LastWord == \A i, k \in 1..Len(incoming) :
              incoming[i].kind = "response" /\ incoming[k].kind = "output"
                /\ incoming[k].of = incoming[i].of => k < i

ChildrenRun == \A c \in children : job[c] \in {"working", "killed"}

AnsweredIsDone == \A r \in Requests : call[r] = "answered" => job[r] = "done"

\* What the child has written is with its caller or on the way to it.
NoOutputLost == \A c \in Commands :
  /\ call[c] \in {"idle", "sent"} => seen[c] + HowMany(incoming, Output(c)) = written[c]
  /\ call[c] = "answered" => seen[c] = written[c]

EnvIInv == /\ EnvTypeOK /\ Begun /\ ToDaemon /\ FromDaemon /\ LastWord /\ ChildrenRun
           /\ AnsweredIsDone /\ NoOutputLost

LEMMA RequestsFacts ==
  /\ Commands \subseteq Calls /\ Ops \subseteq Calls /\ Calls \subseteq Requests /\ Bye \in Requests
  /\ Bye \notin Calls /\ \A c \in Ops : c \notin Commands
  /\ MaxChunks \in Nat
  /\ \A c \in Commands : Output(c) \in Frame
BY RequestsAssumption DEF Calls, Requests, Frame, Output

LEMMA Streams ==
  ASSUME EnvTypeOK
  PROVE  /\ outgoing \in Seq(Frame) /\ Len(outgoing) \in Nat
         /\ incoming \in Seq(Frame) /\ Len(incoming) \in Nat
         /\ \A i \in 1..Len(outgoing) : outgoing[i] \in Frame
         /\ \A i \in 1..Len(incoming) : incoming[i] \in Frame
BY DEF EnvTypeOK

LEMMA RequestKeeps ==
  ASSUME EnvIInv, NEW r \in Requests, Request(r)
  PROVE  EnvIInv'
<1>1. /\ call[r] = "idle" /\ UNCHANGED <<closed, open, incoming, server, signals, seen>>
      /\ EnvTypeOK /\ Begun /\ ToDaemon /\ FromDaemon /\ LastWord /\ ChildrenRun
      /\ AnsweredIsDone /\ NoOutputLost
  BY DEF Request, EnvIInv
<1>2. UNCHANGED <<incoming, daemon, job, children, written, fired, heard, seen>>
  BY <1>1 DEF server, signals
<1> DEFINE m == [kind |-> "request", of |-> r]
<1>3. /\ \/ call' = [call EXCEPT ![r] = "rejected"] /\ outgoing' = outgoing
         \/ call' = [call EXCEPT ![r] = "sent"] /\ outgoing' \in {outgoing, Append(outgoing, m)}
      /\ listening' \subseteq Commands
  BY <1>1 DEF Request, Send, EnvTypeOK
<1>4. m \in Frame /\ m.kind = "request" /\ m.of = r
  BY DEF Frame
<1> HIDE DEF m
<1>5. EnvTypeOK'
  <2>1. call' \in [Requests -> {"idle", "sent", "answered", "rejected"}]
    BY <1>1, <1>3 DEF EnvTypeOK
  <2>2. outgoing' \in Seq(Frame)
    <3>1. outgoing \in Seq(Frame) /\ Append(outgoing, m) \in Seq(Frame)
      BY <1>1, <1>4, Streams, AppendProperties
    <3> QED BY <1>3, <3>1
  <2> QED BY <1>1, <1>2, <1>3, <2>1, <2>2 DEF EnvTypeOK
<1>6. Begun' /\ FromDaemon' /\ LastWord' /\ ChildrenRun'
  <2>1. \A q \in Requests : call'[q] = "idle" => call[q] = "idle"
    BY <1>1, <1>3, RequestsFacts DEF EnvTypeOK
  <2>2. Begun'
    BY <1>1, <1>2, <2>1 DEF Begun
  <2> QED BY <1>1, <1>2, <2>2 DEF FromDaemon, LastWord, ChildrenRun
<1>7. AnsweredIsDone'
  BY <1>1, <1>2, <1>3 DEF AnsweredIsDone, EnvTypeOK
<1>8. \A q \in Requests : (q # r => call'[q] = call[q]) /\ call'[r] # "idle"
  BY <1>1, <1>3 DEF EnvTypeOK
<1>9. ToDaemon'
  <2>1. CASE outgoing' = outgoing
    <3>1. \A i \in 1..Len(outgoing) : outgoing[i].of \in Requests
      BY <1>1, Streams DEF Frame
    <3> QED BY <1>1, <1>2, <1>8, <2>1, <3>1 DEF ToDaemon
  <2>2. CASE outgoing' = Append(outgoing, m)
    <3>1. /\ Len(outgoing) \in Nat /\ Len(outgoing') = Len(outgoing) + 1
          /\ outgoing'[Len(outgoing) + 1] = m /\ \A i \in 1..Len(outgoing) : outgoing'[i] = outgoing[i]
          /\ \A i \in 1..Len(outgoing) : outgoing[i].of \in Requests
      BY <1>1, <1>4, <2>2, Streams DEF Frame
    <3>2. \A i \in 1..Len(outgoing) : outgoing[i].kind = "request" => outgoing[i].of # r /\ outgoing[i] # m
      BY <1>1, <1>4 DEF ToDaemon
    <3>3. job[r] = "none"
      BY <1>1 DEF Begun
    <3>4. ASSUME NEW i \in 1..(Len(outgoing) + 1), outgoing'[i].kind = "request"
          PROVE  call'[outgoing'[i].of] # "idle" /\ job[outgoing'[i].of] = "none"
      <4>1. CASE i = Len(outgoing) + 1
        BY <1>4, <1>8, <3>1, <3>3, <4>1
      <4>2. CASE i \in 1..Len(outgoing)
        BY <1>1, <1>8, <3>1, <3>4, <4>2 DEF ToDaemon
      <4> QED BY <3>1, <4>1, <4>2
    <3>5. ASSUME NEW i \in 1..(Len(outgoing) + 1), NEW k \in 1..(Len(outgoing) + 1),
                 outgoing'[i].kind = "request", outgoing'[i] = outgoing'[k]
          PROVE  i = k
      <4>1. CASE i \in 1..Len(outgoing) /\ k \in 1..Len(outgoing)
        BY <1>1, <3>1, <3>5, <4>1 DEF ToDaemon
      <4>2. CASE ~(i \in 1..Len(outgoing) /\ k \in 1..Len(outgoing))
        BY <1>4, <3>1, <3>2, <3>5, <4>2
      <4> QED BY <4>1, <4>2
    <3>6. \A i \in 1..(Len(outgoing) + 1) :
             \/ outgoing'[i].kind = "request"
             \/ outgoing'[i].kind = "abort" /\ outgoing'[i].of \in Commands
      BY <1>1, <1>4, <3>1 DEF ToDaemon
    <3> QED BY <1>2, <3>1, <3>4, <3>5, <3>6 DEF ToDaemon
  <2> QED BY <1>3, <2>1, <2>2
<1>10. NoOutputLost'
  <2>1. \A c \in Commands : /\ call'[c] \in {"idle", "sent"} => call[c] \in {"idle", "sent"}
                            /\ call'[c] = "answered" => call[c] = "answered"
    BY <1>1, <1>3, RequestsFacts DEF EnvTypeOK
  <2> QED BY <1>1, <1>2, <2>1 DEF NoOutputLost
<1> QED BY <1>5, <1>6, <1>7, <1>9, <1>10 DEF EnvIInv

LEMMA FireKeeps ==
  ASSUME EnvIInv, NEW c \in Commands, Fire(c)
  PROVE  EnvIInv'
<1>1. /\ EnvTypeOK /\ Begun /\ ToDaemon /\ FromDaemon /\ LastWord /\ ChildrenRun
      /\ AnsweredIsDone /\ NoOutputLost
  BY DEF EnvIInv
<1> DEFINE m == [kind |-> "abort", of |-> c]
<1>2. /\ UNCHANGED <<call, closed, open, incoming, daemon, job, children, written, seen>>
      /\ outgoing' \in {outgoing, Append(outgoing, m)}
      /\ fired' = fired \cup {c} /\ heard' \in {heard, heard \cup {c}} /\ listening' = listening \ {c}
  BY DEF Fire, Send, server
<1>3. m \in Frame /\ m.kind = "abort" /\ m.of = c
  BY RequestsFacts DEF Frame
<1> HIDE DEF m
<1>4. EnvTypeOK'
  <2>1. outgoing' \in Seq(Frame)
    <3>1. outgoing \in Seq(Frame) /\ Append(outgoing, m) \in Seq(Frame)
      BY <1>1, <1>3, Streams, AppendProperties
    <3> QED BY <1>2, <3>1
  <2> QED BY <1>1, <1>2, <2>1 DEF EnvTypeOK
<1>5. (Begun /\ FromDaemon /\ LastWord /\ ChildrenRun /\ AnsweredIsDone /\ NoOutputLost)'
  BY <1>1, <1>2 DEF Begun, FromDaemon, LastWord, ChildrenRun, AnsweredIsDone, NoOutputLost
<1>6. ToDaemon'
  <2>1. CASE outgoing' = outgoing
    BY <1>1, <1>2, <2>1 DEF ToDaemon
  <2>2. CASE outgoing' = Append(outgoing, m)
    <3>1. /\ Len(outgoing) \in Nat /\ Len(outgoing') = Len(outgoing) + 1
          /\ outgoing'[Len(outgoing) + 1] = m /\ \A i \in 1..Len(outgoing) : outgoing'[i] = outgoing[i]
      BY <1>1, <1>3, <2>2, Streams
    <3>2. \A i \in 1..(Len(outgoing) + 1) :
             /\ \/ outgoing'[i].kind = "request"
                \/ outgoing'[i].kind = "abort" /\ outgoing'[i].of \in Commands
             /\ outgoing'[i].kind = "request" => i \in 1..Len(outgoing)
      BY <1>1, <1>3, <3>1 DEF ToDaemon
    <3>3. \A i, k \in 1..(Len(outgoing) + 1) :
             outgoing'[i].kind = "request" /\ outgoing'[i] = outgoing'[k] => i = k
      BY <1>1, <3>1, <3>2 DEF ToDaemon
    <3>4. \A i \in 1..(Len(outgoing) + 1) : outgoing'[i].kind = "request" =>
             call[outgoing'[i].of] # "idle" /\ job[outgoing'[i].of] = "none"
      BY <1>1, <3>1, <3>2 DEF ToDaemon
    <3> QED BY <1>2, <3>1, <3>2, <3>3, <3>4 DEF ToDaemon
  <2> QED BY <1>2, <2>1, <2>2
<1> QED BY <1>4, <1>5, <1>6 DEF EnvIInv

\* Pending requests are rejected when the transport closes, by either side.
LEMMA CloseKeeps ==
  ASSUME EnvIInv, TransportCloses \/ Disposed \/ DaemonExits
  PROVE  EnvIInv'
<1>1. /\ EnvTypeOK /\ Begun /\ ToDaemon /\ FromDaemon /\ LastWord /\ ChildrenRun
      /\ AnsweredIsDone /\ NoOutputLost
  BY DEF EnvIInv
<1>2. /\ UNCHANGED <<incoming, job, children, written, signals, seen>>
      /\ outgoing' \in {outgoing, <<>>}
      /\ closed' \in BOOLEAN /\ open' \in BOOLEAN /\ daemon' \in {"running", "killed", "gone"}
      /\ listening' \in {listening, {}}
      /\ \/ call' = call
         \/ call' = [r \in Requests |-> IF call[r] = "sent" THEN "rejected" ELSE call[r]]
  BY <1>1 DEF TransportCloses, Disposed, DaemonExits, RejectPending, frames, server, client, EnvTypeOK
<1>3. \A r \in Requests : /\ call'[r] \in {"idle", "sent", "answered"} => call'[r] = call[r]
                          /\ call'[r] = "idle" <=> call[r] = "idle"
  BY <1>1, <1>2 DEF EnvTypeOK
<1>4. EnvTypeOK'
  <2>1. call' \in [Requests -> {"idle", "sent", "answered", "rejected"}]
    BY <1>1, <1>2 DEF EnvTypeOK
  <2>2. outgoing' \in Seq(Frame)
    BY <1>1, <1>2, EmptySeq DEF EnvTypeOK
  <2> QED BY <1>1, <1>2, <2>1, <2>2 DEF EnvTypeOK, signals
<1>5. (Begun /\ FromDaemon /\ LastWord /\ ChildrenRun /\ AnsweredIsDone)'
  BY <1>1, <1>2, <1>3, RequestsFacts DEF Begun, FromDaemon, LastWord, ChildrenRun, AnsweredIsDone
<1>6. NoOutputLost'
  BY <1>1, <1>2, <1>3, RequestsFacts DEF NoOutputLost
<1>7. ToDaemon'
  <2>1. CASE outgoing' = outgoing
    <3>1. \A i \in 1..Len(outgoing) : outgoing[i].of \in Requests
      BY <1>1, Streams DEF Frame
    <3> QED BY <1>1, <1>2, <1>3, <2>1, <3>1 DEF ToDaemon
  <2>2. CASE outgoing' = <<>>
    <3>1. Len(outgoing') = 0
      BY <2>2
    <3> QED BY <3>1 DEF ToDaemon
  <2> QED BY <1>2, <2>1, <2>2
<1> QED BY <1>4, <1>5, <1>6, <1>7 DEF EnvIInv

\* A frame is its kind and its request.
LEMMA SameFrame ==
  ASSUME NEW m \in Frame, NEW n \in Frame, m.kind = n.kind, m.of = n.of
  PROVE  m = n
BY DEF Frame

LEMMA OutputFrames ==
  ASSUME NEW m \in Frame, NEW c
  PROVE  m = Output(c) <=> m.kind = "output" /\ m.of = c
BY DEF Frame, Output

LEMMA ClientReceivesKeeps ==
  ASSUME EnvIInv, ClientReceives
  PROVE  EnvIInv'
<1> DEFINE m == Head(incoming)  t == Tail(incoming)  d == m.of
<1>1. /\ EnvTypeOK /\ Begun /\ ToDaemon /\ FromDaemon /\ LastWord /\ ChildrenRun
      /\ AnsweredIsDone /\ NoOutputLost
  BY DEF EnvIInv
<1>2. /\ Len(incoming) \in Nat \ {0} /\ t \in Seq(Frame) /\ Len(t) = Len(incoming) - 1
      /\ m = incoming[1] /\ m \in Frame /\ \A i \in 1..(Len(incoming) - 1) : t[i] = incoming[i + 1]
      /\ incoming \in Seq(Frame) /\ incoming # <<>>
  BY <1>1, Streams DEF ClientReceives
<1>3. /\ m.kind \in {"response", "output"} /\ d \in Requests
      /\ m.kind = "response" => job[d] = "done"
      /\ m.kind = "output" => d \in Commands /\ job[d] # "none"
  BY <1>1, <1>2 DEF FromDaemon, Frame
<1>4. \A c : m = Output(c) <=> m.kind = "output" /\ d = c
  BY <1>2, OutputFrames
<1>5. \A c : /\ HowMany(incoming, Output(c)) = HowMany(t, Output(c)) + (IF m = Output(c) THEN 1 ELSE 0)
             /\ HowMany(t, Output(c)) \in Nat
  BY <1>2, OneLess, PlacesAreFinite
<1>6. /\ UNCHANGED <<closed, open, outgoing, daemon, job, children, written, fired, heard>>
      /\ incoming' = t
      /\ \/ call[d] # "sent" /\ UNCHANGED <<call, listening, seen>>
         \/ /\ call[d] = "sent" /\ m.kind = "output"
            /\ seen' = [seen EXCEPT ![d] = @ + 1] /\ UNCHANGED <<call, listening>>
         \/ /\ call[d] = "sent" /\ m.kind = "response"
            /\ call' = [call EXCEPT ![d] = "answered"]
            /\ listening' = listening \ {d} /\ UNCHANGED seen
  BY <1>3 DEF ClientReceives, server, signals
<1> HIDE DEF m, t, d
<1>7. FromDaemon' /\ LastWord'
  <2>1. \A i \in 1..(Len(incoming) - 1) : i + 1 \in 1..Len(incoming)
    BY <1>2
  <2>2. FromDaemon'
    BY <1>1, <1>2, <1>6, <2>1 DEF FromDaemon
  <2>3. \A i, k \in 1..(Len(incoming) - 1) :
           t[i].kind = "response" /\ t[k].kind = "output" /\ t[k].of = t[i].of => k + 1 < i + 1
    BY <1>1, <1>2, <2>1 DEF LastWord
  <2> QED BY <1>2, <1>6, <2>2, <2>3 DEF LastWord
<1>8. \A r \in Requests : /\ call'[r] \in {"idle", "sent"} => call'[r] = call[r]
                          /\ call[r] = "idle" => call'[r] = "idle"
                          /\ call'[r] = "idle" => call[r] = "idle"
                          /\ call'[r] = "answered" => call[r] = "answered" \/ (m.kind = "response" /\ r = d)
  <2>1. call \in [Requests -> {"idle", "sent", "answered", "rejected"}]
    BY <1>1 DEF EnvTypeOK
  <2>2. CASE call' = call
    BY <2>2
  <2>3. CASE call[d] = "sent" /\ m.kind = "response" /\ call' = [call EXCEPT ![d] = "answered"]
    BY <1>3, <2>1, <2>3
  <2> QED BY <1>6, <2>2, <2>3
<1>9. Begun' /\ ChildrenRun' /\ AnsweredIsDone'
  BY <1>1, <1>3, <1>6, <1>8, RequestsFacts DEF Begun, ChildrenRun, AnsweredIsDone
<1>10. ToDaemon'
  <2>1. \A i \in 1..Len(outgoing) : outgoing[i].of \in Requests
    BY <1>1, Streams DEF Frame
  <2> QED BY <1>1, <1>6, <1>8, <2>1 DEF ToDaemon
<1>11. NoOutputLost' /\ seen' \in [Commands -> 0..MaxChunks]
  <2>1. /\ seen \in [Commands -> 0..MaxChunks] /\ written \in [Commands -> 0..MaxChunks]
        /\ call \in [Requests -> {"idle", "sent", "answered", "rejected"}]
    BY <1>1 DEF EnvTypeOK
  <2>2. CASE call[d] # "sent" /\ UNCHANGED <<call, listening, seen>>
    <3>1. ASSUME NEW c \in Commands, call[c] \in {"idle", "sent"}
          PROVE  m # Output(c)
      <4>1. CASE call[c] = "sent"
        BY <1>4, <2>2, <4>1
      <4>2. CASE call[c] = "idle"
        BY <1>1, <1>3, <1>4, <4>2, RequestsFacts DEF Begun
      <4> QED BY <3>1, <4>1, <4>2
    <3>2. \A c \in Commands : call[c] \in {"idle", "sent"} =>
             HowMany(incoming, Output(c)) = HowMany(t, Output(c))
      BY <1>5, <3>1
    <3> QED BY <1>1, <1>6, <2>1, <2>2, <3>2 DEF NoOutputLost
  <2>3. CASE /\ call[d] = "sent" /\ m.kind = "output"
             /\ seen' = [seen EXCEPT ![d] = @ + 1] /\ UNCHANGED <<call, listening>>
    <3>1. d \in Commands /\ m = Output(d)
      BY <1>3, <1>4, <2>3
    <3>2. seen[d] + HowMany(t, Output(d)) + 1 = written[d]
      BY <1>1, <1>5, <2>1, <2>3, <3>1 DEF NoOutputLost
    <3>3. seen' \in [Commands -> 0..MaxChunks] /\ seen'[d] = seen[d] + 1
          /\ \A c \in Commands : c # d => seen'[c] = seen[c]
      <4>1. seen[d] + 1 \in 0..MaxChunks
        BY <1>5, <2>1, <3>1, <3>2, RequestsFacts
      <4> QED BY <2>1, <2>3, <3>1, <4>1
    <3>4. \A c \in Commands : c # d => HowMany(incoming, Output(c)) = HowMany(t, Output(c))
      BY <1>4, <1>5
    <3>5. ASSUME NEW c \in Commands
          PROVE  /\ call[c] \in {"idle", "sent"} => seen'[c] + HowMany(t, Output(c)) = written[c]
                 /\ call[c] = "answered" => seen'[c] = written[c]
      <4>1. CASE c = d
        BY <1>5, <2>1, <2>3, <3>2, <3>3, <4>1
      <4>2. CASE c # d
        BY <1>1, <3>3, <3>4, <4>2 DEF NoOutputLost
      <4> QED BY <4>1, <4>2
    <3> QED BY <1>6, <2>3, <3>3, <3>5 DEF NoOutputLost
  <2>4. CASE /\ call[d] = "sent" /\ m.kind = "response"
             /\ call' = [call EXCEPT ![d] = "answered"]
             /\ listening' = listening \ {d} /\ UNCHANGED seen
    <3>1. \A c \in Commands : HowMany(incoming, Output(c)) = HowMany(t, Output(c))
      BY <1>4, <1>5, <2>4
    <3>2. d \in Commands => seen[d] = written[d]
      <4>1. SUFFICES ASSUME d \in Commands PROVE seen[d] = written[d]
        OBVIOUS
      <4>2. ASSUME NEW i \in 1..Len(incoming), incoming[i] = Output(d)
            PROVE  FALSE
        <5>1. incoming[i].kind = "output" /\ incoming[i].of = d
          BY <4>2 DEF Output
        <5>2. i < 1
          BY <1>1, <1>2, <2>4, <5>1 DEF LastWord, d
        <5> QED BY <1>2, <5>2
      <4>3. HowMany(incoming, Output(d)) = 0
        BY <1>2, <4>2, NoneThere
      <4> QED BY <1>1, <2>1, <2>4, <4>1, <4>3 DEF NoOutputLost
    <3>3. /\ call'[d] = "answered" /\ \A r \in Requests : r # d => call'[r] = call[r]
      BY <1>3, <2>1, <2>4
    <3>4. ASSUME NEW c \in Commands
          PROVE  /\ call'[c] \in {"idle", "sent"} => seen[c] + HowMany(t, Output(c)) = written[c]
                 /\ call'[c] = "answered" => seen[c] = written[c]
      <4>1. CASE c = d
        BY <3>2, <3>3, <4>1
      <4>2. CASE c # d
        BY <1>1, <3>1, <3>3, <4>2, RequestsFacts DEF NoOutputLost
      <4> QED BY <4>1, <4>2
    <3> QED BY <1>6, <2>1, <2>4, <3>4 DEF NoOutputLost
  <2> QED BY <1>6, <2>2, <2>3, <2>4
<1>12. EnvTypeOK'
  <2>1. call' \in [Requests -> {"idle", "sent", "answered", "rejected"}] /\ listening' \subseteq Commands
    BY <1>1, <1>3, <1>6 DEF EnvTypeOK
  <2> QED BY <1>1, <1>2, <1>6, <1>11, <2>1 DEF EnvTypeOK
<1> QED BY <1>7, <1>9, <1>10, <1>11, <1>12 DEF EnvIInv

\* A frame of the daemon is the last in the stream: the response to what it has
\* done, or the output of a child that runs.
LEMMA ReplyKeeps ==
  ASSUME EnvIInv, NEW m \in Frame, incoming' = Append(incoming, m),
         \A r \in Requests : /\ job[r] = "done" => job'[r] = "done"
                             /\ job[r] # "none" => job'[r] # "none",
         \/ m.kind = "response" /\ job'[m.of] = "done"
         \/ m.kind = "output" /\ m.of \in Commands /\ job[m.of] \in {"working", "killed"}
  PROVE  /\ FromDaemon' /\ LastWord' /\ incoming' \in Seq(Frame)
         /\ \A c : HowMany(incoming', Output(c)) = HowMany(incoming, Output(c)) + (IF m = Output(c) THEN 1 ELSE 0)
<1>1. EnvTypeOK /\ FromDaemon /\ LastWord
  BY DEF EnvIInv
<1>2. /\ incoming \in Seq(Frame) /\ Len(incoming) \in Nat
      /\ \A i \in 1..Len(incoming) : incoming[i].of \in Requests
  BY <1>1, Streams DEF Frame
<1>3. \A c : HowMany(incoming', Output(c)) = HowMany(incoming, Output(c)) + (IF m = Output(c) THEN 1 ELSE 0)
  BY <1>2, OneMore
<1> DEFINE n == Len(incoming) + 1
<1>4. /\ incoming' \in Seq(Frame) /\ Len(incoming') = n /\ incoming'[n] = m
      /\ \A i \in 1..Len(incoming) : incoming'[i] = incoming[i]
  BY <1>2, AppendProperties
<1>5. m.of \in Requests /\ \A i \in 1..n : i \in 1..Len(incoming) \/ i = n
  BY <1>2 DEF Frame
<1>6. FromDaemon'
  <2>1. ASSUME NEW i \in 1..n
        PROVE  /\ incoming'[i].kind \in {"response", "output"}
               /\ incoming'[i].kind = "response" => job'[incoming'[i].of] = "done"
               /\ incoming'[i].kind = "output" => incoming'[i].of \in Commands /\ job'[incoming'[i].of] # "none"
    <3>1. CASE i \in 1..Len(incoming)
      BY <1>1, <1>2, <1>4, <3>1 DEF FromDaemon
    <3>2. CASE i = n
      BY <1>4, <1>5, <3>2
    <3> QED BY <1>5, <3>1, <3>2
  <2> QED BY <1>4, <2>1 DEF FromDaemon
<1>7. LastWord'
  <2>1. ASSUME NEW i \in 1..n, NEW k \in 1..n, incoming'[i].kind = "response",
               incoming'[k].kind = "output", incoming'[k].of = incoming'[i].of
        PROVE  k < i
    <3>1. CASE i \in 1..Len(incoming) /\ k \in 1..Len(incoming)
      BY <1>1, <1>4, <2>1, <3>1 DEF LastWord
    <3>2. CASE i = n /\ k \in 1..Len(incoming)
      BY <1>2, <3>2
    <3>3. CASE i \in 1..Len(incoming) /\ k = n
      <4>1. job[incoming[i].of] = "done" /\ incoming[i].of = m.of /\ m.kind = "output"
        BY <1>1, <1>4, <2>1, <3>3 DEF FromDaemon
      <4> QED BY <4>1
    <3>4. CASE i = n /\ k = n
      BY <2>1, <3>4
    <3> QED BY <1>5, <3>1, <3>2, <3>3, <3>4
  <2> QED BY <1>4, <2>1 DEF LastWord
<1> QED BY <1>3, <1>4, <1>6, <1>7

\* OpEnds and ChildCloses: the last word on a request.
LEMMA EndsKeep ==
  ASSUME EnvIInv, NEW c \in Calls, (OpEnds(c) /\ c \in Ops) \/ (ChildCloses(c) /\ c \in Commands)
  PROVE  EnvIInv'
<1> DEFINE m == [kind |-> "response", of |-> c]
<1>1. /\ EnvTypeOK /\ Begun /\ ToDaemon /\ FromDaemon /\ LastWord /\ ChildrenRun
      /\ AnsweredIsDone /\ NoOutputLost
  BY DEF EnvIInv
<1>2. /\ job[c] \in {"working", "killed"} /\ job' = [job EXCEPT ![c] = "done"]
      /\ incoming' = Append(incoming, m)
      /\ UNCHANGED <<call, closed, open, listening, outgoing, daemon, written, fired, heard, seen>>
      /\ \/ c \in Ops /\ children' = children
         \/ c \in Commands /\ children' = children \ {c}
  BY RequestsFacts DEF OpEnds, ChildCloses, Reply, client, signals
<1>3. m \in Frame /\ m.kind = "response" /\ m.of = c /\ c \in Requests
  BY RequestsFacts DEF Frame
<1> HIDE DEF m
<1>4. /\ job' \in [Requests -> {"none", "working", "killed", "done"}] /\ job'[c] = "done"
      /\ \A r \in Requests : r # c => job'[r] = job[r]
  BY <1>1, <1>2, <1>3 DEF EnvTypeOK
<1>5. /\ FromDaemon' /\ LastWord' /\ incoming' \in Seq(Frame)
      /\ \A d : HowMany(incoming', Output(d)) = HowMany(incoming, Output(d)) + (IF m = Output(d) THEN 1 ELSE 0)
  <2>1. \A r \in Requests : /\ job[r] = "done" => job'[r] = "done"
                            /\ job[r] # "none" => job'[r] # "none"
    BY <1>4
  <2> QED BY <1>2, <1>3, <1>4, <2>1, ReplyKeeps
<1>6. \A d \in Commands : HowMany(incoming', Output(d)) = HowMany(incoming, Output(d))
  <2>1. \A d \in Commands : m # Output(d) /\ HowMany(incoming, Output(d)) \in Nat
    BY <1>1, <1>3, Streams, PlacesAreFinite, OutputFrames
  <2> QED BY <1>5, <2>1
<1>7. EnvTypeOK'
  <2>1. children' \subseteq Commands
    BY <1>1, <1>2 DEF EnvTypeOK
  <2> QED BY <1>1, <1>2, <1>4, <1>5, <2>1 DEF EnvTypeOK
<1>8. Begun'
  <2>1. call[c] # "idle"
    BY <1>1, <1>2, <1>3 DEF Begun
  <2> QED BY <1>1, <1>2, <1>4, <2>1, RequestsFacts DEF Begun
<1>9. ToDaemon'
  BY <1>1, <1>2, <1>4, RequestsFacts DEF ToDaemon
<1>10. ChildrenRun'
  <2>1. children \subseteq Requests /\ children' \subseteq children \ {c}
    <3>1. children \subseteq Commands
      BY <1>1 DEF EnvTypeOK
    <3>2. c \in Commands \/ c \notin children
      BY <3>1, RequestsFacts
    <3> QED BY <1>2, <3>1, <3>2, RequestsFacts
  <2> QED BY <1>1, <1>4, <2>1 DEF ChildrenRun
<1>11. AnsweredIsDone' /\ NoOutputLost'
  BY <1>1, <1>2, <1>4, <1>6 DEF AnsweredIsDone, NoOutputLost
<1> QED BY <1>5, <1>7, <1>8, <1>9, <1>10, <1>11 DEF EnvIInv

LEMMA ChildWritesKeeps ==
  ASSUME EnvIInv, NEW c \in Commands, ChildWrites(c)
  PROVE  EnvIInv'
<1> DEFINE m == [kind |-> "output", of |-> c]
<1>1. /\ EnvTypeOK /\ Begun /\ ToDaemon /\ FromDaemon /\ LastWord /\ ChildrenRun
      /\ AnsweredIsDone /\ NoOutputLost
  BY DEF EnvIInv
<1>2. /\ job[c] \in {"working", "killed"} /\ written[c] < MaxChunks
      /\ written' = [written EXCEPT ![c] = @ + 1]
      /\ incoming' = Append(incoming, m)
      /\ UNCHANGED <<call, closed, open, listening, outgoing, daemon, job, children, fired, heard, seen>>
  BY DEF ChildWrites, Reply, client, signals
<1>3. m \in Frame /\ m.kind = "output" /\ m.of = c /\ c \in Requests
  BY RequestsFacts DEF Frame
<1> HIDE DEF m
<1>4. /\ FromDaemon' /\ LastWord' /\ incoming' \in Seq(Frame)
      /\ \A d : HowMany(incoming', Output(d)) = HowMany(incoming, Output(d)) + (IF m = Output(d) THEN 1 ELSE 0)
  <2>1. \A r \in Requests : /\ job[r] = "done" => job'[r] = "done"
                            /\ job[r] # "none" => job'[r] # "none"
    BY <1>2
  <2> QED BY <1>2, <1>3, <2>1, ReplyKeeps
<1>5. \A d \in Commands : /\ HowMany(incoming, Output(d)) \in Nat
                          /\ HowMany(incoming', Output(d)) = HowMany(incoming, Output(d)) + (IF c = d THEN 1 ELSE 0)
  <2>1. \A d : (m = Output(d) <=> c = d) /\ HowMany(incoming, Output(d)) \in Nat
    BY <1>1, <1>3, Streams, PlacesAreFinite, OutputFrames
  <2> QED BY <1>4, <2>1
<1>6. /\ written \in [Commands -> 0..MaxChunks] /\ seen \in [Commands -> 0..MaxChunks]
      /\ written' \in [Commands -> 0..MaxChunks] /\ written'[c] = written[c] + 1
      /\ \A d \in Commands : d # c => written'[d] = written[d]
  <2>1. written \in [Commands -> 0..MaxChunks] /\ seen \in [Commands -> 0..MaxChunks]
    BY <1>1 DEF EnvTypeOK
  <2>2. written[c] + 1 \in 0..MaxChunks
    BY <1>2, <2>1, RequestsFacts
  <2> QED BY <1>2, <2>1, <2>2
<1>7. EnvTypeOK'
  BY <1>1, <1>2, <1>4, <1>6 DEF EnvTypeOK
<1>8. Begun' /\ ToDaemon' /\ ChildrenRun' /\ AnsweredIsDone'
  BY <1>1, <1>2 DEF Begun, ToDaemon, ChildrenRun, AnsweredIsDone
<1>9. NoOutputLost'
  <2>1. call[c] # "answered"
    BY <1>1, <1>2, <1>3 DEF AnsweredIsDone
  <2>2. ASSUME NEW d \in Commands
        PROVE  /\ call[d] \in {"idle", "sent"} => seen[d] + HowMany(incoming', Output(d)) = written'[d]
               /\ call[d] = "answered" => seen[d] = written'[d]
    <3>1. CASE d = c
      BY <1>1, <1>5, <1>6, <2>1, <3>1 DEF NoOutputLost
    <3>2. CASE d # c
      BY <1>1, <1>5, <1>6, <3>2 DEF NoOutputLost
    <3> QED BY <3>1, <3>2
  <2> QED BY <1>2, <2>2 DEF NoOutputLost
<1> QED BY <1>4, <1>7, <1>8, <1>9 DEF EnvIInv

LEMMA DaemonReceivesKeeps ==
  ASSUME EnvIInv, DaemonReceives
  PROVE  EnvIInv'
<1> DEFINE h == Head(outgoing)  t == Tail(outgoing)
           m == [kind |-> "response", of |-> Bye]
<1>1. /\ EnvTypeOK /\ Begun /\ ToDaemon /\ FromDaemon /\ LastWord /\ ChildrenRun
      /\ AnsweredIsDone /\ NoOutputLost
  BY DEF EnvIInv
<1>2. /\ Len(outgoing) \in Nat \ {0} /\ t \in Seq(Frame) /\ Len(t) = Len(outgoing) - 1
      /\ h = outgoing[1] /\ h \in Frame /\ \A i \in 1..(Len(outgoing) - 1) : t[i] = outgoing[i + 1]
  BY <1>1, Streams DEF DaemonReceives
<1>3. /\ outgoing' = t
      /\ UNCHANGED <<call, closed, open, listening, daemon, written, fired, heard, seen>>
      /\ \/ h.of = Bye /\ DaemonDisposes
         \/ h.of # Bye /\ DaemonStarts(h) /\ UNCHANGED incoming
  BY DEF DaemonReceives, client, signals
<1>4. /\ h.of \in Requests /\ h.kind \in {"request", "abort"}
      /\ h.kind = "request" => call[h.of] # "idle" /\ job[h.of] = "none"
      /\ h.of = Bye => h.kind = "request"
  BY <1>1, <1>2, RequestsFacts DEF ToDaemon, Frame
<1>5. m \in Frame /\ m.kind = "response" /\ m.of = Bye
  BY RequestsFacts DEF Frame
<1> HIDE DEF h, t, m
<1>6. /\ children \subseteq Commands /\ children \subseteq Requests /\ Bye \notin children
      /\ \A c \in children : job[c] \in {"working", "killed"}
      /\ job \in [Requests -> {"none", "working", "killed", "done"}]
  BY <1>1, RequestsFacts DEF EnvTypeOK, ChildrenRun
<1>7. /\ job' \in [Requests -> {"none", "working", "killed", "done"}] /\ children' \subseteq Commands
      /\ \A r \in Requests : /\ job[r] = "done" => job'[r] = "done"
                             /\ job[r] # "none" => job'[r] # "none"
                             /\ job[r] = "none" /\ job'[r] # "none" => h.kind = "request" /\ r = h.of
      /\ \A c \in children' : job'[c] \in {"working", "killed"}
  <2>1. CASE h.of = Bye /\ DaemonDisposes
    BY <1>4, <1>6, <2>1, RequestsFacts DEF DaemonDisposes
  <2>2. CASE h.of # Bye /\ DaemonStarts(h) /\ h.kind = "request"
    <3>1. job' = [job EXCEPT ![h.of] = "working"] /\ children' = children \cup ({h.of} \cap Commands)
      <4>1. job' = CASE h.kind = "request"  -> [job EXCEPT ![h.of] = "working"]
                     [] h.of \in children   -> [job EXCEPT ![h.of] = "killed"]
                     [] OTHER               -> job
        BY <2>2 DEF DaemonStarts
      <4>2. ~(h.of \in children)
        BY <1>4, <1>6, <2>2
      <4>3. job' = [job EXCEPT ![h.of] = "working"]
        BY <2>2, <4>1, <4>2
      <4> QED BY <2>2, <4>3 DEF DaemonStarts
    <3> QED BY <1>4, <1>6, <2>2, <3>1
  <2>3. CASE h.of # Bye /\ DaemonStarts(h) /\ h.kind # "request"
    <3>1. /\ children' = children
          /\ job' = IF h.of \in children THEN [job EXCEPT ![h.of] = "killed"] ELSE job
      BY <2>3 DEF DaemonStarts
    <3>2. CASE h.of \in children
      BY <1>4, <1>6, <2>3, <3>1, <3>2
    <3>3. CASE h.of \notin children
      BY <1>4, <1>6, <2>3, <3>1, <3>3
    <3> QED BY <3>2, <3>3
  <2> QED BY <1>3, <2>1, <2>2, <2>3
<1>8. /\ FromDaemon' /\ LastWord' /\ incoming' \in Seq(Frame)
      /\ \A d \in Commands : HowMany(incoming', Output(d)) = HowMany(incoming, Output(d))
  <2>1. CASE UNCHANGED incoming
    <3>1. \A i \in 1..Len(incoming) : incoming[i].of \in Requests
      BY <1>1, Streams DEF Frame
    <3> QED BY <1>1, <1>7, <2>1, <3>1, Streams DEF FromDaemon, LastWord
  <2>2. CASE DaemonDisposes
    <3>1. incoming' = Append(incoming, m) /\ job'[Bye] = "done"
      BY <2>2, RequestsFacts DEF DaemonDisposes, Reply, m
    <3>2. /\ FromDaemon' /\ LastWord' /\ incoming' \in Seq(Frame)
          /\ \A d : HowMany(incoming', Output(d)) = HowMany(incoming, Output(d)) + (IF m = Output(d) THEN 1 ELSE 0)
      BY <1>5, <1>7, <3>1, ReplyKeeps
    <3>3. \A d \in Commands : m # Output(d) /\ HowMany(incoming, Output(d)) \in Nat
      BY <1>1, <1>5, Streams, PlacesAreFinite, OutputFrames
    <3> QED BY <3>2, <3>3
  <2> QED BY <1>3, <2>1, <2>2
<1>9. EnvTypeOK'
  BY <1>1, <1>2, <1>3, <1>7, <1>8 DEF EnvTypeOK
<1>10. Begun'
  BY <1>1, <1>3, <1>4, <1>7, RequestsFacts DEF Begun
<1>11. ToDaemon'
  <2>1. \A i \in 1..(Len(outgoing) - 1) : i + 1 \in 1..Len(outgoing) /\ 1 \in 1..Len(outgoing) /\ i + 1 # 1
    BY <1>2
  <2>2. \A i \in 1..(Len(outgoing) - 1) :
           /\ t[i].kind = "request" \/ (t[i].kind = "abort" /\ t[i].of \in Commands)
           /\ t[i] \in Frame
    BY <1>1, <1>2, <2>1, Streams DEF ToDaemon
  <2>3. \A i, k \in 1..(Len(outgoing) - 1) : t[i].kind = "request" /\ t[i] = t[k] => i = k
    BY <1>1, <1>2, <2>1 DEF ToDaemon
  <2>4. ASSUME NEW i \in 1..(Len(outgoing) - 1), t[i].kind = "request"
        PROVE  call[t[i].of] # "idle" /\ job'[t[i].of] = "none"
    <3>1. call[t[i].of] # "idle" /\ job[t[i].of] = "none"
      <4>1. i + 1 \in 1..Len(outgoing) /\ t[i] = outgoing[i + 1]
        BY <1>2, <2>1
      <4>2. \A k \in 1..Len(outgoing) : outgoing[k].kind = "request" =>
              call[outgoing[k].of] # "idle" /\ job[outgoing[k].of] = "none"
        BY <1>1 DEF ToDaemon
      <4> QED BY <2>4, <4>1, <4>2
    <3>2. t[i] # h
      BY <1>1, <1>2, <2>1, <2>4 DEF ToDaemon
    <3>3. h.kind = "request" => t[i].of # h.of
      <4>1. t[i] \in Frame /\ h \in Frame
        BY <1>1, <1>2, <2>2, Streams
      <4> QED BY <2>4, <3>2, <4>1, SameFrame
    <3>4. t[i].of \in Requests
      BY <2>2 DEF Frame
    <3> QED BY <1>4, <1>7, <2>4, <3>1, <3>3, <3>4
  <2> QED BY <1>2, <1>3, <2>2, <2>3, <2>4 DEF ToDaemon
<1>12. ChildrenRun' /\ AnsweredIsDone' /\ NoOutputLost'
  BY <1>1, <1>3, <1>7, <1>8 DEF ChildrenRun, AnsweredIsDone, NoOutputLost
<1> QED BY <1>8, <1>9, <1>10, <1>11, <1>12 DEF EnvIInv

LEMMA EnvUnchanged ==
  ASSUME EnvIInv, UNCHANGED envVars
  PROVE  EnvIInv'
<1>1. UNCHANGED <<call, closed, open, listening, outgoing, incoming, daemon, job, children, written,
                  fired, heard, seen>>
  BY DEF envVars, client, frames, server, signals
<1>2. EnvTypeOK'
  BY <1>1 DEF EnvIInv, EnvTypeOK
<1>3. (Begun /\ ToDaemon /\ FromDaemon /\ LastWord)'
  BY <1>1 DEF EnvIInv, Begun, ToDaemon, FromDaemon, LastWord
<1>4. (ChildrenRun /\ AnsweredIsDone /\ NoOutputLost)'
  BY <1>1 DEF EnvIInv, ChildrenRun, AnsweredIsDone, NoOutputLost
<1> QED BY <1>2, <1>3, <1>4 DEF EnvIInv

LEMMA EnvInitially == EnvInit => EnvIInv
<1> SUFFICES ASSUME EnvInit PROVE EnvIInv
  OBVIOUS
<1>1. Len(outgoing) = 0 /\ Len(incoming) = 0 /\ incoming \in Seq(Frame) /\ outgoing \in Seq(Frame)
  BY EmptySeq DEF EnvInit
<1>2. EnvTypeOK
  <2>1. /\ call \in [Requests -> {"idle", "sent", "answered", "rejected"}]
        /\ job \in [Requests -> {"none", "working", "killed", "done"}]
    BY DEF EnvInit
  <2>2. written \in [Commands -> 0..MaxChunks] /\ seen \in [Commands -> 0..MaxChunks]
    BY RequestsFacts DEF EnvInit
  <2> QED BY <1>1, <2>1, <2>2 DEF EnvInit, EnvTypeOK
<1>3. \A c \in Commands : HowMany(incoming, Output(c)) = 0
  <2>1. \A c \in Commands : \A i \in 1..Len(incoming) : incoming[i] # Output(c)
    BY <1>1
  <2> QED BY <1>1, <2>1, NoneThere
<1> QED BY <1>1, <1>2, <1>3, RequestsFacts
     DEF EnvInit, EnvIInv, Begun, ToDaemon, FromDaemon, LastWord, ChildrenRun, AnsweredIsDone, NoOutputLost

-----------------------------------------------------------------------------
Late == {"detect", "pull", "side", "cleanup", "over"}
Early == {"no", "ready", "env", "detect", "pull"}

\* Nothing is asked of an environment that is not made, and dispose waits for it.
StageOK ==
  /\ stage # "open" =>
       /\ \A r \in Requests : call[r] \in {"idle", "rejected"} /\ job[r] = "none"
       /\ outgoing = <<>> /\ listening = {}
  /\ ending = "env" => stage = "open"
  /\ ending \in Late => stage = "broken" \/ (stage = "open" /\ closed)
  /\ closed => \A r \in Requests : call[r] # "sent"
  /\ ending = "side" => ~failed
  /\ \A c \in waiting : call[c] = "idle"

\* Files are not lost, and until dispose pulls them the local ones are the user's.
FilesOK ==
  \A f \in Files :
    /\ local[f] # None
    /\ stage \in {"manifest", "open"} /\ ending # "over" => remote[f] # None
    /\ stage = "open" => seed[f] \in {None} \cup 0..edits
    /\ ending \in Early => local[f] \in 0..edits

\* An edit while the session was open is in its file, and was seen as a change.
EditsOK ==
  \A f \in Files : mine[f] # 0 /\ f \notin unwatched =>
    /\ stage = "open" /\ local[f] = mine[f] /\ mine[f] # seed[f]
    /\ ending = "pull" => f \in changed

\* Where a write of the task is: in the copy until the pull, then in its file, or
\* beside it where the user has changed it.
WorkOK ==
  \A c \in Ops : c \notin superseded =>
    /\ job[c] = "done" /\ ending \notin {"cleanup", "over"} => remote[FileOf[c]] = c
    /\ call[c] = "answered" /\ ~failed =>
         /\ ending \in {"side", "cleanup", "over"} /\ FileOf[c] \notin changed => local[FileOf[c]] = c
         /\ ending \in {"cleanup", "over"} /\ FileOf[c] \in changed => side[FileOf[c]] = c

SessionTypeOK ==
  /\ stage \in {"boot", "push", "manifest", "open", "broken"}
  /\ ending \in {"no", "ready", "env", "detect", "pull", "side", "cleanup", "over"}
  /\ waiting \subseteq Calls /\ changed \subseteq Files
  /\ local \in [Files -> Contents] /\ remote \in [Files -> Contents]
  /\ side \in [Files -> Contents] /\ seed \in [Files -> Contents]
  /\ edits \in 0..MaxEdits /\ mine \in [Files -> 0..MaxEdits]
  /\ unwatched \subseteq Files
  /\ superseded \subseteq Ops /\ failed \in BOOLEAN

SessionIInv == SessionTypeOK /\ StageOK /\ FilesOK /\ EditsOK /\ WorkOK
RemoteIInv == EnvIInv /\ SessionIInv

LEMMA FilesFacts ==
  /\ \A c \in Ops : FileOf[c] \in Files /\ c # None /\ c \in Calls /\ c \in Requests /\ c \notin Commands
                    /\ c \in Contents /\ c # Bye
  /\ MaxEdits \in Nat /\ None \notin 0..MaxEdits
  /\ \A n \in 0..MaxEdits : n \in Contents
  /\ None \in Contents /\ 0 \in 0..MaxEdits
BY FilesAssumption, RequestsAssumption DEF Contents, Calls, Requests

\* The steps that change neither the files nor the session.
LEMMA EnvStepKeeps ==
  ASSUME RemoteIInv, EnvIInv', UNCHANGED <<files, session, history>>, UNCHANGED closed,
         \A r \in Requests : /\ call'[r] = "sent" => call[r] = "sent"
                             /\ call'[r] = "answered" => call[r] \in {"sent", "answered"}
                             /\ call[r] = "idle" => call'[r] = "idle",
         \A c \in Ops : job'[c] = "done" => job[c] = "done",
         stage # "open" =>
           /\ \A r \in Requests : call'[r] \in {"idle", "rejected"} /\ job'[r] = "none"
           /\ outgoing' = <<>> /\ listening' = {}
  PROVE  RemoteIInv'
<1>1. /\ UNCHANGED <<stage, ending, waiting, seed, changed, local, remote, side,
                     edits, mine, unwatched, superseded, failed>>
      /\ SessionTypeOK /\ StageOK /\ FilesOK /\ EditsOK /\ WorkOK
  BY DEF files, session, history, RemoteIInv, SessionIInv
<1>2. SessionTypeOK' /\ FilesOK' /\ EditsOK'
  BY <1>1 DEF SessionTypeOK, FilesOK, EditsOK
<1>3. StageOK'
  <2>1. waiting \subseteq Requests
    BY <1>1, RequestsFacts DEF SessionTypeOK
  <2> QED BY <1>1, <2>1 DEF StageOK
<1>4. WorkOK'
  <2>1. ASSUME NEW c \in Ops, call'[c] = "answered", ending \in {"side", "cleanup", "over"}
        PROVE  call[c] = "answered"
    <3>1. call[c] # "sent"
      BY <1>1, <2>1, FilesFacts DEF StageOK, Late
    <3> QED BY <2>1, <3>1, FilesFacts
  <2> QED BY <1>1, <2>1 DEF WorkOK
<1> QED BY <1>2, <1>3, <1>4 DEF RemoteIInv, SessionIInv

LEMMA ReceivingKeeps ==
  ASSUME RemoteIInv, EnvStep(ClientReceives) \/ EnvStep(DaemonReceives)
  PROVE  RemoteIInv'
<1>1. EnvIInv /\ EnvIInv' /\ StageOK /\ EnvTypeOK
  BY ClientReceivesKeeps, DaemonReceivesKeeps DEF EnvStep, RemoteIInv, SessionIInv, EnvIInv
<1>2. CASE EnvStep(ClientReceives)
  <2> DEFINE m == Head(incoming)
  <2>1. /\ m.of \in Requests /\ job[m.of] # "none"
    <3>1. 1 \in 1..Len(incoming) /\ m = incoming[1] /\ incoming[1] \in Frame
      BY <1>1, <1>2, Streams DEF EnvStep, ClientReceives
    <3>2. m.kind \in {"response", "output"} /\ m.of \in Requests
      BY <1>1, <3>1 DEF EnvIInv, FromDaemon, Frame
    <3> QED BY <1>1, <3>1, <3>2 DEF EnvIInv, FromDaemon
  <2>2. /\ UNCHANGED <<files, session, history, closed, job, outgoing>>
        /\ \/ call' = call
           \/ call[m.of] = "sent" /\ call' = [call EXCEPT ![m.of] = "answered"]
    BY <1>2 DEF EnvStep, ClientReceives, server
  <2> HIDE DEF m
  <2>3. stage = "open"
    BY <1>1, <2>1 DEF StageOK
  <2>4. \A r \in Requests : /\ call'[r] = "sent" => call[r] = "sent"
                            /\ call'[r] = "answered" => call[r] \in {"sent", "answered"}
                            /\ call[r] = "idle" => call'[r] = "idle"
    <3>1. call \in [Requests -> {"idle", "sent", "answered", "rejected"}]
      BY <1>1 DEF EnvTypeOK
    <3> QED BY <2>1, <2>2, <3>1
  <2> QED BY <1>1, <2>2, <2>3, <2>4, EnvStepKeeps
<1>3. CASE EnvStep(DaemonReceives)
  <2>1. /\ outgoing # <<>> /\ UNCHANGED <<files, session, history, closed, call>>
        /\ \/ DaemonDisposes
           \/ Head(outgoing).of # Bye /\ DaemonStarts(Head(outgoing))
    BY <1>3 DEF EnvStep, DaemonReceives, client
  <2>2. stage = "open"
    BY <1>1, <2>1 DEF StageOK
  <2>3. \A c \in Ops : job'[c] = "done" => job[c] = "done"
    <3>1. job \in [Requests -> {"none", "working", "killed", "done"}]
      BY <1>1 DEF EnvTypeOK
    <3>2. CASE DaemonDisposes
      BY <3>1, <3>2, FilesFacts DEF DaemonDisposes
    <3>3. CASE DaemonStarts(Head(outgoing))
      <4> DEFINE h == Head(outgoing)
      <4>1. job' = job \/ job' = [job EXCEPT ![h.of] = "working"] \/ job' = [job EXCEPT ![h.of] = "killed"]
        BY <3>3 DEF DaemonStarts
      <4> HIDE DEF h
      <4> QED BY <3>1, <4>1, FilesFacts
    <3> QED BY <2>1, <3>2, <3>3
  <2> QED BY <1>1, <2>1, <2>2, <2>3, EnvStepKeeps
<1> QED BY <1>2, <1>3

LEMMA CommandsKeep ==
  ASSUME RemoteIInv, NEW c \in Commands,
         EnvStep(Fire(c)) \/ EnvStep(ChildWrites(c)) \/ EnvStep(ChildCloses(c))
  PROVE  RemoteIInv'
<1>1. EnvIInv /\ EnvIInv' /\ StageOK /\ EnvTypeOK /\ c \in Requests /\ c \in Calls
  BY FireKeeps, ChildWritesKeeps, EndsKeep, RequestsFacts DEF EnvStep, RemoteIInv, SessionIInv, EnvIInv
<1>2. UNCHANGED <<files, session, history, call, closed>>
  BY DEF EnvStep, Fire, ChildWrites, ChildCloses, client
<1>3. CASE Fire(c)
  <2>1. UNCHANGED job /\ (listening = {} => listening' = {} /\ outgoing' = outgoing)
    BY <1>3 DEF Fire, server
  <2> QED BY <1>1, <1>2, <2>1, EnvStepKeeps DEF StageOK
<1>4. CASE ChildWrites(c) \/ ChildCloses(c)
  <2>1. /\ job[c] # "none" /\ (job' = job \/ job' = [job EXCEPT ![c] = "done"])
    BY <1>4 DEF ChildWrites, ChildCloses
  <2>2. stage = "open"
    BY <1>1, <2>1 DEF StageOK
  <2>3. \A d \in Ops : job'[d] = job[d]
    BY <1>1, <2>1, FilesFacts DEF EnvTypeOK
  <2> QED BY <1>1, <1>2, <2>2, <2>3, EnvStepKeeps
<1> QED BY <1>3, <1>4 DEF EnvStep

LEMMA ExitsKeep ==
  ASSUME RemoteIInv, EnvStep(TransportCloses) \/ (stage = "open" /\ EnvStep(DaemonExits))
  PROVE  RemoteIInv'
<1>1. EnvIInv /\ EnvIInv' /\ StageOK /\ EnvTypeOK
  BY CloseKeeps DEF EnvStep, RemoteIInv, SessionIInv, EnvIInv
<1>2. /\ UNCHANGED <<files, session, history, closed, job>>
      /\ \/ call' = call
         \/ call' = [r \in Requests |-> IF call[r] = "sent" THEN "rejected" ELSE call[r]]
      /\ stage # "open" => outgoing' = outgoing /\ listening' = {}
  BY DEF EnvStep, TransportCloses, DaemonExits, RejectPending, server, frames, client
<1>3. \A r \in Requests : /\ call'[r] = "sent" => call[r] = "sent"
                          /\ call'[r] = "answered" => call[r] \in {"sent", "answered"}
                          /\ call[r] \in {"idle", "rejected"} => call'[r] = call[r]
  BY <1>2
<1>4. stage # "open" =>
        /\ \A r \in Requests : call'[r] \in {"idle", "rejected"} /\ job'[r] = "none"
        /\ outgoing' = <<>> /\ listening' = {}
  BY <1>1, <1>2, <1>3 DEF StageOK
<1> QED BY <1>1, <1>2, <1>3, <1>4, EnvStepKeeps

LEMMA InitsKeep ==
  ASSUME RemoteIInv, Bootstrap \/ Push \/ Manifest
  PROVE  RemoteIInv'
<1>1. EnvIInv /\ EnvIInv' /\ SessionTypeOK /\ StageOK /\ FilesOK /\ EditsOK /\ WorkOK
  BY EnvUnchanged DEF Bootstrap, Push, Manifest, RemoteIInv, SessionIInv
<1>2. /\ stage \in {"boot", "push", "manifest"} /\ stage' # stage
      /\ UNCHANGED <<call, job, outgoing, listening, closed, local, side, ending, waiting, changed,
                     edits, mine, unwatched, superseded, failed>>
  BY DEF Bootstrap, Push, Manifest, envVars, client, frames, server, files, history
<1>3. ending \in {"no", "ready"}
  BY <1>1, <1>2 DEF StageOK, SessionTypeOK, Late
<1>4. /\ \A r \in Requests : call[r] \in {"idle", "rejected"} /\ job[r] = "none"
      /\ outgoing = <<>> /\ listening = {}
  BY <1>1, <1>2 DEF StageOK
<1>5. \A f \in Files : mine[f] # 0 => f \in unwatched
  BY <1>1, <1>2 DEF EditsOK
<1>6. /\ SessionTypeOK'
      /\ \A f \in Files : /\ stage' \in {"manifest", "open"} => remote'[f] # None
                          /\ stage' = "open" => seed'[f] \in {None} \cup 0..edits
  <2>1. CASE Bootstrap
    BY <1>1, <1>2, <2>1 DEF Bootstrap, SessionTypeOK, files
  <2>2. CASE Push
    <3>1. PICK pushed \in SUBSET Files :
             /\ remote' = [f \in Files |-> IF f \in pushed THEN local[f] ELSE remote[f]]
             /\ stage' \in {"broken"} \cup (IF pushed = Files THEN {"manifest"} ELSE {})
      BY <2>2 DEF Push
    <3>2. /\ stage' = "broken" \/ (stage' = "manifest" /\ pushed = Files)
          /\ seed' = seed
      BY <2>2, <3>1 DEF Push
    <3>3. remote' \in [Files -> Contents]
      BY <1>1, <3>1 DEF SessionTypeOK
    <3>4. \A f \in Files : stage' = "manifest" => remote'[f] # None
      BY <1>1, <3>1, <3>2 DEF FilesOK
    <3> QED BY <1>1, <1>2, <3>2, <3>3, <3>4 DEF SessionTypeOK
  <2>3. CASE Manifest
    <3>1. PICK readable \in SUBSET Files :
             seed' = [f \in Files |-> IF f \in readable THEN local[f] ELSE None]
      BY <2>3 DEF Manifest
    <3>2. stage' = "open" /\ stage = "manifest" /\ remote' = remote
      BY <2>3 DEF Manifest, files
    <3>3. \A f \in Files : seed'[f] \in {None} \cup 0..edits /\ remote'[f] # None
      BY <1>1, <1>3, <3>1, <3>2 DEF FilesOK, Early
    <3>4. seed' \in [Files -> Contents]
      BY <1>1, <3>1 DEF SessionTypeOK, Contents
    <3> QED BY <1>1, <1>2, <3>2, <3>3, <3>4 DEF SessionTypeOK
  <2> QED BY <2>1, <2>2, <2>3
<1>7. FilesOK'
  BY <1>1, <1>2, <1>6 DEF FilesOK
<1>8. StageOK'
  BY <1>1, <1>2, <1>3, <1>4 DEF StageOK, Late
<1>9. EditsOK'
  BY <1>2, <1>5 DEF EditsOK
<1>10. WorkOK'
  BY <1>2, <1>3, <1>4, FilesFacts DEF WorkOK
<1> QED BY <1>1, <1>6, <1>7, <1>8, <1>9, <1>10 DEF RemoteIInv, SessionIInv

LEMMA TurnAwayEnv ==
  ASSUME RemoteIInv, NEW c \in Calls, TurnAway(c)
  PROVE  EnvIInv'
<1>1. /\ EnvTypeOK /\ Begun /\ ToDaemon /\ FromDaemon /\ LastWord /\ ChildrenRun
      /\ AnsweredIsDone /\ NoOutputLost /\ c \in Requests
  BY RequestsFacts DEF EnvIInv, RemoteIInv
<1>2. /\ call' = [call EXCEPT ![c] = "rejected"]
      /\ UNCHANGED <<closed, open, listening, outgoing, incoming, daemon, job, children, written,
                     fired, heard, seen>>
  BY DEF TurnAway, frames, server, signals
<1>3. /\ call' \in [Requests -> {"idle", "sent", "answered", "rejected"}]
      /\ \A r \in Requests : /\ call'[r] = "idle" => call[r] = "idle"
                             /\ call'[r] \in {"idle", "sent", "answered"} => call'[r] = call[r]
                             /\ call[r] # "idle" => call'[r] # "idle"
  BY <1>1, <1>2 DEF EnvTypeOK
<1>4. EnvTypeOK'
  BY <1>1, <1>2, <1>3 DEF EnvTypeOK
<1>5. (Begun /\ FromDaemon /\ LastWord /\ ChildrenRun /\ AnsweredIsDone)'
  BY <1>1, <1>2, <1>3, RequestsFacts DEF Begun, FromDaemon, LastWord, ChildrenRun, AnsweredIsDone
<1>6. NoOutputLost'
  BY <1>1, <1>2, <1>3, RequestsFacts DEF NoOutputLost
<1>7. ToDaemon'
  <2>1. \A i \in 1..Len(outgoing) : outgoing[i].of \in Requests
    BY <1>1, Streams DEF Frame
  <2> QED BY <1>1, <1>2, <1>3, <2>1 DEF ToDaemon
<1> QED BY <1>4, <1>5, <1>6, <1>7 DEF EnvIInv

LEMMA UsesKeep ==
  ASSUME RemoteIInv, NEW c \in Calls, AwaitUse(c) \/ PassOn(c) \/ TurnAway(c)
  PROVE  RemoteIInv'
<1>1. EnvIInv /\ SessionTypeOK /\ StageOK /\ FilesOK /\ EditsOK /\ WorkOK /\ EnvTypeOK /\ c \in Requests
  BY RequestsFacts DEF RemoteIInv, SessionIInv, EnvIInv
<1>2. EnvIInv'
  BY <1>1, EnvUnchanged, TurnAwayEnv, RequestKeeps DEF AwaitUse, PassOn
<1>3. /\ UNCHANGED <<stage, ending, seed, changed, local, remote, side,
                     edits, mine, unwatched, superseded, failed, closed, job>>
      /\ waiting' \in {waiting \cup {c}, waiting \ {c}}
      /\ \/ call' = call /\ UNCHANGED <<outgoing, listening>>
         \/ call' = [call EXCEPT ![c] = "rejected"] /\ (stage # "open" => UNCHANGED <<outgoing, listening>>)
         \/ call' = [call EXCEPT ![c] = "sent"] /\ ~closed /\ stage = "open"
  BY DEF AwaitUse, PassOn, TurnAway, Request, envVars, client, frames, server, files, history
<1>4. SessionTypeOK' /\ FilesOK' /\ EditsOK'
  <2>1. waiting' \subseteq Calls
    BY <1>1, <1>3 DEF SessionTypeOK
  <2> QED BY <1>1, <1>3, <2>1 DEF SessionTypeOK, FilesOK, EditsOK
<1>5. \A r \in Requests : /\ call'[r] = "sent" => call[r] = "sent" \/ ~closed
                          /\ r # c => call'[r] = call[r]
                          /\ call'[r] = "answered" => call[r] = "answered"
                          /\ stage # "open" /\ call[r] \in {"idle", "rejected"} => call'[r] \in {"idle", "rejected"}
  <2>1. call \in [Requests -> {"idle", "sent", "answered", "rejected"}]
    BY <1>1 DEF EnvTypeOK
  <2> QED BY <1>3, <2>1
<1>6. StageOK'
  <2>1. \A d \in waiting' : call'[d] = "idle"
    <3>1. waiting \subseteq Requests /\ \A d \in waiting : call[d] = "idle"
      BY <1>1, RequestsFacts DEF SessionTypeOK, StageOK
    <3>2. (call' = call /\ call[c] = "idle") \/ c \notin waiting'
      BY <3>1 DEF AwaitUse, PassOn, TurnAway, envVars, client
    <3> QED BY <1>3, <1>5, <3>1, <3>2
  <2> QED BY <1>1, <1>3, <1>5, <2>1 DEF StageOK
<1>7. WorkOK'
  BY <1>1, <1>3, <1>5, FilesFacts DEF WorkOK
<1> QED BY <1>2, <1>4, <1>6, <1>7 DEF RemoteIInv, SessionIInv

LEMMA WriteKeeps ==
  ASSUME RemoteIInv, NEW c \in Ops, Write(c)
  PROVE  RemoteIInv'
<1> DEFINE f == FileOf[c]
<1>1. EnvIInv /\ SessionTypeOK /\ StageOK /\ FilesOK /\ EditsOK /\ WorkOK /\ EnvTypeOK
  BY DEF RemoteIInv, SessionIInv, EnvIInv
<1>2. EnvIInv'
  BY <1>1, EndsKeep, FilesFacts DEF Write
<1>3. /\ UNCHANGED <<stage, ending, waiting, seed, changed, local, side,
                     edits, mine, unwatched, failed, closed, call, outgoing, listening>>
      /\ job[c] = "working" /\ job' = [job EXCEPT ![c] = "done"]
      /\ remote' = IF remote[f] = None THEN remote ELSE [remote EXCEPT ![f] = c]
      /\ superseded' = superseded \cup (Ops \cap {remote[f]})
  BY DEF Write, OpEnds, client, session
<1>4. f \in Files /\ c \in Requests /\ c # None /\ c \in Contents
  BY FilesFacts
<1> HIDE DEF f
<1>5. stage = "open"
  BY <1>1, <1>3, <1>4 DEF StageOK
<1>6. /\ remote \in [Files -> Contents] /\ remote' \in [Files -> Contents]
      /\ \A g \in Files : remote'[g] = IF g = f /\ remote[f] # None THEN c ELSE remote[g]
  BY <1>1, <1>3, <1>4 DEF SessionTypeOK
<1>7. SessionTypeOK'
  BY <1>1, <1>3, <1>6 DEF SessionTypeOK
<1>8. FilesOK' /\ EditsOK' /\ StageOK'
  <2>1. FilesOK'
    BY <1>1, <1>3, <1>4, <1>6 DEF FilesOK
  <2> QED BY <1>1, <1>3, <1>5, <2>1 DEF EditsOK, StageOK
<1>9. WorkOK'
  <2>1. ASSUME NEW d \in Ops, d \notin superseded', job'[d] = "done", ending \notin {"cleanup", "over"}
        PROVE  remote'[FileOf[d]] = d
    <3>1. FileOf[d] \in Files /\ remote[f] # None
      BY <1>1, <1>4, <1>5, <2>1, FilesFacts DEF FilesOK
    <3>2. CASE d = c
      BY <1>4, <1>6, <3>1, <3>2 DEF f
    <3>3. CASE d # c
      <4>1. job[d] = "done" /\ d \notin superseded /\ d # remote[f]
        BY <1>1, <1>3, <1>4, <2>1, <3>3, FilesFacts DEF EnvTypeOK
      <4>2. remote[FileOf[d]] = d
        BY <1>1, <2>1, <4>1 DEF WorkOK
      <4> QED BY <1>6, <3>1, <4>1, <4>2
    <3> QED BY <3>2, <3>3
  <2>2. \A d \in Ops : d \notin superseded' => d \notin superseded
    BY <1>3
  <2> QED BY <1>1, <1>3, <2>1, <2>2 DEF WorkOK
<1> QED BY <1>2, <1>7, <1>8, <1>9 DEF RemoteIInv, SessionIInv

LEMMA EditKeeps ==
  ASSUME RemoteIInv, NEW f \in Files, Edit(f)
  PROVE  RemoteIInv'
<1>1. EnvIInv /\ EnvIInv' /\ SessionTypeOK /\ StageOK /\ FilesOK /\ EditsOK /\ WorkOK
  BY EnvUnchanged DEF Edit, RemoteIInv, SessionIInv
<1>2. /\ UNCHANGED <<stage, ending, waiting, seed, changed, remote, side, failed,
                     call, job, outgoing, listening, closed>>
      /\ edits < MaxEdits /\ edits' = edits + 1
      /\ local' = [local EXCEPT ![f] = edits']
      /\ superseded' = superseded \cup (Ops \cap {local[f]})
      /\ mine' = [mine EXCEPT ![f] = IF stage \in {"manifest", "open"} THEN edits' ELSE 0]
      /\ unwatched' = IF stage = "open" /\ ending \in {"no", "ready", "env", "detect"}
                      THEN unwatched \ {f} ELSE unwatched \cup {f}
  BY DEF Edit, session, envVars, client, frames, server
<1>3. /\ edits \in 0..MaxEdits /\ edits' \in 0..MaxEdits /\ edits' # None /\ edits' \in Contents
      /\ local \in [Files -> Contents] /\ mine \in [Files -> 0..MaxEdits]
  BY <1>1, <1>2, FilesFacts DEF SessionTypeOK
<1>4. /\ local' \in [Files -> Contents] /\ local'[f] = edits'
      /\ \A g \in Files : g # f => local'[g] = local[g]
  BY <1>2, <1>3
<1>5. /\ mine' \in [Files -> 0..MaxEdits]
      /\ \A g \in Files : g # f => mine'[g] = mine[g] /\ (g \in unwatched' <=> g \in unwatched)
  <2>1. (IF stage \in {"manifest", "open"} THEN edits' ELSE 0) \in 0..MaxEdits
    BY <1>3, FilesFacts
  <2> QED BY <1>2, <1>3, <2>1
<1>6. SessionTypeOK'
  <2>1. unwatched' \subseteq Files /\ superseded' \subseteq Ops
    BY <1>1, <1>2 DEF SessionTypeOK
  <2> QED BY <1>1, <1>2, <1>3, <1>4, <1>5, <2>1 DEF SessionTypeOK
<1>7. StageOK'
  BY <1>1, <1>2 DEF StageOK
<1>8. FilesOK'
  <2>1. \A n \in 0..edits : n \in 0..edits'
    BY <1>2, <1>3, FilesFacts
  <2>2. edits' \in 0..edits'
    BY <1>3, FilesFacts
  <2> QED BY <1>1, <1>2, <1>3, <1>4, <2>1, <2>2 DEF FilesOK
<1>9. EditsOK'
  <2>1. ASSUME NEW g \in Files, mine'[g] # 0, g \notin unwatched'
        PROVE  /\ stage = "open" /\ local'[g] = mine'[g] /\ mine'[g] # seed[g]
               /\ ending = "pull" => g \in changed
    <3>1. CASE g # f
      BY <1>1, <1>4, <1>5, <2>1, <3>1 DEF EditsOK
    <3>2. CASE g = f
      <4>1. stage = "open" /\ ending \in {"no", "ready", "env", "detect"}
        BY <1>2, <2>1, <3>2
      <4>2. mine'[f] = edits'
        BY <1>2, <1>3, <4>1
      <4>3. seed[f] \in {None} \cup 0..edits
        BY <1>1, <4>1 DEF FilesOK
      <4>4. edits' # seed[f]
        BY <1>2, <1>3, <4>3, FilesFacts
      <4> QED BY <1>4, <3>2, <4>1, <4>2, <4>4
    <3> QED BY <3>1, <3>2
  <2> QED BY <1>2, <2>1 DEF EditsOK
<1>10. WorkOK'
  <2>1. ASSUME NEW c \in Ops, c \notin superseded', local[FileOf[c]] = c
        PROVE  local'[FileOf[c]] = c
    BY <1>2, <1>4, <2>1, FilesFacts
  <2>2. \A c \in Ops : c \notin superseded' => c \notin superseded
    BY <1>2
  <2> QED BY <1>1, <1>2, <2>1, <2>2 DEF WorkOK
<1> QED BY <1>1, <1>6, <1>7, <1>8, <1>9, <1>10 DEF RemoteIInv, SessionIInv

\* dispose up to the detection.
LEMMA DisposeKeeps ==
  ASSUME RemoteIInv, Dispose \/ DisposeEnv \/ EnvDisposed
  PROVE  RemoteIInv'
<1>1. EnvIInv /\ SessionTypeOK /\ StageOK /\ FilesOK /\ EditsOK /\ WorkOK /\ EnvTypeOK /\ Bye \in Requests
  BY RequestsFacts DEF RemoteIInv, SessionIInv, EnvIInv
<1>2. EnvIInv'
  BY <1>1, EnvUnchanged, RequestKeeps, CloseKeeps DEF Dispose, DisposeEnv, EnvDisposed
<1>3. /\ UNCHANGED <<stage, waiting, seed, changed, local, remote, side,
                     edits, mine, unwatched, superseded, failed, job>>
      /\ \/ /\ ending = "no" /\ ending' = "ready" /\ UNCHANGED <<call, closed, outgoing, listening>>
         \/ /\ ending = "ready" /\ stage = "open" /\ ending' = "env" /\ closed' = closed
            /\ \/ call' = [call EXCEPT ![Bye] = "rejected"]
               \/ call' = [call EXCEPT ![Bye] = "sent"] /\ ~closed
         \/ /\ ending = "ready" /\ stage = "broken" /\ ending' = "detect"
            /\ UNCHANGED <<call, closed, outgoing, listening>>
         \/ /\ ending = "env" /\ ending' = "detect" /\ closed' = TRUE
            /\ call' = [r \in Requests |-> IF call[r] = "sent" THEN "rejected" ELSE call[r]]
  BY DEF Dispose, DisposeEnv, EnvDisposed, Disposed, RejectPending, Request,
         envVars, client, frames, server, files, history
<1>4. call \in [Requests -> {"idle", "sent", "answered", "rejected"}]
  BY <1>1 DEF EnvTypeOK
<1>5. \A r \in Requests : /\ call'[r] = "answered" => call[r] = "answered"
                          /\ closed' /\ closed => (call'[r] = "sent" => call[r] = "sent")
                          /\ closed' /\ ~closed => call'[r] # "sent"
                          /\ r # Bye /\ call[r] = "idle" => call'[r] = "idle"
  BY <1>1, <1>3, <1>4
<1>6. StageOK'
  <2>1. \A c \in waiting : c \in Requests /\ c # Bye
    BY <1>1, RequestsFacts DEF SessionTypeOK
  <2> QED BY <1>1, <1>3, <1>5, <2>1 DEF StageOK, Late
<1>7. SessionTypeOK' /\ FilesOK' /\ EditsOK' /\ WorkOK'
  <2>1. SessionTypeOK'
    BY <1>1, <1>3 DEF SessionTypeOK
  <2>2. /\ ending \in Early /\ ending' \in Early /\ ending # "over"
        /\ ending \notin {"pull", "side", "cleanup", "over"} /\ ending' \notin {"pull", "side", "cleanup", "over"}
    BY <1>3 DEF Early
  <2>3. FilesOK' /\ EditsOK'
    BY <1>1, <1>3, <2>2 DEF FilesOK, EditsOK
  <2>4. WorkOK'
    BY <1>1, <1>3, <2>2 DEF WorkOK
  <2> QED BY <2>1, <2>3, <2>4
<1> QED BY <1>2, <1>6, <1>7 DEF RemoteIInv, SessionIInv

\* The steps of conflictAwarePull, with the environment at rest.
LEMMA PullsKeep ==
  ASSUME RemoteIInv, Detect \/ Pull \/ PullAside \/ Cleanup
  PROVE  RemoteIInv'
<1>1. EnvIInv /\ EnvIInv' /\ SessionTypeOK /\ StageOK /\ FilesOK /\ EditsOK /\ WorkOK
  BY EnvUnchanged DEF Detect, Compare, CompareFails, Pull, PullAside, Cleanup, RemoteIInv, SessionIInv
<1>2. /\ UNCHANGED <<call, closed, job, outgoing, listening, stage, waiting, seed,
                     edits, mine, superseded>>
      /\ ending \in Late /\ ending' \in Late
  BY DEF Detect, Compare, CompareFails, Pull, PullAside, Cleanup, Late, envVars, client, frames, server, history
<1>3. \A c \in Ops : /\ FileOf[c] \in Files /\ c # None
                     /\ call[c] = "answered" => job[c] = "done"
  BY <1>1, FilesFacts DEF EnvIInv, AnsweredIsDone
<1>4. CASE Compare
  <2>1. PICK readable \in SUBSET Files :
          /\ changed' = {f \in readable : local[f] # seed[f]}
          /\ unwatched' = unwatched \cup {f \in Files \ readable : local[f] # seed[f]}
    BY <1>4 DEF Compare
  <2>2. UNCHANGED <<local, remote, side, failed>> /\ ending = "detect" /\ ending' = "pull"
    BY <1>4 DEF Compare, files
  <2>3. changed' \subseteq Files /\ unwatched' \subseteq Files
    BY <1>1, <2>1 DEF SessionTypeOK
  <2>4. SessionTypeOK'
    BY <1>1, <1>2, <2>2, <2>3 DEF SessionTypeOK
  <2>5. StageOK' /\ FilesOK'
    BY <1>1, <1>2, <2>2 DEF StageOK, FilesOK, Early
  <2>6. EditsOK'
    BY <1>1, <1>2, <2>1, <2>2 DEF EditsOK
  <2>7. WorkOK'
    BY <1>1, <1>2, <2>2 DEF WorkOK
  <2> QED BY <1>1, <2>4, <2>5, <2>6, <2>7 DEF RemoteIInv, SessionIInv
<1>5. CASE CompareFails
  <2>1. /\ UNCHANGED <<local, remote, side, changed, unwatched>>
        /\ ending = "detect" /\ ending' = "cleanup" /\ failed' = TRUE
    BY <1>5 DEF CompareFails, files
  <2>2. SessionTypeOK'
    BY <1>1, <1>2, <2>1 DEF SessionTypeOK
  <2>3. StageOK' /\ FilesOK'
    BY <1>1, <1>2, <2>1 DEF StageOK, FilesOK, Early
  <2>4. EditsOK'
    BY <1>1, <1>2, <2>1 DEF EditsOK
  <2>5. WorkOK'
    BY <1>1, <1>2, <2>1 DEF WorkOK
  <2> QED BY <1>1, <2>2, <2>3, <2>4, <2>5 DEF RemoteIInv, SessionIInv
<1>6. CASE Pull
  <2>1. PICK done \in SUBSET (Files \ changed), ok \in BOOLEAN :
          /\ ok => done = Files \ changed /\ remote # Nothing
          /\ local' = Copied(remote, local, done)
          /\ failed' = ~ok
          /\ ending' = IF ok /\ changed # {} THEN "side" ELSE "cleanup"
    BY <1>6 DEF Pull
  <2>2. /\ UNCHANGED <<remote, side, changed, unwatched>> /\ ending = "pull"
    BY <1>6 DEF Pull
  <2>3. \A f \in Files : local'[f] = IF f \in done /\ remote[f] # None THEN remote[f] ELSE local[f]
    BY <2>1 DEF Copied
  <2>4. local' \in [Files -> Contents] /\ \A f \in Files : f \in changed => local'[f] = local[f]
    <3>1. local' = [f \in Files |-> local'[f]]
      BY <2>1 DEF Copied
    <3>2. \A f \in Files : local'[f] \in Contents
      BY <1>1, <2>3 DEF SessionTypeOK
    <3> QED BY <2>3, <3>1, <3>2
  <2>5. SessionTypeOK'
    <3>1. failed' \in BOOLEAN /\ ending' \in {"side", "cleanup"}
      BY <2>1
    <3> QED BY <1>1, <1>2, <2>2, <2>4, <3>1 DEF SessionTypeOK
  <2>6. StageOK'
    BY <1>1, <1>2, <2>1, <2>2 DEF StageOK
  <2>7. FilesOK'
    BY <1>1, <1>2, <2>1, <2>2, <2>3 DEF FilesOK, Early
  <2>8. EditsOK'
    BY <1>1, <1>2, <2>2, <2>4 DEF EditsOK
  <2>9. WorkOK'
    <3>1. ASSUME NEW c \in Ops, c \notin superseded
          PROVE  /\ job[c] = "done" => remote[FileOf[c]] = c
                 /\ call[c] = "answered" => remote[FileOf[c]] = c
      BY <1>1, <1>3, <2>2, <3>1 DEF WorkOK
    <3>2. ASSUME NEW c \in Ops, c \notin superseded, call[c] = "answered", ~failed', FileOf[c] \notin changed
          PROVE  local'[FileOf[c]] = c
      BY <1>3, <2>1, <2>3, <3>1, <3>2
    <3>3. ~failed' /\ ending' = "cleanup" => changed = {}
      BY <2>1
    <3>4. ending' # "over"
      BY <2>1
    <3> QED BY <1>2, <2>2, <3>1, <3>2, <3>3, <3>4 DEF WorkOK
  <2> QED BY <1>1, <2>5, <2>6, <2>7, <2>8, <2>9 DEF RemoteIInv, SessionIInv
<1>7. CASE PullAside
  <2>1. PICK done \in SUBSET changed :
          /\ side' = Copied(remote, side, done)
          /\ failed' = (done # changed \/ \E f \in changed : remote[f] = None)
    BY <1>7 DEF PullAside
  <2>2. UNCHANGED <<local, remote, changed, unwatched>> /\ ending = "side" /\ ending' = "cleanup"
    BY <1>7 DEF PullAside
  <2>3. \A f \in Files : side'[f] = IF f \in done /\ remote[f] # None THEN remote[f] ELSE side[f]
    BY <2>1 DEF Copied
  <2>4. side' \in [Files -> Contents]
    <3>1. side' = [f \in Files |-> side'[f]]
      BY <2>1 DEF Copied
    <3>2. \A f \in Files : side'[f] \in Contents
      BY <1>1, <2>3 DEF SessionTypeOK
    <3> QED BY <3>1, <3>2
  <2>5. SessionTypeOK'
    <3>1. failed' \in BOOLEAN
      BY <2>1
    <3> QED BY <1>1, <1>2, <2>2, <2>4, <3>1 DEF SessionTypeOK
  <2>6. StageOK' /\ FilesOK' /\ EditsOK'
    BY <1>1, <1>2, <2>2 DEF StageOK, FilesOK, EditsOK, Early
  <2>7. WorkOK'
    <3>1. ~failed
      BY <1>1, <2>2 DEF StageOK
    <3>2. ASSUME NEW c \in Ops, c \notin superseded, call[c] = "answered"
          PROVE  /\ remote[FileOf[c]] = c
                 /\ FileOf[c] \notin changed => local[FileOf[c]] = c
      BY <1>1, <1>3, <2>2, <3>1, <3>2 DEF WorkOK
    <3>3. ASSUME NEW c \in Ops, c \notin superseded, call[c] = "answered", ~failed', FileOf[c] \in changed
          PROVE  side'[FileOf[c]] = c
      BY <1>3, <2>1, <2>3, <3>2, <3>3
    <3> QED BY <1>2, <2>2, <3>2, <3>3 DEF WorkOK
  <2> QED BY <1>1, <2>5, <2>6, <2>7 DEF RemoteIInv, SessionIInv
<1>8. CASE Cleanup
  <2>1. /\ UNCHANGED <<local, side, changed, unwatched, failed>> /\ ending = "cleanup" /\ ending' = "over"
        /\ remote' = remote \/ remote' = Nothing
    BY <1>8 DEF Cleanup, history
  <2>2. SessionTypeOK'
    <3>1. Nothing \in [Files -> Contents]
      BY FilesFacts DEF Nothing
    <3> QED BY <1>1, <1>2, <2>1, <3>1 DEF SessionTypeOK
  <2>3. StageOK' /\ FilesOK' /\ EditsOK' /\ WorkOK'
    BY <1>1, <1>2, <2>1 DEF StageOK, FilesOK, EditsOK, WorkOK, Early
  <2> QED BY <1>1, <2>2, <2>3 DEF RemoteIInv, SessionIInv
<1> QED BY <1>4, <1>5, <1>6, <1>7, <1>8 DEF Detect

LEMMA RemoteInitially == RemoteInit => RemoteIInv
<1> SUFFICES ASSUME RemoteInit PROVE RemoteIInv
  OBVIOUS
<1>1. EnvIInv /\ EnvInit
  BY EnvInitially DEF RemoteInit
<1>2. SessionTypeOK
  <2>1. /\ local \in [Files -> Contents] /\ Nothing \in [Files -> Contents]
        /\ mine \in [Files -> 0..MaxEdits] /\ edits \in 0..MaxEdits
    BY FilesFacts DEF RemoteInit, Nothing
  <2> QED BY <2>1 DEF RemoteInit, SessionTypeOK
<1>3. StageOK
  BY <1>1 DEF RemoteInit, EnvInit, StageOK, Late
<1>4. FilesOK
  BY FilesFacts DEF RemoteInit, FilesOK
<1>5. EditsOK /\ WorkOK
  BY <1>1, FilesFacts DEF RemoteInit, EnvInit, EditsOK, WorkOK
<1> QED BY <1>1, <1>2, <1>3, <1>4, <1>5 DEF RemoteIInv, SessionIInv

LEMMA RemoteSteps == RemoteIInv /\ [RemoteNext]_remoteVars => RemoteIInv'
<1> SUFFICES ASSUME RemoteIInv, [RemoteNext]_remoteVars PROVE RemoteIInv'
  OBVIOUS
<1>1. CASE Finishes
  BY <1>1, ReceivingKeeps, ExitsKeep, WriteKeeps, InitsKeep, UsesKeep, DisposeKeeps, PullsKeep DEF Finishes
<1>2. CASE \E c \in Calls : AwaitUse(c)
  BY <1>2, UsesKeep
<1>3. CASE \E c \in Commands : EnvStep(Fire(c)) \/ EnvStep(ChildWrites(c)) \/ EnvStep(ChildCloses(c))
  BY <1>3, CommandsKeep
<1>4. CASE stage = "open" /\ EnvStep(DaemonExits)
  BY <1>4, ExitsKeep
<1>5. CASE Dispose
  BY <1>5, DisposeKeeps
<1>6. CASE \E f \in Files : Edit(f)
  BY <1>6, EditKeeps
<1>7. CASE UNCHANGED remoteVars
  <2>1. UNCHANGED <<envVars, files, session, history>>
    BY <1>7 DEF remoteVars
  <2>2. EnvIInv' /\ EnvIInv /\ StageOK
    BY <2>1, EnvUnchanged DEF RemoteIInv, SessionIInv
  <2>3. UNCHANGED <<call, job, closed, outgoing, listening>>
    BY <2>1 DEF envVars, client, frames, server
  <2> QED BY <2>1, <2>2, <2>3, EnvStepKeeps DEF StageOK
<1> QED BY <1>1, <1>2, <1>3, <1>4, <1>5, <1>6, <1>7 DEF RemoteNext

LEMMA RemoteInvariant == RemoteSpec => []RemoteIInv
BY RemoteInitially, RemoteSteps, PTL DEF RemoteSpec

-----------------------------------------------------------------------------
\* Every state has the declared types: the streams hold frames of requests that
\* exist, a command writes and is read within its bound.
THEOREM RemoteTypeCorrect == RemoteSpec => []RemoteTypeOK
<1>1. RemoteIInv => RemoteTypeOK
  BY DEF RemoteIInv, EnvIInv, SessionIInv, SessionTypeOK, RemoteTypeOK
<1> QED BY <1>1, RemoteInvariant, PTL

\* The caller of runCommand has all output of its command when it has the response:
\* the daemon sends it on "close", behind every chunk, and the streams keep order.
THEOREM OutputComesWhole == RemoteSpec => []OutputIsWhole
<1>1. RemoteIInv => OutputIsWhole
  BY DEF RemoteIInv, EnvIInv, NoOutputLost, OutputIsWhole
<1> QED BY <1>1, RemoteInvariant, PTL

\* dispose never replaces what the user saved while the session was open: such a
\* file differs from the manifest, so the pull leaves it out.
THEOREM EditsOutliveTheSession == RemoteSpec => []SessionEditsSurvive
<1>1. RemoteIInv => SessionEditsSurvive
  BY DEF RemoteIInv, SessionIInv, EditsOK, SessionEditsSurvive
<1> QED BY <1>1, RemoteInvariant, PTL

\* A write the task was told of and nothing replaced is in the workspace or in the
\* side directory after a dispose in which no step failed.
THEOREM WorkIsPulled == RemoteSpec => []WorkComesBack
<1>1. RemoteIInv => WorkComesBack
  BY DEF RemoteIInv, SessionIInv, WorkOK, WorkComesBack
<1> QED BY <1>1, RemoteInvariant, PTL

\* Until dispose begins, the copy on the host has every write the task was told of
\* and nothing replaced: the session's own steps never take one back.
THEOREM WorkspaceIsKept == RemoteSpec => []WorkspaceIsOwn
<1>1. RemoteIInv => WorkspaceIsOwn
  <2> SUFFICES ASSUME RemoteIInv, ending = "no", NEW c \in Ops, call[c] = "answered", c \notin superseded
               PROVE  remote[FileOf[c]] = c
    BY DEF WorkspaceIsOwn
  <2>1. job[c] = "done"
    BY FilesFacts DEF RemoteIInv, EnvIInv, AnsweredIsDone
  <2> QED BY <2>1 DEF RemoteIInv, SessionIInv, WorkOK
<1> QED BY <1>1, RemoteInvariant, PTL

\* Once the environment is disposed of nobody waits for it any more.
THEOREM NobodyWaitsAfterDispose == RemoteSpec => [](closed => \A r \in Requests : call[r] # "sent")
<1>1. RemoteIInv => (closed => \A r \in Requests : call[r] # "sent")
  BY DEF RemoteIInv, SessionIInv, StageOK
<1> QED BY <1>1, RemoteInvariant, PTL

-----------------------------------------------------------------------------
\* The promise to callers: each step is one of RemoteCalls or changes nothing there.
LEMMA DoingMoves ==
  ASSUME NEW r \in Requests, NEW w, job' = [job EXCEPT ![r] = w], EnvTypeOK
  PROVE  Doing' = [Doing EXCEPT ![r] = IF w \in {"working", "killed"} THEN "running" ELSE w]
BY DEF Doing, EnvTypeOK

LEMMA DoingStays ==
  ASSUME EnvTypeOK,
         \A r \in Requests : \/ job'[r] = job[r]
                             \/ job[r] \in {"working", "killed"} /\ job'[r] \in {"working", "killed"}
  PROVE  Doing' = Doing
BY DEF Doing

LEMMA RequestIsIssue ==
  ASSUME NEW r \in Requests, Request(r)
  PROVE  Promise!Issue(r)
<1>1. call[r] = "idle" /\ UNCHANGED <<job, written, seen>>
      /\ (call' = [call EXCEPT ![r] = "sent"] \/ call' = [call EXCEPT ![r] = "rejected"])
  BY DEF Request, server
<1> QED BY <1>1 DEF Promise!Issue, Doing

LEMMA ReceivesIsPromised ==
  ASSUME EnvIInv, ClientReceives
  PROVE  [Promise!Next]_(Promise!vars)
<1> DEFINE m == Head(incoming)  d == m.of
<1>1. EnvIInv' /\ EnvTypeOK /\ EnvTypeOK' /\ NoOutputLost'
  BY ClientReceivesKeeps DEF EnvIInv
<1>2. 1 \in 1..Len(incoming) /\ m = incoming[1] /\ m \in Frame
  BY <1>1, Streams DEF ClientReceives
<1>3. /\ m.kind \in {"response", "output"} /\ d \in Requests
      /\ m.kind = "response" => job[d] = "done"
      /\ m.kind = "output" => d \in Commands
  BY <1>2 DEF EnvIInv, FromDaemon, Frame
<1>4. /\ UNCHANGED <<job, written>>
      /\ \/ call[d] # "sent" /\ UNCHANGED <<call, seen>>
         \/ /\ call[d] = "sent" /\ m.kind = "output"
            /\ seen' = [seen EXCEPT ![d] = @ + 1] /\ UNCHANGED call
         \/ /\ call[d] = "sent" /\ m.kind = "response"
            /\ call' = [call EXCEPT ![d] = "answered"] /\ UNCHANGED seen
  BY <1>3 DEF ClientReceives, server
<1> HIDE DEF m, d
<1>5. Doing' = Doing
  BY <1>4 DEF Doing
<1>6. CASE UNCHANGED <<call, seen>>
  BY <1>4, <1>5, <1>6 DEF Promise!vars
<1>7. CASE call[d] = "sent" /\ m.kind = "output" /\ seen' = [seen EXCEPT ![d] = @ + 1] /\ UNCHANGED call
  <2>1. d \in Commands /\ seen'[d] + HowMany(incoming', Output(d)) = written[d]
    BY <1>1, <1>3, <1>4, <1>7 DEF NoOutputLost
  <2>2. HowMany(incoming', Output(d)) \in Nat
    BY <1>1, Streams, PlacesAreFinite DEF EnvTypeOK
  <2>3. seen[d] \in Nat /\ written[d] \in Nat /\ seen'[d] = seen[d] + 1
    BY <1>1, <1>7, <2>1, RequestsFacts DEF EnvTypeOK
  <2>4. seen[d] < written[d]
    BY <2>1, <2>2, <2>3
  <2>5. Promise!Deliver(d)
    BY <1>4, <1>5, <1>7, <2>4 DEF Promise!Deliver
  <2> QED BY <2>1, <2>5 DEF Promise!Next
<1>8. CASE /\ call[d] = "sent" /\ m.kind = "response"
           /\ call' = [call EXCEPT ![d] = "answered"] /\ UNCHANGED seen
  <2>1. call'[d] = "answered" /\ Doing[d] = "done"
    BY <1>1, <1>3, <1>8 DEF EnvTypeOK, Doing
  <2>2. d \in Commands => seen[d] = written[d]
    BY <1>1, <1>4, <1>8, <2>1 DEF NoOutputLost
  <2>3. Promise!Answer(d)
    BY <1>4, <1>5, <1>8, <2>1, <2>2 DEF Promise!Answer
  <2> QED BY <1>3, <2>3 DEF Promise!Next
<1> QED BY <1>4, <1>6, <1>7, <1>8

\* A handler starts or the dispose handler answers; an abort changes no promise.
LEMMA DaemonIsPromised ==
  ASSUME EnvIInv, DaemonReceives
  PROVE  [Promise!Next]_(Promise!vars)
<1> DEFINE h == Head(outgoing)
<1>1. EnvTypeOK /\ ChildrenRun
  BY DEF EnvIInv
<1>2. 1 \in 1..Len(outgoing) /\ h = outgoing[1] /\ h \in Frame
  BY <1>1, Streams DEF DaemonReceives
<1>3. /\ h.of \in Requests /\ (h.of = Bye => h.kind = "request")
      /\ h.kind = "request" => call[h.of] # "idle" /\ job[h.of] = "none"
  BY <1>2, RequestsFacts DEF EnvIInv, ToDaemon, Frame
<1>4. /\ UNCHANGED <<call, written, seen>>
      /\ (h.of = Bye /\ DaemonDisposes) \/ (h.of # Bye /\ DaemonStarts(h))
  BY DEF DaemonReceives, client
<1> HIDE DEF h
<1>5. children \subseteq Requests /\ Bye \notin children /\ \A r \in children : job[r] \in {"working", "killed"}
      /\ job \in [Requests -> {"none", "working", "killed", "done"}]
  BY <1>1, RequestsFacts DEF EnvTypeOK, ChildrenRun
<1>6. h.kind = "request" => Doing[h.of] = "none"
  BY <1>3 DEF Doing
<1>7. CASE h.of = Bye /\ DaemonDisposes
  <2>1. Doing' = [Doing EXCEPT ![Bye] = "done"]
    BY <1>5, <1>7, RequestsFacts DEF DaemonDisposes, Doing
  <2>2. Promise!Advance(Bye)
    BY <1>3, <1>4, <1>6, <1>7, <2>1 DEF Promise!Advance
  <2> QED BY <2>2, RequestsFacts DEF Promise!Next
<1>8. CASE h.of # Bye /\ DaemonStarts(h) /\ h.kind = "request"
  <2>1. job' = [job EXCEPT ![h.of] = "working"]
    <3>1. job' = CASE h.kind = "request"  -> [job EXCEPT ![h.of] = "working"]
                   [] h.of \in children   -> [job EXCEPT ![h.of] = "killed"]
                   [] OTHER               -> job
      BY <1>8 DEF DaemonStarts
    <3>2. ~(h.of \in children)
      BY <1>3, <1>5, <1>8
    <3> QED BY <1>8, <3>1, <3>2
  <2>2. Doing' = [Doing EXCEPT ![h.of] = "running"]
    BY <1>1, <1>3, <2>1, DoingMoves
  <2>3. Promise!Advance(h.of)
    BY <1>3, <1>4, <1>6, <1>8, <2>2 DEF Promise!Advance
  <2> QED BY <1>3, <2>3 DEF Promise!Next
<1>9. CASE h.of # Bye /\ DaemonStarts(h) /\ h.kind # "request"
  <2>1. job' = IF h.of \in children THEN [job EXCEPT ![h.of] = "killed"] ELSE job
    BY <1>9 DEF DaemonStarts
  <2>2. \A r \in Requests : \/ job'[r] = job[r]
                            \/ job[r] \in {"working", "killed"} /\ job'[r] \in {"working", "killed"}
    BY <1>5, <2>1
  <2> QED BY <1>1, <1>4, <2>2, DoingStays DEF Promise!vars
<1> QED BY <1>4, <1>7, <1>8, <1>9

LEMMA EndsArePromised ==
  ASSUME EnvIInv, NEW c \in Calls, OpEnds(c) \/ ChildCloses(c)
  PROVE  Promise!Next
<1>1. /\ EnvTypeOK /\ c \in Requests /\ job[c] \in {"working", "killed"} /\ call[c] # "idle"
      /\ job' = [job EXCEPT ![c] = "done"] /\ UNCHANGED <<call, written, seen>>
  BY RequestsFacts DEF OpEnds, ChildCloses, client, EnvIInv, Begun
<1>2. Doing' = [Doing EXCEPT ![c] = "done"] /\ Doing[c] # "done"
  BY <1>1, DoingMoves DEF Doing
<1>3. Promise!Advance(c)
  BY <1>1, <1>2 DEF Promise!Advance
<1> QED BY <1>1, <1>3 DEF Promise!Next

LEMMA WritesArePromised ==
  ASSUME EnvIInv, NEW c \in Commands, ChildWrites(c)
  PROVE  Promise!Next
<1>1. /\ c \in Requests /\ job[c] \in {"working", "killed"}
      /\ written' = [written EXCEPT ![c] = @ + 1] /\ UNCHANGED <<call, job, seen>>
  BY RequestsFacts DEF ChildWrites, client
<1>2. Doing' = Doing /\ Doing[c] = "running"
  BY <1>1 DEF Doing
<1>3. Promise!Write(c)
  BY <1>1, <1>2 DEF Promise!Write
<1> QED BY <1>3 DEF Promise!Next

LEMMA StepKeepsPromise == RemoteIInv /\ [RemoteNext]_remoteVars => [Promise!Next]_(Promise!vars)
<1> SUFFICES ASSUME RemoteIInv, [RemoteNext]_remoteVars PROVE [Promise!Next]_(Promise!vars)
  OBVIOUS
<1>1. EnvIInv /\ StageOK
  BY DEF RemoteIInv, SessionIInv
<1>2. CASE UNCHANGED <<call, job, written, seen>>
  BY <1>2 DEF Promise!vars, Doing
<1>3. ASSUME NEW r \in Requests, Request(r) PROVE Promise!Next
  BY <1>3, RequestIsIssue DEF Promise!Next
<1>4. CASE Finishes
  <2>1. CASE EnvStep(ClientReceives)
    BY <1>1, <2>1, ReceivesIsPromised DEF EnvStep
  <2>2. CASE EnvStep(DaemonReceives)
    BY <1>1, <2>2, DaemonIsPromised DEF EnvStep
  <2>3. CASE EnvStep(TransportCloses) \/ EnvDisposed
    <3>1. Promise!GiveUp
      BY <2>3 DEF EnvStep, TransportCloses, EnvDisposed, Disposed, RejectPending, Promise!GiveUp, Doing, server
    <3> QED BY <3>1 DEF Promise!Next
  <2>4. CASE \E c \in Ops : Write(c)
    BY <1>1, <2>4, EndsArePromised, FilesFacts DEF Write
  <2>5. CASE \E c \in Calls : PassOn(c)
    BY <1>3, <2>5, RequestsFacts DEF PassOn
  <2>6. CASE \E c \in Calls : TurnAway(c)
    <3>1. PICK c \in Calls : TurnAway(c)
      BY <2>6
    <3>2. Promise!Issue(c)
      BY <1>1, <3>1 DEF TurnAway, StageOK, Promise!Issue, Doing, server
    <3> QED BY <3>2, RequestsFacts DEF Promise!Next
  <2>7. CASE DisposeEnv
    BY <1>2, <1>3, <2>7, RequestsFacts DEF DisposeEnv, envVars, client, server
  <2>8. CASE Bootstrap \/ Push \/ Manifest \/ Detect \/ Pull \/ PullAside \/ Cleanup
    BY <1>2, <2>8 DEF Bootstrap, Push, Manifest, Detect, Compare, CompareFails, Pull, PullAside, Cleanup, envVars, client, server
  <2> QED BY <1>4, <2>1, <2>2, <2>3, <2>4, <2>5, <2>6, <2>7, <2>8 DEF Finishes
<1>5. CASE \E c \in Calls : AwaitUse(c)
  BY <1>2, <1>5 DEF AwaitUse, envVars, client, server
<1>6. CASE \E c \in Commands : EnvStep(Fire(c))
  BY <1>2, <1>6 DEF EnvStep, Fire, server
<1>7. CASE \E c \in Commands : EnvStep(ChildWrites(c)) \/ EnvStep(ChildCloses(c))
  BY <1>1, <1>7, WritesArePromised, EndsArePromised, RequestsFacts DEF EnvStep
<1>8. CASE stage = "open" /\ EnvStep(DaemonExits)
  BY <1>2, <1>8 DEF EnvStep, DaemonExits, client
<1>9. CASE Dispose \/ \E f \in Files : Edit(f)
  BY <1>2, <1>9 DEF Dispose, Edit, envVars, client, server
<1>10. CASE UNCHANGED remoteVars
  BY <1>2, <1>10 DEF remoteVars, envVars, client, server
<1> QED BY <1>4, <1>5, <1>6, <1>7, <1>8, <1>9, <1>10 DEF RemoteNext

\* A session is an environment as RemoteCalls promises it: what is asked for is done
\* once at most and only when asked, an answer is true and behind all output, and
\* what was given up is not answered late.
THEOREM SessionKeepsItsPromise == RemoteSpec => ImplementsCalls
<1>1. RemoteInit => Promise!Init
  BY DEF RemoteInit, EnvInit, Promise!Init, Doing
<1> QED BY <1>1, RemoteInvariant, StepKeepsPromise, PTL DEF RemoteSpec, ImplementsCalls, Promise!Spec

=============================================================================
