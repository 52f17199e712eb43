--------------------- MODULE ConversationHistory_proofs ---------------------
(***************************************************************************)
(* Proofs about ConversationHistory for histories of any length and any    *)
(* number of marks, replies without content and retries.                   *)
(*                                                                         *)
(* What a request holds depends on the whole history: every message is at  *)
(* its place, an answer follows its call (Placed), the phase tells who     *)
(* wrote last (PhaseFits), and what the next user message will answer is   *)
(* the last message (PendingFits).  As long as every reply has left a      *)
(* message the history alternates, and the range, the one in force and     *)
(* those a restore would bring back, ends inside it after an even number   *)
(* of messages (CutFits, MarksFit).                                        *)
(***************************************************************************)
EXTENDS ConversationHistory, SequenceTheorems, TLAPS

Keeps == {"none", "lastTwo", "half", "quarter"}

\* The range with nothing deleted ends at 2, whatever the history.
AtLeastTwo(n) == IF n < 2 THEN 2 ELSE n

Placed(h) ==
    \A i \in 1..Len(h) :
        /\ h[i].at = i
        /\ h[i].calls => h[i].role = "assistant"
        /\ i = 1 => h[i].role = "user"
        /\ h[i].answers # 0 =>
              i > 1 /\ h[i].answers = i - 1 /\ h[i-1].calls /\ h[i].role = "user"

PhaseFits ==
    /\ phase \in {"ready", "sent", "asked"} \cup Streaming =>
          Len(history) > 0 /\ history[Len(history)].role = "user"
    /\ phase = "tools" =>
          Len(history) > 0 /\ history[Len(history)].role = "assistant"
    /\ phase = "turn" /\ skipped = 0 /\ Len(history) > 0 =>
          history[Len(history)].role = "assistant"

PendingFits ==
    pending # 0 => /\ phase = "turn"
                   /\ pending = Len(history)
                   /\ history[pending].calls

Inside(c, h) == c % 2 = 0 /\ c <= AtLeastTwo(Len(h))

CutFits == skipped = 0 => Alternates(history) /\ Inside(cut, history)

MarksFit ==
    skipped = 0 =>
        \A i \in 1..Len(marks) :
            /\ Inside(marks[i].cut, history)
            /\ \A j \in 1..i : marks[j].cut <= AtLeastTwo(marks[i].at)

IInv == /\ TypeOK
        /\ Placed(history)
        /\ PhaseFits
        /\ PendingFits
        /\ CutFits
        /\ MarksFit

-----------------------------------------------------------------------------
\* What the helpers on histories return.
LEMMA MessageFields ==
  ASSUME NEW i \in Nat, NEW a \in Nat, NEW b \in BOOLEAN
  PROVE  UserMessage(i, a) \in Message /\ Assistant(i, b) \in Message
BY DEF UserMessage, Assistant, Message

LEMMA UpToIsPrefix ==
  ASSUME NEW S, NEW s \in Seq(S), NEW n \in Nat
  PROVE  /\ UpTo(s, n) \in Seq(S)
         /\ Len(UpTo(s, n)) = IF n < Len(s) THEN n ELSE Len(s)
         /\ \A i \in 1..Len(UpTo(s, n)) : UpTo(s, n)[i] = s[i]
<1>1. CASE n < Len(s)
  <2>1. UpTo(s, n) = SubSeq(s, 1, n)
    BY <1>1 DEF UpTo
  <2>2. \A i \in 1..n : s[i] \in S
    BY <1>1, ElementOfSeq, LenProperties
  <2>3. /\ SubSeq(s, 1, n) \in Seq(S)
        /\ Len(SubSeq(s, 1, n)) = IF 1 <= n THEN n - 1 + 1 ELSE 0
        /\ \A i \in 1..n - 1 + 1 : SubSeq(s, 1, n)[i] = s[1 + i - 1]
    BY <2>2, SubSeqProperties
  <2>4. Len(SubSeq(s, 1, n)) = n /\ \A i \in 1..n : SubSeq(s, 1, n)[i] = s[i]
    BY <2>3
  <2> QED BY <1>1, <2>1, <2>3, <2>4
<1>2. CASE ~(n < Len(s))
  BY <1>2 DEF UpTo
<1> QED BY <1>1, <1>2

\* Adding a message at its place, or taking messages off the end, keeps a
\* history in order; what alternates goes on alternating.
LEMMA AppendKeepsPlaced ==
  ASSUME NEW h \in Seq(Message), Placed(h), NEW m \in Message, m.at = Len(h) + 1,
         m.calls => m.role = "assistant",
         Len(h) = 0 => m.role = "user",
         m.answers # 0 => Len(h) > 0 /\ m.answers = Len(h) /\ h[Len(h)].calls /\ m.role = "user"
  PROVE  /\ Append(h, m) \in Seq(Message) /\ Placed(Append(h, m))
         /\ Len(Append(h, m)) = Len(h) + 1 /\ Append(h, m)[Len(h) + 1] = m
<1> DEFINE g == Append(h, m)
<1>1. /\ g \in Seq(Message) /\ Len(g) = Len(h) + 1 /\ Len(h) \in Nat
      /\ \A i \in 1..Len(h) : g[i] = h[i]
      /\ g[Len(h) + 1] = m
  BY AppendProperties, LenProperties
<1>2. Placed(g)
  <2> SUFFICES ASSUME NEW i \in 1..Len(g)
               PROVE  /\ g[i].at = i
                      /\ g[i].calls => g[i].role = "assistant"
                      /\ i = 1 => g[i].role = "user"
                      /\ g[i].answers # 0 =>
                           i > 1 /\ g[i].answers = i - 1 /\ g[i-1].calls /\ g[i].role = "user"
    BY DEF Placed
  <2>1. CASE i = Len(h) + 1
    <3>1. Len(h) > 0 => g[i-1] = h[Len(h)]
      BY <1>1, <2>1
    <3> HIDE DEF g
    <3> QED BY <1>1, <2>1, <3>1
  <2>2. CASE i \in 1..Len(h)
    <3>1. g[i] = h[i] /\ (i > 1 => g[i-1] = h[i-1])
      BY <1>1, <2>2
    <3> HIDE DEF g
    <3> QED BY <2>2, <3>1 DEF Placed
  <2> QED BY <1>1, <2>1, <2>2
<1> QED BY <1>1, <1>2

LEMMA UpToKeepsPlaced ==
  ASSUME NEW h \in Seq(Message), NEW n \in Nat, Placed(h)
  PROVE  Placed(UpTo(h, n)) /\ (Alternates(h) => Alternates(UpTo(h, n)))
<1> DEFINE g == UpTo(h, n)
<1>1. Len(g) \in Nat /\ Len(g) <= Len(h) /\ Len(h) \in Nat /\ \A i \in 1..Len(g) : g[i] = h[i]
  BY UpToIsPrefix, LenProperties
<1> HIDE DEF g
<1>2. Placed(g)
  <2> SUFFICES ASSUME NEW i \in 1..Len(g)
               PROVE  /\ g[i].at = i
                      /\ g[i].calls => g[i].role = "assistant"
                      /\ i = 1 => g[i].role = "user"
                      /\ g[i].answers # 0 =>
                           i > 1 /\ g[i].answers = i - 1 /\ g[i-1].calls /\ g[i].role = "user"
    BY DEF Placed
  <2>1. i \in 1..Len(h) /\ g[i] = h[i] /\ (i > 1 => g[i-1] = h[i-1])
    BY <1>1
  <2> QED BY <2>1 DEF Placed
<1>3. Alternates(h) => Alternates(g)
  BY <1>1 DEF Alternates
<1> QED BY <1>2, <1>3 DEF g

LEMMA AppendAlternates ==
  ASSUME NEW h \in Seq(Message), NEW m \in Message, Alternates(h),
         IF Len(h) = 0 THEN m.role = "user" ELSE m.role # h[Len(h)].role
  PROVE  Alternates(Append(h, m))
<1> DEFINE g == Append(h, m)
<1>1. /\ Len(g) = Len(h) + 1 /\ Len(h) \in Nat
      /\ \A i \in 1..Len(h) : g[i] = h[i]
      /\ g[Len(h) + 1] = m
  BY AppendProperties, LenProperties
<1> HIDE DEF g
<1>2. m.role \in {"user", "assistant"}
  BY DEF Message
<1>3. m.role = IF (Len(h) + 1) % 2 = 1 THEN "user" ELSE "assistant"
  <2>1. CASE Len(h) = 0
    BY <2>1
  <2>2. CASE Len(h) # 0
    <3>1. h[Len(h)].role = IF Len(h) % 2 = 1 THEN "user" ELSE "assistant"
      BY <1>1, <2>2 DEF Alternates
    <3>2. Len(h) % 2 = 1 <=> (Len(h) + 1) % 2 # 1
      BY <1>1
    <3> QED BY <1>2, <2>2, <3>1, <3>2
  <2> QED BY <2>1, <2>2
<1>4. ASSUME NEW i \in 1..Len(g) PROVE g[i].role = IF i % 2 = 1 THEN "user" ELSE "assistant"
  <2>1. CASE i = Len(h) + 1
    BY <1>1, <1>3, <2>1
  <2>2. CASE i \in 1..Len(h)
    BY <1>1, <2>2 DEF Alternates
  <2> QED BY <1>1, <2>1, <2>2
<1> QED BY <1>4 DEF Alternates, g

-----------------------------------------------------------------------------
\* The arithmetic of getNextTruncationRange.
LEMMA RemovedIsInt ==
  ASSUME NEW keep \in Keeps, NEW r \in Int
  PROVE  /\ Removed(keep, r) \in Int
         /\ Removed(keep, r) = CASE keep = "none" -> AtLeastZero(r)
                                 [] keep = "lastTwo" -> AtLeastZero(r - 2)
                                 [] keep = "half" -> 2 * (r \div 4)
                                 [] keep = "quarter" -> 2 * ((3 * r) \div 8)
BY DEF Removed, Keeps, AtLeastZero

LEMMA NextCutIsNat ==
  ASSUME NEW h \in Seq(Message), Len(h) >= 1, NEW c \in Nat, NEW keep \in Keeps
  PROVE  NextCut(h, c, keep) \in Nat
<1> DEFINE r == Len(h) - c
           end == c + Removed(keep, r)
<1>1. Len(h) \in Nat /\ r \in Int /\ Removed(keep, r) \in Int
  BY LenProperties, RemovedIsInt
<1>2. end >= 0
  <2>1. CASE keep = "none"
    BY <1>1, <2>1 DEF Removed, AtLeastZero
  <2>2. CASE keep = "lastTwo"
    BY <1>1, <2>2 DEF Removed, AtLeastZero
  <2>3. CASE keep = "half"
    <3>1. end = c + 2 * ((Len(h) - c) \div 4)
      BY <2>3 DEF Removed
    <3> HIDE DEF end
    <3> QED BY <1>1, <3>1
  <2>4. CASE keep = "quarter"
    <3>1. end = c + 2 * ((3 * (Len(h) - c)) \div 8)
      BY <2>4 DEF Removed
    <3> HIDE DEF end
    <3> QED BY <1>1, <3>1
  <2> QED BY <2>1, <2>2, <2>3, <2>4 DEF Keeps
<1>3. NextCut(h, c, keep) = IF IsUser(h, end) THEN end - 1 ELSE end
  BY DEF NextCut
<1>4. end \in Nat
  BY <1>1, <1>2
<1>5. IsUser(h, end) => end >= 1
  BY <1>1 DEF IsUser
<1> HIDE DEF end
<1> QED BY <1>3, <1>4, <1>5

\* Whole pairs: in a history that alternates the range goes on ending inside,
\* after an even number of messages, and only grows; the only message of a
\* history is not one of them, it sets the range back to its start.
LEMMA NextCutStaysInside ==
  ASSUME NEW h \in Seq(Message), Len(h) >= 1, Alternates(h),
         NEW c \in Nat, Inside(c, h), NEW keep \in Keeps
  PROVE  /\ Inside(NextCut(h, c, keep), h)
         /\ Len(h) >= 2 => NextCut(h, c, keep) >= c
<1> DEFINE n == Len(h)
           r == n - c
           end == c + Removed(keep, r)
<1>1. n \in Nat /\ n >= 1 /\ c % 2 = 0 /\ c <= AtLeastTwo(n)
  BY LenProperties DEF Inside
<1>2. \A i \in 1..n : h[i].role = "user" <=> i % 2 = 1
  BY DEF Alternates
<1>3. NextCut(h, c, keep) = IF IsUser(h, end) THEN end - 1 ELSE end
  BY DEF NextCut
<1>4. IsUser(h, end) <=> end \in 1..n /\ end % 2 = 1
  BY <1>1, <1>2, RemovedIsInt DEF IsUser
<1>5. n >= 2 => r >= 0
  BY <1>1 DEF AtLeastTwo
<1>6. n = 1 => c = 0 \/ c = 2
  BY <1>1 DEF AtLeastTwo
<1>7. CASE keep = "none"
  <2>1. end = c + AtLeastZero(n - c)
    BY <1>7 DEF Removed
  <2> HIDE DEF n, end
  <2>2. CASE n - c <= 0
    <3>1. end = c
      BY <1>1, <2>1, <2>2 DEF AtLeastZero
    <3>2. NextCut(h, c, keep) = c
      BY <1>1, <1>3, <1>4, <3>1
    <3> QED BY <1>1, <3>2 DEF Inside, n
  <2>3. CASE n - c > 0
    <3>1. end = n
      BY <1>1, <2>1, <2>3 DEF AtLeastZero
    <3>2. NextCut(h, c, keep) = IF n % 2 = 1 THEN n - 1 ELSE n
      BY <1>1, <1>3, <1>4, <3>1
    <3> DEFINE e == NextCut(h, c, keep)
    <3>3. e % 2 = 0 /\ e <= n /\ e >= c
      BY <1>1, <2>3, <3>2
    <3> HIDE DEF e
    <3>4. e <= AtLeastTwo(n)
      BY <1>1, <3>2, <3>3 DEF AtLeastTwo, e
    <3> QED BY <3>3, <3>4 DEF Inside, n, e
  <2> QED BY <1>1, <2>2, <2>3
<1>8. CASE keep = "lastTwo"
  <2>1. end = c + AtLeastZero(n - c - 2)
    BY <1>8 DEF Removed
  <2> HIDE DEF n, end
  <2>2. CASE n - c <= 2
    <3>1. end = c
      BY <1>1, <2>1, <2>2 DEF AtLeastZero
    <3>2. NextCut(h, c, keep) = c
      BY <1>1, <1>3, <1>4, <3>1
    <3> QED BY <1>1, <3>2 DEF Inside, n
  <2>3. CASE n - c > 2
    <3>1. end = n - 2
      BY <1>1, <2>1, <2>3 DEF AtLeastZero
    <3>2. NextCut(h, c, keep) = IF n % 2 = 1 THEN n - 3 ELSE n - 2
      BY <1>1, <1>3, <1>4, <2>3, <3>1
    <3> DEFINE e == NextCut(h, c, keep)
    <3>3. e % 2 = 0 /\ e <= n /\ e >= c
      BY <1>1, <2>3, <3>2
    <3> HIDE DEF e
    <3>4. e <= AtLeastTwo(n)
      BY <1>1, <3>2, <3>3 DEF AtLeastTwo, e
    <3> QED BY <3>3, <3>4 DEF Inside, n, e
  <2> QED BY <1>1, <2>2, <2>3
<1>9. CASE keep = "half"
  <2>1. end = c + 2 * ((n - c) \div 4)
    BY <1>9 DEF Removed
  <2> HIDE DEF n, end
  <2>2. end % 2 = 0 /\ end \in Int
    BY <1>1, <2>1
  <2>3. NextCut(h, c, keep) = end
    BY <1>3, <1>4, <2>2
  <2>4. n >= 2 => end >= c /\ end <= AtLeastTwo(n)
    BY <1>1, <2>1 DEF AtLeastTwo
  <2>5. n = 1 => end <= AtLeastTwo(n)
    BY <1>1, <1>6, <2>1 DEF AtLeastTwo
  <2>6. end <= AtLeastTwo(n)
    BY <1>1, <2>4, <2>5
  <2>7. Inside(end, h)
    BY <2>2, <2>6 DEF Inside, n
  <2> QED BY <2>3, <2>4, <2>7 DEF n
<1>10. CASE keep = "quarter"
  <2>1. end = c + 2 * ((3 * (n - c)) \div 8)
    BY <1>10 DEF Removed
  <2> HIDE DEF n, end
  <2>2. end % 2 = 0 /\ end \in Int
    BY <1>1, <2>1
  <2>3. NextCut(h, c, keep) = end
    BY <1>3, <1>4, <2>2
  <2>4. n >= 2 => end >= c /\ end <= AtLeastTwo(n)
    BY <1>1, <2>1 DEF AtLeastTwo
  <2>5. n = 1 => end <= AtLeastTwo(n)
    BY <1>1, <1>6, <2>1 DEF AtLeastTwo
  <2>6. end <= AtLeastTwo(n)
    BY <1>1, <2>4, <2>5
  <2>7. Inside(end, h)
    BY <2>2, <2>6 DEF Inside, n
  <2> QED BY <2>3, <2>4, <2>7 DEF n
<1> QED BY <1>7, <1>8, <1>9, <1>10 DEF Keeps

\* What getTruncatedMessages keeps: the first two messages, then those behind
\* the range.
LEMMA KeptFields ==
  ASSUME NEW h \in Seq(Message), Len(h) >= 2, NEW c \in Nat
  PROVE  /\ Kept(h, c) \in Seq(Message)
         /\ Len(Kept(h, c)) = 2 + (IF c < Len(h) THEN Len(h) - c ELSE 0)
         /\ \A i \in 1..Len(Kept(h, c)) :
               Kept(h, c)[i] = IF i <= 2 THEN h[i] ELSE h[c + i - 2]
<1> DEFINE a == SubSeq(h, 1, 2)
           b == SubSeq(h, c + 1, Len(h))
<1>1. Len(h) \in Nat /\ \A i \in 1..Len(h) : h[i] \in Message
  BY LenProperties, ElementOfSeq
<1>2. a \in Seq(Message) /\ Len(a) = 2 /\ \A i \in 1..2 : a[i] = h[i]
  <2>1. /\ a \in Seq(Message) /\ Len(a) = IF 1 <= 2 THEN 2 - 1 + 1 ELSE 0
        /\ \A i \in 1..2 - 1 + 1 : a[i] = h[1 + i - 1]
    BY <1>1, SubSeqProperties
  <2> HIDE DEF a
  <2> QED BY <2>1
<1>3. /\ b \in Seq(Message) /\ Len(b) = IF c < Len(h) THEN Len(h) - c ELSE 0
      /\ \A i \in 1..Len(h) - c : b[i] = h[c + i]
  <2>1. c + 1 \in Int /\ \A i \in c + 1 .. Len(h) : h[i] \in Message
    BY <1>1
  <2>2. /\ b \in Seq(Message) /\ Len(b) = IF c + 1 <= Len(h) THEN Len(h) - (c + 1) + 1 ELSE 0
        /\ \A i \in 1..Len(h) - (c + 1) + 1 : b[i] = h[c + 1 + i - 1]
    BY <1>1, <2>1, SubSeqProperties
  <2> HIDE DEF b
  <2> QED BY <1>1, <2>2
<1>4. /\ Kept(h, c) \in Seq(Message) /\ Len(Kept(h, c)) = Len(a) + Len(b)
      /\ \A i \in 1..Len(a) + Len(b) : Kept(h, c)[i] = IF i <= Len(a) THEN a[i] ELSE b[i - Len(a)]
  <2>1. a \in Seq(Message) /\ b \in Seq(Message) /\ Kept(h, c) = a \o b
    BY <1>2, <1>3 DEF Kept
  <2> HIDE DEF a, b
  <2> QED BY <2>1, ConcatProperties
<1> HIDE DEF a, b
<1>5. Len(Kept(h, c)) = 2 + (IF c < Len(h) THEN Len(h) - c ELSE 0)
  BY <1>2, <1>3, <1>4
<1>6. ASSUME NEW i \in 1..Len(Kept(h, c))
      PROVE  Kept(h, c)[i] = IF i <= 2 THEN h[i] ELSE h[c + i - 2]
  <2>1. Kept(h, c)[i] = IF i <= 2 THEN a[i] ELSE b[i - 2]
    BY <1>2, <1>4, <1>6
  <2>2. CASE i <= 2
    BY <1>2, <2>1, <2>2
  <2>3. CASE i > 2
    <3>1. i - 2 \in 1..Len(h) - c
      BY <1>1, <1>5, <1>6, <2>3
    <3>2. b[i - 2] = h[c + (i - 2)] /\ c + (i - 2) = c + i - 2
      BY <1>3, <3>1
    <3> QED BY <2>1, <2>3, <3>2
  <2> QED BY <2>2, <2>3
<1> QED BY <1>4, <1>5, <1>6

\* ... and what getAndAlterTruncatedMessages makes of them: only the answers
\* change, to those of the call before, or to none at the seam.
LEMMA TruncatedFields ==
  ASSUME NEW h \in Seq(Message), Len(h) >= 2, NEW c \in Nat
  PROVE  LET k == Kept(h, c)
             t == Truncated(h, c)
         IN  /\ Len(t) = Len(k)
             /\ \A i \in 1..Len(k) :
                   /\ t[i].role = k[i].role /\ t[i].at = k[i].at
                   /\ t[i].calls = k[i].calls
                   /\ t[i].answers =
                        IF i > 1 /\ k[i].role = "user" /\ k[i-1].calls
                        THEN k[i-1].at
                        ELSE IF i = 3 /\ c > 2 /\ k[i].role = "user"
                        THEN 0 ELSE k[i].answers
<1> DEFINE k == Kept(h, c)
           t == Truncated(h, c)
<1>1. k \in Seq(Message) /\ Len(k) \in Nat /\ \A i \in 1..Len(k) : k[i] \in Message
  BY KeptFields, LenProperties, ElementOfSeq
<1>2. t = Repaired(k, c)
  <2>1. Len(h) \in Nat
    BY LenProperties
  <2> QED BY <2>1 DEF Truncated
<1> HIDE DEF k, t
<1>3. Len(t) = Len(k) /\ DOMAIN t = 1..Len(k)
  BY <1>1, <1>2 DEF Repaired
<1>4. ASSUME NEW i \in 1..Len(k)
      PROVE  /\ t[i].role = k[i].role /\ t[i].at = k[i].at
             /\ t[i].calls = k[i].calls
             /\ t[i].answers =
                  IF i > 1 /\ k[i].role = "user" /\ k[i-1].calls
                  THEN k[i-1].at
                  ELSE IF i = 3 /\ c > 2 /\ k[i].role = "user"
                  THEN 0 ELSE k[i].answers
  <2>1. k[i] \in [role: {"user", "assistant"}, at: Nat, calls: BOOLEAN, answers: Nat]
    BY <1>1 DEF Message
  <2>2. t[i] = IF i > 1 /\ k[i].role = "user" /\ k[i-1].calls
               THEN [k[i] EXCEPT !.answers = k[i-1].at]
               ELSE IF i = 3 /\ c > 2 /\ k[i].role = "user"
               THEN [k[i] EXCEPT !.answers = 0]
               ELSE k[i]
    BY <1>2, <1>4 DEF Repaired
  <2> QED BY <2>1, <2>2
<1> QED BY <1>3, <1>4 DEF k, t

-----------------------------------------------------------------------------
\* The invariant, one lemma per group of actions.
LEMMA InitIInv == Init => IInv
<1> SUFFICES ASSUME Init PROVE IInv
  OBVIOUS
<1>1. Len(history) = 0 /\ Len(marks) = 0
  BY EmptySeq DEF Init
<1>2. TypeOK
  <2>1. 0 \in 0..MaxRetries /\ 0 \in 0..MaxSkips
    BY BoundsAssumption
  <2>2. history \in Seq(Message) /\ marks \in Seq(Mark)
    BY EmptySeq DEF Init
  <2> QED BY <2>1, <2>2 DEF Init, TypeOK, Phases
<1> QED BY <1>1, <1>2 DEF Init, IInv, Placed, PhaseFits, PendingFits, CutFits,
           MarksFit, Alternates, Inside, AtLeastTwo, Streaming

\* What every step may use.
LEMMA HistoryFacts ==
  ASSUME IInv
  PROVE  /\ history \in Seq(Message) /\ Len(history) \in Nat
         /\ \A i \in 1..Len(history) : history[i] \in Message
         /\ marks \in Seq(Mark) /\ Len(marks) \in Nat
         /\ \A i \in 1..Len(marks) : marks[i] \in Mark
BY LenProperties, ElementOfSeq DEF IInv, TypeOK

\* A step that leaves the history and the range alone.
LEMMA LoopStepsKeepIInv ==
  ASSUME IInv,
         FirstChunk \/ RetryRequest \/ AskRetry \/ UserRetries \/ ToolsDone
           \/ Abort \/ UNCHANGED vars
  PROVE  IInv'
<1>1. /\ history' = history /\ cut' = cut /\ marks' = marks /\ skipped' = skipped
  BY DEF FirstChunk, RetryRequest, AskRetry, UserRetries, ToolsDone, Abort, vars
<1>2. Placed(history)' /\ CutFits' /\ MarksFit'
  BY <1>1 DEF IInv, Placed, CutFits, MarksFit, Alternates, Inside
<1>3. TypeOK'
  <2>1. retries' \in 0..MaxRetries
    <3>1. retries' = retries \/ retries' = 0 \/ (retries < MaxRetries /\ retries' = retries + 1)
      <4>1. CASE RetryRequest
        BY <4>1 DEF RetryRequest
      <4>2. CASE UserRetries \/ ToolsDone
        BY <4>2 DEF UserRetries, ToolsDone
      <4>3. CASE FirstChunk \/ AskRetry \/ Abort \/ UNCHANGED vars
        BY <4>3 DEF FirstChunk, AskRetry, Abort, vars
      <4> QED BY <4>1, <4>2, <4>3
    <3> QED BY <3>1, BoundsAssumption DEF IInv, TypeOK
  <2>2. phase' \in Phases /\ pending' \in Nat
    BY HistoryFacts DEF IInv, TypeOK, FirstChunk, RetryRequest, AskRetry, UserRetries,
       ToolsDone, Abort, vars, Phases
  <2>3. usage' \in Usages \cup {"none"} /\ auto' \in BOOLEAN
    BY DEF IInv, TypeOK, FirstChunk, RetryRequest, AskRetry, UserRetries,
       ToolsDone, Abort, vars, Usages
  <2> QED BY <1>1, <2>1, <2>2, <2>3 DEF IInv, TypeOK
<1>4. PhaseFits'
  BY <1>1 DEF IInv, TypeOK, PhaseFits, FirstChunk, RetryRequest, AskRetry, UserRetries,
     ToolsDone, Abort, vars, Phases, Streaming
<1>5. PendingFits'
  <2>1. CASE ToolsDone
    BY <1>1, <2>1, HistoryFacts DEF ToolsDone, PendingFits
  <2>2. CASE Abort
    BY <2>2 DEF Abort, PendingFits
  <2>3. CASE FirstChunk \/ RetryRequest \/ AskRetry \/ UserRetries \/ UNCHANGED vars
    BY <1>1, <2>3 DEF IInv, PendingFits, FirstChunk, RetryRequest, AskRetry, UserRetries, vars
  <2> QED BY <2>1, <2>2, <2>3
<1> QED BY <1>2, <1>3, <1>4, <1>5 DEF IInv

\* A step that moves the range.
LEMMA CutStepsKeepIInv ==
  ASSUME IInv, Attempt \/ WindowExceeded \/ Summarize \/ Condense
  PROVE  IInv'
<1>1. /\ history' = history /\ marks' = marks /\ skipped' = skipped /\ pending' = pending
      /\ usage' = usage /\ retries' = retries
  BY DEF Attempt, WindowExceeded, Summarize, Condense
<1>2. Len(history) >= 1
  BY HistoryFacts DEF IInv, PhaseFits, Attempt, WindowExceeded, Summarize, Condense,
     Working, Streaming
<1>3. cut' = cut \/ \E keep \in Keeps : cut' = NextCut(history, cut, keep)
  BY DEF Attempt, WindowExceeded, Summarize, Condense, Keeps
<1>4. cut' \in Nat
  BY <1>2, <1>3, HistoryFacts, NextCutIsNat DEF IInv, TypeOK
<1>5. TypeOK'
  BY <1>1, <1>4 DEF IInv, TypeOK, Attempt, WindowExceeded, Summarize, Condense, Phases
<1>6. Placed(history)' /\ MarksFit'
  BY <1>1 DEF IInv, Placed, MarksFit, Inside
<1>7. PhaseFits'
  BY <1>1 DEF IInv, PhaseFits, Attempt, WindowExceeded, Summarize, Condense, Streaming
<1>8. PendingFits'
  BY <1>1 DEF IInv, PendingFits, Attempt, WindowExceeded, Summarize, Condense
<1>9. CutFits'
  <2> SUFFICES ASSUME skipped = 0 PROVE Alternates(history) /\ Inside(cut', history)
    BY <1>1 DEF CutFits
  <2>1. Alternates(history) /\ Inside(cut, history)
    BY DEF IInv, CutFits
  <2>2. cut \in Nat
    BY DEF IInv, TypeOK
  <2>3. ASSUME NEW keep \in Keeps, cut' = NextCut(history, cut, keep)
        PROVE  Inside(cut', history)
    BY <1>2, <2>1, <2>2, <2>3, HistoryFacts, NextCutStaysInside
  <2> QED BY <1>3, <2>1, <2>3
<1> QED BY <1>5, <1>6, <1>7, <1>8, <1>9 DEF IInv

\* A step that appends message m, when nobody has spoken out of turn.
LEMMA AppendKeepsRanges ==
  ASSUME IInv, NEW m \in Message, history' = Append(history, m),
         cut' = cut, marks' = marks, skipped' = skipped,
         m.at = Len(history) + 1, m.calls => m.role = "assistant",
         Len(history) = 0 => m.role = "user",
         m.answers # 0 => /\ Len(history) > 0 /\ m.answers = Len(history)
                          /\ history[Len(history)].calls /\ m.role = "user",
         skipped = 0 /\ Len(history) > 0 => m.role # history[Len(history)].role
  PROVE  /\ history' \in Seq(Message) /\ Placed(history')
         /\ Len(history') = Len(history) + 1 /\ history'[Len(history')] = m
         /\ CutFits' /\ MarksFit'
<1>1. /\ history' \in Seq(Message) /\ Placed(history')
      /\ Len(history') = Len(history) + 1 /\ history'[Len(history')] = m
  BY HistoryFacts, AppendKeepsPlaced DEF IInv
<1>2. ASSUME NEW c \in Nat, Inside(c, history) PROVE Inside(c, history')
  BY <1>1, <1>2, HistoryFacts DEF Inside, AtLeastTwo
<1>3. CutFits'
  <2> SUFFICES ASSUME skipped = 0 PROVE Alternates(history') /\ Inside(cut, history')
    BY DEF CutFits
  <2>1. Alternates(history) /\ Inside(cut, history) /\ cut \in Nat
    BY DEF IInv, CutFits, TypeOK
  <2>2. Alternates(Append(history, m))
    BY <2>1, HistoryFacts, AppendAlternates
  <2> QED BY <1>2, <2>1, <2>2
<1>4. MarksFit'
  <2> SUFFICES ASSUME skipped = 0, NEW i \in 1..Len(marks)
               PROVE  /\ Inside(marks[i].cut, history')
                      /\ \A j \in 1..i : marks[j].cut <= AtLeastTwo(marks[i].at)
    BY DEF MarksFit
  <2>1. marks[i].cut \in Nat
    BY HistoryFacts DEF Mark
  <2>2. /\ Inside(marks[i].cut, history)
        /\ \A j \in 1..i : marks[j].cut <= AtLeastTwo(marks[i].at)
    BY DEF IInv, MarksFit
  <2> QED BY <1>2, <2>1, <2>2
<1> QED BY <1>1, <1>3, <1>4

LEMMA PrepareKeepsIInv ==
  ASSUME IInv, Prepare
  PROVE  IInv'
<1> DEFINE m == UserMessage(Len(history) + 1, pending)
<1>1. m \in Message /\ m.role = "user" /\ m.at = Len(history) + 1 /\ ~m.calls /\ m.answers = pending
  BY HistoryFacts, MessageFields DEF UserMessage, IInv, TypeOK
<1>2. history' = Append(history, m) /\ phase = "turn" /\ phase' = "ready" /\ pending' = 0
      /\ cut' = cut /\ marks' = marks /\ skipped' = skipped
  BY DEF Prepare
<1>3. pending # 0 => /\ pending = Len(history) /\ history[pending].calls
                     /\ Len(history) > 0
  BY HistoryFacts DEF IInv, PendingFits
<1>4. skipped = 0 /\ Len(history) > 0 => history[Len(history)].role = "assistant"
  BY <1>2 DEF IInv, PhaseFits
<1> HIDE DEF m
<1>5. /\ history' \in Seq(Message) /\ Placed(history')
      /\ Len(history') = Len(history) + 1 /\ history'[Len(history')] = m
      /\ CutFits' /\ MarksFit'
  <2>1. m.answers # 0 => /\ Len(history) > 0 /\ m.answers = Len(history)
                         /\ history[Len(history)].calls /\ m.role = "user"
    BY <1>1, <1>3
  <2>2. skipped = 0 /\ Len(history) > 0 => m.role # history[Len(history)].role
    BY <1>1, <1>4
  <2> QED BY <1>1, <1>2, <2>1, <2>2, AppendKeepsRanges
<1>6. TypeOK'
  <2>1. usage' \in Usages \cup {"none"} /\ auto' \in BOOLEAN /\ phase' \in Phases
        /\ pending' \in Nat /\ retries' = retries
    BY DEF Prepare, Phases, Usages
  <2> QED BY <1>2, <1>5, <2>1 DEF IInv, TypeOK
<1>7. PhaseFits' /\ PendingFits'
  BY <1>1, <1>2, <1>5, HistoryFacts DEF PhaseFits, PendingFits, Streaming
<1> QED BY <1>5, <1>6, <1>7 DEF IInv

LEMMA ReplyKeepsIInv ==
  ASSUME IInv, Reply \/ NoContent \/ Interrupted
  PROVE  IInv'
<1>1. phase \in Streaming /\ cut' = cut /\ pending' = pending /\ marks' = marks
  BY DEF Reply, NoContent, Interrupted
<1>2. Len(history) > 0 /\ history[Len(history)].role = "user"
  BY <1>1 DEF IInv, PhaseFits
<1>3. pending = 0
  BY <1>1 DEF IInv, PendingFits, Streaming
<1>4. ASSUME NEW calls \in BOOLEAN,
             history' = Append(history, Assistant(Len(history) + 1, calls)),
             skipped' = skipped
      PROVE  /\ history' \in Seq(Message) /\ Placed(history')
             /\ Len(history') = Len(history) + 1
             /\ history'[Len(history')].role = "assistant"
             /\ CutFits' /\ MarksFit'
  <2> DEFINE m == Assistant(Len(history) + 1, calls)
  <2>1. m \in Message /\ m.role = "assistant" /\ m.at = Len(history) + 1 /\ m.answers = 0
    BY HistoryFacts, MessageFields DEF Assistant
  <2>2. history' = Append(history, m)
    BY <1>4
  <2> HIDE DEF m
  <2> QED BY <1>1, <1>2, <1>4, <2>1, <2>2, AppendKeepsRanges
<1>5. CASE history' # history /\ skipped' = skipped
  <2>1. \E calls \in BOOLEAN : history' = Append(history, Assistant(Len(history) + 1, calls))
    BY <1>5 DEF Reply, NoContent, Interrupted
  <2>2. /\ history' \in Seq(Message) /\ Placed(history')
        /\ Len(history') = Len(history) + 1
        /\ history'[Len(history')].role = "assistant"
        /\ CutFits' /\ MarksFit'
    BY <1>4, <1>5, <2>1
  <2>3. phase' \in {"tools", "turn", "idle"}
    BY DEF Reply, NoContent, Interrupted
  <2>4. TypeOK'
    <3>1. retries' \in 0..MaxRetries
      <4>1. CASE Reply \/ Interrupted
        BY <4>1 DEF IInv, TypeOK, Reply, Interrupted
      <4>2. CASE NoContent
        <5>1. retries' = 0 \/ (retries < MaxRetries /\ retries' = retries + 1)
          BY <4>2 DEF NoContent
        <5> QED BY <5>1, BoundsAssumption DEF IInv, TypeOK
      <4> QED BY <4>1, <4>2
    <3>2. phase' \in Phases /\ usage' = usage /\ auto' = auto
      BY <2>3 DEF Phases, Reply, NoContent, Interrupted
    <3> QED BY <1>1, <1>5, <2>2, <3>1, <3>2 DEF IInv, TypeOK
  <2>5. PhaseFits' /\ PendingFits'
    BY <1>1, <1>2, <1>3, <2>2, <2>3, HistoryFacts DEF PhaseFits, PendingFits, Streaming
  <2> QED BY <2>2, <2>4, <2>5 DEF IInv
<1>6. CASE history' = history /\ skipped' = skipped + 1 /\ NoContent
  <2>1. skipped \in Nat /\ skipped' # 0 /\ phase' = "turn"
    BY <1>6, BoundsAssumption DEF IInv, TypeOK, NoContent
  <2>2. TypeOK'
    <3>1. retries' \in 0..MaxRetries /\ skipped' \in 0..MaxSkips
      <4>1. phase = "streamingNative"
        <5>1. phase # "streamingNative" => skipped' = skipped
          BY <1>6 DEF NoContent
        <5> QED BY <1>6, <2>1, <5>1
      <4>2. skipped < MaxSkips /\ retries' = 0
        BY <1>6, <4>1 DEF NoContent
      <4> QED BY <1>6, <4>2, BoundsAssumption DEF IInv, TypeOK
    <3>2. phase' \in Phases /\ usage' = usage /\ auto' = auto
      BY <1>6, <2>1 DEF Phases, NoContent
    <3> QED BY <1>1, <1>6, <3>1, <3>2 DEF IInv, TypeOK
  <2>3. Placed(history)' /\ PhaseFits' /\ PendingFits' /\ CutFits' /\ MarksFit'
    BY <1>1, <1>3, <1>6, <2>1 DEF IInv, Placed, PhaseFits, PendingFits, CutFits, MarksFit, Streaming
  <2> QED BY <2>2, <2>3 DEF IInv
<1>7. \A a, b : Append(history, Assistant(a, b)) # history
  BY HistoryFacts
<1> QED BY <1>1, <1>5, <1>6, <1>7 DEF Reply, NoContent, Interrupted, Streaming

\* addToIsaacMessages: the mark fits the history it is taken of.
LEMMA SayKeepsIInv ==
  ASSUME IInv, Say
  PROVE  IInv'
<1> DEFINE m == [at |-> Len(history), cut |-> cut]
<1>1. /\ history' = history /\ cut' = cut /\ phase' = phase /\ pending' = pending
      /\ usage' = usage /\ auto' = auto /\ retries' = retries /\ skipped' = skipped
      /\ marks' = Append(marks, m)
  BY DEF Say
<1>2. m \in Mark
  BY HistoryFacts DEF Mark, IInv, TypeOK
<1>3. /\ marks' \in Seq(Mark) /\ Len(marks') = Len(marks) + 1 /\ Len(marks) \in Nat
      /\ \A i \in 1..Len(marks) : marks'[i] = marks[i]
      /\ marks'[Len(marks) + 1] = m
  BY <1>1, <1>2, HistoryFacts, AppendProperties
<1>4. m.at = Len(history) /\ m.cut = cut
  OBVIOUS
<1> HIDE DEF m
<1>5. MarksFit'
  <2> SUFFICES ASSUME skipped = 0, NEW i \in 1..Len(marks')
               PROVE  /\ Inside(marks'[i].cut, history)
                      /\ \A j \in 1..i : marks'[j].cut <= AtLeastTwo(marks'[i].at)
    BY <1>1 DEF MarksFit
  <2>1. \A k \in 1..Len(marks) :
           /\ Inside(marks[k].cut, history)
           /\ \A j \in 1..k : marks[j].cut <= AtLeastTwo(marks[k].at)
    BY DEF IInv, MarksFit
  <2>2. Inside(cut, history)
    BY DEF IInv, CutFits
  <2>3. CASE i \in 1..Len(marks)
    <3>1. \A j \in 1..i : marks'[j] = marks[j]
      BY <1>3, <2>3
    <3> QED BY <2>1, <2>3, <3>1
  <2>4. CASE i = Len(marks) + 1
    <3>1. ASSUME NEW j \in 1..i PROVE marks'[j].cut <= AtLeastTwo(Len(history))
      <4>1. CASE j \in 1..Len(marks)
        <5>1. Inside(marks[j].cut, history) /\ marks'[j] = marks[j]
          BY <1>3, <2>1, <4>1
        <5> QED BY <5>1 DEF Inside
      <4>2. CASE j = i
        BY <1>3, <1>4, <2>2, <2>4, <4>2 DEF Inside
      <4> QED BY <1>3, <2>4, <4>1, <4>2
    <3> QED BY <1>3, <1>4, <2>2, <2>4, <3>1
  <2> QED BY <1>3, <2>3, <2>4
<1>6. TypeOK'
  BY <1>1, <1>3 DEF IInv, TypeOK
<1>7. Placed(history)' /\ PhaseFits' /\ PendingFits' /\ CutFits'
  BY <1>1 DEF IInv, Placed, PhaseFits, PendingFits, CutFits, Alternates, Inside
<1> QED BY <1>5, <1>6, <1>7 DEF IInv

\* resumeTaskFromHistory: the message taken back was the last of an odd number,
\* so no range loses its end.
LEMMA ResumeKeepsIInv ==
  ASSUME IInv, Resume
  PROVE  IInv'
<1> DEFINE n == Len(history)
<1>1. /\ phase' = "turn" /\ auto' = FALSE /\ retries' \in 0..MaxRetries
      /\ cut' = cut /\ usage' = usage /\ marks' = marks /\ skipped' = skipped
  BY DEF Resume
<1>2. n \in Nat /\ \A i \in 1..n : history[i].role \in {"user", "assistant"} /\ history[i].answers \in Nat
  BY HistoryFacts DEF Message
<1>3. CASE ~LastIsUser
  <2>1. history' = history /\ pending' = 0
    BY <1>3 DEF Resume
  <2>2. TypeOK'
    BY <1>1, <2>1 DEF IInv, TypeOK, Phases
  <2>3. n > 0 => history[n].role = "assistant"
    BY <1>2, <1>3 DEF LastIsUser, IsUser
  <2>4. PhaseFits' /\ PendingFits'
    BY <1>1, <2>1, <2>3 DEF PhaseFits, PendingFits, Streaming
  <2>5. Placed(history)' /\ CutFits' /\ MarksFit'
    BY <1>1, <2>1 DEF IInv, Placed, CutFits, MarksFit, Alternates, Inside
  <2> QED BY <2>2, <2>4, <2>5 DEF IInv
<1>4. CASE LastIsUser
  <2>1. n > 0 /\ history[n].role = "user"
    BY <1>2, <1>4 DEF LastIsUser, IsUser
  <2>2. history' = UpTo(history, n - 1) /\ pending' = history[n].answers
    BY <1>4 DEF Resume
  <2>3. /\ history' \in Seq(Message) /\ Len(history') = n - 1
        /\ \A i \in 1..n - 1 : history'[i] = history[i]
    <3>1. n - 1 \in Nat /\ n - 1 < n
      BY <1>2, <2>1
    <3> QED BY <2>2, <3>1, HistoryFacts, UpToIsPrefix
  <2>4. Placed(history') /\ (Alternates(history) => Alternates(history'))
    <3>1. n - 1 \in Nat
      BY <1>2, <2>1
    <3> QED BY <2>2, <3>1, HistoryFacts, UpToKeepsPlaced DEF IInv
  <2>5. TypeOK'
    <3>1. pending' \in Nat /\ phase' \in Phases
      BY <1>1, <1>2, <2>1, <2>2 DEF Phases
    <3> QED BY <1>1, <2>3, <3>1 DEF IInv, TypeOK
  <2>6. PendingFits'
    <3>1. history[n].answers # 0 => n > 1 /\ history[n].answers = n - 1 /\ history[n-1].calls
      BY <1>2, <2>1 DEF IInv, Placed
    <3> QED BY <1>1, <1>2, <2>2, <2>3, <3>1 DEF PendingFits
  <2>7. PhaseFits'
    <3>1. ASSUME skipped = 0, n - 1 > 0 PROVE history[n-1].role = "assistant"
      <4>1. Alternates(history)
        BY <3>1 DEF IInv, CutFits
      <4>2. n % 2 = 1
        BY <1>2, <2>1, <4>1 DEF Alternates
      <4>3. (n - 1) % 2 # 1
        BY <1>2, <4>2
      <4> QED BY <1>2, <3>1, <4>1, <4>3 DEF Alternates
    <3>2. n - 1 > 0 => history'[n - 1] = history[n - 1]
      BY <1>2, <2>3
    <3> QED BY <1>1, <1>2, <2>3, <3>1, <3>2 DEF PhaseFits, Streaming
  <2>8. ASSUME skipped = 0, NEW c \in Nat, Inside(c, history) PROVE Inside(c, history')
    <3>1. Alternates(history)
      BY <2>8 DEF IInv, CutFits
    <3>2. n % 2 = 1
      BY <1>2, <2>1, <3>1 DEF Alternates
    <3>3. c % 2 = 0 /\ c <= AtLeastTwo(n)
      BY <2>8 DEF Inside
    <3>4. c <= AtLeastTwo(n - 1)
      <4>1. n = 1 => c <= 2
        BY <3>3 DEF AtLeastTwo
      <4>2. n # 1 => n >= 3 /\ c <= n
        <5> HIDE DEF n
        <5>1. n # 2
          BY <3>2
        <5>2. n > 0
          BY <2>1
        <5>3. n # 1 => n >= 3
          BY <1>2, <5>1, <5>2
        <5>4. n >= 3 => c <= n
          BY <1>2, <3>3 DEF AtLeastTwo
        <5> QED BY <5>3, <5>4
      <4>3. c # n
        BY <3>2, <3>3
      <4> QED BY <1>2, <2>1, <2>8, <4>1, <4>2, <4>3 DEF AtLeastTwo
    <3> QED BY <2>3, <3>3, <3>4 DEF Inside
  <2>9. CutFits'
    BY <1>1, <2>4, <2>8 DEF IInv, TypeOK, CutFits
  <2>10. MarksFit'
    <3> SUFFICES ASSUME skipped = 0, NEW i \in 1..Len(marks)
                 PROVE  /\ Inside(marks[i].cut, history')
                        /\ \A j \in 1..i : marks[j].cut <= AtLeastTwo(marks[i].at)
      BY <1>1 DEF MarksFit
    <3>1. marks[i].cut \in Nat
      BY HistoryFacts DEF Mark
    <3> QED BY <2>8, <3>1 DEF IInv, MarksFit
  <2> QED BY <2>4, <2>5, <2>6, <2>7, <2>9, <2>10 DEF IInv
<1> QED BY <1>3, <1>4

LEMMA ShorterHolds ==
  ASSUME NEW c \in Nat, NEW n \in Nat, NEW m \in Nat,
         c <= AtLeastTwo(n), c <= AtLeastTwo(m)
  PROVE  c <= AtLeastTwo(IF m + 1 < n THEN m + 1 ELSE n)
BY DEF AtLeastTwo

\* handleSuccessfulRestore: the marks that stay are those the shorter history
\* still holds.
LEMMA RestoreKeepsIInv ==
  ASSUME IInv, Restore
  PROVE  IInv'
<1>1. /\ phase' = phase /\ phase = "idle" /\ pending' = pending /\ usage' = usage
      /\ auto' = auto /\ retries' = retries /\ skipped' = skipped
  BY DEF Restore
<1>2. PICK i \in 1..Len(marks) :
        /\ history' = UpTo(history, marks[i].at + 1)
        /\ cut' = marks[i].cut
        /\ marks' = UpTo(marks, i)
  BY DEF Restore
<1>3. /\ i \in Nat /\ i <= Len(marks) /\ marks[i].at \in Nat /\ marks[i].at + 1 \in Nat
      /\ Len(history) \in Nat
      /\ \A k \in 1..Len(marks) : marks[k].cut \in Nat
  <2>1. \A k \in 1..Len(marks) : marks[k] \in [at: Nat, cut: Nat]
    BY HistoryFacts DEF Mark
  <2>2. \A k \in 1..Len(marks) : marks[k].cut \in Nat /\ marks[k].at \in Nat
    BY <2>1
  <2>3. marks[i].at + 1 \in Nat
    BY <2>2
  <2> QED BY <2>2, <2>3, HistoryFacts
<1>4. /\ history' \in Seq(Message)
      /\ Len(history') = IF marks[i].at + 1 < Len(history) THEN marks[i].at + 1 ELSE Len(history)
  BY <1>2, <1>3, HistoryFacts, UpToIsPrefix
<1>5. /\ marks' \in Seq(Mark) /\ Len(marks') = i
      /\ \A k \in 1..i : marks'[k] = marks[k]
  <2> DEFINE g == UpTo(marks, i)
  <2>1. /\ g \in Seq(Mark)
        /\ Len(g) = IF i < Len(marks) THEN i ELSE Len(marks)
        /\ \A k \in 1..Len(g) : g[k] = marks[k]
    BY <1>3, HistoryFacts, UpToIsPrefix
  <2> HIDE DEF g
  <2>2. Len(g) = i
    BY <1>3, <2>1, HistoryFacts
  <2> QED BY <1>2, <2>1, <2>2 DEF g
<1>6. Placed(history') /\ (Alternates(history) => Alternates(history'))
  BY <1>2, <1>3, HistoryFacts, UpToKeepsPlaced DEF IInv
<1>7. TypeOK'
  BY <1>1, <1>2, <1>3, <1>4, <1>5 DEF IInv, TypeOK
<1>8. PhaseFits' /\ PendingFits'
  BY <1>1 DEF IInv, PhaseFits, PendingFits, Streaming
<1>9. ASSUME skipped = 0, NEW j \in 1..i PROVE Inside(marks[j].cut, history')
  <2>1. marks[j].cut \in Nat
    BY <1>3
  <2>2. marks[j].cut % 2 = 0 /\ marks[j].cut <= AtLeastTwo(Len(history))
    BY <1>3, <1>9 DEF IInv, MarksFit, Inside
  <2>3. marks[j].cut <= AtLeastTwo(marks[i].at)
    BY <1>9 DEF IInv, MarksFit
  <2>4. marks[j].cut <= AtLeastTwo(Len(history'))
    BY <1>3, <1>4, <2>1, <2>2, <2>3, ShorterHolds
  <2> QED BY <2>2, <2>4 DEF Inside
<1>10. CutFits'
  <2>1. i \in 1..i
    BY <1>3
  <2> QED BY <1>1, <1>2, <1>6, <1>9, <2>1 DEF IInv, CutFits
<1>11. MarksFit'
  <2> SUFFICES ASSUME skipped = 0, NEW k \in 1..i
               PROVE  /\ Inside(marks[k].cut, history')
                      /\ \A j \in 1..k : marks[j].cut <= AtLeastTwo(marks[k].at)
    BY <1>1, <1>5 DEF MarksFit
  <2>1. k \in 1..Len(marks)
    BY <1>3
  <2> QED BY <1>9, <2>1 DEF IInv, MarksFit
<1> QED BY <1>6, <1>7, <1>8, <1>10, <1>11 DEF IInv

LEMMA StepKeepsIInv == IInv /\ [Next]_vars => IInv'
BY LoopStepsKeepIInv, CutStepsKeepIInv, PrepareKeepsIInv, ReplyKeepsIInv,
   SayKeepsIInv, ResumeKeepsIInv, RestoreKeepsIInv DEF Next, Requests

LEMMA Invariance == Spec => []IInv
<1>1. Init => IInv
  BY InitIInv
<1>2. IInv /\ [Next]_vars => IInv'
  BY StepKeepsIInv
<1> QED BY <1>1, <1>2, PTL DEF Spec

-----------------------------------------------------------------------------
\* What the invariant says of a request.
LEMMA OutFields ==
  ASSUME IInv, phase = "sent", Len(history) >= 2
  PROVE  LET K == Kept(history, cut)
         IN  /\ Len(Out) = Len(K) /\ Len(K) \in Nat
             /\ Len(K) = 2 + (IF cut < Len(history) THEN Len(history) - cut ELSE 0)
             /\ \A i \in 1..Len(K) :
                   /\ K[i] = IF i <= 2 THEN history[i] ELSE history[cut + i - 2]
                   /\ Out[i].role = K[i].role /\ Out[i].at = K[i].at
                   /\ Out[i].calls = K[i].calls
                   /\ Out[i].answers =
                        IF i > 1 /\ K[i].role = "user" /\ K[i-1].calls
                        THEN K[i-1].at
                        ELSE IF i = 3 /\ cut > 2 /\ K[i].role = "user"
                        THEN 0 ELSE K[i].answers
<1>1. cut \in Nat
  BY DEF IInv, TypeOK
<1>2. Kept(history, cut) \in Seq(Message)
  BY <1>1, HistoryFacts, KeptFields
<1> QED BY <1>1, <1>2, HistoryFacts, KeptFields, TruncatedFields, LenProperties DEF Out

\* An answer in a request follows the call it answers.
LEMMA AnswersFollow == IInv => ResultsFollowCalls
<1> SUFFICES ASSUME IInv, phase = "sent", NEW i \in 1..Len(Out), Out[i].answers # 0
             PROVE  i > 1 /\ Out[i-1].calls /\ Out[i].answers = Out[i-1].at
  BY DEF ResultsFollowCalls
<1>1. CASE Len(history) <= 1
  <2>1. Out = history
    BY <1>1 DEF Out, Truncated
  <2> QED BY <2>1, <1>1, HistoryFacts DEF IInv, Placed
<1>2. CASE Len(history) >= 2
  <2> DEFINE K == Kept(history, cut)
             n == Len(history)
  <2>1. /\ Len(Out) = Len(K) /\ Len(K) \in Nat
        /\ Len(K) = 2 + (IF cut < n THEN n - cut ELSE 0)
        /\ \A j \in 1..Len(K) :
              /\ K[j] = IF j <= 2 THEN history[j] ELSE history[cut + j - 2]
              /\ Out[j].role = K[j].role /\ Out[j].at = K[j].at
              /\ Out[j].calls = K[j].calls
              /\ Out[j].answers =
                   IF j > 1 /\ K[j].role = "user" /\ K[j-1].calls
                   THEN K[j-1].at
                   ELSE IF j = 3 /\ cut > 2 /\ K[j].role = "user"
                   THEN 0 ELSE K[j].answers
    BY <1>2, OutFields
  <2>2. cut \in Nat /\ n \in Nat /\ i \in 1..Len(K)
    BY <2>1, HistoryFacts DEF IInv, TypeOK
  <2>3. \A j \in 1..n :
          /\ history[j].calls => history[j].role = "assistant"
          /\ j = 1 => history[j].role = "user"
          /\ history[j].answers # 0 =>
                j > 1 /\ history[j-1].calls /\ history[j].role = "user"
    BY DEF IInv, Placed
  <2> HIDE DEF K
  <2>4. CASE i > 1 /\ K[i].role = "user" /\ K[i-1].calls
    BY <2>1, <2>2, <2>4
  <2>5. CASE ~(i > 1 /\ K[i].role = "user" /\ K[i-1].calls)
    <3>1. K[i].answers # 0 /\ ~(i = 3 /\ cut > 2 /\ K[i].role = "user")
      BY <2>1, <2>2, <2>5
    <3>2. CASE i <= 2
      <4>1. K[i] = history[i] /\ (i > 1 => K[i-1] = history[i-1]) /\ i \in 1..n
        BY <1>2, <2>1, <2>2, <3>2
      <4> QED BY <2>3, <2>5, <3>1, <4>1
    <3>3. CASE i > 2
      <4>1. cut + i - 2 \in 1..n /\ K[i] = history[cut + i - 2]
        BY <2>1, <2>2, <3>3
      <4>2. /\ cut + i - 2 > 1 /\ history[cut + i - 3].calls
            /\ history[cut + i - 2].role = "user"
        BY <2>2, <2>3, <3>1, <4>1
      <4>3. CASE i > 3
        <5>1. K[i-1] = history[cut + i - 3]
          BY <2>1, <2>2, <4>3
        <5> QED BY <2>5, <3>3, <4>1, <4>2, <5>1
      <4>4. CASE i = 3
        <5>1. cut <= 2
          BY <2>2, <3>1, <4>1, <4>2, <4>4
        <5>2. cut = 2 => K[2] = history[2]
          BY <2>1
        <5>3. cut = 1 => history[1].calls
          BY <4>2, <4>4
        <5>4. ~history[1].calls
          BY <1>2, <2>2, <2>3
        <5>5. cut = 2
          BY <2>2, <4>2, <4>4, <5>1, <5>3, <5>4
        <5> QED BY <2>5, <4>1, <4>2, <4>4, <5>2, <5>5
      <4> QED BY <2>2, <3>3, <4>3, <4>4
    <3> QED BY <2>2, <3>2, <3>3
  <2> QED BY <2>4, <2>5
<1> QED BY <1>1, <1>2, HistoryFacts

\* With nobody out of turn: how the places in a request correspond to the
\* history, whose last message, the user's, is never in the range.
LEMMA SentShape ==
  ASSUME IInv, phase = "sent", skipped = 0, Len(history) >= 2
  PROVE  /\ cut \in Nat /\ cut % 2 = 0 /\ cut < Len(history) /\ Len(history) % 2 = 1
         /\ Len(Out) = 2 + Len(history) - cut
<1> DEFINE n == Len(history)
<1>1. n \in Nat /\ n >= 2 /\ cut \in Nat
  BY HistoryFacts DEF IInv, TypeOK
<1>2. Alternates(history) /\ cut % 2 = 0 /\ cut <= AtLeastTwo(n)
  BY DEF IInv, CutFits, Inside
<1>3. history[n].role = "user"
  BY DEF IInv, PhaseFits
<1>4. n % 2 = 1
  BY <1>1, <1>2, <1>3 DEF Alternates
<1>5. Len(Out) = 2 + (IF cut < n THEN n - cut ELSE 0)
  BY OutFields
<1> HIDE DEF n
<1>6. cut < n
  BY <1>1, <1>2, <1>4 DEF AtLeastTwo
<1> QED BY <1>1, <1>2, <1>4, <1>5, <1>6 DEF n

LEMMA SentInTurn == IInv => SentIsAConversation
<1> SUFFICES ASSUME IInv, phase = "sent", skipped = 0
             PROVE  Alternates(Out) /\ CallsAnswered(Out)
  BY DEF SentIsAConversation
<1> DEFINE n == Len(history)
<1>1. n \in Nat /\ n > 0 /\ history[n].role = "user"
  BY HistoryFacts DEF IInv, PhaseFits
<1>2. Alternates(history)
  BY DEF IInv, CutFits
<1>3. \A i \in 1..n : history[i].calls => history[i].role = "assistant"
  BY DEF IInv, Placed
<1>4. CASE n = 1
  <2>1. Out = history
    BY <1>4 DEF Out, Truncated
  <2>2. ~history[1].calls
    BY <1>1, <1>3, <1>4
  <2>3. Len(Out) = 1 /\ Out[1] = history[1]
    BY <1>4, <2>1
  <2>4. CallsAnswered(Out)
    BY <2>2, <2>3 DEF CallsAnswered
  <2> QED BY <1>2, <2>1, <2>4
<1>5. CASE n >= 2
  <2> DEFINE K == Kept(history, cut)
  <2>1. /\ Len(Out) = Len(K) /\ Len(K) \in Nat
        /\ \A j \in 1..Len(K) :
              /\ K[j] = IF j <= 2 THEN history[j] ELSE history[cut + j - 2]
              /\ Out[j].role = K[j].role /\ Out[j].at = K[j].at
              /\ Out[j].calls = K[j].calls
              /\ (j > 1 /\ K[j].role = "user" /\ K[j-1].calls) => Out[j].answers = K[j-1].at
    BY <1>5, OutFields
  <2>2. cut \in Nat /\ cut % 2 = 0 /\ cut < n /\ n % 2 = 1 /\ Len(K) = 2 + n - cut
    BY <1>5, <2>1, SentShape
  <2> HIDE DEF K
  <2>3. ASSUME NEW i \in 1..Len(K)
        PROVE  K[i].role = IF i % 2 = 1 THEN "user" ELSE "assistant"
    <3>1. CASE i <= 2
      BY <1>1, <1>2, <1>5, <2>1, <3>1 DEF Alternates
    <3>2. CASE i > 2
      <4>1. cut + i - 2 \in 1..n /\ K[i] = history[cut + i - 2]
        BY <1>1, <2>1, <2>2, <3>2
      <4>2. (cut + i - 2) % 2 = i % 2
        BY <2>2
      <4> QED BY <1>2, <4>1, <4>2 DEF Alternates
    <3> QED BY <2>1, <3>1, <3>2
  <2>4. Alternates(Out)
    BY <2>1, <2>3 DEF Alternates
  <2>5. ASSUME NEW i \in 1..Len(K), K[i].calls
        PROVE  i < Len(K) /\ Out[i+1].answers = K[i].at
    <3>1. K[i].role = "assistant"
      <4>1. i <= 2 => K[i] = history[i] /\ i \in 1..n
        BY <1>1, <1>5, <2>1
      <4>2. i > 2 => K[i] = history[cut + i - 2] /\ cut + i - 2 \in 1..n
        BY <1>1, <2>1, <2>2
      <4> QED BY <1>3, <2>1, <2>5, <4>1, <4>2
    <3>2. i % 2 # 1
      BY <2>3, <3>1
    <3>3. Len(K) % 2 = 1
      BY <1>1, <2>2
    <3>4. i < Len(K)
      BY <2>1, <3>2, <3>3
    <3>5. i + 1 \in 1..Len(K) /\ (i + 1) % 2 = 1 /\ i + 1 > 1 /\ (i + 1) - 1 = i
      <4>1. i \in Nat /\ i >= 1 /\ Len(K) \in Nat
        BY <2>1
      <4>2. i % 2 = 0
        BY <3>2, <4>1
      <4>3. (i + 1) % 2 = 1
        BY <4>1, <4>2
      <4> QED BY <3>4, <4>1, <4>3
    <3>6. K[i+1].role = "user"
      BY <2>3, <3>5
    <3> QED BY <2>1, <2>5, <3>4, <3>5, <3>6
  <2>6. CallsAnswered(Out)
    BY <2>1, <2>5 DEF CallsAnswered
  <2> QED BY <2>4, <2>6
<1>6. n = 1 \/ n >= 2
  <2> HIDE DEF n
  <2> QED BY <1>1
<1> QED BY <1>4, <1>5, <1>6

-----------------------------------------------------------------------------
\* The variables keep their types.
THEOREM TypeCorrect == Spec => []TypeOK
<1>1. IInv => TypeOK
  BY DEF IInv
<1> QED BY <1>1, Invariance, PTL

\* However the history was truncated, no request answers a tool call it does
\* not contain (ensureToolResultsFollowToolUse).
THEOREM RequestsAnswerTheirCalls == Spec => []ResultsFollowCalls
<1> QED BY AnswersFollow, Invariance, PTL

\* As long as every reply has left a message, each request alternates between
\* user and assistant and answers every tool call it contains.
THEOREM RequestsAreConversations == Spec => []SentIsAConversation
<1> QED BY SentInTurn, Invariance, PTL

\* ... and ends with the user's latest message.
THEOREM RequestsEndWithTheLatest == Spec => []LatestIsSent
<1>1. IInv => LatestIsSent
  <2> SUFFICES ASSUME IInv, phase = "sent", skipped = 0
               PROVE  Out[Len(Out)].at = Len(history)
    BY DEF LatestIsSent
  <2> DEFINE n == Len(history)
  <2>1. n \in Nat /\ n > 0 /\ \A i \in 1..n : history[i].at = i
    BY HistoryFacts DEF IInv, PhaseFits, Placed
  <2>2. CASE n = 1
    BY <2>1, <2>2 DEF Out, Truncated
  <2>3. CASE n >= 2
    <3> DEFINE K == Kept(history, cut)
               l == Len(Out)
    <3>1. /\ l = Len(K)
          /\ \A j \in 1..Len(K) :
                /\ K[j] = IF j <= 2 THEN history[j] ELSE history[cut + j - 2]
                /\ Out[j].at = K[j].at
      BY <2>3, OutFields
    <3>2. cut \in Nat /\ cut < n /\ l = 2 + n - cut
      BY <2>3, SentShape
    <3> HIDE DEF K, l
    <3>3. l \in 1..Len(K) /\ l > 2 /\ cut + l - 2 = n
      BY <2>1, <3>1, <3>2
    <3>4. Out[l].at = history[n].at
      BY <3>1, <3>3
    <3> QED BY <2>1, <3>4 DEF l
  <2>4. n = 1 \/ n >= 2
    <3> HIDE DEF n
    <3> QED BY <2>1
  <2> QED BY <2>2, <2>3, <2>4
<1> QED BY <1>1, Invariance, PTL

\* ContextManager.ts:193: the first pair is always sent, and what a request leaves
\* out behind it is a whole number of pairs, as long as replies left messages.
FirstPairAndRest ==
    phase = "sent" /\ skipped = 0 /\ Len(history) >= 2 =>
        /\ Out[1].at = 1 /\ Out[2].at = 2
        /\ (Len(history) - Len(Out)) % 2 = 0

THEOREM WholePairsAreLeftOut == Spec => []FirstPairAndRest
<1>1. IInv => FirstPairAndRest
  <2> SUFFICES ASSUME IInv, phase = "sent", skipped = 0, Len(history) >= 2
               PROVE  /\ Out[1].at = 1 /\ Out[2].at = 2
                      /\ (Len(history) - Len(Out)) % 2 = 0
    BY DEF FirstPairAndRest
  <2> DEFINE n == Len(history)  l == Len(Out)
  <2>1. /\ cut \in Nat /\ cut % 2 = 0 /\ cut < n /\ n \in Nat /\ l = 2 + n - cut
        /\ \A i \in 1..n : history[i].at = i
    BY SentShape, HistoryFacts DEF IInv, Placed
  <2>2. Out[1].at = history[1].at /\ Out[2].at = history[2].at
    <3> DEFINE K == Kept(history, cut)
    <3>1. /\ Len(K) \in Nat /\ Len(K) = 2 + (IF cut < n THEN n - cut ELSE 0)
          /\ \A j \in 1..Len(K) :
                /\ K[j] = IF j <= 2 THEN history[j] ELSE history[cut + j - 2]
                /\ Out[j].at = K[j].at
      BY OutFields
    <3> HIDE DEF K
    <3>2. 1 \in 1..Len(K) /\ 2 \in 1..Len(K)
      BY <2>1, <3>1
    <3> QED BY <3>1, <3>2
  <2> HIDE DEF n, l
  <2>3. (n - l) % 2 = 0
    BY <2>1
  <2>4. 1 \in 1..n /\ 2 \in 1..n
    BY <2>1 DEF n
  <2> QED BY <2>1, <2>2, <2>3, <2>4 DEF n, l
<1> QED BY <1>1, Invariance, PTL

\* A request holds no message twice unless the range ends before it begins, as it
\* does when a history of one message is truncated.
THEOREM MessagesAreSentOnce == Spec => [](cut >= 2 => SentOnce)
<1>1. IInv => (cut >= 2 => SentOnce)
  <2> SUFFICES ASSUME IInv, cut >= 2, phase = "sent", skipped = 0,
                      NEW i \in 1..Len(Out), NEW j \in 1..Len(Out), Out[i].at = Out[j].at
               PROVE  i = j
    BY DEF SentOnce
  <2> DEFINE n == Len(history)
  <2>1. n \in Nat /\ cut \in Nat /\ \A k \in 1..n : history[k].at = k
    BY HistoryFacts DEF IInv, TypeOK, Placed
  <2>2. CASE n <= 1
    <3>1. Out = history
      BY <2>2 DEF Out, Truncated
    <3> QED BY <2>1, <3>1
  <2>3. CASE n >= 2
    <3> DEFINE Place(k) == IF k <= 2 THEN k ELSE cut + k - 2
    <3>1. /\ cut < n /\ Len(Out) = 2 + n - cut
          /\ \A k \in 1..Len(Out) : Out[k].at = history[Place(k)].at
      BY <2>1, <2>3, SentShape, OutFields
    <3>2. \A k \in 1..Len(Out) : Place(k) \in 1..n
      BY <2>1, <2>3, <3>1
    <3>3. Place(i) = Place(j)
      BY <2>1, <3>1, <3>2
    <3> QED BY <2>1, <3>3
  <2> HIDE DEF n
  <2> QED BY <2>1, <2>2, <2>3
<1> QED BY <1>1, Invariance, PTL

\* A retry after an exceeded window sends less, as long as there is anything
\* behind the first pair to leave out (handleContextWindowExceededError).
THEOREM RetriesSendLess == Spec => []RetryTruncates
<1>1. IInv => RetryTruncates
  <2> SUFFICES ASSUME IInv, phase = "sent", skipped = 0, Len(Out) > 3
               PROVE  NextCut(history, cut, "quarter") > cut
    BY DEF RetryTruncates
  <2> DEFINE n == Len(history)
  <2>1. n \in Nat /\ n > 0
    BY HistoryFacts DEF IInv, PhaseFits
  <2>2. n >= 2
    <3>1. n # 1
      <4> SUFFICES ASSUME n = 1 PROVE FALSE
        OBVIOUS
      <4>1. Out = history
        BY DEF Out, Truncated
      <4>2. Len(Out) = 1
        BY <4>1
      <4> QED BY <4>2
    <3> HIDE DEF n
    <3> QED BY <2>1, <3>1
  <2>3. /\ cut \in Nat /\ cut % 2 = 0 /\ cut < n /\ n % 2 = 1
        /\ Len(Out) = 2 + n - cut
    BY <2>2, SentShape
  <2>4. n - cut >= 3
    <3> HIDE DEF n
    <3>1. n - cut >= 2
      BY <2>1, <2>3
    <3> QED BY <2>1, <2>3, <3>1
  <2> DEFINE end == cut + 2 * ((3 * (n - cut)) \div 8)
  <2>5. end > cut /\ end % 2 = 0 /\ end \in Int
    <3> HIDE DEF n
    <3> QED BY <2>1, <2>3, <2>4
  <2>6. NextCut(history, cut, "quarter") = IF IsUser(history, end) THEN end - 1 ELSE end
    BY DEF NextCut, Removed
  <2>7. ~IsUser(history, end)
    BY <2>5 DEF IsUser, IInv, CutFits, Alternates
  <2> HIDE DEF end
  <2> QED BY <2>5, <2>6, <2>7
<1> QED BY <1>1, Invariance, PTL

\* A message that was deleted is sent again only after a restore, or when the
\* only message exceeded the window.
THEOREM DeletionsLast == Spec => DeletedStaysDeleted
<1>1. ASSUME IInv, [Next]_vars, phase # "idle", skipped = 0, Len(history) # 1
      PROVE  cut' >= cut
  <2>1. cut \in Nat
    BY <1>1 DEF IInv, TypeOK
  <2>2. CASE cut' = cut
    BY <2>1, <2>2
  <2>3. CASE cut' # cut
    <3>1. Attempt \/ WindowExceeded \/ Summarize \/ Condense
      BY <1>1, <2>3 DEF Next, Requests, vars, Prepare, FirstChunk, RetryRequest, AskRetry,
         UserRetries, Reply, ToolsDone, NoContent, Interrupted, Abort, Resume, Say, Restore
    <3>2. \E keep \in Keeps : cut' = NextCut(history, cut, keep)
      BY <2>3, <3>1 DEF Attempt, WindowExceeded, Summarize, Condense, Keeps
    <3>3. Len(history) >= 2
      <4>1. Len(history) > 0
        BY <1>1, <3>1 DEF IInv, PhaseFits, Attempt, WindowExceeded, Summarize, Condense,
           Working, Streaming
      <4>2. Len(history) \in Nat
        BY <1>1, HistoryFacts
      <4>3. Len(history) # 1
        BY <1>1
      <4> DEFINE n == Len(history)
      <4>4. n \in Nat /\ n > 0 /\ n # 1
        BY <4>1, <4>2, <4>3
      <4> HIDE DEF n
      <4>5. n >= 2
        BY <4>4
      <4> QED BY <4>5 DEF n
    <3>4. Alternates(history) /\ Inside(cut, history)
      BY <1>1 DEF IInv, CutFits
    <3>5. Len(history) >= 1
      BY <3>3, <1>1, HistoryFacts
    <3> QED BY <1>1, <2>1, <3>2, <3>3, <3>4, <3>5, HistoryFacts, NextCutStaysInside
  <2> QED BY <2>2, <2>3
<1>2. IInv /\ [Next]_vars =>
        [phase = "idle" \/ skipped # 0 \/ Len(history) = 1 \/ cut' >= cut]_vars
  BY <1>1
<1> QED BY <1>2, Invariance, PTL DEF Spec, DeletedStaysDeleted
=============================================================================
