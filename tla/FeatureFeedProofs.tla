------------------------- MODULE FeatureFeedProofs -------------------------
(***************************************************************************)
(* The feature feed, for every set of features, any number of frames and any *)
(* delays: the backoff is exponential, and the store has what the server     *)
(* delivered whole, wherever the connections break.                          *)
(***************************************************************************)
EXTENDS FeatureFeed, SequenceTheorems, WellFoundedInduction, TLAPS

-----------------------------------------------------------------------------
(* The backoff.                                                             *)

\* A set of naturals that is not empty has a least element.
LEMMA Least ==
  ASSUME NEW T \in SUBSET Nat, T # {}
  PROVE  \E m \in T : \A k \in T : m <= k
<1>1. PICK m \in T : \A y \in T : ~(<<y, m>> \in OpToRel(<, Nat))
  BY NatLessThanWellFounded, WFMin
<1>2. \A y \in T : ~(y < m)
  BY <1>1 DEF OpToRel
<1> QED
  BY <1>2

\* The bounds and delays are naturals.
LEMMA DelayTypes ==
  /\ MaxStreak \in Nat /\ MaxEvents \in Nat
  /\ BaseDelay \in Nat \ {0} /\ MaxDelay \in Nat \ {0} /\ BaseDelay <= MaxDelay
  BY FeedAssumption

\* f has the powers of two up to n.
Powers(f, n) ==
  /\ f \in [0..n -> Nat]
  /\ f[0] = 1
  /\ \A i \in 1..n : f[i] = 2 * f[i - 1]

\* There is such a function: the least n without one would be reached from n - 1.
LEMMA PowersExist == \E f : Powers(f, MaxStreak)
<1> DEFINE T == {n \in 0..MaxStreak : ~\E f : Powers(f, n)}
<1> SUFFICES ASSUME T # {} PROVE FALSE
  BY DelayTypes
<1>1. PICK n \in T : \A k \in T : n <= k
  <2>1. T \in SUBSET Nat
    BY DelayTypes
  <2> HIDE DEF T
  <2> QED
    BY <2>1, Least
<1>2. CASE n = 0
  <2>1. Powers([i \in 0..0 |-> 1], 0)
    BY DEF Powers
  <2> QED
    BY <1>2, <2>1
<1>3. CASE n # 0
  <2>1. n \in 1..MaxStreak /\ n - 1 \in 0..MaxStreak /\ n - 1 \notin T
    BY <1>1, <1>3, DelayTypes
  <2>2. PICK f : Powers(f, n - 1)
    BY <2>1
  <2> DEFINE g == [i \in 0..n |-> IF i = n THEN 2 * f[n - 1] ELSE f[i]]
  <2>3. f \in [0..(n - 1) -> Nat] /\ f[0] = 1 /\ n \in Nat /\ n > 0
    BY <2>1, <2>2, DelayTypes DEF Powers
  <2>4. g \in [0..n -> Nat] /\ g[0] = 1
    BY <2>3
  <2>5. \A i \in 1..n : g[i] = 2 * g[i - 1]
    <3> SUFFICES ASSUME NEW i \in 1..n PROVE g[i] = 2 * g[i - 1]
      OBVIOUS
    <3>1. CASE i = n
      BY <2>3, <3>1
    <3>2. CASE i # n
      <4>1. g[i] = f[i] /\ g[i - 1] = f[i - 1] /\ i \in 1..(n - 1)
        BY <2>3, <3>2
      <4> QED
        BY <2>2, <4>1 DEF Powers
    <3> QED
      BY <3>1, <3>2
  <2>6. Powers(g, n)
    BY <2>4, <2>5 DEF Powers
  <2> QED
    BY <2>6
<1> QED
  BY <1>2, <1>3

\* TwoTo is that function.
LEMMA TwoToDef == Powers(TwoTo, MaxStreak)
<1> DEFINE Eq(g) == g = [i \in 0..MaxStreak |-> IF i = 0 THEN 1 ELSE 2 * g[i - 1]]
<1>1. PICK f : Powers(f, MaxStreak)
  BY PowersExist
<1>2. Eq(f)
  BY <1>1, DelayTypes DEF Powers
<1>3. Eq(TwoTo)
  <2>1. TwoTo = CHOOSE g : Eq(g)
    BY DEF TwoTo
  <2> QED
    BY <1>2, <2>1
<1>4. \A i \in 0..MaxStreak : TwoTo[i] = f[i]
  <2> DEFINE T == {n \in 0..MaxStreak : TwoTo[n] # f[n]}
  <2> SUFFICES ASSUME T # {} PROVE FALSE
    OBVIOUS
  <2>1. PICK n \in T : \A k \in T : n <= k
    <3>1. T \in SUBSET Nat
      BY DelayTypes
    <3> HIDE DEF T
    <3> QED
      BY <3>1, Least
  <2>2. n = 0 \/ (n \in 1..MaxStreak /\ n - 1 \in 0..MaxStreak /\ n - 1 \notin T)
    BY <2>1, DelayTypes
  <2>3. n = 0 => TwoTo[n] = f[n]
    BY <1>1, <1>3, <2>1 DEF Powers
  <2>4. n # 0 => TwoTo[n] = 2 * TwoTo[n - 1] /\ f[n] = 2 * f[n - 1]
    BY <1>1, <1>3, <2>1, <2>2 DEF Powers
  <2> QED
    BY <2>1, <2>2, <2>3, <2>4
<1>5. TwoTo = f
  <2>1. TwoTo = [i \in 0..MaxStreak |-> TwoTo[i]] /\ f = [i \in 0..MaxStreak |-> f[i]]
    BY <1>1, <1>3 DEF Powers
  <2> QED
    BY <1>4, <2>1
<1> QED
  BY <1>1, <1>5

\* The delay after n attempts.
Nominal(n) == IF BaseDelay * TwoTo[n] > MaxDelay THEN MaxDelay ELSE BaseDelay * TwoTo[n]

\* The nominal delays begin with the base delay, double, and end at the cap.
LEMMA NominalDelays ==
  /\ Nominal(0) = BaseDelay
  /\ Nominal(MaxStreak) = MaxDelay
  /\ \A n \in 0..MaxStreak : Nominal(n) \in Nat /\ BaseDelay <= Nominal(n) /\ Nominal(n) <= MaxDelay
  /\ \A n \in 0..(MaxStreak - 1) : Nominal(n + 1) = Doubled(Nominal(n))
<1> DEFINE Full(n) == BaseDelay * TwoTo[n]
<1>1. /\ TwoTo[0] = 1
      /\ \A n \in 0..MaxStreak : TwoTo[n] \in Nat
      /\ \A n \in 0..(MaxStreak - 1) : TwoTo[n + 1] = 2 * TwoTo[n]
  <2>1. \A n \in 0..(MaxStreak - 1) : n + 1 \in 1..MaxStreak /\ (n + 1) - 1 = n
    BY DelayTypes
  <2> QED
    BY <2>1, TwoToDef, DelayTypes DEF Powers
<1>2. \A n \in 0..MaxStreak : TwoTo[n] >= 1
  <2> DEFINE T == {n \in 0..MaxStreak : ~(TwoTo[n] >= 1)}
  <2> SUFFICES ASSUME T # {} PROVE FALSE
    OBVIOUS
  <2>1. PICK n \in T : \A k \in T : n <= k
    <3>1. T \in SUBSET Nat
      BY DelayTypes
    <3> HIDE DEF T
    <3> QED
      BY <3>1, Least
  <2>2. n # 0
    BY <1>1, <2>1
  <2>3. n - 1 \in 0..(MaxStreak - 1) /\ n - 1 \notin T /\ (n - 1) + 1 = n /\ n - 1 \in 0..MaxStreak
    BY <2>1, <2>2, DelayTypes
  <2>4. TwoTo[n - 1] >= 1 /\ TwoTo[n] = 2 * TwoTo[n - 1] /\ TwoTo[n - 1] \in Nat
    BY <1>1, <2>3
  <2> QED
    BY <2>1, <2>4
<1>3. /\ Full(0) = BaseDelay
      /\ \A n \in 0..MaxStreak : Full(n) \in Nat /\ BaseDelay <= Full(n)
      /\ Full(MaxStreak) >= MaxDelay
  <2>1. \A t \in Nat : t >= 1 => BaseDelay * t \in Nat /\ BaseDelay <= BaseDelay * t
    BY DelayTypes
  <2>2. BaseDelay * 1 = BaseDelay
    BY DelayTypes
  <2> QED
    BY <1>1, <1>2, <2>1, <2>2, FeedAssumption
<1>4. \A n \in 0..(MaxStreak - 1) : n \in 0..MaxStreak /\ n + 1 \in 0..MaxStreak /\ Full(n + 1) = 2 * Full(n)
  <2> SUFFICES ASSUME NEW n \in 0..(MaxStreak - 1)
               PROVE  n \in 0..MaxStreak /\ n + 1 \in 0..MaxStreak /\ Full(n + 1) = 2 * Full(n)
    OBVIOUS
  <2>1. n \in 0..MaxStreak /\ n + 1 \in 0..MaxStreak
    BY DelayTypes
  <2>2. TwoTo[n] \in Nat /\ TwoTo[n + 1] = 2 * TwoTo[n]
    BY <1>1, <2>1
  <2>3. BaseDelay * (2 * TwoTo[n]) = 2 * (BaseDelay * TwoTo[n])
    BY <2>2, DelayTypes
  <2> QED
    BY <2>1, <2>2, <2>3
<1>5. \A n : Nominal(n) = IF Full(n) > MaxDelay THEN MaxDelay ELSE Full(n)
  BY DEF Nominal
<1>6. MaxStreak \in 0..MaxStreak /\ 0 \in 0..MaxStreak
  BY DelayTypes
<1> HIDE DEF Full
<1> QED
  BY <1>3, <1>4, <1>5, <1>6, DelayTypes DEF Doubled

\* Run waits for the delay the attempts so far call for.
Backoff ==
  /\ streak \in 0..MaxStreak
  /\ retry = Nominal(streak)
  /\ delay \in 0..MaxDelay
  /\ st = "backoff" => delay \in Waits(retry)

\* A wait is within a tenth of the delay it is drawn for, and within the cap.
LEMMA WaitType ==
  ASSUME NEW r \in 0..MaxDelay
  PROVE  \A d \in Waits(r) : d \in 0..MaxDelay /\ 9 * r <= 10 * d /\ 10 * d <= 11 * r
  BY DelayTypes DEF Waits

\* Every step keeps it: a lasting attempt starts over, the end of a wait doubles the
\* delay up to the cap, and nothing else touches it.
LEMMA BackoffStep ==
  ASSUME Backoff, [Next]_feedVars
  PROVE  Backoff'
<1>1. Nominal(0) = BaseDelay /\ 0 \in 0..MaxStreak /\ retry \in 0..MaxDelay /\ BaseDelay \in 0..MaxDelay
  BY NominalDelays, DelayTypes DEF Backoff
<1>2. CASE AttemptBreaks \/ CtxEndsAttempt
  <2>1. \/ st' = "stopped" /\ UNCHANGED <<retry, delay, streak>>
        \/ /\ (retry' = BaseDelay /\ streak' = 0) \/ (retry' = retry /\ streak' = streak)
           /\ delay' \in Waits(retry')
    BY <1>2 DEF AttemptBreaks, CtxEndsAttempt, AttemptEnds, NextRetry
  <2>2. CASE st' = "stopped" /\ UNCHANGED <<retry, delay, streak>>
    BY <2>2 DEF Backoff, Nominal
  <2>3. CASE /\ (retry' = BaseDelay /\ streak' = 0) \/ (retry' = retry /\ streak' = streak)
             /\ delay' \in Waits(retry')
    <3>1. retry' \in 0..MaxDelay
      BY <1>1, <2>3
    <3>2. delay' \in 0..MaxDelay
      BY <2>3, <3>1, WaitType
    <3>3. streak' \in 0..MaxStreak /\ retry' = Nominal(streak')
      BY <1>1, <2>3 DEF Backoff
    <3> QED
      BY <2>3, <3>2, <3>3 DEF Backoff, Nominal, Waits
  <2> QED
    BY <2>1, <2>2, <2>3
<1>3. CASE BackoffEnds
  <2>1. /\ st' = "check" /\ delay' = 0 /\ retry' = Doubled(retry)
        /\ streak' = IF streak < MaxStreak THEN streak + 1 ELSE streak
    BY <1>3 DEF BackoffEnds
  <2>2. streak' \in 0..MaxStreak /\ retry' = Nominal(streak')
    <3>1. CASE streak < MaxStreak
      <4>1. streak \in 0..(MaxStreak - 1) /\ streak' = streak + 1 /\ streak' \in 0..MaxStreak
        BY <2>1, <3>1, DelayTypes DEF Backoff
      <4> QED
        BY <2>1, <4>1, NominalDelays DEF Backoff
    <3>2. CASE ~(streak < MaxStreak)
      <4>1. streak = MaxStreak /\ streak' = MaxStreak /\ MaxStreak \in 0..MaxStreak
        BY <2>1, <3>2, DelayTypes DEF Backoff
      <4> QED
        BY <2>1, <4>1, NominalDelays, DelayTypes DEF Backoff, Doubled
    <3> QED
      BY <3>1, <3>2
  <2> QED
    BY <2>1, <2>2, DelayTypes DEF Backoff, Nominal
<1>4. CASE BackoffCancelled
  BY <1>4, DelayTypes DEF BackoffCancelled, Backoff, Nominal
<1>5. CASE CheckContext \/ Connect \/ ReadLine \/ SendFrame \/ Lasts \/ Cancel \/ Quiet \/ UNCHANGED feedVars
  <2>1. UNCHANGED <<retry, delay, streak>> /\ (st' = "backoff" => st = "backoff")
    BY <1>5 DEF CheckContext, Connect, ReadLine, SendFrame, Lasts, Cancel, Quiet, feedVars
  <2> QED
    BY <2>1 DEF Backoff, Nominal, Waits
<1> QED
  BY <1>2, <1>3, <1>4, <1>5 DEF Next

\* It holds before the first attempt.
LEMMA BackoffInit == Init => Backoff
  BY NominalDelays, DelayTypes DEF Init, Backoff

\* Every wait is within a tenth of the base delay doubled once per attempt since
\* one that lasted, and never over the cap.
THEOREM WaitsAreExponential == FeedSpec => []BackoffIsExponential
<1>1. Backoff => BackoffIsExponential
  <2> SUFFICES ASSUME Backoff, st = "backoff"
               PROVE  /\ delay <= MaxDelay
                      /\ 9 * Nominal(streak) <= 10 * delay /\ 10 * delay <= 11 * Nominal(streak)
    BY DEF BackoffIsExponential, Nominal
  <2>1. retry \in 0..MaxDelay
    BY NominalDelays, DelayTypes DEF Backoff
  <2> QED
    BY <2>1, WaitType, DelayTypes DEF Backoff
<1> QED
  BY <1>1, BackoffInit, BackoffStep, PTL DEF FeedSpec

-----------------------------------------------------------------------------
(* The decoder.                                                             *)

\* The decoder when it has seen the name n and the parts d.
Seen(n, d) == [event |-> n, data |-> d]

\* The decoder has no part yet.
NoData == <<>>

\* How far a frame about e can be: the lines to come, and what the decoder has
\* seen of it.
Within(kind, e, lines, seen) ==
  LET feature == EventLine("feature")
      one == DataLine(e, 1, 1)
      half == DataLine(e, 1, 2)
      last == DataLine(e, 2, 2)
      At(l, n, d) == lines = l /\ seen = Seen(n, d)
  IN  \/ /\ kind = "whole"
         /\ \/ At(<<feature, one, Blank>>, "", NoData)
            \/ At(<<one, Blank>>, "feature", NoData)
            \/ At(<<Blank>>, "feature", <<<<e, 1, 1>>>>)
      \/ /\ kind = "split"
         /\ \/ At(<<half, feature, last, Blank>>, "", NoData)
            \/ At(<<feature, last, Blank>>, "", <<<<e, 1, 2>>>>)
            \/ At(<<last, Blank>>, "feature", <<<<e, 1, 2>>>>)
            \/ At(<<Blank>>, "feature", <<<<e, 1, 2>>, <<e, 2, 2>>>>)
      \/ /\ kind = "unnamed"
         /\ \/ At(<<one, Blank>>, "", NoData)
            \/ At(<<Blank>>, "", <<<<e, 1, 1>>>>)
      \/ /\ kind = "other"
         /\ \/ At(<<EventLine("other"), one, Blank>>, "", NoData)
            \/ At(<<one, Blank>>, "other", NoData)
            \/ At(<<Blank>>, "other", <<<<e, 1, 1>>>>)
      \/ /\ kind = "malformed"
         /\ \/ At(<<feature, half, Blank>>, "", NoData)
            \/ At(<<half, Blank>>, "feature", NoData)
            \/ At(<<Blank>>, "feature", <<<<e, 1, 2>>>>)
      \/ /\ kind = "empty"
         /\ \/ At(<<feature, Blank>>, "", NoData)
            \/ At(<<Blank>>, "feature", NoData)
      \/ /\ kind = "keepalive"
         /\ At(<<Comment>>, "", NoData)

\* Between frames the decoder of a connection is new, in a frame it has seen the
\* lines of that frame that were read and no others, and without a connection no
\* lines are to come.
Decoding ==
  /\ st # "streaming" => wire = <<>>
  /\ wire = <<>> => frame = NoFrame /\ (st = "streaming" => dec = NewDecoder)
  /\ wire # <<>> =>
       /\ frame.kind \in Kinds /\ frame.event \in Event
       /\ Within(frame.kind, frame.event, wire, dec)

\* A line that hands an event to the store.
Delivers(d, line) == Completes(d, line) /\ FrameName(d) = "feature" /\ Unmarshals(d.data)

\* Reading the line at hand ends the frame and leaves a new decoder, or gets to
\* the frame's next point, and hands the frame's event to the store if and only
\* if it ends a whole one.
ReadsOn(kind, e, lines, seen) ==
  LET line == Head(lines)
      rest == Tail(lines)
      after == Push(seen, line)
  IN  /\ IF rest = <<>> THEN after = NewDecoder ELSE Within(kind, e, rest, after)
      /\ Delivers(seen, line) <=> rest = <<>> /\ kind \in {"whole", "split"}
      /\ Delivers(seen, line) => seen.data[1][1] = e

\* The frames of the model, by name.
LEMMA KindNames ==
  Kinds = {"whole", "split", "unnamed", "other", "malformed", "empty", "keepalive"}
  BY DEF Kinds, Frames

\* Heads and tails of sequences of one to four lines: of one,
LEMMA HeadTail1 ==
  ASSUME NEW a
  PROVE  Head(<<a>>) = a /\ Tail(<<a>>) = <<>> /\ <<a>> # <<>>
  OBVIOUS

\* of two,
LEMMA HeadTail2 ==
  ASSUME NEW a, NEW b
  PROVE  Head(<<a, b>>) = a /\ Tail(<<a, b>>) = <<b>> /\ <<a, b>> # <<>>
  OBVIOUS

\* of three,
LEMMA HeadTail3 ==
  ASSUME NEW a, NEW b, NEW c
  PROVE  Head(<<a, b, c>>) = a /\ Tail(<<a, b, c>>) = <<b, c>> /\ <<a, b, c>> # <<>>
  OBVIOUS

\* and of four.
LEMMA HeadTail4 ==
  ASSUME NEW a, NEW b, NEW c, NEW d
  PROVE  /\ Head(<<a, b, c, d>>) = a /\ Tail(<<a, b, c, d>>) = <<b, c, d>>
         /\ <<a, b, c, d>> # <<>>
  OBVIOUS

\* A first part is appended to no data, and a second part to the first.
LEMMA AppendPart ==
  ASSUME NEW a, NEW b
  PROVE  Append(NoData, a) = <<a>> /\ Append(<<a>>, b) = <<a, b>>
<1> DEFINE s == Append(<<a>>, b)
           t == <<a, b>>
<1>1. /\ <<a>> \in Seq({a, b}) /\ b \in {a, b} /\ t \in Seq({a, b})
      /\ Len(<<a>>) = 1 /\ Len(t) = 2 /\ t[1] = a /\ t[2] = b
  OBVIOUS
<1>2. s \in Seq({a, b}) /\ Len(s) = 2 /\ s[1] = a /\ s[2] = b
  BY <1>1
<1>3. Append(NoData, a) = <<a>>
  BY DEF NoData
<1> HIDE DEF s, t
<1>4. \A i \in 1..Len(s) : s[i] = t[i]
  BY <1>1, <1>2
<1>5. s = t
  BY <1>1, <1>2, <1>4, SeqEqual
<1> QED
  BY <1>3, <1>5 DEF s, t

\* A blank line resets the decoder and delivers what it has, a comment does
\* neither.
LEMMA ReadEnd ==
  ASSUME NEW n, NEW d
  PROVE  /\ Push(Seen(n, d), Blank) = NewDecoder
         /\ Push(Seen(n, d), Comment) = Seen(n, d)
         /\ ~Delivers(Seen(n, d), Comment)
         /\ Delivers(Seen(n, d), Blank) <=> n = "feature" /\ d # NoData /\ Unmarshals(d)
<1>1. Push(Seen(n, d), Blank) = NewDecoder /\ Push(Seen(n, d), Comment) = Seen(n, d)
  BY DEF Push, Seen, Blank, Comment, Line
<1>2. ~Delivers(Seen(n, d), Comment)
  BY DEF Delivers, Completes, Comment, Line
<1>3. Delivers(Seen(n, d), Blank) <=> n = "feature" /\ d # NoData /\ Unmarshals(d)
  BY DEF Delivers, Completes, FrameName, Seen, NoData, Blank, Line
<1> QED
  BY <1>1, <1>2, <1>3

\* An event line sets the name.
LEMMA ReadName ==
  ASSUME NEW n, NEW d, NEW m
  PROVE  Push(Seen(n, d), EventLine(m)) = Seen(m, d) /\ ~Delivers(Seen(n, d), EventLine(m))
<1>1. Push(Seen(n, d), EventLine(m)) = Seen(m, d)
  BY DEF Push, Seen, EventLine, Line
<1>2. ~Delivers(Seen(n, d), EventLine(m))
  BY DEF Delivers, Completes, EventLine, Line
<1> QED
  BY <1>1, <1>2

\* A data line adds its part to the data.
LEMMA ReadData ==
  ASSUME NEW n, NEW d, NEW e, NEW i \in Nat, NEW k \in Nat
  PROVE  /\ Push(Seen(n, d), DataLine(e, i, k)) = Seen(n, Append(d, <<e, i, k>>))
         /\ ~Delivers(Seen(n, d), DataLine(e, i, k))
<1>1. Push(Seen(n, d), DataLine(e, i, k)) = Seen(n, Append(d, <<e, i, k>>))
  BY DEF Push, Seen, DataLine, Line
<1>2. ~Delivers(Seen(n, d), DataLine(e, i, k))
  BY DEF Delivers, Completes, DataLine, Line
<1> QED
  BY <1>1, <1>2

\* A part that is the only one, or both of two, are the data of an event; the
\* first of two is not.
LEMMA PartsUnmarshal ==
  ASSUME NEW e
  PROVE  /\ Unmarshals(<<<<e, 1, 1>>>>)
         /\ Unmarshals(<<<<e, 1, 2>>, <<e, 2, 2>>>>)
         /\ ~Unmarshals(<<<<e, 1, 2>>>>)
<1>1. Unmarshals(<<<<e, 1, 1>>>>) /\ ~Unmarshals(<<<<e, 1, 2>>>>)
  BY DEF Unmarshals
<1>2. Unmarshals(<<<<e, 1, 2>>, <<e, 2, 2>>>>)
  BY DEF Unmarshals
<1> QED
  BY <1>1, <1>2

\* A line of a frame that is not its last only gets the reader on: an event line
LEMMA NameFirst ==
  ASSUME NEW e, NEW kind, NEW lines, NEW rest, NEW n, NEW d, NEW m,
         Head(lines) = EventLine(m), Tail(lines) = rest, rest # <<>>,
         Within(kind, e, rest, Seen(m, d))
  PROVE  ReadsOn(kind, e, lines, Seen(n, d))
<1>1. Push(Seen(n, d), EventLine(m)) = Seen(m, d) /\ ~Delivers(Seen(n, d), EventLine(m))
  BY ReadName
<1> QED
  BY <1>1 DEF ReadsOn

\* or a data line.
LEMMA PartFirst ==
  ASSUME NEW e, NEW kind, NEW lines, NEW rest, NEW n, NEW d, NEW i \in Nat, NEW k \in Nat,
         Head(lines) = DataLine(e, i, k), Tail(lines) = rest, rest # <<>>,
         Within(kind, e, rest, Seen(n, Append(d, <<e, i, k>>)))
  PROVE  ReadsOn(kind, e, lines, Seen(n, d))
<1> DEFINE line == DataLine(e, i, k)
           after == Seen(n, Append(d, <<e, i, k>>))
<1>1. Push(Seen(n, d), line) = after /\ ~Delivers(Seen(n, d), line)
  BY ReadData
<1> HIDE DEF line, after
<1> QED
  BY <1>1 DEF ReadsOn, line, after

\* The last line ends the frame, and delivers what is complete.
LEMMA BlankLast ==
  ASSUME NEW e, NEW kind, NEW n, NEW d,
         (n = "feature" /\ d # NoData /\ Unmarshals(d)) <=> kind \in {"whole", "split"},
         kind \in {"whole", "split"} => d[1][1] = e
  PROVE  ReadsOn(kind, e, <<Blank>>, Seen(n, d))
<1>1. Head(<<Blank>>) = Blank /\ Tail(<<Blank>>) = <<>>
  BY HeadTail1
<1>2. Seen(n, d).data = d
  BY DEF Seen
<1>3. Push(Seen(n, d), Blank) = NewDecoder /\ (Delivers(Seen(n, d), Blank) <=> kind \in {"whole", "split"})
  BY ReadEnd
<1> QED
  BY <1>1, <1>2, <1>3 DEF ReadsOn

\* The same for the lines of the frames, written out: an event line before one
LEMMA NameOf2 ==
  ASSUME NEW e, NEW kind, NEW n, NEW d, NEW m, NEW b, Within(kind, e, <<b>>, Seen(m, d))
  PROVE  ReadsOn(kind, e, <<EventLine(m), b>>, Seen(n, d))
<1>1. /\ Head(<<EventLine(m), b>>) = EventLine(m) /\ Tail(<<EventLine(m), b>>) = <<b>>
      /\ <<b>> # <<>>
  BY HeadTail1, HeadTail2
<1> QED
  BY <1>1, NameFirst

\* or two lines,
LEMMA NameOf3 ==
  ASSUME NEW e, NEW kind, NEW n, NEW d, NEW m, NEW b, NEW c, Within(kind, e, <<b, c>>, Seen(m, d))
  PROVE  ReadsOn(kind, e, <<EventLine(m), b, c>>, Seen(n, d))
<1>1. /\ Head(<<EventLine(m), b, c>>) = EventLine(m) /\ Tail(<<EventLine(m), b, c>>) = <<b, c>>
      /\ <<b, c>> # <<>>
  BY HeadTail2, HeadTail3
<1> QED
  BY <1>1, NameFirst

\* and a data line before one
LEMMA PartOf2 ==
  ASSUME NEW e, NEW kind, NEW n, NEW d, NEW i \in Nat, NEW k \in Nat, NEW b,
         Within(kind, e, <<b>>, Seen(n, Append(d, <<e, i, k>>)))
  PROVE  ReadsOn(kind, e, <<DataLine(e, i, k), b>>, Seen(n, d))
<1>1. /\ Head(<<DataLine(e, i, k), b>>) = DataLine(e, i, k) /\ Tail(<<DataLine(e, i, k), b>>) = <<b>>
      /\ <<b>> # <<>>
  BY HeadTail1, HeadTail2
<1> QED
  BY <1>1, PartFirst

\* or three.
LEMMA PartOf4 ==
  ASSUME NEW e, NEW kind, NEW n, NEW d, NEW i \in Nat, NEW k \in Nat, NEW a, NEW b, NEW c,
         Within(kind, e, <<a, b, c>>, Seen(n, Append(d, <<e, i, k>>)))
  PROVE  ReadsOn(kind, e, <<DataLine(e, i, k), a, b, c>>, Seen(n, d))
<1> DEFINE line == DataLine(e, i, k)
<1>1. Head(<<line, a, b, c>>) = line /\ Tail(<<line, a, b, c>>) = <<a, b, c>> /\ <<a, b, c>> # <<>>
  BY HeadTail3, HeadTail4
<1> QED
  BY <1>1, PartFirst

\* At every point of a frame the reader gets on as it should.
LEMMA ReadPoint ==
  ASSUME NEW e, NEW kind, NEW lines, NEW seen, Within(kind, e, lines, seen)
  PROVE  ReadsOn(kind, e, lines, seen)
<1> DEFINE feature == EventLine("feature")
           one == DataLine(e, 1, 1)
           half == DataLine(e, 1, 2)
           last == DataLine(e, 2, 2)
           At(l, n, d) == lines = l /\ seen = Seen(n, d)
<1>0. /\ Append(NoData, <<e, 1, 1>>) = <<<<e, 1, 1>>>> /\ Append(NoData, <<e, 1, 2>>) = <<<<e, 1, 2>>>>
      /\ Append(<<<<e, 1, 2>>>>, <<e, 2, 2>>) = <<<<e, 1, 2>>, <<e, 2, 2>>>>
  BY AppendPart
<1>1. CASE kind = "whole"
  <2>1. CASE At(<<feature, one, Blank>>, "", NoData)
    <3>1. Within(kind, e, <<one, Blank>>, Seen("feature", NoData))
      BY <1>0, <1>1 DEF Within
    <3> QED
      BY <2>1, <3>1, NameOf3
  <2>2. CASE At(<<one, Blank>>, "feature", NoData)
    <3>1. Within(kind, e, <<Blank>>, Seen("feature", Append(NoData, <<e, 1, 1>>)))
      BY <1>0, <1>1 DEF Within
    <3> QED
      BY <2>2, <3>1, PartOf2
  <2>3. CASE At(<<Blank>>, "feature", <<<<e, 1, 1>>>>)
    <3> DEFINE d == <<<<e, 1, 1>>>>
    <3>1. Unmarshals(d) /\ d # NoData /\ d[1][1] = e
      BY PartsUnmarshal DEF NoData
    <3>2. lines = <<Blank>> /\ seen = Seen("feature", d)
      BY <2>3
    <3> HIDE DEF d
    <3> QED
      BY <1>1, <3>1, <3>2, BlankLast
  <2> QED
    BY <1>1, <2>1, <2>2, <2>3 DEF Within
<1>2. CASE kind = "split"
  <2>1. CASE At(<<half, feature, last, Blank>>, "", NoData)
    <3>1. Within(kind, e, <<feature, last, Blank>>, Seen("", Append(NoData, <<e, 1, 2>>)))
      BY <1>0, <1>2 DEF Within
    <3> QED
      BY <2>1, <3>1, PartOf4
  <2>2. CASE At(<<feature, last, Blank>>, "", <<<<e, 1, 2>>>>)
    <3>1. Within(kind, e, <<last, Blank>>, Seen("feature", <<<<e, 1, 2>>>>))
      BY <1>0, <1>2 DEF Within
    <3> QED
      BY <2>2, <3>1, NameOf3
  <2>3. CASE At(<<last, Blank>>, "feature", <<<<e, 1, 2>>>>)
    <3>1. Within(kind, e, <<Blank>>, Seen("feature", Append(<<<<e, 1, 2>>>>, <<e, 2, 2>>)))
      BY <1>0, <1>2 DEF Within
    <3> QED
      BY <2>3, <3>1, PartOf2
  <2>4. CASE At(<<Blank>>, "feature", <<<<e, 1, 2>>, <<e, 2, 2>>>>)
    <3> DEFINE d == <<<<e, 1, 2>>, <<e, 2, 2>>>>
    <3>1. Unmarshals(d) /\ d # NoData /\ d[1][1] = e
      BY PartsUnmarshal DEF NoData
    <3>2. lines = <<Blank>> /\ seen = Seen("feature", d)
      BY <2>4
    <3> HIDE DEF d
    <3> QED
      BY <1>2, <3>1, <3>2, BlankLast
  <2> QED
    BY <1>2, <2>1, <2>2, <2>3, <2>4 DEF Within
<1>3. CASE kind = "unnamed"
  <2>1. CASE At(<<one, Blank>>, "", NoData)
    <3>1. Within(kind, e, <<Blank>>, Seen("", Append(NoData, <<e, 1, 1>>)))
      BY <1>0, <1>3 DEF Within
    <3> QED
      BY <2>1, <3>1, PartOf2
  <2>2. CASE At(<<Blank>>, "", <<<<e, 1, 1>>>>)
    BY <1>3, <2>2, BlankLast
  <2> QED
    BY <1>3, <2>1, <2>2 DEF Within
<1>4. CASE kind = "other"
  <2>1. CASE At(<<EventLine("other"), one, Blank>>, "", NoData)
    <3>1. Within(kind, e, <<one, Blank>>, Seen("other", NoData))
      BY <1>0, <1>4 DEF Within
    <3> QED
      BY <2>1, <3>1, NameOf3
  <2>2. CASE At(<<one, Blank>>, "other", NoData)
    <3>1. Within(kind, e, <<Blank>>, Seen("other", Append(NoData, <<e, 1, 1>>)))
      BY <1>0, <1>4 DEF Within
    <3> QED
      BY <2>2, <3>1, PartOf2
  <2>3. CASE At(<<Blank>>, "other", <<<<e, 1, 1>>>>)
    BY <1>4, <2>3, BlankLast
  <2> QED
    BY <1>4, <2>1, <2>2, <2>3 DEF Within
<1>5. CASE kind = "malformed"
  <2>1. CASE At(<<feature, half, Blank>>, "", NoData)
    <3>1. Within(kind, e, <<half, Blank>>, Seen("feature", NoData))
      BY <1>0, <1>5 DEF Within
    <3> QED
      BY <2>1, <3>1, NameOf3
  <2>2. CASE At(<<half, Blank>>, "feature", NoData)
    <3>1. Within(kind, e, <<Blank>>, Seen("feature", Append(NoData, <<e, 1, 2>>)))
      BY <1>0, <1>5 DEF Within
    <3> QED
      BY <2>2, <3>1, PartOf2
  <2>3. CASE At(<<Blank>>, "feature", <<<<e, 1, 2>>>>)
    <3> DEFINE d == <<<<e, 1, 2>>>>
    <3>1. ~Unmarshals(d)
      BY PartsUnmarshal DEF NoData
    <3>2. lines = <<Blank>> /\ seen = Seen("feature", d)
      BY <2>3
    <3> HIDE DEF d
    <3> QED
      BY <1>5, <3>1, <3>2, BlankLast
  <2> QED
    BY <1>5, <2>1, <2>2, <2>3 DEF Within
<1>6. CASE kind = "empty"
  <2>1. CASE At(<<feature, Blank>>, "", NoData)
    <3>1. Within(kind, e, <<Blank>>, Seen("feature", NoData))
      BY <1>0, <1>6 DEF Within
    <3> QED
      BY <2>1, <3>1, NameOf2
  <2>2. CASE At(<<Blank>>, "feature", NoData)
    BY <1>6, <2>2, BlankLast
  <2> QED
    BY <1>6, <2>1, <2>2 DEF Within
<1>7. CASE kind = "keepalive"
  <2>1. CASE At(<<Comment>>, "", NoData)
    <3>1. Head(lines) = Comment /\ Tail(lines) = <<>> /\ seen = NewDecoder
      BY <2>1, HeadTail1 DEF NewDecoder, Seen, NoData
    <3>2. Push(seen, Comment) = seen /\ ~Delivers(seen, Comment)
      BY <2>1, ReadEnd
    <3> QED
      BY <1>7, <3>1, <3>2 DEF ReadsOn
  <2> QED
    BY <1>7, <2>1 DEF Within
<1> QED
  BY <1>1, <1>2, <1>3, <1>4, <1>5, <1>6, <1>7 DEF Within

\* A frame begins at one of its points, with a new decoder.
LEMMA FrameStarts ==
  ASSUME NEW e, NEW kind \in Kinds
  PROVE  Within(kind, e, Frames(e)[kind], NewDecoder) /\ Frames(e)[kind] # <<>>
<1>1. NewDecoder = Seen("", NoData)
  BY DEF NewDecoder, Seen, NoData
<1>2. /\ Frames(e)["whole"] = <<EventLine("feature"), DataLine(e, 1, 1), Blank>>
      /\ Frames(e)["split"] = <<DataLine(e, 1, 2), EventLine("feature"), DataLine(e, 2, 2), Blank>>
      /\ Frames(e)["unnamed"] = <<DataLine(e, 1, 1), Blank>>
      /\ Frames(e)["other"] = <<EventLine("other"), DataLine(e, 1, 1), Blank>>
      /\ Frames(e)["malformed"] = <<EventLine("feature"), DataLine(e, 1, 2), Blank>>
      /\ Frames(e)["empty"] = <<EventLine("feature"), Blank>>
      /\ Frames(e)["keepalive"] = <<Comment>>
  BY DEF Frames
<1>3. Within(kind, e, Frames(e)[kind], NewDecoder)
  BY <1>1, <1>2, KindNames DEF Within
<1>4. Frames(e)[kind] # <<>>
  <2>1. CASE kind \in {"whole", "other", "malformed"}
    BY <1>2, <2>1, HeadTail3
  <2>2. CASE kind \in {"unnamed", "empty"}
    BY <1>2, <2>2, HeadTail2
  <2>3. CASE kind = "split"
    <3>1. \A a, b, c, d : <<a, b, c, d>> # <<>>
      BY HeadTail4
    <3> QED
      BY <1>2, <2>3, <3>1
  <2>4. CASE kind = "keepalive"
    BY <1>2, <2>4, HeadTail1
  <2> QED
    BY <2>1, <2>2, <2>3, <2>4, KindNames
<1> QED
  BY <1>3, <1>4

\* The indices of no, one and two parts.
LEMMA PartDomains ==
  ASSUME NEW a, NEW b
  PROVE  DOMAIN NoData = {} /\ DOMAIN <<a>> = {1} /\ DOMAIN <<a, b>> = {1, 2}
<1>1. NoData \in Seq({a, b}) /\ Len(NoData) = 0
  BY EmptySeq DEF NoData
<1>2. <<a>> \in Seq({a, b}) /\ Len(<<a>>) = 1 /\ <<a, b>> \in Seq({a, b}) /\ Len(<<a, b>>) = 2
  OBVIOUS
<1>3. \A s \in Seq({a, b}) : DOMAIN s = 1..Len(s)
  BY LenProperties
<1>4. 1..0 = {} /\ 1..1 = {1} /\ 1..2 = {1, 2}
  OBVIOUS
<1>5. DOMAIN NoData = {}
  BY <1>1, <1>3, <1>4
<1>6. DOMAIN <<a>> = 1..1 /\ DOMAIN <<a, b>> = 1..2
  <2> DEFINE s == <<a>>
             t == <<a, b>>
  <2>1. s \in Seq({a, b}) /\ Len(s) = 1 /\ t \in Seq({a, b}) /\ Len(t) = 2
    BY <1>2
  <2> HIDE DEF s, t
  <2>2. DOMAIN s = 1..1 /\ DOMAIN t = 1..2
    BY <1>3, <2>1
  <2> QED
    BY <2>2 DEF s, t
<1> QED
  BY <1>4, <1>5, <1>6

\* A decoder that has a known name and parts of the event e only.
PartsOf(e, seen) ==
  /\ seen.event \in {"", "feature", "other"}
  /\ \A i \in DOMAIN seen.data : seen.data[i][1] = e

\* So the decoder has a known name, and parts of that frame only.
LEMMA WithinTypes ==
  ASSUME NEW e, NEW kind, NEW lines, NEW seen, Within(kind, e, lines, seen)
  PROVE  PartsOf(e, seen)
<1>1. PICK n \in {"", "feature", "other"},
           d \in {NoData, <<<<e, 1, 1>>>>, <<<<e, 1, 2>>>>, <<<<e, 1, 2>>, <<e, 2, 2>>>>} :
             seen = Seen(n, d)
  BY DEF Within
<1>2. seen.event = n /\ seen.data = d
  BY <1>1 DEF Seen
<1>3. \A i \in DOMAIN d : d[i][1] = e
  <2>1. CASE d = NoData
    BY <2>1, PartDomains
  <2>2. CASE d = <<<<e, 1, 1>>>>
    <3>1. DOMAIN d = {1} /\ d[1][1] = e
      BY <2>2, PartDomains
    <3> QED
      BY <3>1
  <2>3. CASE d = <<<<e, 1, 2>>>>
    <3>1. DOMAIN d = {1} /\ d[1][1] = e
      BY <2>3, PartDomains
    <3> QED
      BY <3>1
  <2>4. CASE d = <<<<e, 1, 2>>, <<e, 2, 2>>>>
    <3>1. DOMAIN d = {1, 2} /\ d[1][1] = e /\ d[2][1] = e
      BY <2>4, PartDomains
    <3> QED
      BY <3>1
  <2> QED
    BY <1>1, <2>1, <2>2, <2>3, <2>4
<1> QED
  BY <1>1, <1>2, <1>3 DEF PartsOf

\* A line that is read keeps the decoder with its frame, and the store gets the
\* frame's event when the frame gets through.
LEMMA ReadLineStep ==
  ASSUME Decoding, LatestIsDelivered, ReadLine
  PROVE  /\ Decoding' /\ LatestIsDelivered'
         /\ latest' = latest \/ latest' = Record(latest, frame.event)
         /\ frame.event \in Event
<1> DEFINE e == frame.event
           line == Head(wire)
<1>1. /\ st = "streaming" /\ st' = st /\ wire # <<>> /\ wire' = Tail(wire) /\ dec' = Push(dec, line)
      /\ latest' = IF Delivers(dec, line) THEN Record(latest, dec.data[1][1]) ELSE latest
      /\ due' = IF Tail(wire) = <<>> /\ frame.kind \in {"whole", "split"} THEN Record(due, e) ELSE due
      /\ frame' = IF Tail(wire) = <<>> THEN NoFrame ELSE frame
  BY DEF ReadLine, Delivers
<1>2. frame.kind \in Kinds /\ e \in Event /\ ReadsOn(frame.kind, e, wire, dec)
  BY <1>1, ReadPoint DEF Decoding
<1>3. latest' = IF Tail(wire) = <<>> /\ frame.kind \in {"whole", "split"} THEN Record(latest, e) ELSE latest
  BY <1>1, <1>2 DEF ReadsOn
<1>4. LatestIsDelivered'
  BY <1>1, <1>3 DEF LatestIsDelivered
<1>5. Decoding'
  <2>1. CASE Tail(wire) = <<>>
    <3>1. wire' = <<>> /\ frame' = NoFrame /\ dec' = NewDecoder
      BY <1>1, <1>2, <2>1 DEF ReadsOn
    <3> QED
      BY <3>1 DEF Decoding
  <2>2. CASE Tail(wire) # <<>>
    <3>1. Within(frame.kind, e, wire', dec')
      BY <1>1, <1>2, <2>2 DEF ReadsOn
    <3>2. frame' = frame /\ wire' # <<>> /\ st' = "streaming"
      BY <1>1, <2>2
    <3> QED
      BY <1>2, <3>1, <3>2 DEF Decoding
  <2> QED
    BY <2>1, <2>2
<1> QED
  BY <1>2, <1>3, <1>4, <1>5

\* Connections begin with a new decoder and end without lines to come.
LEMMA DecodingStep ==
  ASSUME TypeOK, Decoding, LatestIsDelivered, [Next]_feedVars
  PROVE  Decoding' /\ LatestIsDelivered'
<1>1. CASE ReadLine
  BY <1>1, ReadLineStep
<1>2. CASE SendFrame
  <2>1. PICK f \in Features, kind \in Kinds :
          LET e == [feature |-> f, version |-> sent + 1]
          IN  frame' = [kind |-> kind, event |-> e] /\ wire' = Frames(e)[kind]
    BY <1>2 DEF SendFrame
  <2> DEFINE e == [feature |-> f, version |-> sent + 1]
  <2>2. /\ st = "streaming" /\ wire = <<>> /\ dec' = dec /\ st' = st /\ dec = NewDecoder
        /\ UNCHANGED <<latest, due>>
    BY <1>2 DEF SendFrame, Decoding
  <2> HIDE DEF e
  <2>3. frame'.kind = kind /\ frame'.event = e /\ wire' = Frames(e)[kind]
    BY <2>1 DEF e
  <2>4. Within(kind, e, wire', dec') /\ wire' # <<>>
    BY <2>2, <2>3, FrameStarts
  <2>5. e \in Event
    <3>1. sent \in 0..MaxEvents
      BY DEF TypeOK
    <3>2. sent < MaxEvents
      BY <1>2 DEF SendFrame
    <3>3. sent + 1 \in 1..MaxEvents
      BY <3>1, <3>2, FeedAssumption
    <3> QED
      BY <3>3 DEF Event, e
  <2> QED
    BY <2>2, <2>3, <2>4, <2>5 DEF Decoding, LatestIsDelivered
<1>3. CASE Connect \/ CheckContext
  BY <1>3 DEF Connect, CheckContext, DecoderOf, RunFrame, Decoding, LatestIsDelivered
<1>4. CASE AttemptBreaks \/ CtxEndsAttempt
  BY <1>4 DEF AttemptBreaks, CtxEndsAttempt, AttemptEnds, Disconnected, RunFrame, Decoding,
     LatestIsDelivered
<1>5. CASE BackoffEnds \/ BackoffCancelled \/ Lasts \/ Cancel \/ Quiet \/ UNCHANGED feedVars
  BY <1>5 DEF BackoffEnds, BackoffCancelled, Lasts, Cancel, Quiet, feedVars, RunFrame, Decoding,
     LatestIsDelivered
<1> QED
  BY <1>1, <1>2, <1>3, <1>4, <1>5 DEF Next

\* Everything of the feed keeps its type; the decoder, because of where it is.
LEMMA FeedTypeStep ==
  ASSUME TypeOK, Backoff, Decoding, LatestIsDelivered, [Next]_feedVars
  PROVE  TypeOK'
<1>1. Backoff' /\ Decoding' /\ LatestIsDelivered'
  BY BackoffStep, DecodingStep
<1>2. /\ streak' \in 0..MaxStreak /\ retry' \in BaseDelay..MaxDelay /\ delay' \in 0..MaxDelay
  <2>1. streak' \in 0..MaxStreak /\ retry' = Nominal(streak') /\ delay' \in 0..MaxDelay
    BY <1>1 DEF Backoff, Nominal
  <2> QED
    BY <2>1, NominalDelays, DelayTypes
<1>3. st' \in {"check", "connecting", "streaming", "backoff", "stopped"}
  BY DEF TypeOK, Next, CheckContext, Connect, ReadLine, AttemptBreaks, CtxEndsAttempt, AttemptEnds,
     BackoffEnds, BackoffCancelled, SendFrame, Lasts, Cancel, Quiet, feedVars
<1>4. cancelled' \in BOOLEAN
  BY DEF TypeOK, Next, CheckContext, Connect, ReadLine, AttemptBreaks, CtxEndsAttempt, AttemptEnds,
     BackoffEnds, BackoffCancelled, SendFrame, Lasts, Cancel, Quiet, feedVars, RunFrame
<1>5. long' \in BOOLEAN
  <2>1. CASE CheckContext \/ Lasts
    <3>1. long' = TRUE \/ long' = FALSE
      BY <2>1 DEF CheckContext, Lasts
    <3> QED
      BY <3>1
  <2>2. CASE ~(CheckContext \/ Lasts)
    <3>1. long' = long
      BY <2>2 DEF Next, Connect, ReadLine, AttemptBreaks, CtxEndsAttempt, AttemptEnds, BackoffEnds,
         BackoffCancelled, SendFrame, Cancel, Quiet, feedVars
    <3> QED
      BY <3>1 DEF TypeOK
  <2> QED
    BY <2>1, <2>2
<1>6. sent' \in 0..MaxEvents
  <2>1. sent \in 0..MaxEvents
    BY DEF TypeOK
  <2>2. CASE SendFrame
    <3>1. sent < MaxEvents /\ sent' = sent + 1
      BY <2>2 DEF SendFrame
    <3> QED
      BY <2>1, <3>1, FeedAssumption
  <2>3. CASE ~SendFrame
    <3>1. sent' = sent
      BY <2>3 DEF Next, CheckContext, Connect, ReadLine, AttemptBreaks, CtxEndsAttempt, AttemptEnds,
         BackoffEnds, BackoffCancelled, Lasts, Cancel, Quiet, feedVars, RunFrame
    <3> QED
      BY <2>1, <3>1
  <2> QED
    BY <2>2, <2>3
<1>7. latest' \in [Features -> 0..MaxEvents] /\ due' \in [Features -> 0..MaxEvents]
  <2>1. CASE ReadLine
    <3>1. latest' = latest \/ latest' = Record(latest, frame.event)
      BY <2>1, ReadLineStep
    <3>2. frame.event.feature \in Features /\ frame.event.version \in 0..MaxEvents
      BY <2>1, ReadLineStep, DelayTypes DEF Event
    <3>3. latest' \in [Features -> 0..MaxEvents]
      BY <3>1, <3>2 DEF TypeOK, Record
    <3> QED
      BY <1>1, <3>3 DEF LatestIsDelivered
  <2>2. CASE ~ReadLine
    <3>1. UNCHANGED <<latest, due>>
      BY <2>2 DEF Next, CheckContext, Connect, AttemptBreaks, CtxEndsAttempt, AttemptEnds, BackoffEnds,
         BackoffCancelled, SendFrame, Lasts, Cancel, Quiet, feedVars, RunFrame
    <3> QED
      BY <3>1 DEF TypeOK
  <2> QED
    BY <2>1, <2>2
<1>8. frame' = NoFrame \/ (frame'.kind \in Kinds /\ frame'.event \in Event)
  BY <1>1 DEF Decoding
<1>9. dec'.event \in {"", "feature", "other"} /\ \A i \in DOMAIN dec'.data : dec'.data[i][1] \in Event
  <2>1. CASE wire' # <<>>
    <3>1. frame'.event \in Event /\ Within(frame'.kind, frame'.event, wire', dec')
      BY <1>1, <2>1 DEF Decoding
    <3>2. PartsOf(frame'.event, dec')
      BY <3>1, WithinTypes
    <3> QED
      BY <3>1, <3>2 DEF PartsOf
  <2>2. CASE wire' = <<>> /\ st' = "streaming"
    <3>1. dec' = Seen("", NoData)
      BY <1>1, <2>2 DEF Decoding, NewDecoder, Seen, NoData
    <3>2. dec'.event = "" /\ dec'.data = NoData
      BY <3>1 DEF Seen
    <3> QED
      BY <3>2, PartDomains
  <2>3. CASE st' # "streaming"
    <3>1. dec' = dec
      BY <2>3 DEF Next, CheckContext, Connect, ReadLine, AttemptBreaks, CtxEndsAttempt, AttemptEnds,
         BackoffEnds, BackoffCancelled, SendFrame, Lasts, Cancel, Quiet, feedVars
    <3> QED
      BY <3>1 DEF TypeOK
  <2> QED
    BY <2>1, <2>2, <2>3
<1> QED
  BY <1>2, <1>3, <1>4, <1>5, <1>6, <1>7, <1>8, <1>9 DEF TypeOK

\* The inductive invariant of the feed.
FeedInv == TypeOK /\ Backoff /\ Decoding /\ LatestIsDelivered

\* The invariant of the feed holds at first.
LEMMA FeedInit == Init => FeedInv
<1> SUFFICES ASSUME Init PROVE FeedInv
  OBVIOUS
<1>1. Backoff
  BY BackoffInit
<1>2. Decoding /\ LatestIsDelivered
  BY DEF Init, Decoding, LatestIsDelivered
<1>3. dec.event = "" /\ dec.data = NoData
  BY DEF Init, NewDecoder, NoData
<1>4. cancelled \in BOOLEAN /\ long \in BOOLEAN
  BY DEF Init
<1>5. /\ retry \in BaseDelay..MaxDelay /\ delay \in 0..MaxDelay
      /\ sent \in 0..MaxEvents /\ streak \in 0..MaxStreak
  BY FeedAssumption DEF Init
<1>6. dec.event \in {"", "feature", "other"} /\ \A i \in DOMAIN dec.data : dec.data[i][1] \in Event
  BY <1>3, PartDomains
<1>7. latest \in [Features -> 0..MaxEvents] /\ due \in [Features -> 0..MaxEvents]
  <2>1. 0 \in 0..MaxEvents
    BY FeedAssumption
  <2> QED
    BY <2>1 DEF Init
<1>8. st \in {"check", "connecting", "streaming", "backoff", "stopped"} /\ frame = NoFrame
  BY DEF Init
<1>9. TypeOK
  BY <1>4, <1>5, <1>6, <1>7, <1>8 DEF TypeOK
<1> QED
  BY <1>1, <1>2, <1>9 DEF FeedInv

\* And every step keeps it.
LEMMA FeedStep == FeedInv /\ [Next]_feedVars => FeedInv'
  BY BackoffStep, DecodingStep, FeedTypeStep DEF FeedInv

\* Every variable of the feature feed keeps its type.
THEOREM FeedTypeCorrect == FeedSpec => []TypeOK
<1>1. FeedInv => TypeOK
  BY DEF FeedInv
<1> QED
  BY <1>1, FeedInit, FeedStep, PTL DEF FeedSpec

\* The latest value of a feature is that of the last well-formed feature frame
\* that one connection delivered to its blank line, wherever connections break.
THEOREM StoreHasWhatWasDelivered == FeedSpec => []LatestIsDelivered
<1>1. FeedInv => LatestIsDelivered
  BY DEF FeedInv
<1> QED
  BY <1>1, FeedInit, FeedStep, PTL DEF FeedSpec
=============================================================================
