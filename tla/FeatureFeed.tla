---------------------------- MODULE FeatureFeed ----------------------------
(***************************************************************************)
(* The client of Muninn's feature stream (internal/feed/sse.go): the         *)
(* reconnect loop with its backoff, the line decoder, and the store of the   *)
(* latest value per feature.                                                 *)
(*                                                                          *)
(* The server (external) sends frames line by line and the connection may    *)
(* break after any line.  A line is [field, name, part]; the data of an      *)
(* event comes in one or more parts <<event, i, n>>, part i of n, and is     *)
(* well-formed JSON when all parts of one event are there in order.          *)
(* Durations are numbers without a clock: a wait ends in one step, and an    *)
(* attempt may at any moment become older than the stable window.            *)
(***************************************************************************)
EXTENDS Integers, Sequences

CONSTANTS
  Features,
  MaxEvents,            \* bound on the frames the server sends
  BaseDelay, MaxDelay,  \* Config, or the defaults
  MaxStreak             \* bound on the counted attempts

\* Powers of two, for the closed form of the backoff.
TwoTo[n \in 0..MaxStreak] == IF n = 0 THEN 1 ELSE 2 * TwoTo[n - 1]

ASSUME FeedAssumption ==
  /\ MaxEvents \in Nat
  /\ BaseDelay \in Nat \ {0} /\ MaxDelay \in Nat /\ BaseDelay <= MaxDelay
  /\ MaxStreak \in Nat /\ BaseDelay * TwoTo[MaxStreak] >= MaxDelay

VARIABLES
  st,          \* where Run is
  cancelled,   \* ctx
  long,        \* this attempt has lasted longer than stableReset
  retry,       \* retryDelay
  delay,       \* the wait in progress
  dec,         \* sseDecoder: [event, data]
  latest,      \* LatestStore.latest: per feature the version, 0 for none
  wire, frame, \* external: lines still to come of a frame, and which one it is
  sent,        \* external: frames sent so far, the version of the next event
  \* history, for the properties only
  streak,      \* attempts since the last one that lasted
  due          \* per feature the version of the last frame that got through

feedVars == <<st, cancelled, long, retry, delay, dec, latest, wire, frame, sent,
              streak, due>>

Event == [feature : Features, version : 1..MaxEvents]
NoPart == <<>>
Line(field, name, part) == [field |-> field, name |-> name, part |-> part]
Blank == Line("", "", NoPart)
Comment == Line(":", "", NoPart)
EventLine(name) == Line("event", name, NoPart)
DataLine(e, i, n) == Line("data", "", <<e, i, n>>)

\* The frames a server may send about an event, as sequences of lines.
Frames(e) ==
  [whole     |-> <<EventLine("feature"), DataLine(e, 1, 1), Blank>>,
   split     |-> <<DataLine(e, 1, 2), EventLine("feature"), DataLine(e, 2, 2), Blank>>,
   unnamed   |-> <<DataLine(e, 1, 1), Blank>>,
   other     |-> <<EventLine("other"), DataLine(e, 1, 1), Blank>>,
   malformed |-> <<EventLine("feature"), DataLine(e, 1, 2), Blank>>,
   empty     |-> <<EventLine("feature"), Blank>>,
   keepalive |-> <<Comment>>]
Kinds == DOMAIN Frames([feature |-> "", version |-> 0])
NoFrame == [kind |-> "none", event |-> [feature |-> "", version |-> 0]]

NewDecoder == [event |-> "", data |-> <<>>]

TypeOK ==
  /\ st \in {"check", "connecting", "streaming", "backoff", "stopped"}
  /\ cancelled \in BOOLEAN /\ long \in BOOLEAN
  /\ retry \in BaseDelay..MaxDelay /\ delay \in 0..MaxDelay
  /\ dec.event \in {"", "feature", "other"}
  /\ \A i \in DOMAIN dec.data : dec.data[i][1] \in Event
  /\ latest \in [Features -> 0..MaxEvents] /\ due \in [Features -> 0..MaxEvents]
  /\ frame = NoFrame \/ (frame.kind \in Kinds /\ frame.event \in Event)
  /\ sent \in 0..MaxEvents /\ streak \in 0..MaxStreak

Init ==
  /\ st = "check" /\ cancelled = FALSE /\ long = FALSE
  /\ retry = BaseDelay /\ delay = 0
  /\ dec = NewDecoder
  /\ latest = [f \in Features |-> 0] /\ due = [f \in Features |-> 0]
  /\ wire = <<>> /\ frame = NoFrame /\ sent = 0 /\ streak = 0

-----------------------------------------------------------------------------
(* The decoder.                                                             *)

\* A blank line completes a frame if there is data; the name defaults.
Completes(d, line) == line.field = "" /\ d.data # <<>>
FrameName(d) == IF d.event = "" THEN "message" ELSE d.event

\* The decoder after a line: a blank line resets it, comments are ignored.
Push(d, line) ==
  IF line.field = "" THEN NewDecoder
  ELSE IF line.field = "event" THEN [d EXCEPT !.event = line.name]
  ELSE IF line.field = "data" THEN [d EXCEPT !.data = Append(@, line.part)]
  ELSE d

\* json.Unmarshal of the joined data.
Unmarshals(data) ==
  /\ Len(data) = data[1][3]
  /\ \A i \in DOMAIN data : data[i] = <<data[1][1], i, data[1][3]>>

\* LatestStore.Record.
Record(store, e) == [store EXCEPT ![e.feature] = e.version]

\* streamOnce, one line: push, and hand a complete feature event to the store.
ReadLine ==
  /\ st = "streaming" /\ wire # <<>>
  /\ wire' = Tail(wire)
  /\ dec' = Push(dec, Head(wire))
  /\ IF /\ Completes(dec, Head(wire))
        /\ FrameName(dec) = "feature"
        /\ Unmarshals(dec.data)
       THEN latest' = Record(latest, dec.data[1][1])
       ELSE UNCHANGED latest
  /\ due' = IF Tail(wire) = <<>> /\ frame.kind \in {"whole", "split"}
              THEN Record(due, frame.event) ELSE due
  /\ frame' = IF Tail(wire) = <<>> THEN NoFrame ELSE frame
  /\ UNCHANGED <<st, cancelled, long, retry, delay, sent, streak>>

-----------------------------------------------------------------------------
(* The reconnect loop.                                                      *)

RunFrame == UNCHANGED <<cancelled, latest, due, sent>>
Disconnected == wire' = <<>> /\ frame' = NoFrame

\* The top of the loop.
CheckContext ==
  /\ st = "check"
  /\ st' = IF cancelled THEN "stopped" ELSE "connecting"
  /\ long' = FALSE
  /\ UNCHANGED <<retry, delay, dec, wire, frame, streak>> /\ RunFrame

\* Mutant: the decoder outlives its connection.
DecoderOf_Kept == dec
\* Every connection has a decoder of its own.
DecoderOf == NewDecoder

\* The server answers with a status below 300.
Connect ==
  /\ st = "connecting" /\ ~cancelled
  /\ st' = "streaming" /\ dec' = DecoderOf
  /\ UNCHANGED <<long, retry, delay, wire, frame, streak>> /\ RunFrame

\* Mutant: the wait is computed before a lasting attempt resets the backoff.
NextRetry_TooLate == retry
\* A lasting attempt resets the backoff.
NextRetry == IF long THEN BaseDelay ELSE retry

\* The wait, with up to a tenth of jitter either way, and never over the cap.
Waits(r) ==
  {IF d > MaxDelay THEN MaxDelay ELSE d :
     d \in {n \in 0..(2 * r) : 9 * r <= 10 * n /\ 10 * n <= 11 * r}}

\* streamOnce returns: the request fails, the status is refused, or the stream
\* ends or breaks, be it because the context is cancelled.
AttemptEnds ==
  /\ st \in {"connecting", "streaming"}
  /\ IF cancelled
       THEN st' = "stopped" /\ UNCHANGED <<retry, delay, streak>>
       ELSE /\ st' = "backoff"
            /\ retry' = NextRetry /\ delay' \in Waits(NextRetry)
            /\ streak' = IF long THEN 0 ELSE streak
  /\ Disconnected
  /\ UNCHANGED <<long, dec>> /\ RunFrame

\* The server refuses, fails or closes the connection.
AttemptBreaks == ~cancelled /\ AttemptEnds
\* Mutant: the request is not bound to the context.
CtxEndsAttempt_Never == FALSE
\* NewRequestWithContext: a cancelled context ends the attempt.
CtxEndsAttempt == cancelled /\ AttemptEnds

\* Mutant: the doubled delay is not capped.
Doubled_Uncapped(r) == 2 * r
Doubled(r) == IF 2 * r > MaxDelay THEN MaxDelay ELSE 2 * r

BackoffEnds ==
  /\ st = "backoff"
  /\ st' = "check" /\ delay' = 0
  /\ retry' = Doubled(retry)
  /\ streak' = IF streak < MaxStreak THEN streak + 1 ELSE streak
  /\ UNCHANGED <<long, dec, wire, frame>> /\ RunFrame

BackoffCancelled ==
  /\ st = "backoff" /\ cancelled
  /\ st' = "stopped" /\ delay' = 0
  /\ UNCHANGED <<long, retry, dec, wire, frame, streak>> /\ RunFrame

-----------------------------------------------------------------------------
(* The environment.                                                         *)

\* The server starts a frame.
SendFrame ==
  /\ st = "streaming" /\ wire = <<>> /\ sent < MaxEvents
  /\ sent' = sent + 1
  /\ \E f \in Features, kind \in Kinds :
       LET e == [feature |-> f, version |-> sent + 1]
       IN  frame' = [kind |-> kind, event |-> e] /\ wire' = Frames(e)[kind]
  /\ UNCHANGED <<st, cancelled, long, retry, delay, dec, latest, streak, due>>

\* The attempt has lasted for stableReset, connected or not.
Lasts ==
  /\ st \in {"connecting", "streaming"} /\ ~long
  /\ long' = TRUE
  /\ UNCHANGED <<st, cancelled, retry, delay, dec, latest, wire, frame, sent, streak, due>>

Cancel ==
  /\ ~cancelled /\ cancelled' = TRUE
  /\ UNCHANGED <<st, long, retry, delay, dec, latest, wire, frame, sent, streak, due>>

\* Run has returned, or the server is silent.
Quiet == st \in {"connecting", "streaming", "stopped"} /\ UNCHANGED feedVars

Next ==
  \/ CheckContext \/ Connect \/ ReadLine \/ AttemptBreaks \/ CtxEndsAttempt
  \/ BackoffEnds \/ BackoffCancelled \/ SendFrame \/ Lasts \/ Cancel \/ Quiet

\* Fairness: Run's goroutine runs, its timer fires, and a cancelled context ends
\* a request.  Nothing is assumed of the server: an attempt may last for ever.
FeedSpec ==
  /\ Init /\ [][Next]_feedVars
  /\ WF_feedVars(CheckContext \/ ReadLine \/ BackoffEnds \/ BackoffCancelled)
  /\ WF_feedVars(CtxEndsAttempt)

-----------------------------------------------------------------------------
(* Properties.                                                              *)

\* The latest value of a feature is that of the last well-formed feature frame
\* that one connection delivered to its blank line: lines of a frame that broke
\* off, of nameless, foreign, malformed or empty frames never get into another
\* frame, nor take one away.
LatestIsDelivered == latest = due

\* Every wait is within a tenth of the base delay doubled once per attempt since
\* one that lasted, and never over the cap: a closed form for what Run computes
\* step by step.
BackoffIsExponential ==
  st = "backoff" =>
    LET full == BaseDelay * TwoTo[streak]
        nominal == IF full > MaxDelay THEN MaxDelay ELSE full
    IN  delay <= MaxDelay /\ 9 * nominal <= 10 * delay /\ 10 * delay <= 11 * nominal

\* Run returns once the context is cancelled, also from a silent stream, from a
\* request no server answers, and from a long backoff.
StopsOnCancel == cancelled ~> (st = "stopped")
=============================================================================
