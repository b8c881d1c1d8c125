-------------------------- MODULE ConversationProofs --------------------------
(***************************************************************************)
(* What a turn of conversation owes its client, the histories and the      *)
(* background, for any number of messages, sessions, tools, retries and    *)
(* restarts: one attempt speaks, tools run once, work rests on a complete  *)
(* history and is done once, a notice is given once.                       *)
(***************************************************************************)
EXTENDS Conversation, FiniteSetTheorems, SequenceTheorems, TLAPS

(***************************************************************************)
(* The inductive invariant: what a turn knows of itself (Sound), what the  *)
(* histories hold of it (Told), where its background work is (Placed) and  *)
(* who was given which notice (Given).                                     *)
(***************************************************************************)

\* Where the answer has not been asked for, is on its way, or has been given up or given.
Before == {"idle", "recall"}
Answering == {"routing", "opening", "streaming", "sending", "tools", "spacing", "wording",
              "saying", "excusing"}
After == {"over", "dozing", "dead"}
Late == {"excusing", "closing"} \cup After
\* Where something has come from the first stream, or it is over.
Speaking == {"sending", "tools", "spacing", "wording", "saying"}

\* A stream holds the calls of its own attempt, numbered as they came.
InOrder(s) ==
  /\ \A i \in 1..Len(s.calls) : s.calls[i].attempt = s.attempt /\ s.calls[i].n = i
  /\ \A i \in 1..Len(s.held) :
       s.held[i].attempt = s.attempt /\ s.held[i].n = Len(s.calls) + i

\* Nothing has been heard, and no tool has started, while a request may be sent again.
Faithful(r) ==
  /\ InOrder(r.stream)
  /\ r.heard \cup r.buffer \subseteq {r.stream.attempt}
  /\ \/ r.heard \cup r.buffer # {} \/ r.pc \in Speaking
     \/ r.task # "none" /\ r.pc \notin {"idle"} \cup After
     => r.stream.emitted \/ r.stream.over

Executed(r) ==
  /\ r.task \in {"none", "created"} => r.ran = {}
  /\ r.ran \subseteq Range(r.stream.calls)

Whole(r) ==
  LET q == r.request IN
  /\ Cardinality(q.calls) = q.results /\ q.calls \subseteq r.ran
  /\ q.form = "native" => q.signed = Cardinality(q.calls)

\* The settings give the bounds on what a stream holds.
Bounded(t, s) ==
  /\ Asked(s) <= setup.calls[t]
  /\ setup.provider # "openai" => s.held = <<>>

Sound(t, r) == r \in Turn /\ Faithful(r) /\ Executed(r) /\ Whole(r) /\ Bounded(t, r.stream)

Message == {Question(t) : t \in Turns} \cup {Answer(t) : t \in Turns}
Holds(s, m) == \E i \in 1..Len(sessions[s]) : sessions[s][i] = m
Queued(t) == \E i \in 1..Len(queue) : queue[i] = t
Worked(t) == Queued(t) \/ worker.task = t \/ t \in finished

Types ==
  /\ setup \in Setups /\ turn \in [Turns -> Turn]
  /\ signatures \in Seq(Turns \X Nat) /\ Len(signatures) <= MaxSignatures
  /\ pending \subseteq Notices
  /\ sessions \in [Sessions -> Seq(Message)]
  /\ queue \in Seq(Turns) /\ missions \subseteq Turns
  /\ worker \in [task: Turns \cup {NoTurn}, round: 0..MaxRounds]
  /\ restarts \in 0..setup.stops
  /\ finished \subseteq Turns /\ learned \subseteq Turns

Histories ==
  \A s \in Sessions :
    /\ \A i, j \in 1..Len(sessions[s]) : sessions[s][i] = sessions[s][j] => i = j
    /\ \A t \in Turns : \A i \in 1..Len(sessions[s]) :
         sessions[s][i] = Answer(t) => \E j \in 1..(i - 1) : sessions[s][j] = Question(t)

Told(t) ==
  LET r == turn[t] IN
  /\ r.pc \in Before => \A s \in Sessions : ~Holds(s, Question(t))
  /\ r.pc \in Before \cup Answering => \A s \in Sessions : ~Holds(s, Answer(t))
  /\ r.pc \in Answering => Holds(r.session, Question(t))
  /\ \/ r.pc = "closing" /\ r.door # "messaging"
     \/ r.pc = "dozing" \/ Worked(t) \/ t \in missions \cup learned
     => Holds(r.session, Answer(t))

Placed ==
  /\ \A i, j \in 1..Len(queue) : queue[i] = queue[j] => i = j
  /\ \A t \in Turns :
       /\ Worked(t) => turn[t].pc \in After
       /\ Queued(t) => worker.task # t /\ t \notin finished
       /\ worker.task = t => t \notin finished

\* A notice that waits or that a turn was given.
Issued(n) == n \in pending \/ \E t \in Turns : n \in turn[t].carried
Given ==
  /\ \A t \in Turns : \A n \in turn[t].carried :
       n \notin pending /\ \A u \in Turns : n \in turn[u].carried => u = t
  /\ \A t \in Turns :
       /\ Issued([kind |-> "task", of |-> t]) => t \in finished
       /\ Issued([kind |-> "tool", of |-> t]) => turn[t].pc \in Late

Inv ==
  /\ Types
  /\ \A t \in Turns : Sound(t, turn[t])
  /\ Histories
  /\ \A t \in Turns : Told(t)
  /\ Placed
  /\ Given

-----------------------------------------------------------------------------
(* The settings and the operators *)

LEMMA Settings ==
  ASSUME setup \in Setups, NEW t \in Turns
  PROVE  /\ setup.provider \in Providers /\ setup.door[t] \in Doors
         /\ setup.calls[t] \in Nat /\ setup.calls[t] <= MaxCalls
         /\ MaxCalls \in Nat /\ setup.stops \in Nat
  BY ConversationAssumption, StreamsAssumption DEF Setting

LEMMA Places == \A n \in 1..MaxCalls : n \in 1..(MaxRetries * MaxCalls)
  <1>1. MaxRetries \in Nat /\ MaxRetries >= 1 /\ MaxCalls \in Nat
    BY StreamsAssumption
  <1>2. (MaxRetries - 1) * MaxCalls >= 0
    BY <1>1
  <1>3. MaxRetries * MaxCalls = (MaxRetries - 1) * MaxCalls + MaxCalls
    BY <1>1
  <1> QED
    BY <1>1, <1>2, <1>3

\* A sequence has no more values than places.
LEMMA RangeSize ==
  ASSUME NEW S, NEW q \in Seq(S)
  PROVE  /\ IsFiniteSet(Range(q)) /\ Cardinality(Range(q)) \in Nat
         /\ Cardinality(Range(q)) <= Len(q)
  <1>1. IsFiniteSet(1..Len(q)) /\ Cardinality(1..Len(q)) = Len(q)
    <2>1. Len(q) \in Nat /\ 1 \in Int /\ Len(q) \in Int
      OBVIOUS
    <2>2. /\ IsFiniteSet(1..Len(q))
          /\ Cardinality(1..Len(q)) = IF 1 > Len(q) THEN 0 ELSE Len(q) - 1 + 1
      BY <2>1, FS_Interval, Zenon
    <2> QED
      BY <2>1, <2>2
  <1>2. q \in Surjection(1..Len(q), Range(q))
    BY DEF Surjection, Range
  <1> QED
    BY <1>1, <1>2, FS_Surjection, FS_CardinalityType

\* A stream that has just been opened, for the first time or again.
LEMMA OpenedForm ==
  ASSUME NEW a \in Attempts
  PROVE  LET s == [Opened EXCEPT !.attempt = a] IN
         /\ s \in Stream /\ s.attempt = a /\ ~s.emitted /\ ~s.over
         /\ s.calls = <<>> /\ s.held = <<>> /\ Asked(s) = 0
  <1> DEFINE s == [Opened EXCEPT !.attempt = a]
  <1>1. 1 \in Attempts
    BY StreamsAssumption DEF Attempts
  <1>2. Opened \in Stream
    BY <1>1 DEF Opened, Stream
  <1>3. s \in Stream
    BY <1>2 DEF Stream
  <1>4. /\ s.attempt = a /\ ~s.emitted /\ ~s.over
        /\ s.calls = <<>> /\ s.held = <<>>
    BY DEF Opened
  <1> HIDE DEF s
  <1>5. Asked(s) = 0
    BY <1>4 DEF Asked
  <1> QED
    BY <1>3, <1>4, <1>5 DEF s

LEMMA FreshSound ==
  ASSUME setup \in Setups, NEW t \in Turns
  PROVE  Sound(t, Fresh) /\ Fresh.pc = "idle"
  <1>1. 1 \in Attempts
    BY StreamsAssumption DEF Attempts
  <1>2. Opened \in Stream /\ Opened.calls = <<>> /\ Opened.held = <<>> /\ Asked(Opened) = 0
    BY <1>1 DEF Opened, Stream, Asked
  <1>3. (CHOOSE s \in Sessions : TRUE) \in Sessions
    BY ConversationAssumption
  <1>4. Fresh \in Turn
    BY <1>2, <1>3 DEF Fresh, Turn, Doors, Routes, Ended, NoRequest
  <1>5. IsFiniteSet({}) /\ Cardinality({}) = 0
    BY FS_EmptySet
  <1>6. /\ Fresh.stream = Opened /\ Fresh.task = "none" /\ Fresh.ran = {} /\ Fresh.pc = "idle"
        /\ Fresh.heard = {} /\ Fresh.buffer = {} /\ Fresh.request = NoRequest
    BY DEF Fresh
  <1>7. InOrder(Opened) /\ Bounded(t, Opened)
    BY <1>2, Settings DEF InOrder, Bounded
  <1>8. Faithful(Fresh) /\ Executed(Fresh)
    BY <1>6, <1>7 DEF Faithful, Executed, Speaking
  <1>9. Whole(Fresh)
    BY <1>5, <1>6 DEF Whole, NoRequest
  <1> QED
    BY <1>4, <1>6, <1>7, <1>8, <1>9 DEF Sound

-----------------------------------------------------------------------------
(* A stream *)

\* Stream x goes on from s, in the same attempt.
GoesOnFrom(t, s, x) ==
  /\ x \in Stream /\ InOrder(x) /\ Bounded(t, x)
  /\ x.attempt = s.attempt /\ Range(s.calls) \subseteq Range(x.calls)
  /\ s.emitted \/ s.over => x.emitted \/ x.over

LEMMA RangeGrows ==
  ASSUME NEW S, NEW q \in Seq(S)
  PROVE  /\ \A e \in S : Range(q) \subseteq Range(Append(q, e))
         /\ \A p \in Seq(S) : Range(q) \subseteq Range(q \o p)
  <1>1. ASSUME NEW e \in S PROVE Range(q) \subseteq Range(Append(q, e))
    BY DEF Range
  <1>2. ASSUME NEW p \in Seq(S) PROVE Range(q) \subseteq Range(q \o p)
    BY DEF Range
  <1> QED
    BY <1>1, <1>2

LEMMA EmitsGoesOn ==
  ASSUME NEW t \in Turns, NEW s \in Stream, InOrder(s), Bounded(t, s)
  PROVE  GoesOnFrom(t, s, Emits(s)) /\ Emits(s).emitted
  <1> DEFINE x == Emits(s)
  <1>1. /\ x \in Stream /\ x.emitted /\ x.attempt = s.attempt
        /\ x.calls = s.calls /\ x.held = s.held
    BY DEF Emits, Stream
  <1> HIDE DEF x
  <1> QED
    BY <1>1 DEF GoesOnFrom, InOrder, Bounded, Asked, x

LEMMA CapturesGoesOn ==
  ASSUME setup \in Setups, NEW t \in Turns, NEW s \in Stream, InOrder(s), Bounded(t, s),
         NEW name \in Names, Asked(s) < setup.calls[t]
  PROVE  LET x == Captures(setup.provider, s, name) IN
         GoesOnFrom(t, s, x) /\ x.emitted = s.emitted /\ x.over = s.over
  <1> DEFINE c == [attempt |-> s.attempt, n |-> Asked(s) + 1, name |-> name]
             x == Captures(setup.provider, s, name)
             limit == setup.calls[t]
  <1>1. /\ s.calls \in Seq(Call) /\ s.held \in Seq(Call) /\ s.attempt \in Attempts
        /\ limit \in Nat /\ limit <= MaxCalls /\ MaxCalls \in Nat
    BY Settings DEF Stream
  <1>2. PICK k \in Nat : k = Len(s.calls)
    BY <1>1, LenProperties
  <1>3. PICK h \in Nat : h = Len(s.held)
    BY <1>1, LenProperties
  <1>4. Asked(s) = k + h /\ k + h < limit
    BY <1>2, <1>3 DEF Asked
  <1> HIDE DEF limit
  <1>5. k + h + 1 \in 1..MaxCalls
    BY <1>1, <1>4
  <1>6. c \in Call /\ c.attempt = s.attempt /\ c.n = k + h + 1
    BY <1>1, <1>4, <1>5, Places DEF Call
  <1> HIDE DEF c
  <1>7. /\ Append(s.calls, c) \in Seq(Call) /\ Len(Append(s.calls, c)) = k + 1
        /\ \A i \in 1..k : Append(s.calls, c)[i] = s.calls[i]
        /\ Append(s.calls, c)[k + 1] = c
    BY <1>1, <1>2, <1>6, AppendProperties
  <1>8. /\ Append(s.held, c) \in Seq(Call) /\ Len(Append(s.held, c)) = h + 1
        /\ \A i \in 1..h : Append(s.held, c)[i] = s.held[i]
        /\ Append(s.held, c)[h + 1] = c
    BY <1>1, <1>3, <1>6, AppendProperties
  <1>9. CASE setup.provider = "openai"
    <2>1. x = [s EXCEPT !.held = Append(@, c)]
      BY <1>9 DEF Captures, c
    <2>2. /\ x \in Stream /\ x.attempt = s.attempt /\ x.emitted = s.emitted /\ x.over = s.over
          /\ x.calls = s.calls /\ x.held = Append(s.held, c)
      BY <1>1, <1>8, <2>1 DEF Stream
    <2> HIDE DEF x
    <2>3. InOrder(x)
      <3>1. ASSUME NEW i \in 1..(h + 1)
            PROVE  x.held[i].attempt = x.attempt /\ x.held[i].n = k + i
        <4>1. CASE i = h + 1
          <5>1. x.held[i] = c /\ k + i = k + h + 1
            BY <1>8, <2>2, <4>1
          <5> QED
            BY <1>6, <2>2, <5>1
        <4>2. CASE i \in 1..h
          BY <1>2, <1>3, <1>8, <2>2, <4>2 DEF InOrder
        <4> QED
          BY <4>1, <4>2
      <3>2. \A i \in 1..k : x.calls[i].attempt = x.attempt /\ x.calls[i].n = i
        BY <1>2, <2>2 DEF InOrder
      <3> QED
        BY <1>2, <1>8, <2>2, <3>1, <3>2 DEF InOrder
    <2>4. Bounded(t, x)
      <3>1. k + h + 1 <= limit
        BY <1>1, <1>4
      <3>2. Len(x.calls) = k /\ Len(x.held) = h + 1
        BY <1>2, <1>8, <2>2
      <3>3. Asked(x) = k + h + 1
        BY <3>2 DEF Asked
      <3> QED
        BY <1>9, <3>1, <3>3 DEF Bounded, limit
    <2> QED
      BY <2>2, <2>3, <2>4 DEF GoesOnFrom, x
  <1>10. CASE setup.provider # "openai"
    <2>1. x = [s EXCEPT !.calls = Append(@, c)]
      BY <1>10 DEF Captures, c
    <2>2. /\ x \in Stream /\ x.attempt = s.attempt /\ x.emitted = s.emitted /\ x.over = s.over
          /\ x.calls = Append(s.calls, c) /\ x.held = s.held
      BY <1>1, <1>7, <2>1 DEF Stream
    <2> HIDE DEF x
    <2>3. s.held = <<>> /\ h = 0
      BY <1>3, <1>10 DEF Bounded
    <2>4. InOrder(x)
      <3>1. ASSUME NEW i \in 1..(k + 1)
            PROVE  x.calls[i].attempt = x.attempt /\ x.calls[i].n = i
        <4>1. CASE i = k + 1
          BY <1>6, <1>7, <2>2, <2>3, <4>1
        <4>2. CASE i \in 1..k
          BY <1>2, <1>7, <2>2, <4>2 DEF InOrder
        <4> QED
          BY <4>1, <4>2
      <3> QED
        BY <1>7, <2>2, <2>3, <3>1 DEF InOrder
    <2>5. Bounded(t, x)
      <3>1. k + h + 1 <= limit
        BY <1>1, <1>4
      <3>2. Len(x.calls) = k + 1 /\ Len(x.held) = h
        BY <1>3, <1>7, <2>2
      <3>3. Asked(x) = k + h + 1
        BY <3>2 DEF Asked
      <3> QED
        BY <2>2, <2>3, <3>1, <3>3 DEF Bounded, limit
    <2>6. Range(s.calls) \subseteq Range(x.calls)
      BY <1>1, <1>6, <2>2, RangeGrows
    <2> QED
      BY <2>2, <2>4, <2>5, <2>6 DEF GoesOnFrom, x
  <1> QED
    BY <1>9, <1>10

LEMMA EndsGoesOn ==
  ASSUME setup \in Setups, NEW t \in Turns, NEW s \in Stream, InOrder(s), Bounded(t, s)
  PROVE  GoesOnFrom(t, s, Ends(s)) /\ Ends(s).over
  <1> DEFINE x == Ends(s)
             all == s.calls \o s.held
  <1>1. s.calls \in Seq(Call) /\ s.held \in Seq(Call) /\ s.attempt \in Attempts
    BY DEF Stream
  <1>2. PICK k \in Nat : k = Len(s.calls)
    BY <1>1, LenProperties
  <1>3. PICK h \in Nat : h = Len(s.held)
    BY <1>1, LenProperties
  <1>4. /\ all \in Seq(Call) /\ Len(all) = k + h
        /\ \A i \in 1..(k + h) : all[i] = IF i <= k THEN s.calls[i] ELSE s.held[i - k]
    BY <1>1, <1>2, <1>3, ConcatProperties
  <1> HIDE DEF all
  <1>5. x = [s EXCEPT !.over = TRUE, !.calls = all, !.held = <<>>]
    BY DEF Ends, all
  <1>6. /\ x \in Stream /\ x.attempt = s.attempt /\ x.over
        /\ x.calls = all /\ x.held = <<>> /\ Len(x.held) = 0
    <2>1. <<>> \in Seq(Call) /\ Len(<<>>) = 0
      BY EmptySeq
    <2>2. x \in Stream
      BY <1>1, <1>4, <1>5, <2>1 DEF Stream
    <2> QED
      BY <1>5, <2>1, <2>2 DEF Stream
  <1> HIDE DEF x
  <1>7. InOrder(x)
    <2>1. ASSUME NEW i \in 1..(k + h)
          PROVE  all[i].attempt = s.attempt /\ all[i].n = i
      <3>1. CASE i <= k
        BY <1>2, <1>4, <3>1 DEF InOrder
      <3>2. CASE ~(i <= k)
        <4>1. i - k \in 1..h /\ k + (i - k) = i
          BY <3>2
        <4>2. s.held[i - k].attempt = s.attempt /\ s.held[i - k].n = k + (i - k)
          BY <1>2, <1>3, <4>1 DEF InOrder
        <4> QED
          BY <1>4, <3>2, <4>1, <4>2
      <3> QED
        BY <3>1, <3>2
    <2> QED
      BY <1>4, <1>6, <2>1 DEF InOrder
  <1>8. Asked(x) = Asked(s)
    <2>1. Asked(x) = Len(x.calls) + Len(x.held) /\ Asked(s) = k + h
      BY <1>2, <1>3 DEF Asked
    <2>2. Len(x.calls) = k + h
      BY <1>4, <1>6
    <2> QED
      BY <1>6, <2>1, <2>2
  <1>9. Range(s.calls) \subseteq Range(x.calls)
    BY <1>1, <1>6, RangeGrows DEF all
  <1> QED
    BY <1>6, <1>7, <1>8, <1>9 DEF GoesOnFrom, Bounded, x

LEMMA AgainOpens ==
  ASSUME setup \in Setups, NEW t \in Turns, NEW s \in Stream, Retriable(setup.provider, s)
  PROVE  LET x == Again(s) IN x \in Stream /\ InOrder(x) /\ Bounded(t, x)
  <1>1. s.attempt + 1 \in Attempts
    BY StreamsAssumption DEF Retriable, Stream, Attempts
  <1> DEFINE x == [Opened EXCEPT !.attempt = s.attempt + 1]
  <1>2. x \in Stream /\ x.calls = <<>> /\ x.held = <<>> /\ Asked(x) = 0
    BY <1>1, OpenedForm
  <1>3. Again(s) = x
    BY DEF Again
  <1> HIDE DEF x
  <1> QED
    BY <1>2, <1>3, Settings DEF InOrder, Bounded

-----------------------------------------------------------------------------
(* A turn *)

\* What a turn does to itself without touching its calls.
LEMMA SameStream ==
  ASSUME NEW t \in Turns, NEW r, Sound(t, r), NEW x \in Turn,
         x.stream = r.stream, x.ran = r.ran, x.request = r.request,
         x.heard \cup x.buffer \subseteq {r.stream.attempt},
         x.task \in {"none", "created"} => x.ran = {},
         \/ r.stream.emitted \/ r.stream.over
         \/ /\ x.heard \cup x.buffer = {} /\ x.pc \notin Speaking
            /\ x.task = "none" \/ x.pc \in {"idle"} \cup After
  PROVE  Sound(t, x)
  BY DEF Sound, Faithful, Executed, Whole

\* A turn that ends with no tools under way keeps nothing.
LEMMA DroppedSound ==
  ASSUME setup \in Setups, NEW t \in Turns, NEW r \in Turn, NEW pc \in {"idle"} \cup After,
         r.task \notin {"created", "running"}
  PROVE  LET x == Leave(r, pc) IN
         /\ Sound(t, x) /\ x.pc = pc /\ x.door = r.door /\ x.session = r.session
         /\ x.carried = r.carried
  <1> DEFINE x == [At(r, pc) EXCEPT !.tagged = FALSE, !.stream = Opened, !.buffer = {},
                                    !.heard = {}, !.ran = {}, !.request = NoRequest]
  <1>1. pc \in Awaits \cup Ended
    BY DEF After, Awaits, Ended
  <1>2. Opened \in Stream /\ InOrder(Opened) /\ Bounded(t, Opened)
    BY FreshSound DEF Sound, Fresh, Faithful, Turn
  <1>3. NoRequest \in [form: {"none", "plain", "native", "text"}, calls: SUBSET Call,
                       results: Nat, signed: Nat]
    BY DEF NoRequest
  <1>4. /\ x \in Turn /\ x.pc = pc /\ x.door = r.door /\ x.session = r.session
        /\ x.carried = r.carried
        /\ x.stream = Opened /\ x.ran = {} /\ x.request = NoRequest
        /\ x.heard = {} /\ x.buffer = {} /\ x.task = r.task
    BY <1>1, <1>2, <1>3 DEF At, Turn
  <1>5. Leave(r, pc) = x
    BY DEF Leave
  <1> HIDE DEF x
  <1>6. Cardinality({}) = 0
    BY FS_EmptySet
  <1>7. Sound(t, x)
    BY <1>2, <1>4, <1>6 DEF Sound, Faithful, Executed, Whole, After, NoRequest, Speaking
  <1> QED
    BY <1>4, <1>5, <1>7

\* A turn that ends.
LEMMA LeaveSound ==
  ASSUME setup \in Setups, NEW t \in Turns, NEW r, Sound(t, r), NEW pc \in {"idle"} \cup After
  PROVE  LET x == Leave(r, pc) IN
         /\ Sound(t, x) /\ x.pc = pc /\ x.door = r.door /\ x.session = r.session
         /\ x.carried = r.carried
  <1>1. r \in Turn /\ pc \in Awaits \cup Ended
    BY DEF Sound, After, Awaits, Ended
  <1>2. CASE r.task \in {"created", "running"}
    <2> DEFINE x == At(r, pc)
    <2>1. /\ x \in Turn /\ x.pc = pc /\ x.door = r.door /\ x.session = r.session
          /\ x.carried = r.carried
          /\ x.stream = r.stream /\ x.ran = r.ran /\ x.request = r.request
          /\ x.heard = r.heard /\ x.buffer = r.buffer /\ x.task = r.task
      BY <1>1 DEF At, Turn
    <2>2. Leave(r, pc) = x
      BY <1>2 DEF Leave
    <2> HIDE DEF x
    <2>3. Sound(t, x)
      BY <2>1 DEF Sound, Faithful, Executed, Whole, After, Speaking
    <2> QED
      BY <2>1, <2>2, <2>3
  <1>3. CASE r.task \notin {"created", "running"}
    BY <1>1, <1>3, DroppedSound
  <1> QED
    BY <1>2, <1>3

-----------------------------------------------------------------------------
(* A step of a turn *)

\* Turn t goes on as r does, up to one of the places pcs.
Becomes(t, r, pcs) ==
  /\ turn' = [turn EXCEPT ![t] = turn'[t]]
  /\ Sound(t, turn'[t]) /\ turn'[t].pc \in pcs
  /\ turn'[t].door = r.door /\ turn'[t].session = r.session /\ turn'[t].carried = r.carried

LEMMA StepBecomes ==
  ASSUME turn \in [Turns -> Turn], NEW t \in Turns, NEW r, NEW x, NEW pcs, Step(t, x),
         Sound(t, x), x.pc \in pcs,
         x.door = r.door, x.session = r.session, x.carried = r.carried
  PROVE  Becomes(t, r, pcs)
  BY DEF Step, Becomes

LEMMA AtSound ==
  ASSUME NEW t \in Turns, NEW r, Sound(t, r), r.pc \notin {"idle"} \cup After,
         NEW pc \in Awaits,
         pc \in Speaking => r.stream.emitted \/ r.stream.over
  PROVE  LET x == At(r, pc) IN
         /\ Sound(t, x) /\ x.pc = pc /\ x.stream = r.stream /\ x.buffer = r.buffer
         /\ x.heard = r.heard /\ x.task = r.task /\ x.ran = r.ran /\ x.door = r.door
         /\ x.session = r.session /\ x.carried = r.carried
  <1> DEFINE x == At(r, pc)
  <1>1. r \in Turn
    BY DEF Sound
  <1>2. /\ x \in Turn /\ x.pc = pc /\ x.stream = r.stream /\ x.buffer = r.buffer
        /\ x.heard = r.heard /\ x.task = r.task /\ x.ran = r.ran /\ x.door = r.door
        /\ x.session = r.session /\ x.carried = r.carried /\ x.request = r.request
    BY <1>1 DEF At, Turn
  <1> HIDE DEF x
  <1>3. Sound(t, x)
    BY <1>2, SameStream DEF Sound, Faithful, Executed
  <1> QED
    BY <1>2, <1>3 DEF x

LEMMA AtBecomes ==
  ASSUME turn \in [Turns -> Turn], NEW t \in Turns, NEW r, NEW e, Sound(t, e),
         e.pc \notin {"idle"} \cup After, NEW pc \in Awaits, Step(t, At(e, pc)),
         pc \in Speaking => e.stream.emitted \/ e.stream.over,
         e.door = r.door, e.session = r.session, e.carried = r.carried
  PROVE  \A pcs : pc \in pcs => Becomes(t, r, pcs)
  <1> DEFINE x == At(e, pc)
  <1>1. /\ Sound(t, x) /\ x.pc = pc /\ x.door = e.door /\ x.session = e.session
        /\ x.carried = e.carried /\ Step(t, x)
    BY AtSound
  <1> HIDE DEF x
  <1> QED
    BY <1>1, StepBecomes

\* The tools may start once something was heard or the stream is over.
LEMMA ResumedSound ==
  ASSUME NEW t \in Turns, NEW r, Sound(t, r), r.stream.emitted \/ r.stream.over
  PROVE  LET x == Resumed(r) IN
         /\ Sound(t, x) /\ x.pc = r.pc /\ x.stream = r.stream /\ x.buffer = r.buffer
         /\ x.door = r.door /\ x.session = r.session /\ x.carried = r.carried
  <1> DEFINE x == [r EXCEPT !.task = "created"]
  <1>1. r \in Turn
    BY DEF Sound
  <1>2. /\ x \in Turn /\ x.pc = r.pc /\ x.stream = r.stream /\ x.buffer = r.buffer
        /\ x.heard = r.heard /\ x.task = "created" /\ x.ran = r.ran /\ x.door = r.door
        /\ x.session = r.session /\ x.carried = r.carried /\ x.request = r.request
    BY <1>1 DEF Turn
  <1> HIDE DEF x
  <1>3. r.task = "none" => Sound(t, x)
    BY <1>2, SameStream DEF Sound, Faithful, Executed
  <1>4. Resumed(r) = IF r.task = "none" /\ r.stream.calls # <<>> THEN x ELSE r
    BY DEF Resumed, x
  <1> QED
    BY <1>2, <1>3, <1>4

\* The buffer is read, or dropped.
LEMMA EmptiedSound ==
  ASSUME NEW t \in Turns, NEW r, Sound(t, r)
  PROVE  LET x == [r EXCEPT !.buffer = {}] IN
         /\ Sound(t, x) /\ x.pc = r.pc /\ x.stream = r.stream /\ x.heard = r.heard
         /\ x.door = r.door /\ x.session = r.session /\ x.carried = r.carried
  <1> DEFINE x == [r EXCEPT !.buffer = {}]
  <1>1. r \in Turn
    BY DEF Sound
  <1>2. /\ x \in Turn /\ x.pc = r.pc /\ x.stream = r.stream /\ x.buffer = {}
        /\ x.heard = r.heard /\ x.task = r.task /\ x.ran = r.ran /\ x.door = r.door
        /\ x.session = r.session /\ x.carried = r.carried /\ x.request = r.request
    BY <1>1 DEF Turn
  <1> HIDE DEF x
  <1>3. Sound(t, x)
    BY <1>2 DEF Sound, Faithful, Executed, Whole
  <1> QED
    BY <1>2, <1>3 DEF x

\* Something is heard: what the buffer held, or the piece that has just come.
Hears(r, pc, buffer, heard) == [At(r, pc) EXCEPT !.buffer = buffer, !.heard = @ \cup heard]

LEMMA HeardSound ==
  ASSUME NEW t \in Turns, NEW r, Sound(t, r), r.pc \notin {"idle"} \cup After,
         NEW pc \in {"sending", "saying"}, r.stream.emitted \/ r.stream.over,
         NEW heard, heard \subseteq {r.stream.attempt}, NEW buffer \in SUBSET r.buffer
  PROVE  LET x == Hears(r, pc, buffer, heard) IN
         /\ Sound(t, x) /\ x.pc = pc
         /\ x.door = r.door /\ x.session = r.session /\ x.carried = r.carried
  <1> DEFINE x == Hears(r, pc, buffer, heard)
  <1>1. r \in Turn /\ r.stream.attempt \in Attempts /\ pc \in Awaits
    BY DEF Sound, Turn, Stream, Awaits
  <1>2. /\ x \in Turn /\ x.pc = pc /\ x.stream = r.stream /\ x.buffer = buffer
        /\ x.heard = r.heard \cup heard
        /\ x.task = r.task /\ x.ran = r.ran /\ x.door = r.door
        /\ x.session = r.session /\ x.carried = r.carried /\ x.request = r.request
    BY <1>1 DEF Hears, At, Turn
  <1> HIDE DEF x
  <1>3. Sound(t, x)
    BY <1>2, SameStream DEF Sound, Faithful, Executed
  <1> QED
    BY <1>2, <1>3 DEF x

LEMMA HeardBecomes ==
  ASSUME turn \in [Turns -> Turn], NEW t \in Turns, NEW q, NEW r, Sound(t, r),
         r.pc \notin {"idle"} \cup After,
         NEW pc \in {"sending", "saying"}, r.stream.emitted \/ r.stream.over,
         NEW heard, heard \subseteq {r.stream.attempt}, NEW buffer \in SUBSET r.buffer,
         Step(t, Hears(r, pc, buffer, heard)),
         r.door = q.door, r.session = q.session, r.carried = q.carried
  PROVE  \A pcs : pc \in pcs => Becomes(t, q, pcs)
  <1> DEFINE x == Hears(r, pc, buffer, heard)
  <1>1. /\ Sound(t, x) /\ x.pc = pc /\ x.door = r.door /\ x.session = r.session
        /\ x.carried = r.carried
    BY HeardSound
  <1>2. Step(t, x)
    OBVIOUS
  <1> HIDE DEF x
  <1> QED
    BY <1>1, <1>2, StepBecomes

-----------------------------------------------------------------------------
(* What an answer goes through *)

\* The answer of t joins its session; work may be submitted, the memory may learn.
Closes(t, r) ==
  /\ Adds(r.session, Answer(t))
  /\ \/ Becomes(t, r, {"closing"}) /\ UNCHANGED background
     \/ Becomes(t, r, {"over"}) /\ \E route \in Routes : Submits(t, route)
  /\ learned' \in {learned, learned \cup {t}}

LEMMA RoutesOfForm == \A r : RoutesOf(r) \subseteq Routes
  BY DEF RoutesOf, Routes

LEMMA OverSound ==
  ASSUME setup \in Setups, NEW t \in Turns, NEW r, Sound(t, r), NEW route \in Routes
  PROVE  LET x == Over(r, route) IN
         /\ Sound(t, x) /\ x.pc = "over" /\ x.door = r.door /\ x.session = r.session
         /\ x.carried = r.carried
         /\ Sound(t, [x EXCEPT !.pc = "dozing"])
  <1> DEFINE l == Leave(r, "over")
             x == [l EXCEPT !.route = route]
             y == [x EXCEPT !.pc = "dozing"]
  <1>1. /\ Sound(t, l) /\ l.pc = "over" /\ l.door = r.door /\ l.session = r.session
        /\ l.carried = r.carried
    BY LeaveSound DEF After
  <1> HIDE DEF l
  <1>2. l \in Turn
    BY <1>1 DEF Sound
  <1>3. /\ x \in Turn /\ x.pc = "over" /\ x.stream = l.stream /\ x.buffer = l.buffer
        /\ x.heard = l.heard /\ x.task = l.task /\ x.ran = l.ran /\ x.door = l.door
        /\ x.session = l.session /\ x.carried = l.carried /\ x.request = l.request
    BY <1>1, <1>2 DEF Turn
  <1> HIDE DEF x
  <1>4. Sound(t, x)
    BY <1>1, <1>3 DEF Sound, Faithful, Executed, Whole, After
  <1>5. /\ y \in Turn /\ y.pc = "dozing" /\ y.stream = x.stream /\ y.buffer = x.buffer
        /\ y.heard = x.heard /\ y.task = x.task /\ y.ran = x.ran /\ y.request = x.request
    BY <1>3 DEF Turn, Awaits
  <1> HIDE DEF y
  <1>6. Sound(t, y)
    BY <1>3, <1>4, <1>5 DEF Sound, Faithful, Executed, Whole, After, Speaking
  <1>7. Over(r, route) = x
    BY DEF Over, x, l
  <1> QED
    BY <1>1, <1>3, <1>4, <1>6, <1>7 DEF y

LEMMA CloseCloses ==
  ASSUME setup \in Setups, turn \in [Turns -> Turn], NEW t \in Turns, NEW r, Sound(t, r),
         r.pc \in Answering, Close(t, r)
  PROVE  Closes(t, r)
  <1>1. Adds(r.session, Answer(t)) /\ learned' \in {learned, learned \cup {t}}
    BY DEF Close, VoiceLearns
  <1>2. CASE r.door = "http"
    <2>1. PICK route \in Routes : Submits(t, route) /\ Step(t, Over(r, route))
      BY <1>2, RoutesOfForm DEF Close
    <2>2. Becomes(t, r, {"over"})
      BY <2>1, OverSound, StepBecomes
    <2> QED
      BY <1>1, <2>1, <2>2 DEF Closes
  <1>3. CASE r.door # "http"
    <2>1. Step(t, At(r, "closing")) /\ UNCHANGED background
      BY <1>3 DEF Close
    <2>2. r.pc \notin {"idle"} \cup After /\ "closing" \in Awaits
      BY DEF Answering, After, Awaits
    <2>3. Becomes(t, r, {"closing"})
      BY <2>1, <2>2, AtSound, StepBecomes DEF Speaking
    <2> QED
      BY <1>1, <2>1, <2>3 DEF Closes
  <1> QED
    BY <1>2, <1>3

\* A turn asks for the next piece, or has had them all.
Continues(t, r) ==
  \/ Becomes(t, r, Answering) /\ UNCHANGED <<sessions, background, learned>>
  \/ Closes(t, r)

LEMMA GoesContinues ==
  ASSUME setup \in Setups, turn \in [Turns -> Turn], NEW t \in Turns, NEW r, Sound(t, r),
         r.pc \in Answering, Goes(t, r)
  PROVE  Continues(t, r)
  <1> DEFINE e == [r EXCEPT !.buffer = {}]
  <1>1. /\ Sound(t, e) /\ e.pc = r.pc /\ e.stream = r.stream
        /\ e.door = r.door /\ e.session = r.session /\ e.carried = r.carried
    BY EmptiedSound
  <1>2. r.pc \notin {"idle"} \cup After
    BY DEF Answering, After
  <1>3. CASE /\ r.buffer # {}
             /\ Step(t, [At(r, "sending") EXCEPT !.buffer = {}, !.heard = @ \cup r.buffer])
             /\ UNCHANGED <<sessions, background, learned>>
    <2>1. (r.stream.emitted \/ r.stream.over) /\ r.buffer \subseteq {r.stream.attempt}
      BY <1>3 DEF Sound, Faithful
    <2>2. {} \in SUBSET r.buffer /\ "sending" \in Answering
      BY DEF Answering
    <2>3. Becomes(t, r, Answering)
      BY <1>2, <1>3, <2>1, <2>2, HeardBecomes DEF Hears
    <2> QED
      BY <1>3, <2>3 DEF Continues
  <1>4. CASE /\ ~r.stream.over \/ r.stream.calls # <<>>
             /\ Rest(t, e)
             /\ UNCHANGED <<sessions, background, learned>>
    <2> HIDE DEF e
    <2>1. CASE ~e.stream.over
      <3>1. Step(t, At(e, "streaming"))
        BY <1>4, <2>1 DEF Rest
      <3>2. Becomes(t, r, Answering)
        BY <1>1, <1>2, <3>1, AtBecomes DEF Answering, Awaits, Speaking
      <3> QED
        BY <1>4, <3>2 DEF Continues
    <2>2. CASE e.stream.over
      <3>1. Step(t, At(Resumed(e), "tools"))
        BY <1>4, <2>2 DEF Rest
      <3>2. /\ Sound(t, Resumed(e)) /\ Resumed(e).pc = r.pc /\ Resumed(e).door = r.door
            /\ Resumed(e).session = r.session /\ Resumed(e).carried = r.carried
            /\ Resumed(e).stream.over
        BY <1>1, <2>2, ResumedSound
      <3>3. Becomes(t, r, Answering)
        BY <1>2, <3>1, <3>2, AtBecomes DEF Answering, Awaits, Speaking
      <3> QED
        BY <1>4, <3>3 DEF Continues
    <2> QED
      BY <2>1, <2>2
  <1>5. CASE r.stream.over /\ r.stream.calls = <<>> /\ Close(t, e)
    <2> HIDE DEF e
    <2>1. Closes(t, e)
      BY <1>1, <1>5, CloseCloses
    <2>2. Closes(t, r)
      BY <1>1, <2>1 DEF Closes, Becomes
    <2> QED
      BY <2>2 DEF Continues
  <1> QED
    BY <1>3, <1>4, <1>5 DEF Goes

LEMMA RoutedContinues ==
  ASSUME setup \in Setups, turn \in [Turns -> Turn], NEW t \in Turns, NEW r, Sound(t, r),
         r.pc \in Answering, Routed(t, r)
  PROVE  Continues(t, r)
  <1> DEFINE q == [r EXCEPT !.tagged = TRUE]
  <1>1. r \in Turn
    BY DEF Sound
  <1>2. /\ q \in Turn /\ q.pc = r.pc /\ q.stream = r.stream /\ q.buffer = r.buffer
        /\ q.heard = r.heard /\ q.task = r.task /\ q.ran = r.ran /\ q.door = r.door
        /\ q.session = r.session /\ q.carried = r.carried /\ q.request = r.request
    BY <1>1 DEF Turn
  <1>3. Routed(t, r) <=> IF q.door \in {"text", "gesture", "voice"}
                         THEN Step(t, At(q, "opening")) /\ UNCHANGED <<sessions, background, learned>>
                         ELSE Goes(t, q)
    BY <1>2 DEF Routed
  <1> HIDE DEF q
  <1>4. Sound(t, q)
    BY <1>2 DEF Sound, Faithful, Executed, Whole
  <1>5. CASE q.door \in {"text", "gesture", "voice"}
    <2>1. q.pc \notin {"idle"} \cup After
      BY <1>2 DEF Answering, After
    <2>2. Becomes(t, q, Answering)
      BY <1>3, <1>4, <1>5, <2>1, AtBecomes DEF Answering, Awaits, Speaking
    <2> QED
      BY <1>2, <1>3, <1>5, <2>2 DEF Continues, Becomes
  <1>6. CASE q.door \notin {"text", "gesture", "voice"}
    <2>1. Continues(t, q)
      BY <1>2, <1>3, <1>4, <1>6, GoesContinues
    <2> QED
      BY <1>2, <2>1 DEF Continues, Becomes, Closes
  <1> QED
    BY <1>5, <1>6

-----------------------------------------------------------------------------
(* What a step of a turn leaves as it was *)

LEMMA TurnsForm ==
  ASSUME Inv, NEW t \in Turns, NEW r, NEW pcs, Becomes(t, r, pcs), setup' = setup
  PROVE  /\ turn' \in [Turns -> Turn] /\ (\A u \in Turns : Sound(u, turn[u]))'
         /\ \A u \in Turns \ {t} : turn'[u] = turn[u]
  <1>1. /\ turn \in [Turns -> Turn] /\ turn' = [turn EXCEPT ![t] = turn'[t]]
        /\ Sound(t, turn'[t])
    BY DEF Inv, Types, Becomes
  <1>2. turn'[t] \in Turn
    BY <1>1 DEF Sound
  <1>3. turn' \in [Turns -> Turn] /\ \A u \in Turns \ {t} : turn'[u] = turn[u]
    BY <1>1, <1>2
  <1>4. ASSUME NEW u \in Turns PROVE Sound(u, turn[u])'
    <2>1. Sound(u, turn'[u])
      BY <1>1, <1>3 DEF Inv
    <2> QED
      BY <2>1 DEF Sound, Bounded
  <1> QED
    BY <1>3, <1>4

\* Turn t goes on, and its answer is where it was.
Onward(t) ==
  \/ turn[t].pc \in Before /\ turn'[t].pc \in Before
  \/ /\ turn'[t].session = turn[t].session /\ turn'[t].door = turn[t].door
     /\ turn[t].pc \notin Before /\ turn'[t].pc \notin Before
     /\ turn'[t].pc \in Answering => turn[t].pc \in Answering
     /\ turn'[t].pc = "closing" => turn[t].pc = "closing" \/ turn[t].door = "messaging"
     /\ turn'[t].pc = "dozing" => turn[t].pc = "dozing"
     /\ turn[t].pc \in After => turn'[t].pc \in After

Quiet(t) ==
  /\ UNCHANGED <<setup, sessions, background, restarts>>
  /\ learned' = learned \/ (turn[t].pc = "dozing" /\ learned' = learned \cup {t})
  /\ signatures' \in Seq(Turns \X Nat) /\ Len(signatures') <= MaxSignatures

LEMMA QuietKeeps ==
  ASSUME Inv, NEW t \in Turns, NEW r, NEW pcs, Becomes(t, r, pcs), Onward(t), Quiet(t)
  PROVE  Histories' /\ (\A u \in Turns : Told(u))' /\ Placed'
  <1>1. \A u \in Turns \ {t} : turn'[u] = turn[u]
    BY TurnsForm DEF Quiet
  <1>2. /\ sessions' = sessions /\ queue' = queue /\ worker' = worker
        /\ missions' = missions /\ finished' = finished
    BY DEF Quiet, background
  <1>3. Histories'
    BY <1>2 DEF Inv, Histories
  <1>4. \A u \in Turns : /\ Worked(u)' <=> Worked(u)
                         /\ Queued(u)' <=> Queued(u)
                         /\ \A s \in Sessions, m \in Message : Holds(s, m)' <=> Holds(s, m)
    BY <1>2 DEF Worked, Queued, Holds
  <1>5. /\ turn[t].pc \in Before /\ turn'[t].pc \in Before => ~Worked(t)
        /\ turn'[t].pc \in After \/ ~Worked(t)
    BY DEF Onward, Inv, Placed, Before, After
  <1>6. Placed'
    BY <1>1, <1>2, <1>4, <1>5 DEF Inv, Placed
  <1>7. ASSUME NEW u \in Turns \ {t} PROVE Told(u)'
    <2>1. u \in learned' => u \in learned
      BY DEF Quiet
    <2>2. Told(u) /\ turn'[u] = turn[u] /\ turn[u].session \in Sessions
      BY <1>1 DEF Inv, Types, Turn
    <2>3. Question(u) \in Message /\ Answer(u) \in Message
      BY DEF Message
    <2> QED
      BY <1>2, <1>4, <2>1, <2>2, <2>3 DEF Told
  <1>8. Told(t)'
    <2>1. Told(t) /\ turn[t].session \in Sessions
      BY DEF Inv, Types, Turn
    <2>2. Question(t) \in Message /\ Answer(t) \in Message
      BY DEF Message
    <2>3. t \in learned' => t \in learned \/ turn[t].pc = "dozing"
      BY DEF Quiet
    <2>4. CASE turn[t].pc \in Before /\ turn'[t].pc \in Before
      <3>1. ~Worked(t) /\ t \notin missions \cup learned
        BY <1>5, <2>1, <2>4 DEF Told
      <3> QED
        BY <1>2, <1>4, <2>1, <2>2, <2>3, <2>4, <3>1 DEF Told, Before, Answering
    <2>5. CASE ~(turn[t].pc \in Before /\ turn'[t].pc \in Before)
      <3>1. /\ turn'[t].session = turn[t].session /\ turn'[t].door = turn[t].door
            /\ turn[t].pc \notin Before /\ turn'[t].pc \notin Before
            /\ turn'[t].pc \in Answering => turn[t].pc \in Answering
            /\ turn'[t].pc = "closing" => turn[t].pc = "closing" \/ turn[t].door = "messaging"
            /\ turn'[t].pc = "dozing" => turn[t].pc = "dozing"
        BY <2>5 DEF Onward
      <3> QED
        BY <1>2, <1>4, <2>1, <2>2, <2>3, <3>1 DEF Told
    <2> QED
      BY <2>4, <2>5
  <1> QED
    BY <1>3, <1>6, <1>7, <1>8

\* The notices stay where they are.
LEMMA GivenStays ==
  ASSUME Inv, NEW t \in Turns, NEW r, NEW pcs, Becomes(t, r, pcs), setup' = setup,
         turn'[t].carried = turn[t].carried, pending' = pending, finished' = finished,
         turn[t].pc \in Late => turn'[t].pc \in Late
  PROVE  Given'
  <1>1. \A u \in Turns \ {t} : turn'[u] = turn[u]
    BY TurnsForm
  <1>2. \A u \in Turns : /\ turn'[u].carried = turn[u].carried
                         /\ turn[u].pc \in Late => turn'[u].pc \in Late
    BY <1>1
  <1>3. \A n : Issued(n)' <=> Issued(n)
    BY <1>2 DEF Issued
  <1> QED
    BY <1>2, <1>3 DEF Inv, Given

LEMMA QuietStep ==
  ASSUME Inv, NEW t \in Turns, NEW pcs, Becomes(t, turn[t], pcs), Onward(t), Quiet(t),
         pending' = pending, turn[t].pc \in Late => turn'[t].pc \in Late
  PROVE  Inv'
  <1>1. turn' \in [Turns -> Turn] /\ (\A u \in Turns : Sound(u, turn[u]))'
    BY TurnsForm DEF Quiet
  <1>2. Given'
    BY GivenStays DEF Quiet, background, Becomes
  <1>3. Types'
    BY <1>1 DEF Quiet, background, Inv, Types
  <1> QED
    BY <1>1, <1>2, <1>3, QuietKeeps DEF Inv

-----------------------------------------------------------------------------
(* The histories *)

LEMMA MessageForm ==
  /\ \A t \in Turns : Question(t) \in Message /\ Answer(t) \in Message
  /\ \A t, u \in Turns : /\ Question(t) # Answer(u)
                         /\ Question(t) = Question(u) => t = u
                         /\ Answer(t) = Answer(u) => t = u
  BY DEF Message, Question, Answer

\* A message that joins a session for the first time.
LEMMA AddsForm ==
  ASSUME Inv, NEW s0 \in Sessions, NEW m \in Message, Adds(s0, m)
  PROVE  /\ sessions' \in [Sessions -> Seq(Message)]
         /\ \A s \in Sessions, n \in Message :
              Holds(s, n)' <=> Holds(s, n) \/ (s = s0 /\ n = m)
         /\ /\ ~Holds(s0, m)
            /\ \A t \in Turns : m = Answer(t) => Holds(s0, Question(t))
            => Histories'
  <1>1. /\ sessions \in [Sessions -> Seq(Message)] /\ sessions[s0] \in Seq(Message)
        /\ sessions' = [sessions EXCEPT ![s0] = Append(sessions[s0], m)]
    BY DEF Inv, Types, Adds
  <1>2. PICK k \in Nat : k = Len(sessions[s0])
    BY <1>1, LenProperties
  <1>3. /\ Append(sessions[s0], m) \in Seq(Message) /\ Len(Append(sessions[s0], m)) = k + 1
        /\ \A i \in 1..k : Append(sessions[s0], m)[i] = sessions[s0][i]
        /\ Append(sessions[s0], m)[k + 1] = m
    BY <1>1, <1>2, AppendProperties
  <1>4. /\ sessions' \in [Sessions -> Seq(Message)]
        /\ \A s \in Sessions \ {s0} : sessions'[s] = sessions[s]
        /\ Len(sessions'[s0]) = k + 1 /\ sessions'[s0][k + 1] = m
        /\ \A i \in 1..k : sessions'[s0][i] = sessions[s0][i]
    BY <1>1, <1>3
  <1>5. ASSUME NEW s \in Sessions, NEW n \in Message
        PROVE  Holds(s, n)' <=> Holds(s, n) \/ (s = s0 /\ n = m)
    <2>1. CASE s # s0
      BY <1>4, <2>1 DEF Holds
    <2>2. CASE s = s0
      <3>1. \A i \in 1..(k + 1) : i \in 1..k \/ i = k + 1
        OBVIOUS
      <3>2. (k + 1) \in 1..(k + 1) /\ \A i \in 1..k : i \in 1..(k + 1)
        OBVIOUS
      <3> QED
        BY <1>2, <1>4, <2>2, <3>1, <3>2 DEF Holds
    <2> QED
      BY <2>1, <2>2
  <1>6. ASSUME ~Holds(s0, m), \A t \in Turns : m = Answer(t) => Holds(s0, Question(t)),
               NEW s \in Sessions
        PROVE  /\ \A i, j \in 1..Len(sessions'[s]) : sessions'[s][i] = sessions'[s][j] => i = j
               /\ \A t \in Turns : \A i \in 1..Len(sessions'[s]) :
                    sessions'[s][i] = Answer(t) =>
                      \E j \in 1..(i - 1) : sessions'[s][j] = Question(t)
    <2>1. CASE s # s0
      BY <1>4, <2>1 DEF Inv, Histories
    <2>2. CASE s = s0
      <3>1. \A i \in 1..k : sessions[s0][i] # m
        BY <1>2, <1>6 DEF Holds
      <3>2. \A i, j \in 1..k : sessions[s0][i] = sessions[s0][j] => i = j
        BY <1>2 DEF Inv, Histories
      <3>3. ASSUME NEW i \in 1..(k + 1), NEW j \in 1..(k + 1), sessions'[s0][i] = sessions'[s0][j]
            PROVE  i = j
        <4>1. (i \in 1..k \/ i = k + 1) /\ (j \in 1..k \/ j = k + 1)
          OBVIOUS
        <4> QED
          BY <1>4, <3>1, <3>2, <3>3, <4>1
      <3>4. ASSUME NEW t \in Turns, NEW i \in 1..(k + 1), sessions'[s0][i] = Answer(t)
            PROVE  \E j \in 1..(i - 1) : sessions'[s0][j] = Question(t)
        <4>1. CASE i \in 1..k
          <5>1. sessions[s0][i] = Answer(t)
            BY <1>4, <3>4, <4>1
          <5>2. PICK j \in 1..(i - 1) : sessions[s0][j] = Question(t)
            BY <1>2, <4>1, <5>1 DEF Inv, Histories
          <5>3. j \in 1..k
            BY <4>1, <5>2
          <5> QED
            BY <1>4, <5>2, <5>3
        <4>2. CASE i = k + 1
          <5>1. m = Answer(t)
            BY <1>4, <3>4, <4>2
          <5>2. PICK j \in 1..k : sessions[s0][j] = Question(t)
            BY <1>2, <1>6, <5>1 DEF Holds
          <5>3. j \in 1..(i - 1) /\ sessions'[s0][j] = Question(t)
            BY <1>4, <4>2, <5>2
          <5> QED
            BY <5>3
        <4> QED
          BY <4>1, <4>2
      <3> QED
        BY <1>4, <2>2, <3>3, <3>4
    <2> QED
      BY <2>1, <2>2
  <1> QED
    BY <1>4, <1>5, <1>6 DEF Histories

\* The question of t joins its session.
LEMMA AskKeeps ==
  ASSUME Inv, NEW t \in Turns, Ask(t)
  PROVE  Inv'
  <1> DEFINE r == turn[t]
  <1>1. /\ Sound(t, r) /\ r \in Turn /\ r.session \in Sessions /\ r.pc = "recall"
        /\ turn \in [Turns -> Turn]
    BY DEF Inv, Types, Ask, Turn
  <1>2. Step(t, At(r, "routing")) /\ Adds(r.session, Question(t))
    BY DEF Ask
  <1>3. /\ setup' = setup /\ signatures' = signatures /\ pending' = pending
        /\ queue' = queue /\ worker' = worker /\ missions' = missions /\ finished' = finished
        /\ restarts' = restarts /\ learned' = learned
    BY DEF Ask, background
  <1>4. "routing" \in Awaits \ Speaking /\ r.pc \notin {"idle"} \cup After
    BY <1>1 DEF Awaits, After, Speaking
  <1>5. Becomes(t, r, {"routing"})
    BY <1>1, <1>2, <1>4, AtBecomes
  <1> HIDE DEF r
  <1>6. /\ turn' \in [Turns -> Turn] /\ (\A u \in Turns : Sound(u, turn[u]))'
        /\ \A u \in Turns \ {t} : turn'[u] = turn[u]
    BY <1>3, <1>5, TurnsForm
  <1>7. /\ turn'[t].pc = "routing" /\ turn'[t].session = r.session
        /\ turn'[t].carried = r.carried
    BY <1>5 DEF Becomes
  <1>8. \A s \in Sessions : ~Holds(s, Question(t)) /\ ~Holds(s, Answer(t))
    BY <1>1 DEF Inv, Told, Before, r
  <1>9. /\ sessions' \in [Sessions -> Seq(Message)] /\ Histories'
        /\ \A s \in Sessions, n \in Message :
             Holds(s, n)' <=> Holds(s, n) \/ (s = r.session /\ n = Question(t))
    BY <1>1, <1>2, <1>8, AddsForm, MessageForm
  <1>10. \A u \in Turns : (Worked(u)' <=> Worked(u)) /\ (Queued(u)' <=> Queued(u))
    BY <1>3 DEF Worked, Queued
  <1>11. ~Worked(t) /\ t \notin missions \cup learned
    BY <1>1, <1>8 DEF Inv, Told, r
  <1>12. Types'
    BY <1>3, <1>6, <1>9 DEF Inv, Types
  <1>13. Placed'
    BY <1>3, <1>6, <1>10, <1>11 DEF Inv, Placed
  <1>14. Given'
    BY <1>1, <1>3, <1>5, <1>7, GivenStays DEF Late, After, r
  <1>15. ASSUME NEW u \in Turns \ {t} PROVE Told(u)'
    <2>1. Told(u) /\ turn'[u] = turn[u] /\ turn[u].session \in Sessions
      BY <1>6 DEF Inv, Types, Turn
    <2>2. \A s \in Sessions : /\ Holds(s, Question(u))' <=> Holds(s, Question(u))
                              /\ Holds(s, Answer(u))' <=> Holds(s, Answer(u))
      BY <1>9, MessageForm
    <2> QED
      BY <1>3, <1>10, <2>1, <2>2 DEF Told
  <1>16. Told(t)'
    <2>1. \A s \in Sessions : /\ s = r.session => Holds(s, Question(t))'
                              /\ ~Holds(s, Answer(t))'
      BY <1>8, <1>9, MessageForm
    <2> QED
      BY <1>1, <1>3, <1>7, <1>10, <1>11, <2>1 DEF Told, Before, Answering
  <1> QED
    BY <1>6, <1>9, <1>12, <1>13, <1>14, <1>15, <1>16 DEF Inv

\* Work is submitted by a turn that then leaves the others alone.
LEMMA SubmitsForm ==
  ASSUME Inv, NEW t \in Turns, ~Worked(t), NEW route, Submits(t, route)
  PROVE  /\ queue' \in Seq(Turns) /\ missions' \subseteq Turns
         /\ worker' = worker /\ finished' = finished
         /\ missions' \subseteq missions \cup {t}
         /\ \A u \in Turns : Queued(u)' => Queued(u) \/ u = t
         /\ \A i, j \in 1..Len(queue') : queue'[i] = queue'[j] => i = j
  <1>1. /\ worker' = worker /\ finished' = finished /\ missions' \subseteq missions \cup {t}
        /\ queue \in Seq(Turns) /\ missions \subseteq Turns
        /\ \A i, j \in 1..Len(queue) : queue[i] = queue[j] => i = j
    BY DEF Submits, Inv, Types, Placed
  <1>2. CASE route # "BG"
    BY <1>1, <1>2 DEF Submits, Queued
  <1>3. CASE route = "BG"
    <2>1. queue' = Append(queue, t)
      BY <1>3 DEF Submits
    <2>2. PICK k \in Nat : k = Len(queue)
      BY <1>1, LenProperties
    <2>3. /\ queue' \in Seq(Turns) /\ Len(queue') = k + 1
          /\ \A i \in 1..k : queue'[i] = queue[i]
          /\ queue'[k + 1] = t
      BY <1>1, <2>1, <2>2, AppendProperties
    <2>4. \A i \in 1..k : queue[i] # t
      BY <2>2 DEF Worked, Queued
    <2>5. ASSUME NEW i \in 1..(k + 1), NEW j \in 1..(k + 1), queue'[i] = queue'[j]
          PROVE  i = j
      <3>1. (i \in 1..k \/ i = k + 1) /\ (j \in 1..k \/ j = k + 1)
        OBVIOUS
      <3> QED
        BY <1>1, <2>2, <2>3, <2>4, <2>5, <3>1
    <2>6. ASSUME NEW u \in Turns, Queued(u)' PROVE Queued(u) \/ u = t
      <3>1. PICK i \in 1..(k + 1) : queue'[i] = u
        BY <2>3, <2>6 DEF Queued
      <3>2. i \in 1..k \/ i = k + 1
        OBVIOUS
      <3> QED
        BY <2>2, <2>3, <3>1, <3>2 DEF Queued
    <2> QED
      BY <1>1, <2>3, <2>5, <2>6
  <1> QED
    BY <1>2, <1>3

\* A turn that has its answer in its session, ends or not, and may submit its work.
LEMMA SubmitKeeps ==
  ASSUME Inv, NEW t \in Turns, NEW pcs, Becomes(t, turn[t], pcs), setup' = setup,
         ~Worked(t), turn'[t].pc \in {"closing", "over", "dozing"},
         \/ UNCHANGED background
         \/ turn'[t].pc \in After /\ \E route \in Routes : Submits(t, route),
         learned' \in {learned, learned \cup {t}},
         \A u \in Turns \ {t}, s \in Sessions : /\ Holds(s, Question(u))' <=> Holds(s, Question(u))
                                                /\ Holds(s, Answer(u))' <=> Holds(s, Answer(u)),
         \/ Holds(turn[t].session, Answer(t))'
         \/ turn[t].door = "messaging" /\ UNCHANGED background /\ learned' = learned
            /\ turn'[t].pc # "dozing" /\ t \notin missions \cup learned
  PROVE  (\A u \in Turns : Told(u))' /\ Placed'
  <1>1. /\ \A u \in Turns \ {t} : turn'[u] = turn[u]
        /\ turn'[t].session = turn[t].session /\ turn'[t].door = turn[t].door
    BY TurnsForm DEF Becomes
  <1>2. /\ worker' = worker /\ finished' = finished /\ missions' \subseteq missions \cup {t}
        /\ \A u \in Turns : Queued(u)' => Queued(u) \/ (u = t /\ turn'[t].pc \in After)
        /\ \A i, j \in 1..Len(queue') : queue'[i] = queue'[j] => i = j
    <2>1. CASE UNCHANGED background
      BY <2>1 DEF background, Inv, Placed, Queued
    <2>2. CASE turn'[t].pc \in After /\ \E route \in Routes : Submits(t, route)
      BY <2>2, SubmitsForm
    <2> QED
      BY <2>1, <2>2
  <1>3. Placed'
    BY <1>1, <1>2 DEF Inv, Placed, Worked
  <1>4. ASSUME NEW u \in Turns \ {t} PROVE Told(u)'
    <2>1. Told(u) /\ turn'[u] = turn[u] /\ turn[u].session \in Sessions
      BY <1>1 DEF Inv, Types, Turn
    <2>2. Worked(u)' => Worked(u)
      BY <1>2 DEF Worked
    <2>3. (u \in missions' => u \in missions) /\ (u \in learned' => u \in learned)
      BY <1>2
    <2> QED
      BY <2>1, <2>2, <2>3 DEF Told
  <1>5. Told(t)'
    <2>1. turn'[t].pc \notin Before \cup Answering
      BY DEF Before, Answering
    <2>2. CASE Holds(turn[t].session, Answer(t))'
      BY <1>1, <2>1, <2>2 DEF Told
    <2>3. CASE /\ turn[t].door = "messaging" /\ UNCHANGED background /\ learned' = learned
               /\ turn'[t].pc # "dozing" /\ t \notin missions \cup learned
      <3>1. ~Worked(t)' /\ t \notin (missions \cup learned)'
        BY <2>3 DEF Worked, Queued, background
      <3> QED
        BY <1>1, <2>1, <2>3, <3>1 DEF Told
    <2> QED
      BY <2>2, <2>3
  <1> QED
    BY <1>3, <1>4, <1>5

\* The answer of t joins its session.
LEMMA ClosesKeeps ==
  ASSUME Inv, NEW t \in Turns, turn[t].pc \in Answering, Closes(t, turn[t]),
         UNCHANGED <<setup, signatures, restarts, pending>>
  PROVE  Inv'
  <1>1. /\ turn[t].session \in Sessions /\ Adds(turn[t].session, Answer(t))
        /\ learned' \in {learned, learned \cup {t}}
    BY DEF Inv, Types, Turn, Closes
  <1>2. /\ ~Worked(t) /\ Holds(turn[t].session, Question(t))
        /\ \A s \in Sessions : ~Holds(s, Answer(t))
    BY DEF Inv, Told, Placed, Answering, After
  <1>3. /\ Becomes(t, turn[t], {"closing", "over"})
        /\ \/ UNCHANGED background
           \/ turn'[t].pc \in After /\ \E route \in Routes : Submits(t, route)
    BY DEF Closes, Becomes, After
  <1>4. /\ turn' \in [Turns -> Turn] /\ (\A u \in Turns : Sound(u, turn[u]))'
    BY <1>3, TurnsForm
  <1>5. /\ sessions' \in [Sessions -> Seq(Message)] /\ Histories'
        /\ \A s \in Sessions, n \in Message :
             Holds(s, n)' <=> Holds(s, n) \/ (s = turn[t].session /\ n = Answer(t))
    BY <1>1, <1>2, AddsForm, MessageForm
  <1>6. (\A u \in Turns : Told(u))' /\ Placed'
    <2>1. \A u \in Turns \ {t}, s \in Sessions :
            /\ Holds(s, Question(u))' <=> Holds(s, Question(u))
            /\ Holds(s, Answer(u))' <=> Holds(s, Answer(u))
      BY <1>5, MessageForm
    <2>2. Holds(turn[t].session, Answer(t))'
      BY <1>1, <1>3, <1>5, MessageForm DEF Becomes
    <2>3. turn'[t].pc \in {"closing", "over", "dozing"}
      BY <1>3 DEF Becomes
    <2> QED
      BY <1>1, <1>2, <1>3, <2>1, <2>2, <2>3, SubmitKeeps
  <1>7. /\ queue' \in Seq(Turns) /\ missions' \subseteq Turns
        /\ worker' = worker /\ finished' = finished
    <2>1. CASE UNCHANGED background
      BY <2>1 DEF background, Inv, Types
    <2>2. CASE \E route \in Routes : Submits(t, route)
      BY <1>2, <2>2, SubmitsForm
    <2> QED
      BY <1>3, <2>1, <2>2
  <1>8. Given'
    BY <1>3, <1>7, GivenStays DEF Becomes, Late, After
  <1>9. Types'
    BY <1>1, <1>4, <1>5, <1>7 DEF Inv, Types
  <1> QED
    BY <1>4, <1>5, <1>6, <1>8, <1>9 DEF Inv

-----------------------------------------------------------------------------
(* The steps of a turn *)

\* A step that changes nothing.
LEMMA StutterKeeps == Inv /\ UNCHANGED vars => Inv'
  <1> SUFFICES ASSUME Inv, UNCHANGED vars PROVE Inv'
    OBVIOUS
  <1>1. /\ setup' = setup /\ turn' = turn /\ signatures' = signatures /\ pending' = pending
        /\ sessions' = sessions /\ queue' = queue /\ worker' = worker /\ missions' = missions
        /\ finished' = finished /\ restarts' = restarts /\ learned' = learned
    BY DEF vars, background
  <1>2. \A t \in Turns : Sound(t, turn[t])' <=> Sound(t, turn[t])
    BY <1>1 DEF Sound, Bounded
  <1>3. /\ \A t \in Turns : /\ (Worked(t)' <=> Worked(t)) /\ (Queued(t)' <=> Queued(t))
                            /\ (Told(t)' <=> Told(t))
        /\ \A n : Issued(n)' <=> Issued(n)
    BY <1>1 DEF Worked, Queued, Told, Holds, Issued
  <1>4. Types' /\ Histories'
    BY <1>1 DEF Inv, Types, Histories
  <1>5. Placed' /\ Given'
    BY <1>1, <1>3 DEF Inv, Placed, Given
  <1> QED
    BY <1>2, <1>3, <1>4, <1>5 DEF Inv

\* The notices that wait go to the turn that begins.
LEMMA ReceiveKeeps ==
  ASSUME Inv, NEW t \in Turns, Receive(t)
  PROVE  Inv'
  <1>1. PICK s \in Sessions :
          Step(t, [Fresh EXCEPT !.pc = "recall", !.door = setup.door[t], !.session = s,
                                !.carried = pending])
    BY DEF Receive
  <1> DEFINE x == [Fresh EXCEPT !.pc = "recall", !.door = setup.door[t], !.session = s,
                                !.carried = pending]
  <1>2. /\ setup' = setup /\ signatures' = signatures /\ sessions' = sessions
        /\ UNCHANGED background /\ restarts' = restarts /\ learned' = learned /\ pending' = {}
    BY DEF Receive, Drained
  <1>3. setup \in Setups /\ turn \in [Turns -> Turn] /\ pending \subseteq Notices
    BY DEF Inv, Types
  <1>4. Sound(t, Fresh) /\ Fresh.pc = "idle" /\ Fresh \in Turn
    BY <1>3, FreshSound DEF Sound
  <1>5. /\ x \in Turn /\ x.pc = "recall" /\ x.stream = Fresh.stream /\ x.buffer = Fresh.buffer
        /\ x.heard = Fresh.heard /\ x.task = Fresh.task /\ x.ran = Fresh.ran
        /\ x.carried = pending /\ x.request = Fresh.request
    BY <1>3, <1>4, Settings DEF Turn, Awaits
  <1>6. Step(t, x)
    BY <1>1
  <1>7. Fresh.task = "none" /\ Fresh.heard = {} /\ Fresh.buffer = {}
    BY DEF Fresh
  <1> HIDE DEF x
  <1>8. Sound(t, x)
    BY <1>4, <1>5, <1>7 DEF Sound, Faithful, Executed, Whole, Speaking
  <1>9. Becomes(t, x, {"recall"})
    BY <1>3, <1>5, <1>6, <1>8, StepBecomes
  <1>10. /\ turn' \in [Turns -> Turn] /\ (\A u \in Turns : Sound(u, turn[u]))'
         /\ \A u \in Turns \ {t} : turn'[u] = turn[u]
         /\ turn'[t].pc = "recall" /\ turn'[t].carried = pending
    BY <1>2, <1>5, <1>9, TurnsForm DEF Becomes
  <1>11. turn[t].pc = "idle"
    BY DEF Receive
  <1>12. Histories' /\ (\A u \in Turns : Told(u))' /\ Placed'
    <2>1. Onward(t)
      BY <1>10, <1>11 DEF Onward, Before
    <2>2. Quiet(t)
      BY <1>2 DEF Quiet, Inv, Types
    <2> QED
      BY <1>9, <2>1, <2>2, QuietKeeps
  <1>13. Given'
    <2>1. \A n : Issued(n)' => Issued(n)
      BY <1>2, <1>10 DEF Issued
    <2>2. \A u \in Turns : turn[u].pc \in Late => turn'[u].pc \in Late
      BY <1>10, <1>11 DEF Late, After
    <2>3. finished' = finished
      BY <1>2 DEF background
    <2>4. ASSUME NEW u \in Turns, NEW n \in turn'[u].carried
          PROVE  n \notin pending' /\ \A v \in Turns : n \in turn'[v].carried => v = u
      BY <1>2, <1>10, <2>4 DEF Inv, Given
    <2> QED
      BY <2>1, <2>2, <2>3, <2>4 DEF Inv, Given
  <1>14. Types'
    BY <1>2, <1>10 DEF Inv, Types, background
  <1> QED
    BY <1>10, <1>12, <1>13, <1>14 DEF Inv

LEMMA ContinuesKeeps ==
  ASSUME Inv, NEW t \in Turns, turn[t].pc \in Answering \ {"excusing"}, NEW r,
         r.door = turn[t].door, r.session = turn[t].session, r.carried = turn[t].carried,
         Continues(t, r), UNCHANGED <<setup, signatures, restarts, pending>>
  PROVE  Inv'
  <1>1. CASE Becomes(t, r, Answering) /\ UNCHANGED <<sessions, background, learned>>
    <2>1. Becomes(t, turn[t], Answering)
      BY <1>1 DEF Becomes
    <2>2. Onward(t)
      BY <2>1 DEF Onward, Becomes, Before, Answering, After
    <2>3. Quiet(t)
      BY <1>1 DEF Quiet, Inv, Types
    <2>4. turn[t].pc \notin Late
      BY DEF Late, After, Answering
    <2> QED
      BY <2>1, <2>2, <2>3, <2>4, QuietStep
  <1>2. CASE Closes(t, r)
    <2>1. Closes(t, turn[t])
      BY <1>2 DEF Closes, Becomes
    <2> QED
      BY <2>1, ClosesKeeps
  <1> QED
    BY <1>1, <1>2 DEF Continues

LEMMA TurnForm ==
  ASSUME Inv, NEW t \in Turns
  PROVE  /\ Sound(t, turn[t]) /\ turn[t] \in Turn /\ turn[t].stream \in Stream
         /\ setup \in Setups /\ turn \in [Turns -> Turn]
  BY DEF Inv, Types, Turn

\* A turn that only moves to another place.
LEMMA AtKeeps ==
  ASSUME Inv, NEW t \in Turns, turn[t].pc \notin {"idle", "recall"} \cup After,
         NEW pc \in Answering, Step(t, At(turn[t], pc)),
         pc \in Speaking => turn[t].pc \in Speaking,
         turn[t].pc \in Answering, turn[t].pc \in Late => pc \in Late,
         UNCHANGED <<setup, signatures, pending, sessions, background, restarts, learned>>
  PROVE  Inv'
  <1>0. pc \in Speaking => turn[t].stream.emitted \/ turn[t].stream.over
    BY TurnForm DEF Sound, Faithful
  <1>1. Becomes(t, turn[t], {pc})
    BY <1>0, TurnForm, AtBecomes DEF Answering, Awaits
  <1>2. Onward(t)
    BY <1>1 DEF Onward, Becomes, Before, Answering, After
  <1>3. Quiet(t)
    BY DEF Quiet, Inv, Types
  <1>4. turn[t].pc \in Late => turn'[t].pc \in Late
    BY <1>1 DEF Becomes
  <1> QED
    BY <1>1, <1>2, <1>3, <1>4, QuietStep

LEMMA SentKeeps ==
  ASSUME Inv, NEW t \in Turns, Sent(t)
  PROVE  Inv'
  <1> DEFINE r == turn[t]
  <1> USE TurnForm
  <1>1. UNCHANGED <<setup, signatures, pending, restarts>>
    BY DEF Sent
  <1>2. CASE r.pc = "opening" /\ Goes(t, r)
    BY <1>1, <1>2, GoesContinues, ContinuesKeeps DEF Answering
  <1>3. CASE r.pc = "sending" /\ Goes(t, Resumed(r))
    <2> DEFINE x == Resumed(r)
    <2>1. r.stream.emitted \/ r.stream.over
      BY <1>3 DEF Sound, Faithful, Speaking
    <2>2. /\ Sound(t, x) /\ x.pc = r.pc /\ x.door = r.door
          /\ x.session = r.session /\ x.carried = r.carried
      BY <2>1, ResumedSound
    <2>3. Goes(t, x)
      BY <1>3
    <2> HIDE DEF x
    <2>4. Continues(t, x)
      BY <1>3, <2>2, <2>3, GoesContinues DEF Answering
    <2> QED
      BY <1>1, <1>3, <2>2, <2>4, ContinuesKeeps DEF Answering
  <1>4. CASE /\ r.pc = "saying"
             /\ Step(t, At(r, "wording")) /\ UNCHANGED <<sessions, background, learned>>
    BY <1>1, <1>4, AtKeeps DEF Answering, Late, After, Speaking
  <1>5. CASE r.pc = "excusing" /\ Close(t, r)
    <2>1. Closes(t, r)
      BY <1>5, CloseCloses DEF Answering
    <2> QED
      BY <1>1, <1>5, <2>1, ClosesKeeps DEF Answering
  <1> QED
    BY <1>2, <1>3, <1>4, <1>5 DEF Sent

\* What a turn does when an event of its stream comes, before it is passed on.
Reads(r, s) == [r EXCEPT !.stream = s]
Gathers(r) == [r EXCEPT !.buffer = @ \cup {r.stream.attempt}]

LEMMA StreamForm ==
  ASSUME NEW t \in Turns, NEW r, Sound(t, r), NEW s, GoesOnFrom(t, r.stream, s)
  PROVE  LET x == Reads(r, s)
             y == Gathers(x) IN
         /\ Sound(t, x) /\ x.pc = r.pc /\ x.stream = s
         /\ x.door = r.door /\ x.session = r.session /\ x.carried = r.carried
         /\ s.emitted => Sound(t, y)
         /\ y.pc = r.pc /\ y.door = r.door /\ y.session = r.session /\ y.carried = r.carried
  <1> DEFINE x == Reads(r, s)
             y == Gathers(x)
  <1>1. r \in Turn /\ s \in Stream /\ s.attempt \in Attempts
    BY DEF Sound, GoesOnFrom, Stream
  <1>2. /\ x \in Turn /\ x.stream = s /\ x.pc = r.pc /\ x.heard = r.heard
        /\ x.buffer = r.buffer /\ x.task = r.task /\ x.ran = r.ran /\ x.request = r.request
        /\ x.door = r.door /\ x.session = r.session /\ x.carried = r.carried
    BY <1>1 DEF Reads, Turn
  <1> HIDE DEF x
  <1>3. /\ y \in Turn /\ y.stream = s /\ y.pc = r.pc /\ y.heard = r.heard
        /\ y.buffer = r.buffer \cup {s.attempt}
        /\ y.task = r.task /\ y.ran = r.ran /\ y.request = r.request
        /\ y.door = r.door /\ y.session = r.session /\ y.carried = r.carried
    BY <1>1, <1>2 DEF Gathers, Turn
  <1> HIDE DEF y
  <1>4. Sound(t, x)
    BY <1>2 DEF Sound, Faithful, Executed, Whole, GoesOnFrom
  <1>5. s.emitted => Sound(t, y)
    BY <1>3 DEF Sound, Faithful, Executed, Whole, GoesOnFrom
  <1> QED
    BY <1>2, <1>3, <1>4, <1>5 DEF x, y

\* A piece goes out as it comes, from either stream.
Says(r, pc) == [At(r, pc) EXCEPT !.heard = @ \cup {r.stream.attempt}]

LEMMA SaysBecomes ==
  ASSUME turn \in [Turns -> Turn], NEW t \in Turns, NEW q, NEW r, Sound(t, r),
         r.pc \notin {"idle"} \cup After, r.stream.emitted \/ r.stream.over,
         NEW pc \in {"sending", "saying"}, Step(t, Says(r, pc)),
         r.door = q.door, r.session = q.session, r.carried = q.carried
  PROVE  Becomes(t, q, Answering)
  <1> DEFINE x == Says(r, pc)
  <1>1. r \in Turn /\ r.stream.attempt \in Attempts /\ pc \in Awaits \cap Answering
    BY DEF Sound, Turn, Stream, Awaits, Answering
  <1>2. /\ x \in Turn /\ x.pc = pc /\ x.stream = r.stream /\ x.buffer = r.buffer
        /\ x.heard = r.heard \cup {r.stream.attempt}
        /\ x.task = r.task /\ x.ran = r.ran /\ x.door = r.door
        /\ x.session = r.session /\ x.carried = r.carried /\ x.request = r.request
    BY <1>1 DEF Says, At, Turn
  <1> HIDE DEF x
  <1>3. Sound(t, x)
    BY <1>2 DEF Sound, Faithful, Executed, Whole
  <1>4. Step(t, x)
    BY DEF x
  <1> QED
    BY <1>1, <1>2, <1>3, <1>4, StepBecomes

LEMMA TextKeeps ==
  ASSUME Inv, NEW t \in Turns, Text(t)
  PROVE  Inv'
  <1> DEFINE s == Emits(turn[t].stream)
             r == Reads(turn[t], s)
             b == Gathers(r)
  <1>0. /\ Sound(t, turn[t]) /\ turn[t] \in Turn /\ turn[t].stream \in Stream
        /\ setup \in Setups /\ turn \in [Turns -> Turn]
    BY TurnForm
  <1> USE <1>0
  <1>1. /\ turn[t].pc \in {"routing", "streaming"}
        /\ UNCHANGED <<setup, signatures, pending, restarts>>
    BY DEF Text, InStream
  <1>2. GoesOnFrom(t, turn[t].stream, s) /\ s.emitted
    BY EmitsGoesOn DEF Sound, Faithful
  <1>3. \/ turn[t].pc = "routing" /\ Step(t, b) /\ UNCHANGED <<sessions, background, learned>>
        \/ turn[t].pc = "routing" /\ Routed(t, b)
        \/ /\ turn[t].pc = "streaming" /\ Step(t, Says(r, "sending"))
           /\ UNCHANGED <<sessions, background, learned>>
    BY DEF Text, Says, Reads, Gathers
  <1> HIDE DEF s
  <1>4. /\ Sound(t, r) /\ r.pc = turn[t].pc /\ r.stream = s
        /\ r.door = turn[t].door /\ r.session = turn[t].session
        /\ r.carried = turn[t].carried
        /\ Sound(t, b) /\ b.pc = turn[t].pc /\ b.door = turn[t].door
        /\ b.session = turn[t].session /\ b.carried = turn[t].carried
    BY <1>2, StreamForm
  <1> HIDE DEF r, b
  <1>5. turn[t].pc \in Answering \ {"excusing"} /\ turn[t].pc \notin {"idle"} \cup After
    BY <1>1 DEF Answering, After
  <1>6. CASE /\ turn[t].pc = "routing" /\ Step(t, b)
             /\ UNCHANGED <<sessions, background, learned>>
    <2>1. Becomes(t, b, Answering)
      BY <1>4, <1>5, <1>6, StepBecomes
    <2>2. Continues(t, b)
      BY <1>6, <2>1 DEF Continues
    <2> QED
      BY <1>1, <1>4, <1>5, <2>2, ContinuesKeeps
  <1>7. CASE Routed(t, b)
    <2>1. Continues(t, b)
      BY <1>4, <1>5, <1>7, RoutedContinues
    <2> QED
      BY <1>1, <1>4, <1>5, <2>1, ContinuesKeeps
  <1>8. CASE Step(t, Says(r, "sending")) /\ UNCHANGED <<sessions, background, learned>>
    <2>1. Becomes(t, turn[t], Answering)
      BY <1>2, <1>4, <1>5, <1>8, SaysBecomes
    <2>2. Continues(t, turn[t])
      BY <1>8, <2>1 DEF Continues
    <2> QED
      BY <1>1, <1>5, <2>2, ContinuesKeeps
  <1> QED
    BY <1>3, <1>6, <1>7, <1>8

LEMMA CallsToolKeeps ==
  ASSUME Inv, NEW t \in Turns, CallsTool(t)
  PROVE  Inv'
  <1>0. /\ Sound(t, turn[t]) /\ turn[t] \in Turn /\ turn[t].stream \in Stream
        /\ setup \in Setups /\ turn \in [Turns -> Turn]
    BY TurnForm
  <1> USE <1>0
  <1>1. /\ turn[t].pc \in {"routing", "streaming"}
        /\ UNCHANGED <<setup, pending, sessions, background, restarts, learned>>
    BY DEF CallsTool, InStream
  <1>2. PICK name \in Names :
          IF Duplicate(setup.provider, turn[t].stream, name) THEN UNCHANGED <<turn, signatures>>
          ELSE LET c == Captures(setup.provider, turn[t].stream, name) IN
               /\ Asked(turn[t].stream) < setup.calls[t]
               /\ Step(t, [turn[t] EXCEPT !.stream = c])
               /\ signatures' \in
                    IF setup.provider = "gemini"
                    THEN {signatures, Remember(signatures, <<t, Len(c.calls)>>)}
                    ELSE {signatures}
    BY DEF CallsTool
  <1> DEFINE c == Captures(setup.provider, turn[t].stream, name)
             x == Reads(turn[t], c)
             id == <<t, Len(c.calls)>>
  <1>3. CASE UNCHANGED <<turn, signatures>>
    BY <1>1, <1>3, StutterKeeps DEF vars
  <1>4. CASE /\ Asked(turn[t].stream) < setup.calls[t] /\ Step(t, x)
             /\ signatures' \in {signatures, Remember(signatures, id)}
    <2>1. GoesOnFrom(t, turn[t].stream, c)
      BY <1>4, CapturesGoesOn DEF Sound, Faithful
    <2>2. Step(t, x) /\ signatures' \in {signatures, Remember(signatures, id)}
      BY <1>4
    <2> HIDE DEF c
    <2>3. /\ Sound(t, x) /\ x.pc = turn[t].pc /\ x.door = turn[t].door
          /\ x.session = turn[t].session /\ x.carried = turn[t].carried
      BY <2>1, StreamForm
    <2> HIDE DEF x
    <2>4. Becomes(t, turn[t], {turn[t].pc})
      BY <2>2, <2>3, StepBecomes
    <2>5. id \in Turns \X Nat
      <3>1. c.calls \in Seq(Call)
        BY <2>1 DEF GoesOnFrom, Stream
      <3>2. Len(c.calls) \in Nat
        BY <3>1, LenProperties
      <3> QED
        BY <3>2
    <2> HIDE DEF id
    <2>6. signatures' \in Seq(Turns \X Nat) /\ Len(signatures') <= MaxSignatures
      <3>1. PICK k \in Nat : k = Len(signatures)
        BY LenProperties DEF Inv, Types
      <3>2. signatures \in Seq(Turns \X Nat) /\ k <= MaxSignatures /\ MaxSignatures \in Nat \ {0}
        BY <3>1, StreamsAssumption DEF Inv, Types
      <3>3. CASE signatures' = signatures
        BY <3>1, <3>2, <3>3
      <3>4. CASE signatures' = Append(signatures, id) /\ ~(k >= MaxSignatures)
        BY <2>5, <3>1, <3>2, <3>4, AppendProperties
      <3>5. CASE signatures' = Append(Tail(signatures), id) /\ k >= MaxSignatures
        <4>1. signatures # <<>>
          BY <3>1, <3>2, <3>5
        <4>2. Tail(signatures) \in Seq(Turns \X Nat) /\ Len(Tail(signatures)) = k - 1
          BY <3>1, <3>2, <4>1, HeadTailProperties
        <4> QED
          BY <2>5, <3>2, <3>5, <4>2, AppendProperties
      <3> QED
        BY <2>2, <3>1, <3>3, <3>4, <3>5 DEF Remember
    <2>7. Onward(t)
      BY <1>1, <2>4 DEF Onward, Becomes, Before, Answering, After
    <2>8. Quiet(t)
      BY <1>1, <2>6 DEF Quiet
    <2>9. turn[t].pc \notin Late
      BY <1>1 DEF Late, After
    <2> QED
      BY <1>1, <2>4, <2>7, <2>8, <2>9, QuietStep
  <1> QED
    BY <1>2, <1>3, <1>4 DEF Reads

LEMMA StopsKeeps ==
  ASSUME Inv, NEW t \in Turns, Stops(t)
  PROVE  Inv'
  <1> DEFINE s == Ends(turn[t].stream)
             r == Reads(turn[t], s)
  <1>0. /\ Sound(t, turn[t]) /\ turn[t] \in Turn /\ turn[t].stream \in Stream
        /\ setup \in Setups /\ turn \in [Turns -> Turn]
    BY TurnForm
  <1> USE <1>0
  <1>1. /\ turn[t].pc \in {"routing", "streaming"}
        /\ UNCHANGED <<setup, signatures, pending, restarts>>
        /\ Routed(t, r) \/ Goes(t, r)
    BY DEF Stops, InStream, Reads
  <1>2. GoesOnFrom(t, turn[t].stream, s)
    BY EndsGoesOn DEF Sound, Faithful
  <1> HIDE DEF s
  <1>3. /\ Sound(t, r) /\ r.pc = turn[t].pc /\ r.door = turn[t].door
        /\ r.session = turn[t].session /\ r.carried = turn[t].carried
    BY <1>2, StreamForm
  <1> HIDE DEF r
  <1>4. r.pc \in Answering /\ turn[t].pc \in Answering \ {"excusing"}
    BY <1>1, <1>3 DEF Answering
  <1>5. Continues(t, r)
    BY <1>1, <1>3, <1>4, RoutedContinues, GoesContinues
  <1> QED
    BY <1>1, <1>3, <1>4, <1>5, ContinuesKeeps

\* The request is sent again: nothing was heard and no tool had started.
LEMMA AgainKeeps ==
  ASSUME Inv, NEW t \in Turns, InStream(t), Retriable(setup.provider, turn[t].stream),
         Step(t, [turn[t] EXCEPT !.stream = Again(@)]),
         UNCHANGED <<setup, signatures, pending, sessions, background, restarts, learned>>
  PROVE  Inv'
  <1> DEFINE r == turn[t]
             s == Again(r.stream)
             x == [r EXCEPT !.stream = s]
  <1>0. /\ Sound(t, turn[t]) /\ turn[t] \in Turn /\ turn[t].stream \in Stream
        /\ setup \in Setups /\ turn \in [Turns -> Turn]
    BY TurnForm
  <1> USE <1>0
  <1>1. s \in Stream /\ InOrder(s) /\ Bounded(t, s)
    BY AgainOpens
  <1>2. Step(t, x)
    OBVIOUS
  <1>3. ~r.stream.emitted /\ ~r.stream.over /\ r.pc \in {"routing", "streaming"}
    BY DEF Retriable, InStream
  <1>4. r.heard \cup r.buffer = {} /\ r.task = "none" /\ r.ran = {}
    BY <1>3 DEF Sound, Faithful, Executed, After
  <1> HIDE DEF s
  <1>5. /\ x \in Turn /\ x.stream = s /\ x.pc = r.pc /\ x.heard = r.heard
        /\ x.buffer = r.buffer /\ x.task = r.task /\ x.ran = r.ran /\ x.request = r.request
        /\ x.door = r.door /\ x.session = r.session /\ x.carried = r.carried
    BY <1>1 DEF Turn
  <1> HIDE DEF x
  <1>6. Sound(t, x)
    BY <1>1, <1>3, <1>4, <1>5 DEF Sound, Faithful, Executed, Whole
  <1>7. Becomes(t, r, {r.pc})
    BY <1>2, <1>5, <1>6, StepBecomes
  <1>8. Onward(t)
    BY <1>3, <1>7 DEF Onward, Becomes, Before, Answering, After
  <1>9. Quiet(t)
    BY DEF Quiet, Inv, Types
  <1>10. r.pc \notin Late
    BY <1>3 DEF Late, After
  <1> QED
    BY <1>7, <1>8, <1>9, <1>10, QuietStep

\* The request fails for good.
LEMMA FailsKeeps ==
  ASSUME Inv, NEW t \in Turns, InStream(t), Fails(t),
         UNCHANGED <<setup, signatures, pending, sessions, background, restarts, learned>>
  PROVE  Inv'
  <1> DEFINE s == [turn[t].stream EXCEPT !.over = TRUE]
             r == [turn[t] EXCEPT !.stream.over = TRUE, !.buffer = {}]
  <1>0. /\ Sound(t, turn[t]) /\ turn[t] \in Turn /\ turn[t].stream \in Stream
        /\ setup \in Setups /\ turn \in [Turns -> Turn]
    BY TurnForm
  <1> USE <1>0
  <1>1. /\ turn[t].pc \in {"routing", "streaming"}
        /\ Step(t, CASE r.door = "messaging" -> At(r, "closing")
                     [] r.door = "voice" /\ r.pc = "streaming" -> Leave(r, "dead")
                     [] OTHER -> At(r, "excusing"))
    BY DEF Fails, InStream
  <1>2. GoesOnFrom(t, turn[t].stream, s)
    <2>1. /\ s \in Stream /\ s.attempt = turn[t].stream.attempt
          /\ s.calls = turn[t].stream.calls /\ s.held = turn[t].stream.held /\ s.over
      BY DEF Stream
    <2> HIDE DEF s
    <2> QED
      BY <2>1 DEF GoesOnFrom, InOrder, Bounded, Asked, Sound, Faithful
  <1>3. /\ r \in Turn /\ r.stream = s /\ r.pc = turn[t].pc /\ r.heard = turn[t].heard
        /\ r.buffer = {} /\ r.task = turn[t].task /\ r.ran = turn[t].ran
        /\ r.request = turn[t].request /\ r.door = turn[t].door
        /\ r.session = turn[t].session /\ r.carried = turn[t].carried
    BY <1>2 DEF Turn, GoesOnFrom
  <1>4. s.over
    BY DEF Stream
  <1> HIDE DEF r, s
  <1>5. Sound(t, r)
    BY <1>2, <1>3, <1>4 DEF Sound, Faithful, Executed, Whole, GoesOnFrom
  <1>6. r.pc \notin {"idle"} \cup After
    BY <1>1, <1>3 DEF After
  <1>7. CASE r.door = "messaging"
    <2>1. Step(t, At(r, "closing"))
      BY <1>1, <1>7
    <2>2. Becomes(t, turn[t], {"closing"})
      BY <1>3, <1>5, <1>6, <2>1, AtBecomes DEF Awaits, Speaking
    <2>3. Onward(t)
      BY <1>1, <1>3, <1>7, <2>2 DEF Onward, Becomes, Before, Answering, After
    <2>4. Quiet(t)
      BY DEF Quiet, Inv, Types
    <2> QED
      BY <1>1, <2>2, <2>3, <2>4, QuietStep DEF Late, After
  <1>8. CASE r.door = "voice" /\ r.pc = "streaming"
    <2>1. Step(t, Leave(r, "dead"))
      BY <1>1, <1>8
    <2>2. /\ Sound(t, Leave(r, "dead")) /\ Leave(r, "dead").pc = "dead"
          /\ Leave(r, "dead").door = r.door /\ Leave(r, "dead").session = r.session
          /\ Leave(r, "dead").carried = r.carried
      BY <1>5, LeaveSound DEF After
    <2>3. Becomes(t, turn[t], {"dead"})
      BY <1>3, <2>1, <2>2, StepBecomes
    <2>4. Onward(t)
      BY <1>1, <2>3 DEF Onward, Becomes, Before, Answering, After
    <2>5. Quiet(t)
      BY DEF Quiet, Inv, Types
    <2> QED
      BY <1>1, <2>3, <2>4, <2>5, QuietStep DEF Late, After
  <1>9. CASE r.door # "messaging" /\ ~(r.door = "voice" /\ r.pc = "streaming")
    <2>1. Step(t, At(r, "excusing"))
      BY <1>1, <1>9
    <2>2. Becomes(t, turn[t], {"excusing"})
      BY <1>3, <1>5, <1>6, <2>1, AtBecomes DEF Awaits, Speaking
    <2>3. Onward(t)
      BY <1>1, <2>2 DEF Onward, Becomes, Before, Answering, After
    <2>4. Quiet(t)
      BY DEF Quiet, Inv, Types
    <2> QED
      BY <1>1, <2>2, <2>3, <2>4, QuietStep DEF Late, After
  <1> QED
    BY <1>7, <1>8, <1>9

LEMMA RequestFailsKeeps ==
  ASSUME Inv, NEW t \in Turns, RequestFails(t)
  PROVE  Inv'
  BY AgainKeeps, FailsKeeps DEF RequestFails

\* A turn stays where it is, and its tools go on.
LEMMA StaysKeeps ==
  ASSUME Inv, NEW t \in Turns, Becomes(t, turn[t], {turn[t].pc}),
         UNCHANGED <<setup, signatures, pending, sessions, background, restarts, learned>>
  PROVE  Inv'
  <1>1. Onward(t)
    BY DEF Onward, Becomes
  <1>2. Quiet(t)
    BY DEF Quiet, Inv, Types
  <1>3. turn[t].pc \in Late => turn'[t].pc \in Late
    BY DEF Becomes
  <1> QED
    BY <1>1, <1>2, <1>3, QuietStep

LEMMA ToolsStartKeeps ==
  ASSUME Inv, NEW t \in Turns, ToolsStart(t)
  PROVE  Inv'
  <1> DEFINE r == turn[t]
             x == [r EXCEPT !.task = "running", !.ran = @ \cup Range(r.stream.calls)]
  <1>0. Sound(t, r) /\ r \in Turn /\ r.stream \in Stream /\ turn \in [Turns -> Turn]
    BY TurnForm
  <1>1. r.task = "created" /\ Step(t, x)
    BY DEF ToolsStart
  <1>2. Range(r.stream.calls) \subseteq Call
    BY <1>0, RangeOfSeq DEF Stream
  <1>3. /\ x \in Turn /\ x.stream = r.stream /\ x.pc = r.pc /\ x.heard = r.heard
        /\ x.buffer = r.buffer /\ x.task = "running" /\ x.request = r.request
        /\ x.ran = r.ran \cup Range(r.stream.calls)
        /\ x.door = r.door /\ x.session = r.session /\ x.carried = r.carried
    BY <1>0, <1>2 DEF Turn
  <1> HIDE DEF x
  <1>4. Sound(t, x)
    BY <1>0, <1>1, <1>3 DEF Sound, Faithful, Executed, Whole
  <1>5. Becomes(t, r, {r.pc})
    BY <1>0, <1>1, <1>3, <1>4, StepBecomes
  <1> QED
    BY <1>5, StaysKeeps DEF ToolsStart

LEMMA ToolsReturnKeeps ==
  ASSUME Inv, NEW t \in Turns, ToolsReturn(t)
  PROVE  Inv'
  <1> DEFINE r == turn[t]
             x == [r EXCEPT !.task = "done"]
  <1>0. Sound(t, r) /\ r \in Turn /\ setup \in Setups /\ turn \in [Turns -> Turn]
    BY TurnForm
  <1>1. r.task = "running" /\ Step(t, IF x.pc \in Ended THEN Leave(x, x.pc) ELSE x)
    BY DEF ToolsReturn
  <1>2. /\ x \in Turn /\ x.stream = r.stream /\ x.pc = r.pc /\ x.heard = r.heard
        /\ x.buffer = r.buffer /\ x.task = "done" /\ x.request = r.request /\ x.ran = r.ran
        /\ x.door = r.door /\ x.session = r.session /\ x.carried = r.carried
    BY <1>0 DEF Turn
  <1> HIDE DEF x
  <1>3. Sound(t, x)
    BY <1>0, <1>1, <1>2 DEF Sound, Faithful, Executed, Whole
  <1>4. CASE x.pc \notin Ended
    BY <1>0, <1>1, <1>2, <1>3, <1>4, StepBecomes, StaysKeeps DEF ToolsReturn
  <1>5. CASE x.pc \in Ended
    <2>1. x.pc \in {"idle"} \cup After
      BY <1>5 DEF Ended, After
    <2>2. Becomes(t, r, {r.pc})
      <3>1. /\ Sound(t, Leave(x, x.pc)) /\ Leave(x, x.pc).pc = x.pc
            /\ Leave(x, x.pc).door = x.door /\ Leave(x, x.pc).session = x.session
            /\ Leave(x, x.pc).carried = x.carried
        BY <1>0, <1>3, <2>1, LeaveSound
      <3>2. Step(t, Leave(x, x.pc))
        BY <1>1, <1>5
      <3> QED
        BY <1>0, <1>2, <3>1, <3>2, StepBecomes
    <2> QED
      BY <2>2, StaysKeeps DEF ToolsReturn
  <1> QED
    BY <1>4, <1>5

\* A second request that is sent tells the calls that ran, and signs each or none.
LEMMA RequestWhole ==
  ASSUME Inv, NEW t \in Turns, Pairs(turn[t])
  PROVE  LET q == Request(t) IN
         /\ q \in [form: {"none", "plain", "native", "text"}, calls: SUBSET Call,
                   results: Nat, signed: Nat]
         /\ Cardinality(q.calls) = q.results /\ q.calls \subseteq turn[t].ran
         /\ q.form = "native" => q.signed = Cardinality(q.calls)
  <1> DEFINE calls == turn[t].stream.calls
             all == Range(calls)
             ids == {<<t, c.n>> : c \in all}
             signed == {id \in ids : Contains(signatures, id)}
  <1>1. /\ calls \in Seq(Call) /\ turn[t].ran \subseteq all
        /\ Len(calls) = Cardinality(turn[t].ran)
        /\ \A i \in 1..Len(calls) : calls[i].n = i
    BY TurnForm DEF Sound, Faithful, InOrder, Executed, Stream, Pairs
  <1>2. /\ IsFiniteSet(all) /\ Cardinality(all) \in Nat /\ Cardinality(all) <= Len(calls)
        /\ all \subseteq Call
    BY <1>1, RangeSize, RangeOfSeq
  <1>3. turn[t].ran = all
    <2>1. /\ IsFiniteSet(turn[t].ran) /\ Cardinality(turn[t].ran) <= Cardinality(all)
          /\ Cardinality(all) = Cardinality(turn[t].ran) => all = turn[t].ran
      BY <1>1, <1>2, FS_Subset
    <2>2. Cardinality(turn[t].ran) \in Nat
      BY <2>1, FS_CardinalityType
    <2> HIDE DEF all, calls
    <2> QED
      BY <1>1, <1>2, <2>1, <2>2
  <1>4. \A c, d \in all : c.n = d.n => c = d
    <2>1. \A c \in all : \E i \in 1..Len(calls) : c = calls[i]
      BY <1>1, LenProperties DEF Range
    <2> HIDE DEF all
    <2> QED
      BY <1>1, <2>1
  <1> HIDE DEF all
  <1>5. IsFiniteSet(ids) /\ Cardinality(ids) = Cardinality(all)
    <2> DEFINE f == [c \in all |-> <<t, c.n>>]
    <2>1. f \in [all -> ids] /\ \A c \in all : f[c] = <<t, c.n>>
      OBVIOUS
    <2>2. \A c, d \in all : f[c] = f[d] => c = d
      BY <1>4, <2>1
    <2>3. \A id \in ids : \E c \in all : f[c] = id
      BY <2>1
    <2> HIDE DEF f, ids
    <2>4. f \in Bijection(all, ids)
      BY <2>1, <2>2, <2>3 DEF Bijection, Injection, Surjection, IsInjective
    <2> QED
      BY <1>2, <2>4, FS_Bijection DEF ExistsBijection
  <1> HIDE DEF ids
  <1>6. /\ IsFiniteSet(signed) /\ Cardinality(signed) \in Nat
        /\ Native(signatures, ids) => signed = ids
    <2>1. IsFiniteSet(signed)
      BY <1>5, FS_Subset
    <2>2. Native(signatures, ids) => signed = ids
      BY DEF Native
    <2> QED
      BY <2>1, <2>2, FS_CardinalityType
  <1> HIDE DEF signed
  <1>7. /\ Request(t).calls = all /\ Request(t).results = Cardinality(all)
        /\ Request(t).signed = Cardinality(signed)
        /\ Request(t).form \in {"plain", "native", "text"}
        /\ Request(t).form = "native" => Native(signatures, ids)
    BY <1>3 DEF Request, all, ids, signed
  <1>8. Request(t) = [form |-> Request(t).form, calls |-> all,
                      results |-> Cardinality(all), signed |-> Cardinality(signed)]
    BY <1>3 DEF Request, all, ids, signed
  <1> QED
    BY <1>2, <1>3, <1>5, <1>6, <1>7, <1>8

\* A failure after the first stream.
LEMMA ExcusesKeeps ==
  ASSUME Inv, NEW t \in Turns, Excuses(t), turn[t].pc \in Answering \ {"excusing"},
         UNCHANGED <<setup, signatures, sessions, background, restarts, learned>>
  PROVE  Inv'
  <1> DEFINE n == [kind |-> "tool", of |-> t]
  <1>1. pending' = pending \cup {n} /\ Step(t, At(turn[t], "excusing"))
    BY DEF Excuses
  <1>2. Becomes(t, turn[t], {"excusing"})
    BY <1>1, TurnForm, AtBecomes DEF Answering, Awaits, After, Speaking
  <1>3. /\ turn' \in [Turns -> Turn] /\ (\A u \in Turns : Sound(u, turn[u]))'
        /\ \A u \in Turns \ {t} : turn'[u] = turn[u]
        /\ turn'[t].pc = "excusing" /\ turn'[t].carried = turn[t].carried
    BY <1>2, TurnsForm DEF Becomes
  <1>4. Histories' /\ (\A u \in Turns : Told(u))' /\ Placed'
    <2>1. Onward(t)
      BY <1>2 DEF Onward, Becomes, Before, Answering, After
    <2>2. Quiet(t)
      BY DEF Quiet, Inv, Types
    <2> QED
      BY <1>2, <2>1, <2>2, QuietKeeps
  <1>5. n \in Notices
    BY DEF Notices
  <1>6. Types'
    BY <1>1, <1>3, <1>5 DEF Inv, Types, background
  <1>7. Given'
    <2>1. ~Issued(n)
      <3>1. turn[t].pc \notin Late
        BY DEF Answering, Late, After
      <3> QED
        BY <3>1 DEF Inv, Given
    <2>2. \A u \in Turns : turn'[u].carried = turn[u].carried
      BY <1>3
    <2>3. \A m : Issued(m)' => Issued(m) \/ m = n
      BY <1>1, <2>2 DEF Issued
    <2>4. \A u \in Turns : turn[u].pc \in Late => turn'[u].pc \in Late
      BY <1>3 DEF Late
    <2>5. finished' = finished
      BY DEF background
    <2>6. ASSUME NEW u \in Turns, NEW m \in turn'[u].carried
          PROVE  m \notin pending' /\ \A v \in Turns : m \in turn'[v].carried => v = u
      BY <1>1, <2>1, <2>2, <2>6 DEF Inv, Given, Issued
    <2>7. ASSUME NEW u \in Turns
          PROVE  /\ Issued([kind |-> "task", of |-> u])' => u \in finished'
                 /\ Issued([kind |-> "tool", of |-> u])' => turn'[u].pc \in Late
      <3>1. Issued([kind |-> "task", of |-> u])' => Issued([kind |-> "task", of |-> u])
        BY <2>3
      <3>2. Issued([kind |-> "tool", of |-> u])' => Issued([kind |-> "tool", of |-> u]) \/ u = t
        BY <2>3
      <3>3. turn'[t].pc \in Late
        BY <1>3 DEF Late
      <3> QED
        BY <2>4, <2>5, <3>1, <3>2, <3>3 DEF Inv, Given
    <2> QED
      BY <2>6, <2>7 DEF Given
  <1> QED
    BY <1>3, <1>4, <1>6, <1>7 DEF Inv

LEMMA WordsKeeps ==
  ASSUME Inv, NEW t \in Turns, turn[t].pc \in {"tools", "spacing"}, Words(t),
         UNCHANGED <<setup, signatures, sessions, background, restarts, learned>>
  PROVE  Inv'
  <1> DEFINE r == turn[t]
             x == [At(r, "wording") EXCEPT !.request = Request(t)]
  <1>0. Sound(t, r) /\ r \in Turn /\ turn \in [Turns -> Turn]
    BY TurnForm
  <1>1. CASE Pairs(turn[t])
    <2>1. Step(t, x) /\ pending' = pending
      BY <1>1 DEF Words
    <2>2. /\ Request(t) \in [form: {"none", "plain", "native", "text"}, calls: SUBSET Call,
                             results: Nat, signed: Nat]
          /\ Cardinality(Request(t).calls) = Request(t).results
          /\ Request(t).calls \subseteq r.ran
          /\ Request(t).form = "native" => Request(t).signed = Cardinality(Request(t).calls)
      BY <1>1, RequestWhole
    <2>3. /\ x \in Turn /\ x.stream = r.stream /\ x.pc = "wording" /\ x.heard = r.heard
          /\ x.buffer = r.buffer /\ x.task = r.task /\ x.request = Request(t) /\ x.ran = r.ran
          /\ x.door = r.door /\ x.session = r.session /\ x.carried = r.carried
      BY <1>0, <2>2 DEF Turn, At, Awaits
    <2> HIDE DEF x
    <2>4. Sound(t, x)
      BY <1>0, <2>2, <2>3 DEF Sound, Faithful, Executed, Whole, After, Speaking
    <2>5. Becomes(t, r, {"wording"})
      BY <1>0, <2>1, <2>3, <2>4, StepBecomes
    <2>6. Onward(t)
      BY <2>5 DEF Onward, Becomes, Before, Answering, After
    <2>7. Quiet(t)
      BY DEF Quiet, Inv, Types
    <2> QED
      BY <2>1, <2>5, <2>6, <2>7, QuietStep DEF Late, After
  <1>2. CASE ~Pairs(turn[t])
    BY <1>2, ExcusesKeeps DEF Words, Answering
  <1> QED
    BY <1>1, <1>2

LEMMA CollectsKeeps ==
  ASSUME Inv, NEW t \in Turns, Collects(t)
  PROVE  Inv'
  <1>1. turn[t].pc = "tools"
    BY DEF Collects
  <1>2. CASE Step(t, At(turn[t], "spacing")) /\ UNCHANGED pending
    BY <1>1, <1>2, AtKeeps DEF Collects, Answering, Late, After, Speaking
  <1>3. CASE Words(t)
    BY <1>1, <1>3, WordsKeeps DEF Collects
  <1> QED
    BY <1>2, <1>3 DEF Collects

LEMMA WordingKeeps ==
  ASSUME Inv, NEW t \in Turns, Wording(t)
  PROVE  Inv'
  <1>0. Sound(t, turn[t]) /\ setup \in Setups /\ turn \in [Turns -> Turn]
    BY TurnForm
  <1>1. turn[t].pc = "wording" /\ UNCHANGED <<setup, signatures, restarts>>
    BY DEF Wording
  <1>2. CASE Step(t, Says(turn[t], "saying")) /\ UNCHANGED <<pending, sessions, background, learned>>
    <2>1. turn[t].stream.over \/ turn[t].stream.emitted
      BY <1>0, <1>1 DEF Sound, Faithful, Speaking
    <2>2. Becomes(t, turn[t], Answering)
      BY <1>0, <1>1, <1>2, <2>1, SaysBecomes DEF After
    <2>3. Continues(t, turn[t])
      BY <1>2, <2>2 DEF Continues
    <2> QED
      BY <1>1, <1>2, <2>3, ContinuesKeeps DEF Answering
  <1>3. CASE Excuses(t) /\ UNCHANGED <<sessions, background, learned>>
    BY <1>1, <1>3, ExcusesKeeps DEF Answering
  <1>4. CASE Close(t, turn[t]) /\ UNCHANGED pending
    BY <1>0, <1>1, <1>4, CloseCloses, ClosesKeeps DEF Answering
  <1> QED
    BY <1>2, <1>3, <1>4 DEF Wording, Says

LEMMA LearnsKeeps ==
  ASSUME Inv, NEW t \in Turns, Learns(t)
  PROVE  Inv'
  <1> DEFINE x == At(turn[t], "over")
  <1>0. Sound(t, turn[t]) /\ turn[t] \in Turn /\ turn \in [Turns -> Turn]
    BY TurnForm
  <1>1. turn[t].pc = "dozing" /\ Step(t, x)
    BY DEF Learns
  <1>2. /\ x \in Turn /\ x.pc = "over" /\ x.stream = turn[t].stream /\ x.buffer = turn[t].buffer
        /\ x.heard = turn[t].heard /\ x.task = turn[t].task /\ x.ran = turn[t].ran
        /\ x.request = turn[t].request /\ x.door = turn[t].door
        /\ x.session = turn[t].session /\ x.carried = turn[t].carried
    BY <1>0 DEF At, Turn, Ended
  <1> HIDE DEF x
  <1>3. Sound(t, x)
    BY <1>0, <1>1, <1>2 DEF Sound, Faithful, Executed, Whole, After, Speaking
  <1>4. Becomes(t, turn[t], {"over"})
    BY <1>0, <1>1, <1>2, <1>3, StepBecomes
  <1>5. Onward(t)
    BY <1>1, <1>4 DEF Onward, Becomes, Before, Answering, After
  <1>6. Quiet(t)
    BY <1>1 DEF Quiet, Learns, Inv, Types
  <1> QED
    BY <1>4, <1>5, <1>6, QuietStep DEF Learns, Becomes, Late, After

LEMMA ClosedKeeps ==
  ASSUME Inv, NEW t \in Turns, Closed(t)
  PROVE  Inv'
  <1> DEFINE r == turn[t]
  <1>0. Sound(t, r) /\ setup \in Setups /\ turn \in [Turns -> Turn]
    BY TurnForm
  <1>1. PICK route \in Routes :
          /\ Step(t, IF r.door = "text" THEN [Over(r, route) EXCEPT !.pc = "dozing"]
                     ELSE Over(r, route))
          /\ IF r.door \in {"text", "voice"} THEN Submits(t, route) ELSE UNCHANGED background
    BY RoutesOfForm DEF Closed
  <1>2. /\ r.pc = "closing"
        /\ UNCHANGED <<setup, signatures, pending, sessions, restarts, learned>>
    BY DEF Closed
  <1> DEFINE x == Over(r, route)
             y == [x EXCEPT !.pc = "dozing"]
  <1>3. /\ Sound(t, x) /\ x.pc = "over" /\ x.door = r.door /\ x.session = r.session
        /\ x.carried = r.carried /\ Sound(t, y)
    BY <1>0, OverSound
  <1>4. x \in Turn
    BY <1>3 DEF Sound
  <1>5. y.pc = "dozing" /\ y.door = r.door /\ y.session = r.session /\ y.carried = r.carried
    BY <1>3, <1>4 DEF Turn
  <1>6. Step(t, IF r.door = "text" THEN y ELSE x)
    BY <1>1
  <1> HIDE DEF x, y
  <1>7. /\ Becomes(t, r, {"over", "dozing"})
        /\ r.door # "text" => turn'[t].pc = "over"
    <2>1. CASE r.door = "text"
      BY <1>0, <1>3, <1>5, <1>6, <2>1, StepBecomes
    <2>2. CASE r.door # "text"
      <3>1. Becomes(t, r, {"over"})
        BY <1>0, <1>3, <1>6, <2>2, StepBecomes
      <3> QED
        BY <3>1 DEF Becomes
    <2> QED
      BY <2>1, <2>2
  <1>8. turn' \in [Turns -> Turn] /\ (\A u \in Turns : Sound(u, turn[u]))'
    BY <1>2, <1>7, TurnsForm
  <1>9. ~Worked(t) /\ (r.door # "messaging" => Holds(r.session, Answer(t))) /\ Told(t)
    BY <1>2 DEF Inv, Placed, Told, After
  <1>10. (\A u \in Turns : Told(u))' /\ Placed'
    <2>1. \A s \in Sessions : \A m : Holds(s, m)' <=> Holds(s, m)
      BY <1>2 DEF Holds
    <2>2. turn'[t].pc \in {"closing", "over", "dozing"} /\ turn'[t].pc \in After
      BY <1>7 DEF Becomes, After
    <2>3. \/ UNCHANGED background
          \/ turn'[t].pc \in After /\ \E way \in Routes : Submits(t, way)
      BY <1>1, <2>2
    <2>4. CASE Holds(r.session, Answer(t))
      <3>1. Holds(turn[t].session, Answer(t))'
        BY <1>2, <1>7, <2>4 DEF Holds, Becomes
      <3> QED
        BY <1>2, <1>7, <1>9, <2>1, <2>2, <2>3, <3>1, SubmitKeeps
    <2>5. CASE ~Holds(r.session, Answer(t))
      <3>1. /\ r.door = "messaging" /\ UNCHANGED background /\ turn'[t].pc # "dozing"
            /\ t \notin missions \cup learned
        BY <1>1, <1>7, <1>9, <2>5 DEF Told
      <3> QED
        BY <1>2, <1>7, <1>9, <2>1, <2>2, <3>1, SubmitKeeps
    <2> QED
      BY <2>4, <2>5
  <1>11. /\ queue' \in Seq(Turns) /\ missions' \subseteq Turns
         /\ worker' = worker /\ finished' = finished
    <2>1. CASE UNCHANGED background
      BY <2>1 DEF background, Inv, Types
    <2>2. CASE Submits(t, route)
      BY <1>9, <2>2, SubmitsForm
    <2> QED
      BY <1>1, <2>1, <2>2
  <1>12. Given'
    BY <1>2, <1>7, <1>11, GivenStays DEF Becomes, Late, After
  <1>13. Types'
    BY <1>2, <1>8, <1>11 DEF Inv, Types
  <1>14. Histories'
    BY <1>2 DEF Inv, Histories
  <1> QED
    BY <1>8, <1>10, <1>12, <1>13, <1>14 DEF Inv

\* The client leaves.
LEMMA BreaksKeeps ==
  ASSUME Inv, NEW t \in Turns, Breaks(t)
  PROVE  Inv'
  <1> DEFINE r == turn[t]
             d == [r EXCEPT !.task = "done"]
  <1>0. Sound(t, r) /\ r \in Turn /\ setup \in Setups /\ turn \in [Turns -> Turn]
    BY TurnForm
  <1>1. /\ r.pc \in Answering \cup {"closing"}
        /\ \/ Step(t, Leave(r, "dead"))
           \/ Step(t, Leave(d, "dead"))
    <2>1. [r EXCEPT !.task = IF r.pc = "tools" THEN "done" ELSE @] \in {r, d}
      BY <1>0 DEF Turn
    <2> QED
      BY <2>1 DEF Breaks, Answering
  <1>2. /\ d \in Turn /\ d.task = "done"
        /\ d.door = r.door /\ d.session = r.session /\ d.carried = r.carried
    BY <1>0 DEF Turn
  <1> HIDE DEF d
  <1>3. Becomes(t, r, {"dead"})
    <2>1. "dead" \in {"idle"} \cup After
      BY DEF After
    <2>2. CASE Step(t, Leave(r, "dead"))
      BY <1>0, <2>1, <2>2, LeaveSound, StepBecomes
    <2>3. CASE Step(t, Leave(d, "dead"))
      BY <1>0, <1>2, <2>1, <2>3, DroppedSound, StepBecomes
    <2> QED
      BY <1>1, <2>2, <2>3
  <1>4. Onward(t)
    BY <1>1, <1>3 DEF Onward, Becomes, Before, Answering, After
  <1>5. Quiet(t)
    BY DEF Quiet, Breaks, Inv, Types
  <1> QED
    BY <1>3, <1>4, <1>5, QuietStep DEF Breaks, Becomes, Late, After

LEMMA SpacedKeeps ==
  ASSUME Inv, NEW t \in Turns, Spaced(t)
  PROVE  Inv'
  BY WordsKeeps DEF Spaced

-----------------------------------------------------------------------------
(* The background *)

\* Another component asks for a notice.
LEMMA NotifyKeeps ==
  ASSUME Inv, NEW e \in Events, Notify(e)
  PROVE  Inv'
  <1> DEFINE n == [kind |-> "event", of |-> e]
  <1>1. /\ n \notin pending /\ \A t \in Turns : n \notin turn[t].carried
        /\ pending' = pending \cup {n}
        /\ setup' = setup /\ turn' = turn /\ signatures' = signatures /\ sessions' = sessions
        /\ queue' = queue /\ worker' = worker /\ missions' = missions /\ finished' = finished
        /\ restarts' = restarts /\ learned' = learned
    BY DEF Notify, background
  <1>2. n \in Notices
    BY DEF Notices
  <1>3. \A t \in Turns : n # [kind |-> "task", of |-> t] /\ n # [kind |-> "tool", of |-> t]
    OBVIOUS
  <1> HIDE DEF n
  <1>4. /\ Types' /\ Histories'
        /\ \A t \in Turns : /\ (Worked(t)' <=> Worked(t)) /\ (Queued(t)' <=> Queued(t))
                            /\ (Told(t)' <=> Told(t)) /\ (Sound(t, turn[t])' <=> Sound(t, turn[t]))
    BY <1>1, <1>2 DEF Inv, Types, Histories, Worked, Queued, Told, Holds, Sound, Bounded
  <1>5. Placed'
    BY <1>1, <1>4 DEF Inv, Placed
  <1>6. Given'
    <2>1. \A m : Issued(m)' => Issued(m) \/ m = n
      BY <1>1 DEF Issued
    <2> QED
      BY <1>1, <1>3, <2>1 DEF Inv, Given
  <1> QED
    BY <1>4, <1>5, <1>6 DEF Inv

\* The worker takes the oldest task.
LEMMA TakesTaskKeeps ==
  ASSUME Inv, TakesTask
  PROVE  Inv'
  <1>1. /\ worker.task = NoTurn /\ queue # <<>>
        /\ worker' = [task |-> Head(queue), round |-> 0] /\ queue' = Tail(queue)
        /\ setup' = setup /\ turn' = turn /\ signatures' = signatures /\ pending' = pending
        /\ sessions' = sessions /\ missions' = missions /\ finished' = finished
        /\ restarts' = restarts /\ learned' = learned
    BY DEF TakesTask
  <1>2. queue \in Seq(Turns)
    BY DEF Inv, Types
  <1>3. PICK k \in Nat : k = Len(queue)
    BY <1>2, LenProperties
  <1>4. /\ k >= 1 /\ Head(queue) \in Turns /\ Head(queue) = queue[1]
        /\ Tail(queue) \in Seq(Turns) /\ Len(Tail(queue)) = k - 1
        /\ \A i \in 1..(k - 1) : Tail(queue)[i] = queue[i + 1]
    BY <1>1, <1>2, <1>3, HeadTailProperties
  <1>5. queue' \in Seq(Turns) /\ worker'.task = queue[1] /\ queue[1] \in Turns
    BY <1>1, <1>4
  <1>6. \A i, j \in 1..k : queue[i] = queue[j] => i = j
    BY <1>3 DEF Inv, Placed
  <1>7. ASSUME NEW i \in 1..(k - 1) PROVE queue'[i] = queue[i + 1] /\ i + 1 \in 1..k /\ i + 1 # 1
    BY <1>1, <1>4
  <1>8. \A i, j \in 1..Len(queue') : queue'[i] = queue'[j] => i = j
    <2>1. Len(queue') = k - 1
      BY <1>1, <1>4
    <2>2. ASSUME NEW i \in 1..(k - 1), NEW j \in 1..(k - 1), queue'[i] = queue'[j] PROVE i = j
      <3>1. i + 1 = j + 1
        BY <1>6, <1>7, <2>2
      <3> QED
        BY <3>1
    <2> QED
      BY <2>1, <2>2
  <1>9. ASSUME NEW t \in Turns PROVE Queued(t)' => Queued(t) /\ worker'.task # t
    <2>1. SUFFICES ASSUME NEW i \in 1..(k - 1), queue'[i] = t
                   PROVE  Queued(t) /\ worker'.task # t
      BY <1>1, <1>4 DEF Queued
    <2>2. queue[i + 1] = t /\ i + 1 \in 1..k /\ i + 1 # 1 /\ 1 \in 1..k
      BY <1>4, <1>7, <2>1
    <2> QED
      BY <1>3, <1>5, <1>6, <2>2 DEF Queued
  <1>10. ASSUME NEW t \in Turns PROVE (worker'.task = t => Queued(t)) /\ (Worked(t)' => Worked(t))
    <2>1. worker'.task = t => Queued(t)
      BY <1>3, <1>4, <1>5 DEF Queued
    <2> QED
      BY <1>1, <1>9, <2>1 DEF Worked
  <1>11. Placed'
    BY <1>1, <1>8, <1>9, <1>10 DEF Inv, Placed
  <1>12. Types'
    <2>1. worker' \in [task: Turns \cup {NoTurn}, round: 0..MaxRounds]
      BY <1>1, <1>4, StreamsAssumption
    <2> QED
      BY <1>1, <1>5, <2>1 DEF Inv, Types
  <1>13. \A t \in Turns : Sound(t, turn[t])' /\ Told(t)'
    BY <1>1, <1>10 DEF Inv, Sound, Bounded, Told, Holds
  <1>14. Histories' /\ Given'
    BY <1>1 DEF Inv, Histories, Given, Issued
  <1> QED
    BY <1>11, <1>12, <1>13, <1>14 DEF Inv

\* The worker does a round of its task, or reports on it.
LEMMA ExecutesTaskKeeps ==
  ASSUME Inv, ExecutesTask
  PROVE  Inv'
  <1> DEFINE n == [kind |-> "task", of |-> worker.task]
  <1>1. /\ setup' = setup /\ turn' = turn /\ signatures' = signatures
        /\ sessions' = sessions /\ queue' = queue /\ missions' = missions
        /\ restarts' = restarts /\ learned' = learned /\ worker.task # NoTurn
    BY DEF ExecutesTask
  <1>2. /\ worker \in [task: Turns \cup {NoTurn}, round: 0..MaxRounds]
        /\ worker.task \in Turns /\ MaxRounds \in Nat
    BY <1>1, StreamsAssumption DEF Inv, Types
  <1>3. Histories' /\ \A t \in Turns : Sound(t, turn[t])'
    BY <1>1 DEF Inv, Histories, Sound, Bounded
  <1>4. CASE /\ worker.round < MaxRounds /\ worker' = [worker EXCEPT !.round = @ + 1]
             /\ UNCHANGED <<pending, finished>>
    <2>1. /\ worker' \in [task: Turns \cup {NoTurn}, round: 0..MaxRounds]
          /\ worker'.task = worker.task
      BY <1>2, <1>4
    <2>2. \A t \in Turns : (Worked(t)' <=> Worked(t)) /\ (Queued(t)' <=> Queued(t))
      BY <1>1, <1>4, <2>1 DEF Worked, Queued
    <2>3. Types' /\ Given'
      BY <1>1, <1>4, <2>1 DEF Inv, Types, Given, Issued
    <2>4. Placed' /\ \A t \in Turns : Told(t)'
      BY <1>1, <1>4, <2>1, <2>2 DEF Inv, Placed, Told, Holds
    <2> QED
      BY <1>3, <2>3, <2>4 DEF Inv
  <1>5. CASE Reports
    <2>1. /\ pending' = pending \cup {n} /\ finished' = finished \cup {worker.task}
          /\ worker' = [task |-> NoTurn, round |-> 0] /\ worker'.task = NoTurn
      BY <1>5 DEF Reports
    <2>2. \A t \in Turns : /\ (Worked(t)' => Worked(t)) /\ (Queued(t)' <=> Queued(t))
                           /\ worker'.task # t
      BY <1>1, <2>1, ConversationAssumption DEF Worked, Queued
    <2>3. n \in Notices
      BY <1>2 DEF Notices
    <2>4. Types'
      BY <1>1, <1>2, <2>1, <2>3 DEF Inv, Types
    <2>5. Placed'
      BY <1>1, <1>2, <2>1, <2>2 DEF Inv, Placed
    <2>6. \A t \in Turns : Told(t)'
      BY <1>1, <2>2 DEF Inv, Told, Holds
    <2>7. Given'
      <3>1. ~Issued(n)
        <4>1. worker.task \notin finished
          BY <1>2 DEF Inv, Placed
        <4> QED
          BY <1>2, <4>1 DEF Inv, Given
      <3>2. \A m : Issued(m)' => Issued(m) \/ m = n
        BY <1>1, <2>1 DEF Issued
      <3>3. \A t \in Turns : /\ [kind |-> "task", of |-> t] = n => t = worker.task
                             /\ [kind |-> "tool", of |-> t] # n
        OBVIOUS
      <3> HIDE DEF n
      <3> QED
        BY <1>1, <2>1, <3>1, <3>2, <3>3 DEF Inv, Given, Issued
    <2> QED
      BY <1>3, <2>4, <2>5, <2>6, <2>7 DEF Inv
  <1> QED
    BY <1>4, <1>5 DEF ExecutesTask

\* The process starts again: the turns under way are dead, the notices and the work lost.
LEMMA RestartKeeps ==
  ASSUME Inv, Restart
  PROVE  Inv'
  <1>1. /\ restarts < setup.stops /\ restarts' = restarts + 1
        /\ signatures' = <<>> /\ pending' = {} /\ queue' = <<>>
        /\ worker' = [task |-> NoTurn, round |-> 0] /\ worker'.task = NoTurn
        /\ setup' = setup /\ sessions' = sessions /\ missions' = missions
        /\ finished' = finished /\ learned' = learned
        /\ turn' = [t \in Turns |->
             Leave([turn[t] EXCEPT !.task = "done"], IF Live(t) THEN "dead" ELSE turn[t].pc)]
    BY DEF Restart
  <1>2. setup \in Setups /\ turn \in [Turns -> Turn] /\ restarts \in 0..setup.stops
    BY DEF Inv, Types
  <1>3. ASSUME NEW t \in Turns
        PROVE  /\ Sound(t, turn'[t]) /\ turn'[t].door = turn[t].door
               /\ turn'[t].session = turn[t].session /\ turn'[t].carried = turn[t].carried
               /\ turn'[t].pc = IF Live(t) THEN "dead" ELSE turn[t].pc
               /\ turn'[t].pc \in {"idle"} \cup After
               /\ turn'[t].pc # "dozing"
    <2> DEFINE r == [turn[t] EXCEPT !.task = "done"]
               pc == IF Live(t) THEN "dead" ELSE turn[t].pc
    <2>1. /\ r \in Turn /\ r.task = "done" /\ r.door = turn[t].door
          /\ r.session = turn[t].session /\ r.carried = turn[t].carried
      BY <1>2 DEF Turn
    <2>2. pc \in {"idle"} \cup After /\ pc # "dozing"
      BY <1>2 DEF Turn, Live, After, Ended, Awaits
    <2>3. turn'[t] = Leave(r, pc)
      BY <1>1
    <2> HIDE DEF r
    <2>4. /\ Sound(t, Leave(r, pc)) /\ Leave(r, pc).pc = pc /\ Leave(r, pc).door = r.door
          /\ Leave(r, pc).session = r.session /\ Leave(r, pc).carried = r.carried
      BY <1>2, <2>1, <2>2, DroppedSound
    <2> QED
      BY <2>1, <2>2, <2>3, <2>4
  <1>4. turn' \in [Turns -> Turn] /\ \A t \in Turns : Sound(t, turn[t])'
    <2>1. \A t \in Turns : turn'[t] \in Turn
      BY <1>3 DEF Sound
    <2>2. turn' = [t \in Turns |-> turn'[t]]
      BY <1>1
    <2> QED
      BY <1>1, <1>3, <2>1, <2>2 DEF Sound, Bounded
  <1>5. Len(<<>>) = 0 /\ \A S : <<>> \in Seq(S)
    BY EmptySeq
  <1>6. Types'
    <2>1. restarts' \in 0..setup.stops /\ 0 <= MaxSignatures
      <3>1. setup.stops \in Nat
        BY <1>2, ConversationAssumption DEF Setting
      <3> QED
        BY <1>1, <1>2, <3>1, StreamsAssumption
    <2>2. worker' \in [task: Turns \cup {NoTurn}, round: 0..MaxRounds]
      BY <1>1, StreamsAssumption
    <2> QED
      BY <1>1, <1>4, <1>5, <2>1, <2>2 DEF Inv, Types
  <1>7. ASSUME NEW t \in Turns
        PROVE  /\ ~Queued(t)' /\ worker'.task # t
               /\ Worked(t)' => t \in finished
               /\ turn[t].pc \in After => turn'[t].pc \in After
               /\ turn[t].pc \in Late => turn'[t].pc \in Late
    <2>1. ~Queued(t)' /\ worker'.task # t
      BY <1>1, <1>5, ConversationAssumption DEF Queued
    <2>2. turn[t].pc \in Late => turn[t].pc \in Awaits \cup After
      BY DEF Late, Awaits
    <2> QED
      BY <1>1, <1>3, <2>1, <2>2 DEF Worked, Live, After, Late
  <1>8. Placed'
    <2>1. \A t \in Turns : Worked(t)' => turn'[t].pc \in After
      BY <1>7 DEF Inv, Placed, Worked
    <2> QED
      BY <1>1, <1>5, <1>7, <2>1 DEF Placed
  <1>9. ASSUME NEW t \in Turns PROVE Told(t)'
    <2>1. \A s \in Sessions : \A m : Holds(s, m)' <=> Holds(s, m)
      BY <1>1 DEF Holds
    <2>2. turn'[t].pc \in Before \cup Answering => turn[t].pc \in Before
      BY <1>3 DEF Before, Answering, After
    <2>3. turn'[t].pc \notin Answering \cup {"closing", "dozing"}
      BY <1>3 DEF Answering, After
    <2>4. turn[t].session \in Sessions
      BY <1>2 DEF Turn
    <2> QED
      BY <1>1, <1>3, <1>7, <2>1, <2>2, <2>3, <2>4 DEF Inv, Told, Worked
  <1>10. Given'
    <2>1. \A n : Issued(n)' => Issued(n)
      BY <1>1, <1>3 DEF Issued
    <2> QED
      BY <1>1, <1>3, <1>7, <2>1 DEF Inv, Given
  <1>11. Histories'
    BY <1>1 DEF Inv, Histories
  <1> QED
    BY <1>4, <1>6, <1>8, <1>9, <1>10, <1>11 DEF Inv

-----------------------------------------------------------------------------
(* The invariant *)

LEMMA InitInv == Init => Inv
  <1> SUFFICES ASSUME Init PROVE Inv
    OBVIOUS
  <1>1. /\ setup \in Setups /\ turn = [t \in Turns |-> Fresh]
        /\ signatures = <<>> /\ pending = {} /\ sessions = [s \in Sessions |-> <<>>]
        /\ queue = <<>> /\ worker = [task |-> NoTurn, round |-> 0] /\ missions = {}
        /\ restarts = 0 /\ finished = {} /\ learned = {}
    BY DEF Init
  <1>2. Len(<<>>) = 0 /\ \A S : <<>> \in Seq(S)
    BY EmptySeq
  <1>3. /\ \A t \in Turns : Sound(t, turn[t])
        /\ \A t \in Turns : turn[t] = Fresh
        /\ Fresh.pc = "idle" /\ Fresh.carried = {}
    BY <1>1, FreshSound DEF Fresh
  <1>4. turn \in [Turns -> Turn]
    BY <1>1, <1>3 DEF Sound
  <1>5. worker \in [task: Turns \cup {NoTurn}, round: 0..MaxRounds] /\ worker.task = NoTurn
    BY <1>1, StreamsAssumption
  <1>6. Types
    <2>1. restarts \in 0..setup.stops /\ 0 <= MaxSignatures
      BY <1>1, StreamsAssumption, ConversationAssumption DEF Setting
    <2> QED
      BY <1>1, <1>2, <1>4, <1>5, <2>1 DEF Types
  <1>7. /\ \A s \in Sessions : sessions[s] = <<>>
        /\ \A s \in Sessions : \A m : ~Holds(s, m)
        /\ \A t \in Turns : ~Queued(t) /\ ~Worked(t)
    BY <1>1, <1>2, <1>5, ConversationAssumption DEF Holds, Queued, Worked
  <1>8. Histories
    BY <1>2, <1>7 DEF Histories
  <1>9. \A t \in Turns : Told(t)
    BY <1>1, <1>3, <1>7 DEF Told, Before, Answering
  <1>10. Placed
    BY <1>1, <1>2, <1>5, <1>7, ConversationAssumption DEF Placed
  <1>11. Given
    BY <1>1, <1>3 DEF Given, Issued
  <1> QED
    BY <1>3, <1>6, <1>8, <1>9, <1>10, <1>11 DEF Inv

LEMMA NextInv == Inv /\ [Next]_vars => Inv'
  <1> SUFFICES ASSUME Inv, [Next]_vars PROVE Inv'
    OBVIOUS
  <1>1. ASSUME NEW t \in Turns,
               \/ Receive(t) \/ Ask(t) \/ Text(t) \/ CallsTool(t) \/ Stops(t) \/ RequestFails(t)
               \/ Sent(t) \/ ToolsStart(t) \/ ToolsReturn(t) \/ Collects(t) \/ Spaced(t)
               \/ Wording(t) \/ Closed(t) \/ Learns(t) \/ Breaks(t)
        PROVE  Inv'
    BY <1>1, ReceiveKeeps, AskKeeps, TextKeeps, CallsToolKeeps, StopsKeeps, RequestFailsKeeps,
       SentKeeps, ToolsStartKeeps, ToolsReturnKeeps, CollectsKeeps, SpacedKeeps, WordingKeeps,
       ClosedKeeps, LearnsKeeps, BreaksKeeps
  <1>2. ASSUME NEW e \in Events, Notify(e) PROVE Inv'
    BY <1>2, NotifyKeeps
  <1>3. CASE TakesTask
    BY <1>3, TakesTaskKeeps
  <1>4. CASE ExecutesTask
    BY <1>4, ExecutesTaskKeeps
  <1>5. CASE Restart
    BY <1>5, RestartKeeps
  <1>6. CASE UNCHANGED vars
    BY <1>6, StutterKeeps
  <1> QED
    BY <1>1, <1>2, <1>3, <1>4, <1>5, <1>6 DEF Next

\* The inductive invariant holds throughout: what each turn has heard, gathered and run
\* comes from its stream, the histories and the background work agree, notices are given once.
THEOREM Invariance == Spec => []Inv
  <1>1. Init => Inv
    BY InitInv
  <1>2. Inv /\ [Next]_vars => Inv'
    BY NextInv
  <1> QED
    BY <1>1, <1>2, PTL DEF Spec

-----------------------------------------------------------------------------
(* What the runs check *)

\* The model-checked type invariant.
THEOREM TypeCorrect == Spec => []TypeOK
  <1>1. Inv => TypeOK
    <2> SUFFICES ASSUME Inv PROVE TypeOK
      OBVIOUS
    <2>1. \A s \in Sessions : Range(sessions[s]) \subseteq Message
      BY RangeOfSeq DEF Inv, Types
    <2> QED
      BY <2>1 DEF Inv, Types, TypeOK, Message
  <1> QED
    BY <1>1, Invariance, PTL

LEMMA AtMostOne ==
  ASSUME NEW S, \A x, y \in S : x = y
  PROVE  IsFiniteSet(S) /\ Cardinality(S) \in Nat /\ Cardinality(S) <= 1
         /\ (S = {} => Cardinality(S) = 0)
  <1>1. CASE S = {}
    <2>1. IsFiniteSet(S) /\ Cardinality(S) = 0
      BY <1>1, FS_EmptySet
    <2> QED
      BY <2>1
  <1>2. CASE S # {}
    <2>1. PICK x \in S : TRUE
      BY <1>2
    <2>2. S = {x}
      BY <2>1
    <2>3. IsFiniteSet(S) /\ Cardinality(S) = 1
      BY <2>2, FS_Singleton, Zenon
    <2> QED
      BY <1>2, <2>3
  <1> QED
    BY <1>1, <1>2

\* All that a client hears and all the calls that run come from one attempt of the
\* request, whichever provider, however often the request fails and is sent again.
THEOREM OneSpeaks == Spec => []OneAttemptSpeaks
  <1>1. Inv => OneAttemptSpeaks
    <2> SUFFICES ASSUME Inv, NEW t \in Turns
                 PROVE  Cardinality(turn[t].heard \cup {c.attempt : c \in turn[t].ran}) <= 1
      BY DEF OneAttemptSpeaks
    <2>1. turn[t].heard \subseteq {turn[t].stream.attempt}
      BY TurnForm DEF Sound, Faithful
    <2>2. \A c \in turn[t].ran : c.attempt = turn[t].stream.attempt
      BY TurnForm DEF Sound, Executed, Faithful, InOrder, Range, Stream
    <2>3. \A x \in turn[t].heard \cup {c.attempt : c \in turn[t].ran} : x = turn[t].stream.attempt
      BY <2>1, <2>2
    <2> HIDE DEF Inv
    <2> QED
      BY <2>3, AtMostOne
  <1> QED
    BY <1>1, Invariance, PTL

\* The work submitted for a turn and what the memory learned of it rest on a history that
\* holds its question, then its answer, each once, over every interleaving and restart.
THEOREM HistoryHolds == Spec => []HistoryHoldsEveryAnswer
  <1>1. Inv => HistoryHoldsEveryAnswer
    <2> SUFFICES ASSUME Inv, NEW t \in Turns
                 PROVE  LET s == sessions[turn[t].session]
                            q == Positions(Question(t), s)  a == Positions(Answer(t), s) IN
                        /\ Cardinality(q) <= 1 /\ Cardinality(a) <= 1
                        /\ \A i \in a : \E j \in q : j < i
                        /\ t \in Range(queue) \cup {worker.task} \cup finished \cup missions \cup learned
                           => a # {}
      BY DEF HistoryHoldsEveryAnswer
    <2> DEFINE s == sessions[turn[t].session]
               q == Positions(Question(t), s)
               a == Positions(Answer(t), s)
    <2>1. turn[t].session \in Sessions /\ s \in Seq(Message) /\ queue \in Seq(Turns)
      BY DEF Inv, Types, Turn
    <2>2. \A i, j \in 1..Len(s) : s[i] = s[j] => i = j
      BY <2>1 DEF Inv, Histories
    <2>3. (\A i, j \in q : i = j) /\ (\A i, j \in a : i = j)
      BY <2>2 DEF Positions
    <2>4. Cardinality(q) <= 1 /\ Cardinality(a) <= 1
      BY <2>3, AtMostOne
    <2>5. ASSUME NEW i \in a PROVE \E j \in q : j < i
      <3>1. i \in 1..Len(s) /\ s[i] = Answer(t)
        BY DEF Positions
      <3>2. PICK j \in 1..(i - 1) : s[j] = Question(t)
        BY <2>1, <3>1 DEF Inv, Histories
      <3>3. PICK k \in Nat : k = Len(s)
        BY <2>1, LenProperties
      <3>4. j \in 1..k /\ j < i
        BY <3>1, <3>3
      <3> QED
        BY <3>2, <3>3, <3>4 DEF Positions
    <2>6. ASSUME t \in Range(queue) \cup {worker.task} \cup finished \cup missions \cup learned
          PROVE  a # {}
      <3>1. t \in Range(queue) => Queued(t)
        BY <2>1, RangeOfSeq DEF Queued, Range
      <3>2. Holds(turn[t].session, Answer(t))
        BY <2>6, <3>1 DEF Inv, Told, Worked
      <3> QED
        BY <3>2 DEF Holds, Positions
    <2> QED
      BY <2>4, <2>5, <2>6
  <1> QED
    BY <1>1, Invariance, PTL

\* Background work of a turn waits, runs or is done, once.
THEOREM WorkOnce == Spec => []WorkIsDoneOnce
  <1>1. Inv => WorkIsDoneOnce
    <2> SUFFICES ASSUME Inv, NEW t \in Turns
                 PROVE  Cardinality(Positions(t, queue)) + (IF worker.task = t THEN 1 ELSE 0)
                          + (IF t \in finished THEN 1 ELSE 0) <= 1
      BY DEF WorkIsDoneOnce
    <2> DEFINE p == Positions(t, queue)
    <2>1. \A i, j \in p : i = j
      BY DEF Positions, Inv, Placed
    <2>2. /\ Cardinality(p) \in Nat /\ Cardinality(p) <= 1
          /\ p = {} => Cardinality(p) = 0
      BY <2>1, AtMostOne
    <2>3. /\ p # {} => worker.task # t /\ t \notin finished
          /\ worker.task = t => t \notin finished
      BY DEF Positions, Inv, Placed, Queued
    <2> HIDE DEF p
    <2> QED
      BY <2>2, <2>3 DEF p
  <1> QED
    BY <1>1, Invariance, PTL

\* A notice waits in the queue or was given to one turn, never to two.
THEOREM NoticeOnce == Spec => []ServedOnce
  <1>1. Inv => ServedOnce
    <2> SUFFICES ASSUME Inv, NEW n \in Notices
                 PROVE  Cardinality({t \in Turns : n \in turn[t].carried})
                          + (IF n \in pending THEN 1 ELSE 0) <= 1
      BY DEF ServedOnce
    <2> DEFINE S == {t \in Turns : n \in turn[t].carried}
    <2>1. \A t, u \in S : t = u
      BY DEF Inv, Given
    <2>2. n \in pending => S = {}
      BY DEF Inv, Given
    <2>3. Cardinality(S) \in Nat /\ Cardinality(S) <= 1 /\ (S = {} => Cardinality(S) = 0)
      BY <2>1, AtMostOne
    <2> HIDE DEF S
    <2> QED
      BY <2>2, <2>3 DEF S
  <1> QED
    BY <1>1, Invariance, PTL

\* The second request tells only calls that ran, each with its result, and is in the
\* native form only with a signature for each of them.
THEOREM RequestTells == Spec => []RequestIsWhole
  <1>1. Inv => RequestIsWhole
    BY DEF Inv, Sound, Whole, RequestIsWhole
  <1> QED
    BY <1>1, Invariance, PTL

-----------------------------------------------------------------------------
(* The tools of a turn run once *)

\* Nothing new has run in x.
Idle(r, x) == "ran" \in DOMAIN x /\ x.ran \in {r.ran, {}}

LEMMA RanForm ==
  ASSUME NEW r, "ran" \in DOMAIN r
  PROVE  /\ \A pc : Idle(r, At(r, pc)) /\ Idle(r, Leave(r, pc)) /\ Idle(r, Says(r, pc))
         /\ \A route : Idle(r, Over(r, route)) /\ Idle(r, [Over(r, route) EXCEPT !.pc = "dozing"])
         /\ Idle(r, Resumed(r)) /\ Resumed(r).ran = r.ran
         /\ \A s : Idle(r, Reads(r, s))
  <1>1. \A pc : "ran" \in DOMAIN At(r, pc) /\ At(r, pc).ran = r.ran
    BY DEF At
  <1>2. \A pc : Idle(r, Leave(r, pc))
    BY DEF Leave, At, Idle
  <1>3. \A route : Idle(r, Over(r, route)) /\ Idle(r, [Over(r, route) EXCEPT !.pc = "dozing"])
    BY <1>2 DEF Over, Idle
  <1>4. Idle(r, Resumed(r)) /\ Resumed(r).ran = r.ran
    BY DEF Resumed, Idle
  <1>5. (\A pc : Idle(r, Says(r, pc))) /\ \A s : Idle(r, Reads(r, s))
    BY DEF Says, At, Reads, Idle
  <1> QED
    BY <1>1, <1>2, <1>3, <1>4, <1>5 DEF Idle

\* Only turn t makes a step, and nothing new runs in it.
Rests(t, r) == turn' = [turn EXCEPT ![t] = turn'[t]] /\ Idle(r, turn'[t])

LEMMA StepRests ==
  ASSUME turn \in [Turns -> Turn], NEW t \in Turns, NEW r, NEW x, Step(t, x), Idle(r, x)
  PROVE  Rests(t, r)
  BY DEF Step, Rests, Idle

LEMMA GoesRests ==
  ASSUME turn \in [Turns -> Turn], NEW t \in Turns, NEW r, "ran" \in DOMAIN r,
         Close(t, r) \/ Goes(t, r) \/ Routed(t, r)
  PROVE  Rests(t, r)
  <1>1. ASSUME NEW q, "ran" \in DOMAIN q, q.ran = r.ran, Close(t, q) PROVE Rests(t, r)
    <2>1. PICK x : Step(t, x) /\ Idle(q, x)
      BY <1>1, RanForm DEF Close
    <2> QED
      BY <1>1, <2>1, StepRests DEF Idle
  <1>2. ASSUME NEW q, "ran" \in DOMAIN q, q.ran = r.ran, Goes(t, q) PROVE Rests(t, r)
    <2> DEFINE e == [q EXCEPT !.buffer = {}]
               x == [At(q, "sending") EXCEPT !.buffer = {}, !.heard = @ \cup q.buffer]
    <2>1. "ran" \in DOMAIN e /\ e.ran = r.ran
      BY <1>2
    <2>2. "ran" \in DOMAIN x /\ x.ran = r.ran
      BY <1>2 DEF At
    <2>3. Step(t, x) \/ Rest(t, e) \/ Close(t, e)
      BY <1>2 DEF Goes
    <2> HIDE DEF e, x
    <2>4. CASE Step(t, x)
      BY <2>2, <2>4, StepRests DEF Idle
    <2>5. CASE Rest(t, e)
      <3>1. \/ Step(t, At(e, "streaming"))
            \/ Step(t, At(Resumed(e), "tools"))
        BY <2>5 DEF Rest
      <3>2. Idle(r, At(e, "streaming"))
        BY <2>1, RanForm DEF Idle
      <3>3. "ran" \in DOMAIN Resumed(e) /\ Resumed(e).ran = r.ran
        BY <2>1, RanForm DEF Idle
      <3>4. Idle(r, At(Resumed(e), "tools"))
        BY <3>3, RanForm DEF Idle
      <3> QED
        BY <3>1, <3>2, <3>4, StepRests
    <2>6. CASE Close(t, e)
      BY <1>1, <2>1, <2>6
    <2> QED
      BY <2>3, <2>4, <2>5, <2>6
  <1>3. ASSUME Routed(t, r) PROVE Rests(t, r)
    <2> DEFINE q == [r EXCEPT !.tagged = TRUE]
    <2>1. "ran" \in DOMAIN q /\ q.ran = r.ran
      OBVIOUS
    <2>2. Step(t, At(q, "opening")) \/ Goes(t, q)
      BY <1>3 DEF Routed
    <2> HIDE DEF q
    <2>3. Idle(r, At(q, "opening"))
      BY <2>1, RanForm DEF Idle
    <2> QED
      BY <1>2, <2>1, <2>2, <2>3, StepRests
  <1> QED
    BY <1>1, <1>2, <1>3

\* A step of turn t, other than the start of its tools.
LEMMA TurnRests ==
  ASSUME Inv, NEW t \in Turns,
         \/ Receive(t) \/ Ask(t) \/ Text(t) \/ CallsTool(t) \/ Stops(t) \/ RequestFails(t)
         \/ Sent(t) \/ ToolsReturn(t) \/ Collects(t) \/ Spaced(t)
         \/ Wording(t) \/ Closed(t) \/ Learns(t) \/ Breaks(t)
  PROVE  Rests(t, turn[t]) \/ turn' = turn
  <1> DEFINE r == turn[t]
  <1>1. turn \in [Turns -> Turn] /\ r \in Turn /\ "ran" \in DOMAIN r
    BY TurnForm DEF Turn
  <1>2. CASE Receive(t)
    <2>1. PICK s \in Sessions :
            Step(t, [Fresh EXCEPT !.pc = "recall", !.door = setup.door[t], !.session = s,
                                  !.carried = pending])
      BY <1>2 DEF Receive
    <2> DEFINE x == [Fresh EXCEPT !.pc = "recall", !.door = setup.door[t], !.session = s,
                                  !.carried = pending]
    <2>2. Idle(r, x) /\ Step(t, x)
      BY <2>1 DEF Idle, Fresh
    <2> QED
      BY <1>1, <2>2, StepRests
  <1>3. CASE Ask(t)
    BY <1>1, <1>3, RanForm, StepRests DEF Ask
  <1>4. CASE Text(t)
    <2> DEFINE q == Reads(r, Emits(r.stream))
               b == Gathers(q)
    <2>1. "ran" \in DOMAIN q /\ q.ran = r.ran
      BY <1>1 DEF Reads
    <2>2. "ran" \in DOMAIN b /\ b.ran = r.ran
      BY <2>1 DEF Gathers
    <2>3. Step(t, b) \/ Routed(t, b) \/ Step(t, Says(q, "sending"))
      BY <1>4 DEF Text, Reads, Gathers, Says
    <2> HIDE DEF b, q
    <2>4. Idle(r, b) /\ Idle(r, Says(q, "sending"))
      BY <2>1, <2>2, RanForm DEF Idle
    <2>5. CASE Routed(t, b)
      BY <1>1, <2>2, <2>5, GoesRests DEF Rests, Idle
    <2> QED
      BY <1>1, <2>3, <2>4, <2>5, StepRests
  <1>5. CASE CallsTool(t)
    <2>1. turn' = turn \/ \E s : Step(t, Reads(r, s))
      BY <1>5 DEF CallsTool, Reads
    <2> QED
      BY <1>1, <2>1, RanForm, StepRests
  <1>6. CASE Stops(t)
    <2> DEFINE q == Reads(r, Ends(r.stream))
    <2>1. "ran" \in DOMAIN q /\ q.ran = r.ran
      BY <1>1 DEF Reads
    <2>2. Routed(t, q) \/ Goes(t, q)
      BY <1>6 DEF Stops, Reads
    <2> HIDE DEF q
    <2> QED
      BY <1>1, <2>1, <2>2, GoesRests DEF Rests, Idle
  <1>7. CASE RequestFails(t)
    <2> DEFINE q == [r EXCEPT !.stream.over = TRUE, !.buffer = {}]
    <2>1. "ran" \in DOMAIN q /\ q.ran = r.ran
      BY <1>1
    <2>2. \/ \E s : Step(t, Reads(r, s))
          \/ \E pc : Step(t, At(q, pc)) \/ Step(t, Leave(q, pc))
      BY <1>7 DEF RequestFails, Fails, Reads
    <2> HIDE DEF q
    <2>3. \A pc : Idle(r, At(q, pc)) /\ Idle(r, Leave(q, pc))
      BY <2>1, RanForm DEF Idle
    <2> QED
      BY <1>1, <2>2, <2>3, RanForm, StepRests
  <1>8. CASE Sent(t)
    <2> DEFINE q == Resumed(r)
    <2>1. "ran" \in DOMAIN q /\ q.ran = r.ran
      BY <1>1, RanForm DEF Idle
    <2>2. Goes(t, r) \/ Goes(t, q) \/ Step(t, At(r, "wording")) \/ Close(t, r)
      BY <1>8 DEF Sent
    <2> HIDE DEF q
    <2>3. CASE Goes(t, q)
      BY <1>1, <2>1, <2>3, GoesRests DEF Rests, Idle
    <2>4. CASE Step(t, At(r, "wording"))
      BY <1>1, <2>4, RanForm, StepRests
    <2> QED
      BY <1>1, <2>2, <2>3, <2>4, GoesRests
  <1>9. CASE ToolsReturn(t)
    <2> DEFINE q == [r EXCEPT !.task = "done"]
    <2>1. "ran" \in DOMAIN q /\ q.ran = r.ran
      BY <1>1
    <2>2. Step(t, q) \/ \E pc : Step(t, Leave(q, pc))
      BY <1>9 DEF ToolsReturn
    <2> HIDE DEF q
    <2>3. Idle(r, q) /\ \A pc : Idle(r, Leave(q, pc))
      BY <2>1, RanForm DEF Idle
    <2> QED
      BY <1>1, <2>2, <2>3, StepRests
  <1>10. CASE Collects(t) \/ Spaced(t) \/ Wording(t)
    <2> DEFINE x == [At(r, "wording") EXCEPT !.request = Request(t)]
    <2>1. Idle(r, x)
      BY <1>1 DEF At, Idle
    <2>2. \/ \E pc : Step(t, At(r, pc)) \/ Step(t, Says(r, pc))
          \/ Step(t, x) \/ Close(t, r)
      BY <1>10 DEF Collects, Spaced, Words, Excuses, Wording, Says
    <2> HIDE DEF x
    <2> QED
      BY <1>1, <2>1, <2>2, RanForm, StepRests, GoesRests
  <1>11. CASE Closed(t)
    <2>1. PICK route \in RoutesOf(r) :
            Step(t, IF r.door = "text" THEN [Over(r, route) EXCEPT !.pc = "dozing"]
                    ELSE Over(r, route))
      BY <1>11 DEF Closed
    <2> QED
      BY <1>1, <2>1, RanForm, StepRests
  <1>12. CASE Learns(t)
    BY <1>1, <1>12, RanForm, StepRests DEF Learns
  <1>13. CASE Breaks(t)
    <2> DEFINE q == [r EXCEPT !.task = IF r.pc = "tools" THEN "done" ELSE @]
    <2>1. "ran" \in DOMAIN q /\ q.ran = r.ran
      BY <1>1
    <2>2. Step(t, Leave(r, "dead")) \/ Step(t, Leave(q, "dead"))
      BY <1>13 DEF Breaks
    <2> HIDE DEF q
    <2>3. Idle(r, Leave(q, "dead"))
      BY <2>1, RanForm DEF Idle
    <2> QED
      BY <1>1, <2>2, <2>3, RanForm, StepRests
  <1> QED
    BY <1>2, <1>3, <1>4, <1>5, <1>6, <1>7, <1>8, <1>9, <1>10, <1>11, <1>12, <1>13

\* The tools of a turn are executed in one go: no step adds a call to those that ran.
THEOREM ToolsOnce == Spec => ToolsRunOnce
  <1> DEFINE Once == \A t \in Turns : turn[t].ran # {} => turn'[t].ran \in {turn[t].ran, {}}
  <1>1. Inv /\ [Next]_vars => [Once]_vars
    <2> SUFFICES ASSUME Inv, Next PROVE Once
      OBVIOUS
    <2>0. turn \in [Turns -> Turn] /\ \A t \in Turns : "ran" \in DOMAIN turn[t]
      BY DEF Inv, Types, Turn
    <2>1. ASSUME NEW t \in Turns, Rests(t, turn[t]) PROVE Once
      BY <2>0, <2>1 DEF Rests, Idle
    <2>2. CASE turn' = turn
      BY <2>2
    <2>3. ASSUME NEW t \in Turns, ToolsStart(t) PROVE Once
      <3>1. turn[t].ran = {}
        BY <2>3, TurnForm DEF ToolsStart, Sound, Executed
      <3>2. \A u \in Turns \ {t} : turn'[u] = turn[u]
        BY <2>0, <2>3 DEF ToolsStart, Step
      <3> QED
        BY <3>1, <3>2
    <2>4. CASE Restart
      <3>1. ASSUME NEW t \in Turns PROVE turn'[t].ran \in {turn[t].ran, {}}
        <4> DEFINE q == [turn[t] EXCEPT !.task = "done"]
        <4>1. "ran" \in DOMAIN q /\ q.ran = turn[t].ran
          BY <2>0
        <4>2. turn'[t] = Leave(q, IF Live(t) THEN "dead" ELSE turn[t].pc)
          BY <2>4 DEF Restart
        <4> HIDE DEF q
        <4> QED
          BY <4>1, <4>2, RanForm DEF Idle
      <3> QED
        BY <3>1
    <2>5. CASE TakesTask \/ ExecutesTask \/ \E e \in Events : Notify(e)
      BY <2>2, <2>5 DEF TakesTask, ExecutesTask, Notify
    <2>6. ASSUME NEW t \in Turns,
                 \/ Receive(t) \/ Ask(t) \/ Text(t) \/ CallsTool(t) \/ Stops(t) \/ RequestFails(t)
                 \/ Sent(t) \/ ToolsReturn(t) \/ Collects(t) \/ Spaced(t)
                 \/ Wording(t) \/ Closed(t) \/ Learns(t) \/ Breaks(t)
          PROVE  Once
      BY <2>1, <2>2, <2>6, TurnRests
    <2> QED
      BY <2>3, <2>4, <2>5, <2>6 DEF Next
  <1> QED
    BY <1>1, Invariance, PTL DEF Spec, ToolsRunOnce
=============================================================================
