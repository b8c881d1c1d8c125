------------------------------- MODULE Streams -------------------------------
(***************************************************************************)
(* The stream of a language model as the providers of the API read it: text *)
(* goes on to the caller as it comes, tool calls are captured on the way,   *)
(* and a failed request may be sent again.  Four providers do it in three   *)
(* ways: Anthropic tries again while nothing has been emitted and captures  *)
(* a call when its block ends; Gemini captures along the way, one call for  *)
(* each name, and remembers a signature for it; OpenAI and Mistral hold the *)
(* calls back until the stream ends.                                        *)
(*   - providers/llm/api.py   _stream, _stream_capturing, tool_loop,        *)
(*                            _remember_signature, _messages_to_gemini      *)
(***************************************************************************)
EXTENDS Naturals, Sequences, SequencesExt

CONSTANTS
  Names,         \* the tools
  MaxRetries,    \* _MAX_ANTHROPIC_RETRIES
  MaxRounds,     \* _MAX_TOOL_ITERATIONS
  MaxSignatures, \* _MAX_REMEMBERED_SIGNATURES
  MaxCalls       \* bound: calls a model asks for in one stream

ASSUME StreamsAssumption ==
  /\ MaxRetries \in Nat \ {0} /\ MaxRounds \in Nat \ {0}
  /\ MaxSignatures \in Nat \ {0} /\ MaxCalls \in Nat

Providers == {"anthropic", "gemini", "openai"}
Attempts == 1..MaxRetries

\* A call: the attempt that produced it, its place there, the tool.
Call == [attempt: Attempts, n: 1..(MaxRetries * MaxCalls), name: Names]

\* What a generator of the provider keeps between two events.  "calls" is the capture
\* it shares with the gateway, "held" the calls whose arguments it still gathers.
Stream == [attempt: Attempts, emitted: BOOLEAN, over: BOOLEAN,
           calls: Seq(Call), held: Seq(Call)]
Opened == [attempt |-> 1, emitted |-> FALSE, over |-> FALSE, calls |-> <<>>, held |-> <<>>]

Asked(s) == Len(s.calls) + Len(s.held)

-----------------------------------------------------------------------------
(* Events of a stream *)

Emits(s) == [s EXCEPT !.emitted = TRUE]

\* A block of tool use is complete.  Gemini leaves out a name it has seen.
Duplicate(p, s, name) ==
  p = "gemini" /\ \E i \in 1..Len(s.calls) : s.calls[i].name = name
Captures(p, s, name) ==
  LET c == [attempt |-> s.attempt, n |-> Asked(s) + 1, name |-> name] IN
  IF p = "openai" THEN [s EXCEPT !.held = Append(@, c)]
  ELSE [s EXCEPT !.calls = Append(@, c)]

\* The stream ends: what was held back is captured now.
Ends(s) == [s EXCEPT !.over = TRUE, !.calls = @ \o s.held, !.held = <<>>]

\* A request that failed is sent again only by Anthropic, for a transient error,
\* while nothing has been emitted and tries are left.
Retriable(p, s) == p = "anthropic" /\ ~s.emitted /\ s.attempt < MaxRetries

\* Slip: the calls captured by the failed attempt stay.
AgainKeeping(s) == [s EXCEPT !.attempt = @ + 1]
Again(s) == [Opened EXCEPT !.attempt = s.attempt + 1]

-----------------------------------------------------------------------------
(* The signatures that Gemini wants back with each call *)

\* A bounded dictionary: the oldest goes.
Remember(signatures, id) ==
  Append(IF Len(signatures) >= MaxSignatures THEN Tail(signatures) ELSE signatures, id)

\* All or nothing: the calls go back as calls if each has its signature, as text
\* otherwise.
Native(signatures, ids) == \A id \in ids : Contains(signatures, id)
==============================================================================
