---------------------------- MODULE MCConversation ----------------------------
(* Small instances of Conversation for TLC. *)
EXTENDS Conversation

CONSTANTS t1, t2

By(provider, d1, c1, d2, c2, stops) ==
  [provider |-> provider, door |-> (t1 :> d1 @@ t2 :> d2),
   calls |-> (t1 :> c1 @@ t2 :> c2), stops |-> stops]

\* Every provider and every door, two messages at a time.
Mixed == {By("anthropic", "http", 2, "messaging", 0, 0), By("gemini", "text", 1, "http", 1, 0),
          By("openai", "voice", 1, "gesture", 0, 1)}
\* A channel, and a door with a socket.
OneChannel == {By("anthropic", "text", 1, "messaging", 0, 0)}
==============================================================================
