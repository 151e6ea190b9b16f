----------------------------- MODULE TokenCounts -----------------------------
(***************************************************************************)
(* How client and reference server count the tokens of a conversation.     *)
(* The client's counter is the one without tiktoken.  A text is what the   *)
(* counts depend on: its numbers of characters, CJK characters, words and  *)
(* special characters.  No state.                                          *)
(***************************************************************************)
EXTENDS Integers, Sequences, FiniteSetsExt

Text == [chars : Nat, cjk : Nat, words : Nat, special : Nat]

\* A message's content is a text, a list of parts with a text each, or neither.
Message ==
    [kind : {"text"}, text : Text] \union [kind : {"parts"}, parts : Seq(Text)]
        \union [kind : {"other"}]

\* _approximate_count.  The products are floats, but their sum is never rounded
\* across an integer, since 1.3 is stored as slightly more than that.
ApproximateCount(text) ==
    IF text.chars = 0 THEN 0
    ELSE Max({1, (15 * text.cjk + 13 * text.words + 5 * text.special) \div 10})

\* The sum of a list of counts.
Total(counts) ==
    LET sum[n \in 0 .. Len(counts)] == IF n = 0 THEN 0 ELSE sum[n - 1] + counts[n]
    IN sum[Len(counts)]

\* What a message adds to the client's count: its texts, and three for the rest.
MessageCount(message) ==
    3 + CASE message.kind = "text"  -> ApproximateCount(message.text)
          [] message.kind = "parts" ->
                Total([i \in DOMAIN message.parts |-> ApproximateCount(message.parts[i])])
          [] message.kind = "other" -> 0

\* count_messages.
CountMessages(messages) == Total([i \in DOMAIN messages |-> MessageCount(messages[i])])

\* The input text the server joins: contents that are texts, nothing else.
JoinedLength(messages) ==
    Total([i \in DOMAIN messages |->
              IF messages[i].kind = "text" THEN messages[i].text.chars ELSE 0])

\* _approximate_token_count of a text of some length.
ServerCount(length) == Max({1, length \div 4})

=============================================================================
