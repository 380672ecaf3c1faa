------------------------------ MODULE TextStream ------------------------------
(* The text of one request on its way to the client: the detokenizer turns      *)
(* token ids into increments (tokenizer/detokenize.py) and the chat endpoint     *)
(* splits the increments at the end of the reasoning (api_server.py).  A token   *)
(* is the sequence of bytes it stands for, so that a token can hold a part of a  *)
(* character; characters are ASCII bytes, a CJK character of two bytes and a     *)
(* Latin one of two bytes.                                                       *)
EXTENDS Integers, Sequences

CONSTANTS Vocabulary,   \* byte sequences, the tokens
          EosToken,     \* the token of eos_token_id
          Delimiter,    \* the text that ends the reasoning: </think>
          MaxIds        \* bound: tokens of the request

VARIABLES status,       \* DecodeStatus of the request
          finished,     \* its last message has been detokenized
          out,          \* everything the client was sent
          parser,       \* _ReasoningStreamParser
          reasoning, content

textVars == <<status, finished, out, parser, reasoning, content>>

-------------------------------------------------------------------------------
(* tokenizer.batch_decode: byte-level decoding, errors="replace".               *)
Broken == "U+FFFD"
Cjk == "CJK"
TrailOf == [b \in {"C1", "L1"} |-> IF b = "C1" THEN "C2" ELSE "L2"]
CharOf == [b \in {"C1", "L1"} |-> IF b = "C1" THEN Cjk ELSE "Latin"]

Characters == {Broken, Cjk, "Latin"} \cup
              UNION {{t[i] : i \in DOMAIN t} : t \in Vocabulary \cup {EosToken, Delimiter}}

ASSUME TextAssumption ==
    /\ Vocabulary \cup {EosToken} \subseteq Seq(Characters)
    /\ Delimiter \in Seq(Characters) \ {<<>>}

IsLead(b) == b \in DOMAIN TrailOf
IsTrail(b) == b \in {"C2", "L2"}

Fresh(text, b) == IF IsLead(b) THEN [text |-> text, lead |-> <<b>>]
                  ELSE [text |-> Append(text, IF IsTrail(b) THEN Broken ELSE b), lead |-> <<>>]

DecodeByte(acc, b) ==
    IF acc.lead = <<>> THEN Fresh(acc.text, b)
    ELSE IF b = TrailOf[acc.lead[1]]
         THEN [text |-> Append(acc.text, CharOf[acc.lead[1]]), lead |-> <<>>]
         ELSE Fresh(Append(acc.text, Broken), b)

Bytes(ids) ==
    LET upTo[n \in 0 .. Len(ids)] == IF n = 0 THEN <<>> ELSE upTo[n-1] \o ids[n]
    IN upTo[Len(ids)]

(* The text of some bytes and the first byte of a character that is not complete. *)
Scan(bytes) ==
    LET after[n \in 0 .. Len(bytes)] ==
            IF n = 0 THEN [text |-> <<>>, lead |-> <<>>]
            ELSE DecodeByte(after[n-1], bytes[n])
    IN after[Len(bytes)]

Decode(ids) ==
    LET acc == Scan(Bytes(ids))
    IN IF acc.lead = <<>> THEN acc.text ELSE Append(acc.text, Broken)

EndsWith(text, c) == text # <<>> /\ text[Len(text)] = c
From(s, offset) == SubSeq(s, offset + 1, Len(s))

(* find_printable_text. *)
UpToLastSpace(text) ==
    LET spaces == {i \in 1 .. Len(text) : text[i] = " "}
    IN SubSeq(text, 1, CHOOSE n \in spaces \cup {0} : \A i \in spaces : i <= n)

Printable(text) ==
    IF EndsWith(text, "\n") \/ EndsWith(text, Cjk) THEN text
    ELSE IF Len(text) > 1 /\ text[Len(text) - 1] = Cjk THEN SubSeq(text, 1, Len(text) - 1)
    ELSE UpToLastSpace(text)

-------------------------------------------------------------------------------
(* DetokenizeManager.detokenize for one message: the text is read from           *)
(* surr_offset on, and only what goes beyond the part read before is new.        *)
NewStatus == [ids |-> <<>>, str |-> <<>>, read |-> 0, surr |-> 0, sent |-> 0]

Keeps(token, last) == ~(last /\ token = EosToken)

\* Mutant: an incomplete character is committed.
CommitsBroken(text) == text # <<>>

\* Mutant: only whole words are committed, also at the end.
CommitsWords(text) == EndsWith(text, " ")

Commits(text) == text # <<>> /\ ~EndsWith(text, Broken)

Ids(s, token, last) == IF Keeps(token, last) THEN Append(s.ids, token) ELSE s.ids

NewText(s, ids) ==
    From(Decode(From(ids, s.surr)), Len(Decode(SubSeq(ids, s.surr + 1, s.read))))

(* output_str: the text up to this message. *)
Output(s, fresh) == s.str \o IF Commits(fresh) THEN fresh ELSE Printable(fresh)

Detokenized(s, token, last) ==
    LET ids == Ids(s, token, last)
        fresh == NewText(s, ids)
        sent == Len(Output(s, fresh))
    IN IF Commits(fresh)
       THEN [ids |-> ids, str |-> Output(s, fresh), surr |-> s.read, read |-> Len(ids), sent |-> sent]
       ELSE [s EXCEPT !.ids = ids, !.sent = sent]

(* incremental_output: what of it has not been sent. *)
Increment(s, token, last) == From(Output(s, NewText(s, Ids(s, token, last))), s.sent)

-------------------------------------------------------------------------------
(* _ReasoningStreamParser.feed. *)
NewParser == [pending |-> <<>>, done |-> FALSE]

StartsAt(text, i) == SubSeq(text, i, i + Len(Delimiter) - 1) = Delimiter
Found(text) == {i \in 1 .. Len(text) - Len(Delimiter) + 1 : StartsAt(text, i)}
FirstOf(S) == CHOOSE i \in S : \A j \in S : i <= j

\* Mutant: text that may be the beginning of the delimiter is not held back.
HeldBackNone(text) == 0

(* The longest end of the text that may be the beginning of the delimiter. *)
HeldBack(text) ==
    LET sizes == {k \in 1 .. Len(Delimiter) - 1 :
                    k <= Len(text) /\ From(text, Len(text) - k) = SubSeq(Delimiter, 1, k)}
    IN IF sizes = {} THEN 0 ELSE CHOOSE k \in sizes : \A j \in sizes : j <= k

(* The parser, the reasoning and the content after one increment. *)
Feed(p, text, last) ==
    LET all == p.pending \o text IN
    IF p.done THEN [parser |-> p, reasoning |-> <<>>, content |-> text]
    ELSE IF Found(all) # {} THEN
        [parser |-> [pending |-> <<>>, done |-> TRUE],
         reasoning |-> SubSeq(all, 1, FirstOf(Found(all)) - 1),
         content |-> From(all, FirstOf(Found(all)) + Len(Delimiter) - 1)]
    ELSE LET keep == IF last THEN 0 ELSE HeldBack(all) IN
        [parser |-> [pending |-> From(all, Len(all) - keep), done |-> FALSE],
         reasoning |-> SubSeq(all, 1, Len(all) - keep), content |-> <<>>]

-------------------------------------------------------------------------------
TextInit ==
    /\ status = NewStatus /\ finished = FALSE
    /\ out = <<>> /\ parser = NewParser
    /\ reasoning = <<>> /\ content = <<>>

(* The scheduler's next message for the request, through to the client.          *)
Message(token, last) ==
    LET text == Increment(status, token, last)
        fed == Feed(parser, text, last)
    IN /\ ~finished /\ Len(status.ids) < MaxIds
       /\ status' = Detokenized(status, token, last)
       /\ finished' = last
       /\ out' = out \o text
       /\ parser' = fed.parser
       /\ reasoning' = reasoning \o fed.reasoning
       /\ content' = content \o fed.content

TextNext == \/ \E token \in Vocabulary, last \in BOOLEAN : Message(token, last)
            \/ Message(EosToken, TRUE)

TextSpec == TextInit /\ [][TextNext]_textVars

-------------------------------------------------------------------------------
Whole == Decode(status.ids)

(* A token whose last byte comes after the end of a CJK character and is not a    *)
(* character of its own: it straddles two characters.  While its text waits for   *)
(* the next byte, find_printable_text hands out the CJK character; when that byte *)
(* does not complete the text either, it hands out less than before, sent_offset  *)
(* goes down, and the commit sends the character again.                           *)
Straddles(token) ==
    /\ Len(token) > 1 /\ token[Len(token) - 1] = "C2"
    /\ IsLead(token[Len(token)]) \/ IsTrail(token[Len(token)])

HasStraddled == \E i \in DOMAIN status.ids : Straddles(status.ids[i])

(* As long as no token has straddled two characters, the client never sees a      *)
(* character it will not see in the decoded text, and none twice: what was sent   *)
(* is a prefix of what the tokens decode to.                                      *)
SentIsPrefix ==
    ~HasStraddled => Len(out) <= Len(Whole) /\ SubSeq(Whole, 1, Len(out)) = out

(* A request whose tokens end in a complete character is sent completely: the    *)
(* offsets of the detokenizer neither skip nor keep back text.  A token that has  *)
(* straddled two characters may have made it send some of the text again.         *)
FinishedIsComplete ==
    finished /\ ~HasStraddled /\ ~EndsWith(Whole, Broken) => out = Whole

(* The reasoning and the content the client is sent are the text before and after *)
(* the first delimiter, wherever the increments cut it; until the request ends,   *)
(* only an end that may begin the delimiter is missing.                          *)
SplitIsExact ==
    IF Found(out) = {}
    THEN /\ content = <<>> /\ out = reasoning \o parser.pending
         /\ finished => parser.pending = <<>>
    ELSE LET i == FirstOf(Found(out)) IN
         /\ reasoning = SubSeq(out, 1, i - 1)
         /\ content = From(out, i + Len(Delimiter) - 1)
================================================================================
