----------------------------- MODULE AnswerProofs -----------------------------
(* Answers, from the sampler to the client.                                   *)
(*                                                                            *)
(* Reasoning: every committed token follows the grammar, for any number of    *)
(* requests, any lengths and both loops.  The device state that matters is    *)
(* the whole pool: the host's state is what it was at most one sampled token  *)
(* ago, and reading that token makes up for it.                               *)
(*                                                                            *)
(* Frontend: replies reach their client in order and the tables stay sound.   *)
(* The invariant follows one reply of a request through the queues: what the  *)
(* client got, what its generator took, what its entry holds and what is      *)
(* under way are the replies made so far, in this order and without a gap.    *)
(*                                                                            *)
(* TextStream: the split at the end of the reasoning is exact.  What the      *)
(* parser has passed on as reasoning takes no part in a delimiter still to    *)
(* come, because it holds back the longest end that may begin one.            *)
EXTENDS Reasoning, Frontend, TextStream, SequenceTheorems, FiniteSetTheorems, TLAPS

States == {"chat", "thinking", "answer"}

ReasoningTypeOK ==
  /\ stage \in [Requests -> {"waiting", "active", "ended"}]
  /\ host \in [Requests -> States]
  /\ text \in [Requests -> Seq(Tokens)]
  /\ pool \in [Requests -> Seq(Tokens)]
  /\ last \subseteq Requests /\ ongoing \subseteq Requests

StateAfter(r, tokens) ==
  IF r \notin Thinking THEN "chat"
  ELSE IF \E i \in DOMAIN tokens : tokens[i] = Close THEN "answer" ELSE "thinking"

IsPrefixOf(s, t) == Len(s) <= Len(t) /\ \A i \in 1 .. Len(s) : s[i] = t[i]

(* How many of its samples the host has not committed. *)
Ahead(r) == (IF r \in last THEN 1 ELSE 0) + (IF r \in ongoing THEN 1 ELSE 0)

Follows(r) ==
  /\ Grammatical(r, pool[r])
  /\ IsPrefixOf(text[r], pool[r])
  /\ host[r] = StateAfter(r, text[r])
  /\ stage[r] = "waiting" => pool[r] = <<>> /\ Ahead(r) = 0
  /\ stage[r] = "active" => Len(pool[r]) = Len(text[r]) + Ahead(r)

IInv == ReasoningTypeOK /\ (~Overlap => last = {}) /\ \A r \in Requests : Follows(r)

-------------------------------------------------------------------------------
(* The state that a list of tokens leads to moves with Advance. *)
LEMMA StateOfAppend ==
  ASSUME NEW r, NEW tokens \in Seq(Tokens), NEW token \in Tokens
  PROVE  StateAfter(r, Append(tokens, token)) = Advance(StateAfter(r, tokens), token)
<1> DEFINE longer == Append(tokens, token)
<1>1. /\ DOMAIN longer = 1 .. Len(tokens) + 1
      /\ DOMAIN tokens = 1 .. Len(tokens)
      /\ longer[Len(tokens) + 1] = token
      /\ \A i \in 1 .. Len(tokens) : longer[i] = tokens[i]
      /\ Len(tokens) \in Nat
  OBVIOUS
<1> HIDE DEF longer
<1>2. (\E i \in DOMAIN longer : longer[i] = Close)
        <=> (\E i \in DOMAIN tokens : tokens[i] = Close) \/ token = Close
  BY <1>1
<1>3. StateAfter(r, longer) = Advance(StateAfter(r, tokens), token)
  BY <1>2 DEF StateAfter, Advance
<1>4. QED  BY <1>3 DEF longer

(* A token that the state of the tokens before it allows keeps the grammar.   *)
LEMMA GrammarOfAppend ==
  ASSUME NEW r, NEW tokens \in Seq(Tokens), NEW token \in Tokens,
         Grammatical(r, tokens), token # Open,
         token # (IF StateAfter(r, tokens) = "thinking" THEN Eos ELSE Close)
  PROVE  Grammatical(r, Append(tokens, token))
<1> DEFINE longer == Append(tokens, token)
           n == Len(tokens) + 1
<1>1. /\ DOMAIN longer = 1 .. n
      /\ DOMAIN tokens = 1 .. n - 1
      /\ longer[n] = token
      /\ \A i \in 1 .. n - 1 : longer[i] = tokens[i]
      /\ n \in Nat \ {0}
  OBVIOUS
<1> HIDE DEF longer, n
<1>2. ASSUME NEW i \in 1 .. n - 1
      PROVE  /\ longer[i] # Open
             /\ longer[i] = Close => r \in Thinking /\ \A j \in 1 .. i - 1 : longer[j] # Close
             /\ longer[i] = Eos /\ r \in Thinking => \E j \in 1 .. i - 1 : longer[j] = Close
  <2>1. i \in Int /\ \A j \in 1 .. i - 1 : longer[j] = tokens[j]
    BY <1>1
  <2>2. longer[i] = tokens[i]
    BY <1>1
  <2>3. QED  BY <1>1, <2>1, <2>2 DEF Grammatical
<1>3. token = Close => r \in Thinking /\ \A j \in 1 .. n - 1 : longer[j] # Close
  BY <1>1 DEF StateAfter, Close, Eos
<1>4. token = Eos /\ r \in Thinking => \E j \in 1 .. n - 1 : longer[j] = Close
  BY <1>1 DEF StateAfter, Close, Eos
<1>5. Grammatical(r, longer)
  BY <1>1, <1>2, <1>3, <1>4 DEF Grammatical
<1>6. QED  BY <1>5 DEF longer

(* What the sampler believes at a forward is right although the host may be   *)
(* one token late: the only token it has not seen is the one it reads.        *)
LEMMA CorrectionSuffices ==
  ASSUME IInv, ongoing = {}, NEW r \in Requests, stage[r] # "ended"
  PROVE  StillThinking(host[r], r) <=> StateAfter(r, pool[r]) = "thinking"
<1> DEFINE p == pool[r]
           t == text[r]
<1>1. /\ p \in Seq(Tokens) /\ t \in Seq(Tokens) /\ Len(p) \in Nat /\ Len(t) \in Nat
      /\ DOMAIN p = 1 .. Len(p) /\ DOMAIN t = 1 .. Len(t)
  BY DEF IInv, ReasoningTypeOK
<1>2. Follows(r)
  BY DEF IInv
<1>3. /\ \A i \in 1 .. Len(t) : t[i] = p[i]
      /\ Len(t) <= Len(p)
  BY <1>2 DEF Follows, IsPrefixOf
<1>4. Len(p) <= Len(t) + 1
  <2>1. CASE stage[r] = "waiting"
    BY <1>1, <1>2, <2>1 DEF Follows
  <2>2. CASE stage[r] = "active"
    <3>1. Ahead(r) \in {0, 1}
      BY DEF Ahead
    <3>2. Len(p) = Len(t) + Ahead(r)
      BY <1>2, <2>2 DEF Follows
    <3> HIDE DEF p, t
    <3>3. QED  BY <1>1, <3>1, <3>2
  <2>3. QED  BY <2>1, <2>2 DEF IInv, ReasoningTypeOK
<1>5. host[r] = StateAfter(r, t)
  BY <1>2 DEF Follows
<1>6. p = <<>> <=> Len(p) = 0
  BY <1>1
<1> HIDE DEF p, t
<1>7. (\E i \in DOMAIN p : p[i] = Close)
        <=> (\E i \in DOMAIN t : t[i] = Close) \/ (p # <<>> /\ p[Len(p)] = Close)
  BY <1>1, <1>3, <1>4, <1>6
<1>8. StillThinking(host[r], r) <=> host[r] = "thinking" /\ (p # <<>> => p[Len(p)] # Close)
  BY DEF StillThinking, p
<1>9. host[r] = "thinking" <=> r \in Thinking /\ ~ \E i \in DOMAIN t : t[i] = Close
  BY <1>5 DEF StateAfter
<1>10. StateAfter(r, p) = "thinking" <=> r \in Thinking /\ ~ \E i \in DOMAIN p : p[i] = Close
  BY DEF StateAfter
<1>11. QED  BY <1>7, <1>8, <1>9, <1>10 DEF p
-------------------------------------------------------------------------------
LEMMA InitHolds == ReasoningInit => IInv
<1> SUFFICES ASSUME ReasoningInit PROVE IInv
  OBVIOUS
<1>1. ReasoningTypeOK
  BY DEF ReasoningInit, ReasoningTypeOK, Initial, States
<1>2. ASSUME NEW r \in Requests PROVE Follows(r)
  BY DEF ReasoningInit, Follows, Grammatical, IsPrefixOf, StateAfter, Initial, Ahead
<1>3. QED  BY <1>1, <1>2 DEF IInv, ReasoningInit

LEMMA ForwardStep == IInv /\ Forward => IInv'
<1> SUFFICES ASSUME IInv, Forward PROVE IInv'
  OBVIOUS
<1>1. PICK B \in ((SUBSET Prefillable) \cup (SUBSET Decodable)) \ {{}}, token \in [Requests -> Tokens] :
        /\ \A r \in B : token[r] \in Allowed(host[r], r)
        /\ pool' = [r \in Requests |-> IF r \in B THEN Append(pool[r], token[r]) ELSE pool[r]]
        /\ stage' = [r \in Requests |-> IF r \in B THEN "active" ELSE stage[r]]
        /\ ongoing' = B
  BY DEF Forward
<1>2. ongoing = {} /\ (Overlap \/ last = {}) /\ UNCHANGED <<host, text, last>>
  BY DEF Forward
<1>3. B \subseteq Requests /\ \A r \in B : stage[r] # "ended"
  BY DEF Prefillable, Decodable
<1>4. ReasoningTypeOK'
  BY <1>1, <1>2, <1>3 DEF IInv, ReasoningTypeOK
<1>5. ASSUME NEW r \in Requests PROVE Follows(r)'
  <2> DEFINE p == pool[r]
             t == text[r]
             k == token[r]
  <2>1. p \in Seq(Tokens) /\ t \in Seq(Tokens) /\ k \in Tokens
    BY DEF IInv, ReasoningTypeOK
  <2>2. Follows(r)
    BY DEF IInv
  <2>3. CASE r \notin B
    <3>1. pool'[r] = p /\ stage'[r] = stage[r] /\ host'[r] = host[r] /\ text'[r] = t
      BY <1>1, <1>2, <2>3
    <3>2. Ahead(r)' = Ahead(r)
      BY <1>1, <1>2, <2>3 DEF Ahead
    <3>3. QED  BY <2>2, <3>1, <3>2 DEF Follows
  <2>4. CASE r \in B
    <3>1. pool'[r] = Append(p, k) /\ stage'[r] = "active" /\ host'[r] = host[r] /\ text'[r] = t
      BY <1>1, <1>2, <2>4
    <3>2. k # Open /\ k # (IF StillThinking(host[r], r) THEN Eos ELSE Close)
      BY <1>1, <2>4 DEF Allowed
    <3>3. k # (IF StateAfter(r, p) = "thinking" THEN Eos ELSE Close)
      BY <1>2, <1>3, <2>4, <3>2, CorrectionSuffices
    <3>4. Grammatical(r, pool'[r])
      BY <2>1, <2>2, <3>1, <3>2, <3>3, GrammarOfAppend DEF Follows
    <3>5. IsPrefixOf(t, Append(p, k))
      <4>1. Len(t) <= Len(p) /\ \A i \in 1 .. Len(t) : t[i] = p[i]
        BY <2>2 DEF Follows, IsPrefixOf
      <4>2. /\ Len(Append(p, k)) = Len(p) + 1 /\ Len(p) \in Nat /\ Len(t) \in Nat
            /\ \A i \in 1 .. Len(p) : Append(p, k)[i] = p[i]
        BY <2>1
      <4> HIDE DEF p, t, k
      <4>3. QED  BY <4>1, <4>2 DEF IsPrefixOf
    <3>6. Len(p) = Len(t) + Ahead(r)
      <4>1. CASE stage[r] = "waiting"
        BY <2>1, <2>2, <4>1 DEF Follows, IsPrefixOf
      <4>2. CASE stage[r] = "active"
        BY <2>2, <4>2 DEF Follows
      <4>3. QED  BY <1>3, <2>4, <4>1, <4>2 DEF IInv, ReasoningTypeOK
    <3>7. Len(pool'[r]) = Len(text'[r]) + Ahead(r)'
      <4>1. Ahead(r)' = Ahead(r) + 1
        BY <1>1, <1>2, <2>4 DEF Ahead
      <4>2. Len(Append(p, k)) = Len(p) + 1 /\ Len(t) \in Nat /\ Ahead(r) \in Nat
        BY <2>1 DEF Ahead
      <4>3. Len(pool'[r]) = Len(p) + 1 /\ Len(text'[r]) = Len(t)
        BY <3>1, <4>2
      <4> HIDE DEF p, t, k
      <4>4. QED  BY <3>6, <4>1, <4>2, <4>3
    <3>8. QED  BY <2>2, <3>1, <3>4, <3>5, <3>7 DEF Follows
  <2>5. QED  BY <2>3, <2>4
<1>6. QED  BY <1>2, <1>4, <1>5 DEF IInv

LEMMA ProcessStep == IInv /\ ProcessLastData => IInv'
<1> SUFFICES ASSUME IInv, ProcessLastData PROVE IInv'
  OBVIOUS
<1>1. ASSUME NEW r \in Live
      PROVE  /\ r \in Requests /\ NextToken(r) \in Tokens
             /\ NextToken(r) = pool[r][Len(text[r]) + 1]
             /\ Len(text[r]) + 1 <= Len(pool[r]) /\ Len(pool[r]) \in Nat /\ Len(text[r]) \in Nat
  <2>1. r \in Requests /\ stage[r] = "active" /\ Follows(r) /\ (r \in last \/ r \in ongoing)
    BY DEF Live, Arrived, IInv, ReasoningTypeOK
  <2>2. pool[r] \in Seq(Tokens) /\ text[r] \in Seq(Tokens)
    BY <2>1 DEF IInv, ReasoningTypeOK
  <2>3. Len(pool[r]) \in Nat /\ Len(text[r]) \in Nat
    BY <2>2
  <2>4. Len(text[r]) + 1 <= Len(pool[r])
    <3>1. Ahead(r) \in {1, 2}
      BY <2>1 DEF Ahead
    <3>2. Len(pool[r]) = Len(text[r]) + Ahead(r)
      BY <2>1 DEF Follows
    <3>3. QED  BY <2>3, <3>1, <3>2
  <2>5. pool[r][Len(text[r]) + 1] \in Tokens
    BY <2>2, <2>3, <2>4
  <2>6. QED  BY <2>1, <2>3, <2>4, <2>5 DEF NextToken
<1>2. /\ text' = [r \in Requests |-> IF r \in Live THEN Append(text[r], NextToken(r)) ELSE text[r]]
      /\ host' = [r \in Requests |-> IF r \in Live THEN Advance(host[r], NextToken(r)) ELSE host[r]]
      /\ stage' = [r \in Requests |-> IF r \in Live /\ Finished(r) THEN "ended" ELSE stage[r]]
      /\ last' = (IF Overlap THEN ongoing ELSE {}) /\ ongoing' = {} /\ pool' = pool
  BY DEF ProcessLastData
<1>3. ReasoningTypeOK'
  <2>1. text' \in [Requests -> Seq(Tokens)]
    BY <1>1, <1>2 DEF IInv, ReasoningTypeOK
  <2>2. host' \in [Requests -> States]
    BY <1>2 DEF IInv, ReasoningTypeOK, Advance, States
  <2>3. stage' \in [Requests -> {"waiting", "active", "ended"}]
    BY <1>2 DEF IInv, ReasoningTypeOK
  <2>4. QED  BY <1>2, <2>1, <2>2, <2>3 DEF IInv, ReasoningTypeOK
<1>4. ~Overlap => last' = {}
  BY <1>2
<1>5. ASSUME NEW r \in Requests PROVE Follows(r)'
  <2> DEFINE p == pool[r]
             t == text[r]
             k == NextToken(r)
  <2>1. Follows(r) /\ p \in Seq(Tokens) /\ t \in Seq(Tokens) /\ pool'[r] = p
    BY <1>2 DEF IInv, ReasoningTypeOK
  <2>2. Ahead(r)' = IF Overlap /\ r \in ongoing THEN 1 ELSE 0
    BY <1>2 DEF Ahead
  <2>3. ~Overlap => r \notin last
    BY DEF IInv
  <2>4. CASE r \notin Live
    <3>1. text'[r] = t /\ host'[r] = host[r] /\ stage'[r] = stage[r]
      BY <1>2, <2>4
    <3>2. stage[r] # "ended" => Ahead(r)' = Ahead(r)
      <4>1. CASE stage[r] = "waiting"
        <5>1. r \notin last /\ r \notin ongoing
          BY <2>1, <4>1 DEF Follows, Ahead
        <5>2. QED  BY <2>2, <5>1 DEF Ahead
      <4>2. CASE stage[r] = "active"
        <5>1. r \notin Arrived
          BY <2>4, <4>2 DEF Live
        <5>2. QED  BY <2>2, <2>3, <5>1 DEF Ahead, Arrived
      <4>3. QED  BY <4>1, <4>2 DEF IInv, ReasoningTypeOK
    <3>3. QED  BY <2>1, <3>1, <3>2 DEF Follows
  <2>5. CASE r \in Live
    <3>1. /\ k \in Tokens /\ k = p[Len(t) + 1] /\ Len(t) + 1 <= Len(p)
          /\ Len(p) \in Nat /\ Len(t) \in Nat
      BY <1>1, <2>5
    <3>2. stage[r] = "active" /\ r \in Arrived
      BY <2>5 DEF Live
    <3>3. text'[r] = Append(t, k) /\ host'[r] = Advance(host[r], k)
          /\ stage'[r] \in {"active", "ended"}
      BY <1>2, <2>5, <3>2
    <3>4. host'[r] = StateAfter(r, text'[r])
      BY <2>1, <3>1, <3>3, StateOfAppend DEF Follows
    <3>5. Len(Append(t, k)) = Len(t) + 1
      BY <2>1, <3>1
    <3>6. IsPrefixOf(text'[r], p)
      <4>1. /\ Append(t, k)[Len(t) + 1] = k
            /\ \A i \in 1 .. Len(t) : Append(t, k)[i] = t[i]
        BY <2>1, <3>1
      <4>2. \A i \in 1 .. Len(t) : t[i] = p[i]
        BY <2>1 DEF Follows, IsPrefixOf
      <4> HIDE DEF p, t, k
      <4>3. QED  BY <3>1, <3>3, <3>5, <4>1, <4>2 DEF IsPrefixOf
    <3>7. Len(p) = Len(text'[r]) + Ahead(r)'
      <4>1. Ahead(r) = Ahead(r)' + 1
        BY <2>2, <2>3, <3>2 DEF Ahead, Arrived
      <4>2. Len(p) = Len(t) + Ahead(r)
        BY <2>1, <3>2 DEF Follows
      <4>3. Ahead(r)' \in Nat
        BY <2>2
      <4>4. Len(text'[r]) = Len(t) + 1
        BY <3>3, <3>5
      <4> HIDE DEF p, t, k
      <4>5. QED  BY <3>1, <4>1, <4>2, <4>3, <4>4
    <3>8. QED  BY <2>1, <3>3, <3>4, <3>6, <3>7 DEF Follows
  <2>6. QED  BY <2>4, <2>5
<1>6. QED  BY <1>3, <1>4, <1>5 DEF IInv

LEMMA AbortStep ==
  ASSUME IInv, NEW u \in Requests, Abort(u)
  PROVE  IInv'
<1>1. stage' = [stage EXCEPT ![u] = "ended"] /\ UNCHANGED <<host, text, pool, last, ongoing>>
  BY DEF Abort
<1>2. ReasoningTypeOK'
  BY <1>1 DEF IInv, ReasoningTypeOK
<1>3. ASSUME NEW r \in Requests PROVE Follows(r)'
  <2>1. Follows(r) /\ (stage'[r] = stage[r] \/ stage'[r] = "ended")
    BY <1>1 DEF IInv, ReasoningTypeOK
  <2>2. Ahead(r)' = Ahead(r)
    BY <1>1 DEF Ahead
  <2>3. QED  BY <1>1, <2>1, <2>2 DEF Follows
<1>4. QED  BY <1>1, <1>2, <1>3 DEF IInv

LEMMA Invariance == ReasoningSpec => []IInv
<1>1. ReasoningInit => IInv
  BY InitHolds
<1>2. IInv /\ [ReasoningNext]_reasoningVars => IInv'
  <2> SUFFICES ASSUME IInv, [ReasoningNext]_reasoningVars PROVE IInv'
    OBVIOUS
  <2>1. CASE Forward
    BY <2>1, ForwardStep
  <2>2. CASE ProcessLastData
    BY <2>2, ProcessStep
  <2>3. CASE \E r \in Requests : Abort(r)
    BY <2>3, AbortStep
  <2>4. CASE UNCHANGED reasoningVars
    BY <2>4 DEF reasoningVars, IInv, ReasoningTypeOK, Follows, Ahead
  <2>5. QED  BY <2>1, <2>2, <2>3, <2>4 DEF ReasoningNext
<1>3. QED  BY <1>1, <1>2, PTL DEF ReasoningSpec

(* What is committed follows the grammar of the wire protocol, whatever the   *)
(* model would rather have sampled: overlap is not noticeable.                *)
THEOREM CommittedTokensAreGrammatical == ReasoningSpec => []GrammarHolds
<1>1. IInv => GrammarHolds
  <2> SUFFICES ASSUME IInv, NEW r \in Requests PROVE Grammatical(r, text[r])
    BY DEF GrammarHolds
  <2> DEFINE p == pool[r]
             t == text[r]
  <2>1. Grammatical(r, p) /\ IsPrefixOf(t, p) /\ t \in Seq(Tokens) /\ p \in Seq(Tokens)
    BY DEF IInv, Follows, ReasoningTypeOK
  <2>2. /\ Len(t) <= Len(p) /\ \A i \in 1 .. Len(t) : t[i] = p[i]
        /\ Len(t) \in Nat /\ Len(p) \in Nat
        /\ DOMAIN t = 1 .. Len(t) /\ DOMAIN p = 1 .. Len(p)
    BY <2>1 DEF IsPrefixOf
  <2> HIDE DEF p, t
  <2>3. Grammatical(r, t)
    <3> SUFFICES ASSUME NEW i \in DOMAIN t
        PROVE  /\ t[i] # Open
               /\ t[i] = Close => r \in Thinking /\ \A j \in 1 .. i - 1 : t[j] # Close
               /\ t[i] = Eos /\ r \in Thinking => \E j \in 1 .. i - 1 : t[j] = Close
      BY DEF Grammatical
    <3>1. i \in DOMAIN p /\ i \in Int /\ t[i] = p[i] /\ \A j \in 1 .. i - 1 : t[j] = p[j]
      BY <2>2
    <3>2. QED  BY <2>1, <3>1 DEF Grammatical
  <2>4. QED  BY <2>3 DEF t
<1>2. QED  BY <1>1, Invariance, PTL

-------------------------------------------------------------------------------
(* The requests of the API server. *)

\* A request whose handler runs, and one whose client may still get something.
Running == {"sending", "ready", "waiting", "yielding", "last"}
Attached == {"idle"} \cup Running

(* The tables: an entry whose handler has ended has an abort that will remove it, *)
(* and one that has not begun will find its request.                             *)
TablesFit(u) ==
  /\ phase[u] = "idle" => u \notin mapped /\ u \notin requestUids
  /\ phase[u] \in Attached => abortTask[u] = "none"
  /\ phase[u] \in Running => u \in mapped /\ u \in requestUids
  /\ phase[u] = "closed" /\ u \in mapped /\ ~stopping =>
       \/ abortTask[u] = "asleep"
       \/ abortTask[u] = "new" /\ u \in requestUids

IsRequest(m, u) == m.kind = "request" /\ m.uid = u
Asked(queue, u) == {i \in 1 .. Len(queue) : IsRequest(queue[i], u)}

\* A request is under way at most once, and only before anything is made for it.
RequestFits(u) ==
  /\ \A i, j \in Asked(toTokenizer, u) : i = j
  /\ \A i, j \in Asked(toBackend, u) : i = j
  /\ Asked(toTokenizer, u) = {} \/ Asked(toBackend, u) = {}
  /\ \/ phase[u] \in {"idle", "sending"}
     \/ Asked(toTokenizer, u) # {}
     \/ Asked(toBackend, u) # {}
     => u \notin live /\ made[u] = 0
  /\ phase[u] \in {"idle", "sending"} => Asked(toTokenizer, u) = {} /\ Asked(toBackend, u) = {}
  /\ u \in live => made[u] < MaxReplies[u]

\* m is reply pos of u, and no reply comes after a last one.
IsReply(m, u, pos) ==
  /\ m.uid = u /\ m.pos = pos /\ pos <= made[u]
  /\ m.last => pos = made[u] /\ u \notin live

Of(queue, u) == {i \in 1 .. Len(queue) : queue[i].uid = u}

\* The replies from + 1 .. to of u are under way: first those in front, then those behind.
Carries(front, behind, u, from, to) ==
  /\ \A i \in Of(front, u) : from < front[i].pos /\ front[i].pos <= to
  /\ \A i \in Of(behind, u) : from < behind[i].pos /\ behind[i].pos <= to
  /\ \A i, j \in Of(front, u) : i < j => front[i].pos < front[j].pos
  /\ \A i, j \in Of(behind, u) : i < j => behind[i].pos < behind[j].pos
  /\ \A i \in Of(front, u), j \in Of(behind, u) : front[i].pos < behind[j].pos
  /\ \A pos \in from + 1 .. to :
        \/ \E i \in Of(front, u) : front[i].pos = pos
        \/ \E i \in Of(behind, u) : behind[i].pos = pos

\* Replies that have left the entry, and those that have reached it.
Out(u) == Len(got[u]) + Len(batch[u])
Heard(u) == Out(u) + Len(acks[u])

\* What was taken and what waits in the entry go on where the client stands.
Served(u) ==
  /\ Heard(u) <= made[u]
  /\ \A i \in 1 .. Len(batch[u]) : IsReply(batch[u][i], u, Len(got[u]) + i)
  /\ \A i \in 1 .. Len(acks[u]) : IsReply(acks[u][i], u, Out(u) + i)

Queued(u) ==
  /\ \A i \in Of(toFrontend, u) : IsReply(toFrontend[i], u, toFrontend[i].pos)
  /\ \A i \in Of(toDetokenizer, u) : IsReply(toDetokenizer[i], u, toDetokenizer[i].pos)

StreamFits(u) ==
  /\ Served(u) /\ Queued(u)
  /\ Carries(toFrontend, toDetokenizer, u, Heard(u), made[u])

\* The client: its replies, and the end of a request that was answered.
HandlerFits(u) ==
  /\ \A i \in 1 .. Len(got[u]) : IsReply(got[u][i], u, i)
  /\ phase[u] \in {"idle", "sending", "ready", "waiting"} => batch[u] = <<>>
  /\ phase[u] = "last" => got[u] # <<>> /\ got[u][Len(got[u])].last
  /\ fate[u] = "answered" =>
       phase[u] = "closed" /\ Len(got[u]) = made[u] /\ made[u] > 0 /\ got[u][made[u]].last

\* TypeOK, and the per-request values are functions.
Shapes ==
  /\ TypeOK /\ made \in [Uids -> Nat]
  /\ {acks, batch, got} \subseteq [Uids -> Seq(Replies)]

FrontendInv ==
  /\ Shapes
  /\ \A u \in Uids : /\ TablesFit(u) /\ RequestFits(u) /\ HandlerFits(u)
                     /\ phase[u] \in Attached => StreamFits(u)
-------------------------------------------------------------------------------
(* The tables: only the actor's own entries move, but for a stop. *)
LEMMA TablesStep ==
  ASSUME TypeOK, NEW u \in Uids, TablesFit(u), [Next]_vars
  PROVE  TablesFit(u)'
<1> USE DEF TypeOK, TablesFit, Running, Attached, Phases
<1>1. ASSUME NEW v \in Uids, Submit(v) PROVE TablesFit(u)'
  BY <1>1 DEF Submit, Enters
<1>2. ASSUME NEW v \in Uids, SendFails(v) PROVE TablesFit(u)'
  BY <1>2 DEF SendFails, Enters, Popped
<1>3. ASSUME NEW v \in Uids, SendCancelled(v) PROVE TablesFit(u)'
  BY <1>3 DEF SendCancelled, Enters, ScheduledAbort
<1>4. ASSUME NEW v \in Uids, NeverStarted(v) \/ StartStream(v) \/ WaitAgain(v) PROVE TablesFit(u)'
  BY <1>4 DEF NeverStarted, StartStream, WaitAgain, Enters, managerVars
<1>5. ASSUME NEW v \in Uids, SendOne(v) PROVE TablesFit(u)'
  BY <1>5 DEF SendOne, Enters, managerVars
<1>6. ASSUME NEW v \in Uids, Wake(v) PROVE TablesFit(u)'
  BY <1>6 DEF Wake, Enters
<1>7. ASSUME NEW v \in Uids, Yield(v) PROVE TablesFit(u)'
  BY <1>7 DEF Yield, Enters, managerVars
<1>8. ASSUME NEW v \in Uids, Finish(v) \/ EndWithError(v) \/ Cancelled(v) \/ Collected(v) PROVE TablesFit(u)'
  BY <1>8 DEF Finish, EndWithError, Cancelled, Collected, CloseGenerator, Enters, Popped, ScheduledAbort
<1>9. ASSUME NEW v \in Uids, NoticedGone(v) PROVE TablesFit(u)'
  BY <1>9 DEF NoticedGone, Enters, ScheduledAbort
<1>10. ASSUME NEW v \in Uids, AbortStarts(v) PROVE TablesFit(u)'
  BY <1>10 DEF AbortStarts, handlerVars
<1>11. ASSUME NEW v \in Uids, AbortSends(v) PROVE TablesFit(u)'
  BY <1>11 DEF AbortSends, handlerVars, Popped
<1>12. ASSUME NEW v \in Uids, AbortFails(v) PROVE TablesFit(u)'
  BY <1>12 DEF AbortFails, handlerVars, Popped
<1>13. ASSUME NEW v \in Uids, AcceptToken(v) PROVE TablesFit(u)'
  BY <1>13 DEF AcceptToken, handlerVars, managerVars
<1>14. CASE Listen
  BY <1>14 DEF Listen, handlerVars
<1>15. CASE BackendFails
  BY <1>15 DEF BackendFails, handlerVars
<1>16. CASE ShutdownAsync
  BY <1>16 DEF ShutdownAsync, handlerVars
<1>17. CASE Tokenize \/ Detokenize \/ TakeRequest \/ TakeAbort
  BY <1>17 DEF Tokenize, Detokenize, TakeRequest, TakeAbort, handlerVars, managerVars
<1>18. CASE UNCHANGED vars
  BY <1>18 DEF vars, handlerVars, managerVars
<1>19. QED
  BY <1>1, <1>2, <1>3, <1>4, <1>5, <1>6, <1>7, <1>8, <1>9, <1>10, <1>11, <1>12, <1>13, <1>14,
     <1>15, <1>16, <1>17, <1>18 DEF Next, Handler, EventLoop
-------------------------------------------------------------------------------
(* Queues. *)
LEMMA Appended ==
  ASSUME NEW S, NEW q \in Seq(S), NEW m \in S
  PROVE  /\ Append(q, m) \in Seq(S) /\ Len(q) \in Nat
         /\ Len(Append(q, m)) = Len(q) + 1
         /\ \A i \in 1 .. Len(q) : Append(q, m)[i] = q[i]
         /\ Append(q, m)[Len(q) + 1] = m
  OBVIOUS

LEMMA Shortened ==
  ASSUME NEW S, NEW q \in Seq(S), q # <<>>
  PROVE  /\ Tail(q) \in Seq(S) /\ Head(q) \in S /\ Head(q) = q[1]
         /\ Len(q) \in Nat /\ Len(q) > 0
         /\ Len(Tail(q)) = Len(q) - 1
         /\ \A i \in 1 .. Len(q) - 1 : Tail(q)[i] = q[i + 1]
  OBVIOUS

LEMMA AskedAppended ==
  ASSUME NEW q \in Seq(Messages), NEW m \in Messages, NEW u
  PROVE  Asked(Append(q, m), u) = Asked(q, u) \cup (IF IsRequest(m, u) THEN {Len(q) + 1} ELSE {})
<1> DEFINE longer == Append(q, m)
<1>1. /\ Len(q) \in Nat /\ Len(longer) = Len(q) + 1 /\ longer[Len(q) + 1] = m
      /\ \A i \in 1 .. Len(q) : longer[i] = q[i]
  BY Appended
<1> HIDE DEF longer
<1>2. 1 .. Len(longer) = (1 .. Len(q)) \cup {Len(q) + 1}
  BY <1>1
<1>3. Asked(longer, u) = Asked(q, u) \cup (IF IsRequest(m, u) THEN {Len(q) + 1} ELSE {})
  BY <1>1, <1>2 DEF Asked
<1>4. QED  BY <1>3 DEF longer

LEMMA AskedShortened ==
  ASSUME NEW q \in Seq(Messages), q # <<>>, NEW u
  PROVE  /\ \A i \in Asked(Tail(q), u) : i + 1 \in Asked(q, u) /\ i \in Nat \ {0}
         /\ IsRequest(Head(q), u) => 1 \in Asked(q, u)
<1> DEFINE shorter == Tail(q)
<1>1. /\ Len(q) \in Nat /\ Len(shorter) = Len(q) - 1 /\ Head(q) = q[1] /\ Len(q) > 0
      /\ \A i \in 1 .. Len(q) - 1 : shorter[i] = q[i + 1]
  BY Shortened
<1> HIDE DEF shorter
<1>2. \A i \in Asked(shorter, u) : i + 1 \in Asked(q, u) /\ i \in Nat \ {0}
  BY <1>1 DEF Asked
<1>3. IsRequest(Head(q), u) => 1 \in Asked(q, u)
  BY <1>1 DEF Asked
<1>4. QED  BY <1>2, <1>3 DEF shorter

(* A request is asked for once, and nothing is made for it before.              *)
LEMMA RequestStep ==
  ASSUME Shapes, NEW u \in Uids, RequestFits(u), [Next]_vars
  PROVE  RequestFits(u)'
<1> USE FrontendAssumption DEF RequestFits
<1>0. /\ toTokenizer \in Seq(Messages) /\ toBackend \in Seq(Messages)
      /\ made[u] \in Nat /\ MaxReplies[u] \in Nat \ {0} /\ phase \in [Uids -> Phases]
      /\ made \in [Uids -> Nat]
  BY DEF Shapes, TypeOK
<1>1. ASSUME UNCHANGED <<queueVars, backendVars>>,
             phase'[u] \in {"idle", "sending"} => phase[u] \in {"idle", "sending"}
      PROVE  RequestFits(u)'
  BY <1>1 DEF queueVars, backendVars
<1>2. ASSUME NEW v \in Uids,
             \/ Submit(v) \/ SendFails(v) \/ NeverStarted(v) \/ StartStream(v) \/ WaitAgain(v)
             \/ Wake(v) \/ Yield(v) \/ Finish(v) \/ EndWithError(v) \/ Cancelled(v)
             \/ Collected(v) \/ NoticedGone(v) \/ AbortStarts(v) \/ AbortFails(v)
      PROVE  RequestFits(u)'
  <2>1. UNCHANGED <<queueVars, backendVars>>
    BY <1>2 DEF Submit, SendFails, NeverStarted, StartStream, WaitAgain, Wake, Yield, Finish,
                EndWithError, Cancelled, Collected, NoticedGone, AbortStarts, AbortFails
  <2>2. phase'[u] \in {"idle", "sending"} => phase[u] \in {"idle", "sending"}
    BY <1>0, <1>2 DEF Submit, SendFails, NeverStarted, StartStream, WaitAgain, Wake, Yield, Finish,
                EndWithError, Cancelled, Collected, NoticedGone, AbortStarts, AbortFails,
                handlerVars, Enters
  <2>3. QED  BY <1>1, <2>1, <2>2
<1>3. ASSUME Listen \/ BackendFails \/ ShutdownAsync \/ Detokenize \/ UNCHANGED vars
      PROVE  RequestFits(u)'
  <2>1. UNCHANGED <<toTokenizer, toBackend, backendVars, phase>>
    BY <1>3 DEF Listen, BackendFails, ShutdownAsync, Detokenize, vars, handlerVars, queueVars
  <2>2. QED  BY <2>1 DEF backendVars
<1>4. ASSUME NEW v \in Uids, SendOne(v) \/ SendCancelled(v)
      PROVE  RequestFits(u)'
  <2> DEFINE m == [kind |-> "request", uid |-> v]
  <2>1. /\ UNCHANGED <<toBackend, backendVars>> /\ phase[v] = "sending"
        /\ toTokenizer' \in {toTokenizer, Append(toTokenizer, m)}
        /\ \E p \in {"ready", "closed"} : phase' = [phase EXCEPT ![v] = p]
    BY <1>4 DEF SendOne, SendCancelled, Enters, Put
  <2>2. /\ m \in Messages /\ (IsRequest(m, u) <=> u = v)
    BY DEF Messages, IsRequest
  <2>3. Asked(toTokenizer', u) \subseteq Asked(toTokenizer, u) \cup (IF u = v THEN {Len(toTokenizer) + 1} ELSE {})
    <3> HIDE DEF m
    <3>1. Asked(Append(toTokenizer, m), u)
            = Asked(toTokenizer, u) \cup (IF IsRequest(m, u) THEN {Len(toTokenizer) + 1} ELSE {})
      BY ONLY <1>0, <2>2, AskedAppended
    <3>2. CASE toTokenizer' = toTokenizer
      BY ONLY <3>2
    <3>3. CASE toTokenizer' = Append(toTokenizer, m)
      BY ONLY <2>2, <3>1, <3>3
    <3>4. QED  BY ONLY <2>1, <3>2, <3>3
  <2>4. CASE u = v
    BY <1>0, <2>1, <2>3, <2>4 DEF backendVars
  <2>5. CASE u # v
    <3>1. Asked(toTokenizer', u) \subseteq Asked(toTokenizer, u) /\ phase'[u] = phase[u]
      BY <1>0, <2>1, <2>3, <2>5
    <3>2. QED  BY <2>1, <3>1 DEF backendVars
  <2>6. QED  BY <2>4, <2>5
<1>5. ASSUME NEW v \in Uids, AbortSends(v)
      PROVE  RequestFits(u)'
  <2> DEFINE m == [kind |-> "abort", uid |-> v]
  <2>1. /\ UNCHANGED <<toBackend, backendVars, phase>>
        /\ toTokenizer' \in {toTokenizer, Append(toTokenizer, m)}
    BY <1>5 DEF AbortSends, handlerVars, Put
  <2>2. /\ m \in Messages /\ ~IsRequest(m, u)
    BY DEF Messages, IsRequest
  <2>3. Asked(toTokenizer', u) = Asked(toTokenizer, u)
    <3> HIDE DEF m
    <3>1. Asked(Append(toTokenizer, m), u)
            = Asked(toTokenizer, u) \cup (IF IsRequest(m, u) THEN {Len(toTokenizer) + 1} ELSE {})
      BY ONLY <1>0, <2>2, AskedAppended
    <3>2. QED  BY ONLY <2>1, <2>2, <3>1
  <2>4. QED  BY <2>1, <2>3 DEF backendVars
<1>6. CASE Tokenize
  <2> DEFINE m == Head(toTokenizer)
  <2>1. /\ UNCHANGED <<backendVars, phase>> /\ toTokenizer # <<>>
        /\ toBackend' = Append(toBackend, m) /\ toTokenizer' = Tail(toTokenizer)
    BY <1>6 DEF Tokenize, handlerVars, Put
  <2>2. m \in Messages
    BY <1>0, <2>1, Shortened
  <2>3. Asked(toBackend', u) = Asked(toBackend, u) \cup (IF IsRequest(m, u) THEN {Len(toBackend) + 1} ELSE {})
    BY <1>0, <2>1, <2>2, AskedAppended
  <2>4. /\ \A i \in Asked(toTokenizer', u) : i + 1 \in Asked(toTokenizer, u) /\ i \in Nat \ {0}
        /\ IsRequest(m, u) => 1 \in Asked(toTokenizer, u)
    BY <1>0, <2>1, AskedShortened
  <2>5. CASE IsRequest(m, u)
    <3>1. Asked(toTokenizer', u) = {}
      <4>1. \A i \in Asked(toTokenizer', u) : i + 1 = 1
        BY <2>4, <2>5
      <4>2. QED  BY ONLY <2>4, <4>1
    <3>2. Asked(toBackend', u) = {Len(toBackend) + 1}
      BY <2>3, <2>4, <2>5
    <3>3. u \notin live /\ made[u] = 0 /\ phase[u] \notin {"idle", "sending"}
      BY <2>4, <2>5
    <3> HIDE DEF m
    <3>4. QED  BY <2>1, <3>1, <3>2, <3>3 DEF backendVars
  <2>6. CASE ~IsRequest(m, u)
    <3>1. Asked(toBackend', u) = Asked(toBackend, u)
      BY <2>3, <2>6
    <3>2. /\ \A i, j \in Asked(toTokenizer', u) : i = j
          /\ Asked(toTokenizer', u) # {} => Asked(toTokenizer, u) # {}
      BY <2>4
    <3> HIDE DEF m
    <3>3. QED  BY <2>1, <3>1, <3>2 DEF backendVars
  <2>7. QED  BY <2>5, <2>6
<1>7. ASSUME TakeRequest \/ TakeAbort
      PROVE  RequestFits(u)'
  <2>1. /\ UNCHANGED <<toTokenizer, phase>> /\ toBackend # <<>>
        /\ toBackend' = Tail(toBackend)
    BY <1>7 DEF TakeRequest, TakeAbort, handlerVars
  <2>2. /\ \A i \in Asked(toBackend', u) : i + 1 \in Asked(toBackend, u) /\ i \in Nat \ {0}
        /\ IsRequest(Head(toBackend), u) => 1 \in Asked(toBackend, u)
    BY <1>0, <2>1, AskedShortened
  <2>3. /\ \A i, j \in Asked(toBackend', u) : i = j
        /\ Asked(toBackend', u) # {} => Asked(toBackend, u) # {}
    BY <2>2
  <2>4. CASE IsRequest(Head(toBackend), u)
    <3>0. \A i \in Asked(toBackend', u) : i + 1 = 1
      BY <2>2, <2>4
    <3>1. /\ Asked(toBackend', u) = {} /\ Asked(toTokenizer, u) = {}
          /\ u \notin live /\ made[u] = 0 /\ phase[u] \notin {"idle", "sending"}
      <4>1. Asked(toBackend', u) = {}
        BY ONLY <2>2, <3>0
      <4>2. QED  BY <2>2, <2>4, <4>1
    <3>2. \/ made' = made
          \/ made'[u] = 1 /\ u \notin live'
      <4>1. TakeRequest /\ Head(toBackend).uid = u
        BY <1>7, <2>4 DEF TakeAbort, IsRequest
      <4>2. QED  BY <1>0, <3>1, <4>1 DEF TakeRequest, Reply
    <3>3. QED  BY <1>0, <2>1, <3>1, <3>2
  <2>5. CASE ~IsRequest(Head(toBackend), u)
    <3>1. (u \in live' => u \in live) /\ made'[u] = made[u]
      BY <1>0, <1>7, <2>5 DEF TakeRequest, TakeAbort, Reply, IsRequest
    <3>2. QED  BY <2>1, <2>3, <3>1
  <2>6. QED  BY <2>4, <2>5
<1>8. ASSUME NEW v \in Uids, AcceptToken(v)
      PROVE  RequestFits(u)'
  <2>1. UNCHANGED <<toTokenizer, toBackend, phase>> /\ v \in live
    BY <1>8 DEF AcceptToken, handlerVars
  <2>2. PICK ends \in BOOLEAN : /\ made[v] + 1 = MaxReplies[v] => ends
                                /\ made' = [made EXCEPT ![v] = @ + 1]
                                /\ live' = IF ends THEN live \ {v} ELSE live
    BY <1>8 DEF AcceptToken, Reply
  <2>3. CASE u # v
    <3>1. (u \in live' => u \in live) /\ made'[u] = made[u]
      BY <1>0, <2>2, <2>3
    <3>2. QED  BY <2>1, <3>1
  <2>4. CASE u = v
    <3>1. made'[u] = made[u] + 1
      BY <1>0, <2>2, <2>4
    <3>2. u \in live' => u \in live /\ made[u] + 1 # MaxReplies[u]
      BY <2>2, <2>4
    <3>3. /\ phase[u] \notin {"idle", "sending"} /\ Asked(toTokenizer, u) = {} /\ Asked(toBackend, u) = {}
          /\ made[u] < MaxReplies[u]
      BY <2>1, <2>4
    <3>4. QED  BY <1>0, <2>1, <3>1, <3>2, <3>3
  <2>5. QED  BY <2>3, <2>4
<1>9. QED
  BY <1>2, <1>3, <1>4, <1>5, <1>6, <1>7, <1>8 DEF Next, Handler, EventLoop
-------------------------------------------------------------------------------
(* How replies move through the queues. *)
LEMMA OfTyped ==
  ASSUME NEW q \in Seq(Replies), NEW u, NEW i \in Of(q, u)
  PROVE  i \in 1 .. Len(q) /\ q[i] \in Replies /\ q[i].pos \in Nat /\ q[i].uid = u
<1>1. i \in 1 .. Len(q) /\ q[i].uid = u
  BY DEF Of
<1>2. q[i] \in Replies
  BY <1>1
<1>3. q[i].pos \in Nat
  BY <1>2 DEF Replies
<1>4. QED  BY <1>1, <1>2, <1>3

LEMMA OfAppended ==
  ASSUME NEW q \in Seq(Replies), NEW m \in Replies, NEW u
  PROVE  /\ m.uid = u => Of(Append(q, m), u) = Of(q, u) \cup {Len(q) + 1}
         /\ m.uid # u => Of(Append(q, m), u) = Of(q, u)
         /\ \A i \in Of(q, u) : i \in 1 .. Len(q) /\ Append(q, m)[i] = q[i]
         /\ Append(q, m)[Len(q) + 1] = m /\ Len(q) \in Nat
<1> DEFINE longer == Append(q, m)
<1>1. /\ Len(q) \in Nat /\ Len(longer) = Len(q) + 1 /\ longer[Len(q) + 1] = m
      /\ \A i \in 1 .. Len(q) : longer[i] = q[i]
  BY Appended
<1> HIDE DEF longer
<1>2. 1 .. Len(longer) = (1 .. Len(q)) \cup {Len(q) + 1} /\ Len(q) + 1 \notin 1 .. Len(q)
  BY <1>1
<1>3. /\ m.uid = u => Of(longer, u) = Of(q, u) \cup {Len(q) + 1}
      /\ m.uid # u => Of(longer, u) = Of(q, u)
      /\ \A i \in Of(q, u) : i \in 1 .. Len(q) /\ longer[i] = q[i]
  BY <1>1, <1>2 DEF Of
<1>4. QED  BY <1>1, <1>3 DEF longer

LEMMA OfShortened ==
  ASSUME NEW q \in Seq(Replies), q # <<>>, NEW u
  PROVE  /\ \A i \in Of(Tail(q), u) : i \in Nat \ {0} /\ i + 1 \in Of(q, u) /\ Tail(q)[i] = q[i + 1]
         /\ \A i \in Of(q, u) : i \in Nat \ {0} /\ (i # 1 => i - 1 \in Of(Tail(q), u))
         /\ Head(q) = q[1] /\ Head(q) \in Replies
         /\ Head(q).uid = u <=> 1 \in Of(q, u)
<1> DEFINE shorter == Tail(q)
           h == Head(q)
<1>1. /\ Len(q) \in Nat /\ Len(shorter) = Len(q) - 1 /\ h = q[1] /\ Len(q) > 0 /\ h \in Replies
      /\ \A i \in 1 .. Len(q) - 1 : shorter[i] = q[i + 1]
  BY Shortened
<1> HIDE DEF shorter, h
<1>2. \A i \in Of(shorter, u) : i \in Nat \ {0} /\ i + 1 \in Of(q, u) /\ shorter[i] = q[i + 1]
  BY <1>1 DEF Of
<1>3. ASSUME NEW i \in Of(q, u)
      PROVE  i \in Nat \ {0} /\ (i # 1 => i - 1 \in Of(shorter, u))
  <2>1. i \in 1 .. Len(q) /\ q[i].uid = u
    BY DEF Of
  <2>2. i # 1 => i - 1 \in 1 .. Len(q) - 1 /\ (i - 1) + 1 = i
    BY <1>1, <2>1
  <2>3. i # 1 => shorter[i - 1] = q[i]
    BY <1>1, <2>2
  <2>4. QED  BY <1>1, <2>1, <2>2, <2>3 DEF Of
<1>4. h.uid = u <=> 1 \in Of(q, u)
  BY <1>1 DEF Of
<1>5. QED  BY <1>1, <1>2, <1>3, <1>4 DEF shorter, h

LEMMA CarryReply ==
  ASSUME NEW front \in Seq(Replies), NEW behind \in Seq(Replies), NEW m \in Replies,
         NEW u, NEW from \in Nat, NEW to \in Nat, from <= to,
         Carries(front, behind, u, from, to)
  PROVE  /\ m.uid = u /\ m.pos = to + 1 => Carries(front, Append(behind, m), u, from, to + 1)
         /\ m.uid # u => Carries(front, Append(behind, m), u, from, to)
<1> DEFINE longer == Append(behind, m)
           n == Len(behind) + 1
<1>1. /\ m.uid = u => Of(longer, u) = Of(behind, u) \cup {n}
      /\ m.uid # u => Of(longer, u) = Of(behind, u)
      /\ \A i \in Of(behind, u) : i \in 1 .. n - 1 /\ longer[i] = behind[i]
      /\ longer[n] = m /\ n \in Nat \ {0}
  <2> HIDE DEF longer, n
  <2>a. m.uid = u => Of(Append(behind, m), u) = Of(behind, u) \cup {Len(behind) + 1}
    BY OfAppended
  <2>b. m.uid # u => Of(Append(behind, m), u) = Of(behind, u)
    BY OfAppended
  <2>c. \A i \in Of(behind, u) : i \in 1 .. Len(behind)
    BY OfAppended
  <2>d. \A i \in Of(behind, u) : Append(behind, m)[i] = behind[i]
    BY OfAppended
  <2>1. Append(behind, m)[Len(behind) + 1] = m /\ Len(behind) \in Nat
    BY OfAppended
  <2>2. Len(behind) \in Nat /\ Len(behind) + 1 \in Nat \ {0} /\ (Len(behind) + 1) - 1 = Len(behind)
    BY <2>1
  <2>3. QED  BY <2>a, <2>b, <2>c, <2>d, <2>1, <2>2 DEF longer, n
<1>2. /\ \A i \in Of(behind, u) : behind[i].pos \in Nat
      /\ \A i \in Of(front, u) : front[i].pos \in Nat /\ i \in Nat
  BY OfTyped
<1> HIDE DEF longer, n
<1>3. ASSUME m.uid = u, m.pos = to + 1
      PROVE  Carries(front, longer, u, from, to + 1)
  <2>1. \A pos \in from + 1 .. to + 1 : pos \in from + 1 .. to \/ pos = to + 1
    OBVIOUS
  <2>2. n \in Of(longer, u) /\ longer[n].pos = to + 1
    BY <1>1, <1>3
  <2>3. \A i \in Of(behind, u) : i \in Of(longer, u) /\ longer[i].pos = behind[i].pos
    BY <1>1, <1>3
  <2>4. \A pos \in from + 1 .. to + 1 :
          \/ \E i \in Of(front, u) : front[i].pos = pos
          \/ \E i \in Of(longer, u) : longer[i].pos = pos
    <3> SUFFICES ASSUME NEW pos \in from + 1 .. to + 1
                 PROVE  \/ \E i \in Of(front, u) : front[i].pos = pos
                        \/ \E i \in Of(longer, u) : longer[i].pos = pos
      OBVIOUS
    <3>1. CASE pos = to + 1
      BY <2>2, <3>1
    <3>2. CASE pos \in from + 1 .. to
      BY <2>3, <3>2 DEF Carries
    <3>3. QED  BY <2>1, <3>1, <3>2
  <2>5. \A i \in Of(longer, u) :
          \/ i = n /\ longer[i].pos = to + 1
          \/ i \in Of(behind, u) /\ i \in 1 .. n - 1 /\ longer[i].pos = behind[i].pos
    BY <1>1, <1>3
  <2>6. /\ \A i \in Of(front, u) : from < front[i].pos /\ front[i].pos <= to + 1
        /\ \A i \in Of(longer, u) : from < longer[i].pos /\ longer[i].pos <= to + 1
    BY <1>2, <2>5 DEF Carries
  <2>7. \A i, j \in Of(longer, u) : i < j => longer[i].pos < longer[j].pos
    BY <1>1, <1>2, <2>5, SMTT(30) DEF Carries
  <2>8. \A i \in Of(front, u), j \in Of(longer, u) : front[i].pos < longer[j].pos
    BY <1>2, <2>5 DEF Carries
  <2>9. QED  BY <2>4, <2>6, <2>7, <2>8 DEF Carries
<1>4. ASSUME m.uid # u
      PROVE  Carries(front, longer, u, from, to)
  BY <1>1, <1>4 DEF Carries
<1>5. QED  BY <1>3, <1>4 DEF longer

LEMMA CarryDetokenize ==
  ASSUME NEW front \in Seq(Replies), NEW behind \in Seq(Replies), behind # <<>>,
         NEW u, NEW from \in Nat, NEW to \in Nat, Carries(front, behind, u, from, to)
  PROVE  Carries(Append(front, Head(behind)), Tail(behind), u, from, to)
<1> DEFINE h == Head(behind)
           longer == Append(front, h)
           shorter == Tail(behind)
           n == Len(front) + 1
<1>1. /\ \A i \in Of(shorter, u) : i \in Nat \ {0} /\ i + 1 \in Of(behind, u) /\ shorter[i] = behind[i + 1]
      /\ \A i \in Of(behind, u) : i \in Nat \ {0} /\ (i # 1 => i - 1 \in Of(shorter, u))
      /\ h = behind[1] /\ h \in Replies /\ (h.uid = u <=> 1 \in Of(behind, u))
  BY OfShortened
<1>2. /\ h.uid = u => Of(longer, u) = Of(front, u) \cup {n}
      /\ h.uid # u => Of(longer, u) = Of(front, u)
      /\ \A i \in Of(front, u) : i \in 1 .. n - 1 /\ longer[i] = front[i]
      /\ longer[n] = h /\ n \in Nat \ {0}
  <2> HIDE DEF longer, n, h, shorter
  <2>0. h \in Replies
    BY <1>1
  <2>a. h.uid = u => Of(Append(front, h), u) = Of(front, u) \cup {Len(front) + 1}
    BY ONLY <2>0, OfAppended, front \in Seq(Replies)
  <2>b. h.uid # u => Of(Append(front, h), u) = Of(front, u)
    BY <1>1, OfAppended
  <2>c. \A i \in Of(front, u) : i \in 1 .. Len(front)
    BY <1>1, OfAppended
  <2>d. \A i \in Of(front, u) : Append(front, h)[i] = front[i]
    BY <1>1, OfAppended
  <2>1. Append(front, h)[Len(front) + 1] = h /\ Len(front) \in Nat
    BY <1>1, OfAppended
  <2>2. Len(front) \in Nat /\ Len(front) + 1 \in Nat \ {0} /\ (Len(front) + 1) - 1 = Len(front)
    BY <2>1
  <2>3. QED  BY <2>a, <2>b, <2>c, <2>d, <2>1, <2>2 DEF longer, n
<1>3. /\ \A i \in Of(behind, u) : behind[i].pos \in Nat
      /\ \A i \in Of(front, u) : front[i].pos \in Nat
  BY OfTyped
<1> HIDE DEF longer, shorter, h, n
<1>4. \A i \in Of(longer, u) :
        \/ i = n /\ 1 \in Of(behind, u) /\ longer[i].pos = behind[1].pos
        \/ i \in Of(front, u) /\ i \in 1 .. n - 1 /\ longer[i].pos = front[i].pos
  BY <1>1, <1>2
<1>5. \A i \in Of(shorter, u) : /\ i \in Nat \ {0} /\ i + 1 \in Of(behind, u)
                               /\ shorter[i].pos = behind[i + 1].pos
  BY <1>1
<1>6. /\ \A i \in Of(longer, u) : from < longer[i].pos /\ longer[i].pos <= to
      /\ \A i \in Of(shorter, u) : from < shorter[i].pos /\ shorter[i].pos <= to
  BY <1>4, <1>5 DEF Carries
<1>7. \A i, j \in Of(longer, u) : i < j => longer[i].pos < longer[j].pos
  BY <1>2, <1>4 DEF Carries
<1>8. \A i, j \in Of(shorter, u) : i < j => shorter[i].pos < shorter[j].pos
  <2> SUFFICES ASSUME NEW i \in Of(shorter, u), NEW j \in Of(shorter, u), i < j
               PROVE  shorter[i].pos < shorter[j].pos
    OBVIOUS
  <2>1. i + 1 \in Of(behind, u) /\ j + 1 \in Of(behind, u) /\ i + 1 < j + 1
    BY <1>5
  <2>2. behind[i + 1].pos < behind[j + 1].pos
    BY <2>1 DEF Carries
  <2>3. QED  BY <1>5, <2>2
<1>9. \A i \in Of(longer, u), j \in Of(shorter, u) : longer[i].pos < shorter[j].pos
  <2> SUFFICES ASSUME NEW i \in Of(longer, u), NEW j \in Of(shorter, u)
               PROVE  longer[i].pos < shorter[j].pos
    OBVIOUS
  <2>1. j + 1 \in Of(behind, u) /\ 1 < j + 1 /\ shorter[j].pos = behind[j + 1].pos
    BY <1>5
  <2>2. CASE i = n /\ 1 \in Of(behind, u) /\ longer[i].pos = behind[1].pos
    <3>1. behind[1].pos < behind[j + 1].pos
      BY <2>1, <2>2 DEF Carries
    <3>2. QED  BY <2>1, <2>2, <3>1
  <2>3. CASE i \in Of(front, u) /\ longer[i].pos = front[i].pos
    BY <2>1, <2>3 DEF Carries
  <2>4. QED  BY <1>4, <2>2, <2>3
<1>10. \A pos \in from + 1 .. to :
          \/ \E i \in Of(longer, u) : longer[i].pos = pos
          \/ \E i \in Of(shorter, u) : shorter[i].pos = pos
  <2> SUFFICES ASSUME NEW pos \in from + 1 .. to
               PROVE  \/ \E i \in Of(longer, u) : longer[i].pos = pos
                      \/ \E i \in Of(shorter, u) : shorter[i].pos = pos
    OBVIOUS
  <2>1. CASE \E i \in Of(front, u) : front[i].pos = pos
    BY <1>2, <2>1
  <2>2. ASSUME NEW i \in Of(behind, u), behind[i].pos = pos
        PROVE  \/ \E j \in Of(longer, u) : longer[j].pos = pos
               \/ \E j \in Of(shorter, u) : shorter[j].pos = pos
    <3>1. CASE i = 1
      BY <1>1, <1>2, <2>2, <3>1
    <3>2. CASE i # 1
      <4>1. i - 1 \in Of(shorter, u) /\ (i - 1) + 1 = i
        BY <1>1, <3>2
      <4>2. shorter[i - 1].pos = pos
        BY <1>5, <2>2, <4>1
      <4>3. QED  BY <4>1, <4>2
    <3>3. QED  BY <3>1, <3>2
  <2>3. QED  BY <2>1, <2>2 DEF Carries
<1>11. Carries(longer, shorter, u, from, to)
  BY <1>6, <1>7, <1>8, <1>9, <1>10 DEF Carries
<1>12. QED  BY <1>11 DEF longer, shorter, h

LEMMA CarryListen ==
  ASSUME NEW front \in Seq(Replies), NEW behind \in Seq(Replies), front # <<>>,
         NEW u, NEW from \in Nat, NEW to \in Nat, Carries(front, behind, u, from, to)
  PROVE  /\ Head(front).uid = u => /\ Head(front).pos = from + 1
                                   /\ Carries(Tail(front), behind, u, from + 1, to)
         /\ Head(front).uid # u => Carries(Tail(front), behind, u, from, to)
<1> DEFINE shorter == Tail(front)
           h == Head(front)
<1>1. /\ \A i \in Of(shorter, u) : i \in Nat \ {0} /\ i + 1 \in Of(front, u) /\ shorter[i] = front[i + 1]
      /\ \A i \in Of(front, u) : i \in Nat \ {0} /\ (i # 1 => i - 1 \in Of(shorter, u))
      /\ h = front[1] /\ h \in Replies /\ (h.uid = u <=> 1 \in Of(front, u))
  BY OfShortened
<1>2. /\ \A i \in Of(behind, u) : behind[i].pos \in Nat
      /\ \A i \in Of(front, u) : front[i].pos \in Nat
  BY OfTyped
<1> HIDE DEF shorter, h
<1>3. \A i \in Of(shorter, u) : /\ i \in Nat \ {0} /\ i + 1 \in Of(front, u)
                               /\ shorter[i].pos = front[i + 1].pos
  BY <1>1
<1>4. /\ \A i \in Of(shorter, u) : from < shorter[i].pos /\ shorter[i].pos <= to
      /\ \A i \in Of(shorter, u), j \in Of(behind, u) : shorter[i].pos < behind[j].pos
  BY <1>3 DEF Carries
<1>5. \A i, j \in Of(shorter, u) : i < j => shorter[i].pos < shorter[j].pos
  <2> SUFFICES ASSUME NEW i \in Of(shorter, u), NEW j \in Of(shorter, u), i < j
               PROVE  shorter[i].pos < shorter[j].pos
    OBVIOUS
  <2>1. i + 1 \in Of(front, u) /\ j + 1 \in Of(front, u) /\ i + 1 < j + 1
    BY <1>3
  <2>2. front[i + 1].pos < front[j + 1].pos
    BY <2>1 DEF Carries
  <2>3. QED  BY <1>3, <2>2
<1>6. \A i \in Of(front, u) : i # 1 => \E j \in Of(shorter, u) : shorter[j].pos = front[i].pos
  <2> SUFFICES ASSUME NEW i \in Of(front, u), i # 1
               PROVE  \E j \in Of(shorter, u) : shorter[j].pos = front[i].pos
    OBVIOUS
  <2>1. i - 1 \in Of(shorter, u) /\ (i - 1) + 1 = i
    BY <1>1
  <2>2. shorter[i - 1].pos = front[i].pos
    BY <1>3, <2>1
  <2>3. QED  BY <2>1, <2>2
<1>7. ASSUME h.uid # u PROVE Carries(shorter, behind, u, from, to)
  <2>1. \A i \in Of(front, u) : i # 1
    BY <1>1, <1>7
  <2>2. \A pos \in from + 1 .. to :
          \/ \E i \in Of(shorter, u) : shorter[i].pos = pos
          \/ \E i \in Of(behind, u) : behind[i].pos = pos
    BY <1>6, <2>1 DEF Carries
  <2>3. QED  BY <1>4, <1>5, <2>2 DEF Carries
<1>8. ASSUME h.uid = u PROVE h.pos = from + 1 /\ Carries(shorter, behind, u, from + 1, to)
  <2>1. 1 \in Of(front, u) /\ h.pos = front[1].pos /\ front[1].pos \in Nat
    BY <1>1, <1>2, <1>8
  <2>2. /\ \A i \in Of(shorter, u) : h.pos < shorter[i].pos
        /\ \A j \in Of(behind, u) : h.pos < behind[j].pos
    <3>1. \A i \in Of(shorter, u) : i + 1 \in Of(front, u) /\ 1 < i + 1
      BY <1>3
    <3>2. \A i \in Of(shorter, u) : front[1].pos < front[i + 1].pos
      BY <2>1, <3>1 DEF Carries
    <3>3. \A j \in Of(behind, u) : front[1].pos < behind[j].pos
      BY <2>1 DEF Carries
    <3>4. QED  BY <1>3, <2>1, <3>2, <3>3
  <2>3. from < h.pos /\ h.pos <= to
    BY <2>1 DEF Carries
  <2>4. \A pos \in from + 1 .. to : pos = h.pos
          \/ (\E i \in Of(shorter, u) : shorter[i].pos = pos)
          \/ (\E i \in Of(behind, u) : behind[i].pos = pos)
    <3> SUFFICES ASSUME NEW pos \in from + 1 .. to
                 PROVE  pos = h.pos
                          \/ (\E i \in Of(shorter, u) : shorter[i].pos = pos)
                          \/ (\E i \in Of(behind, u) : behind[i].pos = pos)
      OBVIOUS
    <3>1. \/ \E i \in Of(front, u) : front[i].pos = pos
          \/ \E i \in Of(behind, u) : behind[i].pos = pos
      BY DEF Carries
    <3>2. QED  BY <1>6, <2>1, <3>1
  <2>5. h.pos = from + 1
    <3>1. from + 1 \in from + 1 .. to
      BY <2>1, <2>3
    <3>2. \/ from + 1 = h.pos
          \/ \E i \in Of(shorter, u) : shorter[i].pos = from + 1
          \/ \E i \in Of(behind, u) : behind[i].pos = from + 1
      BY <2>4, <3>1
    <3>3. from + 1 = h.pos \/ h.pos < from + 1
      BY <2>2, <3>2
    <3>4. QED  BY <2>1, <2>3, <3>3
  <2>6. /\ \A i \in Of(shorter, u) : from + 1 < shorter[i].pos
        /\ \A i \in Of(behind, u) : from + 1 < behind[i].pos
    BY <2>2, <2>5
  <2>7. \A pos \in (from + 1) + 1 .. to :
          \/ \E i \in Of(shorter, u) : shorter[i].pos = pos
          \/ \E i \in Of(behind, u) : behind[i].pos = pos
    <3> SUFFICES ASSUME NEW pos \in (from + 1) + 1 .. to
                 PROVE  \/ \E i \in Of(shorter, u) : shorter[i].pos = pos
                        \/ \E i \in Of(behind, u) : behind[i].pos = pos
      OBVIOUS
    <3>1. pos \in from + 1 .. to /\ pos # h.pos
      BY <2>5
    <3>2. QED  BY <2>4, <3>1
  <2>8. QED  BY <1>4, <1>5, <2>5, <2>6, <2>7 DEF Carries
<1>9. QED  BY <1>7, <1>8 DEF shorter, h
-------------------------------------------------------------------------------
(* The scheduler: what it makes for u in a step. *)
LEMMA MadeStep ==
  ASSUME Shapes, NEW u \in Uids, RequestFits(u), [Next]_vars
  PROVE  /\ made[u] \in Nat
         /\ made'[u] = made[u] \/ made'[u] = made[u] + 1
         /\ made'[u] # made[u] => made[u] < MaxReplies[u]
         /\ made[u] > 0 /\ u \notin live => made'[u] = made[u] /\ u \notin live'
<1> USE FrontendAssumption
<1>0. /\ toBackend \in Seq(Messages) /\ made[u] \in Nat /\ MaxReplies[u] \in Nat \ {0}
      /\ made \in [Uids -> Nat]
  BY DEF Shapes, TypeOK
<1>1. CASE UNCHANGED backendVars
  BY <1>0, <1>1 DEF backendVars
<1>2. ASSUME NEW v \in Uids, AcceptToken(v)
      PROVE  /\ made'[u] = made[u] \/ made'[u] = made[u] + 1
             /\ made'[u] # made[u] => u \in live
             /\ u \notin live => made'[u] = made[u] /\ u \notin live'
  <2>1. v \in live /\ made' = [made EXCEPT ![v] = @ + 1]
    BY <1>2 DEF AcceptToken, Reply
  <2>2. u \notin live => u \notin live'
    BY <1>2 DEF AcceptToken
  <2>3. u = v \/ u # v
    OBVIOUS
  <2>4. (u = v => made'[u] = made[u] + 1) /\ (u # v => made'[u] = made[u])
    BY <1>0, <2>1
  <2>5. QED  BY <2>1, <2>2, <2>3, <2>4
<1>3. CASE TakeAbort
  BY <1>0, <1>3 DEF TakeAbort
<1>4. CASE TakeRequest
  <2> DEFINE v == Head(toBackend).uid
  <2>1. /\ toBackend # <<>> /\ Head(toBackend).kind = "request"
        /\ \/ live' = live \cup {v} /\ UNCHANGED made
           \/ made' = [made EXCEPT ![v] = @ + 1] /\ UNCHANGED live
    BY <1>4 DEF TakeRequest, Reply
  <2>2. CASE v = u
    <3>1. IsRequest(Head(toBackend), u)
      BY <2>1, <2>2 DEF IsRequest
    <3>2. Asked(toBackend, u) # {}
      BY <1>0, <2>1, <3>1, AskedShortened
    <3>3. made[u] = 0
      BY <3>2 DEF RequestFits
    <3>4. made'[u] = made[u] \/ made'[u] = made[u] + 1
      BY <1>0, <2>1, <2>2
    <3>5. QED  BY <1>0, <3>3, <3>4
  <2>3. CASE v # u
    <3>1. made'[u] = made[u] /\ (u \notin live => u \notin live')
      BY <1>0, <2>1, <2>3
    <3>2. QED  BY <1>0, <3>1
  <2>4. QED  BY <2>2, <2>3
<1>5. u \in live => made[u] < MaxReplies[u]
  BY DEF RequestFits
<1>6. \/ UNCHANGED backendVars
      \/ \E v \in Uids : AcceptToken(v)
      \/ TakeAbort
      \/ TakeRequest
  BY DEF Next, Handler, EventLoop, Submit, SendOne, SendFails, SendCancelled, NeverStarted, StartStream,
         WaitAgain, Wake, Yield, Finish, EndWithError, Cancelled, Collected, NoticedGone, AbortStarts,
         AbortSends, AbortFails, Listen, BackendFails, ShutdownAsync, Tokenize, Detokenize, vars
<1>7. QED  BY <1>0, <1>1, <1>2, <1>3, <1>4, <1>5, <1>6

LEMMA ShapesStep ==
  ASSUME Shapes, \A u \in Uids : RequestFits(u), [Next]_vars
  PROVE  Shapes'
<1>0. /\ toTokenizer \in Seq(Messages) /\ toBackend \in Seq(Messages)
      /\ toFrontend \in Seq(Replies) /\ toDetokenizer \in Seq(Replies)
      /\ acks \in [Uids -> Seq(Replies)] /\ batch \in [Uids -> Seq(Replies)] /\ got \in [Uids -> Seq(Replies)]
      /\ made \in [Uids -> Nat]
  BY DEF Shapes, TypeOK
<1>m. \A u \in Uids : [kind |-> "request", uid |-> u] \in Messages /\ [kind |-> "abort", uid |-> u] \in Messages
  BY DEF Messages
<1>r. \A u \in Uids : \A ends \in BOOLEAN : [uid |-> u, pos |-> made[u] + 1, last |-> ends] \in Replies
  <2> SUFFICES ASSUME NEW u \in Uids, NEW ends \in BOOLEAN
               PROVE  [uid |-> u, pos |-> made[u] + 1, last |-> ends] \in Replies
    OBVIOUS
  <2>1. made[u] + 1 \in Nat
    BY <1>0
  <2> DEFINE n == made[u] + 1
  <2> HIDE DEF n
  <2>2. [uid |-> u, pos |-> n, last |-> ends] \in Replies
    BY <2>1, Zenon DEF Replies, n
  <2>3. QED  BY <2>2 DEF n
<1>b. \A m \in Messages : m.uid \in Uids
  BY DEF Messages
<1>c. \A m \in Replies : m.uid \in Uids
  BY DEF Replies
<1> DEFINE TablesTyped ==
             /\ mapped' \subseteq Uids /\ requestUids' \subseteq Uids
             /\ abortTask' \in [Uids -> {"none", "new", "asleep"}]
             /\ {terminal', stopping'} \subseteq BOOLEAN /\ event' \in [Uids -> BOOLEAN]
           StreamsTyped ==
             /\ acks' \in [Uids -> Seq(Replies)] /\ batch' \in [Uids -> Seq(Replies)]
             /\ got' \in [Uids -> Seq(Replies)]
<1>1. TablesTyped
  <2>0. /\ mapped \subseteq Uids /\ requestUids \subseteq Uids
        /\ abortTask \in [Uids -> {"none", "new", "asleep"}]
        /\ {terminal, stopping} \subseteq BOOLEAN /\ event \in [Uids -> BOOLEAN]
    BY DEF Shapes, TypeOK
  <2>1. CASE Listen
    <3>1. toFrontend # <<>> /\ UNCHANGED <<mapped, requestUids, abortTask, terminal, stopping>>
      BY <2>1 DEF Listen
    <3>2. event' = event \/ event' = [event EXCEPT ![Head(toFrontend).uid] = TRUE]
      BY <2>1 DEF Listen
    <3>3. event' \in [Uids -> BOOLEAN]
      BY <2>0, <3>2
    <3>4. QED  BY <2>0, <3>1, <3>3
  <2>2. CASE BackendFails \/ ShutdownAsync
    BY <2>0, <2>2 DEF BackendFails, ShutdownAsync, MarkUnavailable, Woken
  <2>3. CASE Tokenize \/ Detokenize \/ TakeRequest \/ TakeAbort \/ UNCHANGED vars
    BY <2>0, <2>3 DEF Tokenize, Detokenize, TakeRequest, TakeAbort, vars, managerVars
  <2>4. ASSUME NEW u \in Uids, AcceptToken(u) \/ Yield(u) \/ WaitAgain(u) \/ StartStream(u) \/ SendOne(u) \/ NeverStarted(u)
        PROVE  UNCHANGED managerVars
    BY <2>4 DEF AcceptToken, Yield, WaitAgain, StartStream, SendOne, NeverStarted
  <2>5. ASSUME NEW u \in Uids, Submit(u) \/ SendFails(u) \/ SendCancelled(u) \/ Wake(u) \/ NoticedGone(u)
        PROVE  TablesTyped
    BY <2>0, <2>5 DEF Submit, SendFails, SendCancelled, Wake, NoticedGone, Popped, MarkUnavailable, Woken, ScheduledAbort
  <2>6. ASSUME NEW u \in Uids, Finish(u) \/ EndWithError(u) \/ Cancelled(u) \/ Collected(u)
        PROVE  TablesTyped
    BY <2>0, <2>6 DEF Finish, EndWithError, Cancelled, Collected, CloseGenerator, Popped, ScheduledAbort
  <2>7. ASSUME NEW u \in Uids, AbortStarts(u) \/ AbortSends(u) \/ AbortFails(u)
        PROVE  TablesTyped
    BY <2>0, <2>7 DEF AbortStarts, AbortSends, AbortFails, Popped, Woken
  <2>8. QED
    BY <2>0, <2>1, <2>2, <2>3, <2>4, <2>5, <2>6, <2>7 DEF Next, Handler, EventLoop, managerVars
<1>2. phase' \in [Uids -> Phases] /\ fate' \in [Uids -> {"open", "answered", "failed", "left"}]
  <2>0. phase \in [Uids -> Phases] /\ fate \in [Uids -> {"open", "answered", "failed", "left"}]
    BY DEF Shapes, TypeOK
  <2>1. \/ phase' = phase
        \/ \E u \in Uids, p \in Phases : phase' = [phase EXCEPT ![u] = p]
    BY DEF Next, Handler, EventLoop, Submit, SendOne, SendFails, SendCancelled, NeverStarted, StartStream,
           WaitAgain, Wake, Yield, Finish, EndWithError, Cancelled, Collected, NoticedGone, AbortStarts,
           AbortSends, AbortFails, Listen, BackendFails, ShutdownAsync, Tokenize, Detokenize,
           TakeRequest, TakeAbort, AcceptToken, vars, handlerVars, Enters, Phases
  <2>2. \/ fate' = fate
        \/ \E u \in Uids, f \in {"open", "answered", "failed", "left"} : fate' = [fate EXCEPT ![u] = f]
    BY DEF Next, Handler, EventLoop, Submit, SendOne, SendFails, SendCancelled, NeverStarted, StartStream,
           WaitAgain, Wake, Yield, Finish, EndWithError, Cancelled, Collected, NoticedGone, AbortStarts,
           AbortSends, AbortFails, Listen, BackendFails, ShutdownAsync, Tokenize, Detokenize,
           TakeRequest, TakeAbort, AcceptToken, vars, handlerVars, Ends
  <2>3. QED  BY <2>0, <2>1, <2>2
<1>3. StreamsTyped
  <2>1. CASE Listen
    <3> DEFINE m == Head(toFrontend)
    <3>1. toFrontend # <<>> /\ UNCHANGED <<batch, got>>
      BY <2>1 DEF Listen, handlerVars
    <3>2. m \in Replies
      BY <1>0, <3>1, Shortened
    <3>3. acks' = acks \/ acks' = [acks EXCEPT ![m.uid] = Append(@, m)]
      BY <2>1 DEF Listen
    <3> HIDE DEF m
    <3>4. m.uid \in Uids
      BY <1>c, <3>2
    <3>5. Append(acks[m.uid], m) \in Seq(Replies)
      BY <1>0, <3>2, <3>4, Appended
    <3>6. QED  BY <1>0, <3>1, <3>3, <3>5
  <2>2. ASSUME NEW u \in Uids, Wake(u)
        PROVE  StreamsTyped
    BY <1>0, <2>2 DEF Wake, Taken
  <2>3. ASSUME NEW u \in Uids, Yield(u)
        PROVE  StreamsTyped
    <3>1. batch[u] # <<>> /\ UNCHANGED acks
      BY <2>3 DEF Yield, managerVars
    <3>2. Head(batch[u]) \in Replies /\ Tail(batch[u]) \in Seq(Replies)
      BY <1>0, <3>1, Shortened
    <3>3. Append(got[u], Head(batch[u])) \in Seq(Replies)
      BY <1>0, <3>2, Appended
    <3>4. /\ got' = [got EXCEPT ![u] = Append(@, Head(batch[u]))]
          /\ batch' = [batch EXCEPT ![u] = Tail(@)]
      BY <2>3 DEF Yield
    <3>5. QED  BY <1>0, <3>1, <3>2, <3>3, <3>4
  <2>4. \/ Listen
        \/ \E u \in Uids : Wake(u) \/ Yield(u)
        \/ UNCHANGED <<acks, batch, got>>
    BY ZenonT(60) DEF Next, Handler, EventLoop, Submit, SendOne, SendFails, SendCancelled, NeverStarted, StartStream,
           WaitAgain, Finish, EndWithError, Cancelled, Collected, NoticedGone, AbortStarts, CloseGenerator,
           AbortSends, AbortFails, BackendFails, ShutdownAsync, Tokenize, Detokenize,
           TakeRequest, TakeAbort, AcceptToken, vars, handlerVars, managerVars
  <2>5. QED  BY <1>0, <2>1, <2>2, <2>3, <2>4
<1>4. toTokenizer' \in Seq(Messages) /\ toBackend' \in Seq(Messages)
  <2>1. ASSUME NEW u \in Uids, SendOne(u) \/ SendCancelled(u) \/ AbortSends(u)
        PROVE  UNCHANGED toBackend /\ \E m \in Messages : toTokenizer' \in {toTokenizer, Append(toTokenizer, m)}
    BY <1>m, <2>1 DEF SendOne, SendCancelled, AbortSends, Put
  <2>2. CASE Tokenize
    <3>1. Tail(toTokenizer) \in Seq(Messages) /\ Head(toTokenizer) \in Messages
      BY <1>0, <2>2, Shortened DEF Tokenize
    <3>2. Append(toBackend, Head(toTokenizer)) \in Seq(Messages)
      BY <1>0, <3>1, Appended
    <3>3. QED  BY <2>2, <3>1, <3>2 DEF Tokenize, Put
  <2>3. CASE TakeRequest \/ TakeAbort
    <3>1. toBackend # <<>> /\ toBackend' = Tail(toBackend) /\ UNCHANGED toTokenizer
      BY <2>3 DEF TakeRequest, TakeAbort
    <3>2. Tail(toBackend) \in Seq(Messages)
      BY <1>0, <3>1, Shortened
    <3>3. QED  BY <1>0, <3>1, <3>2
  <2>4. \/ Tokenize \/ TakeRequest \/ TakeAbort
        \/ \E u \in Uids : SendOne(u) \/ SendCancelled(u) \/ AbortSends(u)
        \/ UNCHANGED <<toTokenizer, toBackend>>
    BY DEF Next, Handler, EventLoop, Submit, SendFails, NeverStarted, StartStream, Wake, Yield, Listen,
           WaitAgain, Finish, EndWithError, Cancelled, Collected, NoticedGone, AbortStarts, CloseGenerator,
           AbortFails, BackendFails, ShutdownAsync, Detokenize, AcceptToken, vars, queueVars
  <2>5. ASSUME NEW m \in Messages PROVE Append(toTokenizer, m) \in Seq(Messages)
    BY <1>0, Appended
  <2>6. QED  BY <1>0, <2>1, <2>2, <2>3, <2>4, <2>5
<1>5. toFrontend' \in Seq(Replies) /\ toDetokenizer' \in Seq(Replies)
  <2>0. ASSUME NEW u \in Uids, NEW ends \in BOOLEAN, Reply(u, ends)
        PROVE  toDetokenizer' \in Seq(Replies)
    <3> DEFINE m == [uid |-> u, pos |-> made[u] + 1, last |-> ends]
    <3>1. m \in Replies
      BY <1>r
    <3>2. toDetokenizer' = Append(toDetokenizer, m)
      BY <2>0 DEF Reply, Put
    <3> HIDE DEF m
    <3>3. QED  BY <1>0, <3>1, <3>2, Appended
  <2>1. CASE Listen
    <3>1. Tail(toFrontend) \in Seq(Replies)
      BY <1>0, <2>1, Shortened DEF Listen
    <3>2. QED  BY <1>0, <2>1, <3>1 DEF Listen
  <2>2. CASE Detokenize
    <3>1. Tail(toDetokenizer) \in Seq(Replies) /\ Head(toDetokenizer) \in Replies
      BY <1>0, <2>2, Shortened DEF Detokenize
    <3>2. Append(toFrontend, Head(toDetokenizer)) \in Seq(Replies)
      BY <1>0, <3>1, Appended
    <3>3. QED  BY <2>2, <3>1, <3>2 DEF Detokenize, Put
  <2>3. CASE TakeRequest
    <3>1. Head(toBackend) \in Messages
      BY <1>0, <2>3, Shortened DEF TakeRequest
    <3>2. Head(toBackend).uid \in Uids
      BY <1>b, <3>1
    <3>3. /\ Reply(Head(toBackend).uid, TRUE) \/ UNCHANGED toDetokenizer
          /\ UNCHANGED toFrontend
      BY <2>3 DEF TakeRequest
    <3>4. Reply(Head(toBackend).uid, TRUE) => toDetokenizer' \in Seq(Replies)
      BY <2>0, <3>2
    <3>5. QED  BY <1>0, <3>3, <3>4
  <2>4. ASSUME NEW u \in Uids, AcceptToken(u) PROVE toFrontend' \in Seq(Replies) /\ toDetokenizer' \in Seq(Replies)
    <3>1. UNCHANGED toFrontend /\ \E ends \in BOOLEAN : Reply(u, ends)
      BY <2>4 DEF AcceptToken
    <3>2. QED  BY <1>0, <2>0, <3>1
  <2>5. \/ Listen \/ Detokenize \/ TakeRequest
        \/ \E u \in Uids : AcceptToken(u)
        \/ UNCHANGED <<toFrontend, toDetokenizer>>
    BY DEF Next, Handler, EventLoop, Submit, SendFails, NeverStarted, StartStream, Wake, Yield,
           WaitAgain, Finish, EndWithError, Cancelled, Collected, NoticedGone, AbortStarts, CloseGenerator,
           AbortFails, BackendFails, ShutdownAsync, SendOne, SendCancelled, AbortSends,
           Tokenize, TakeAbort, vars, queueVars
  <2>6. QED  BY <1>0, <2>1, <2>2, <2>3, <2>4, <2>5
<1>6. live' \subseteq Uids
  <2>0. live \subseteq Uids
    BY DEF Shapes, TypeOK
  <2>1. CASE TakeRequest
    <3>1. Head(toBackend) \in Messages
      BY <1>0, <2>1, Shortened DEF TakeRequest
    <3>2. Head(toBackend).uid \in Uids
      BY <1>b, <3>1
    <3>3. QED  BY <2>0, <2>1, <3>2 DEF TakeRequest
  <2>2. TakeRequest \/ live' \subseteq live
    BY DEF Next, Handler, EventLoop, Submit, SendFails, NeverStarted, StartStream, Wake, Yield,
           WaitAgain, Finish, EndWithError, Cancelled, Collected, NoticedGone, AbortStarts, CloseGenerator,
           AbortFails, BackendFails, ShutdownAsync, SendOne, SendCancelled, AbortSends, Listen, Detokenize,
           Tokenize, TakeAbort, AcceptToken, vars, backendVars
  <2>3. QED  BY <2>0, <2>1, <2>2
<1>7. made' \in [Uids -> Nat] /\ \A u \in Uids : made'[u] \in 0 .. MaxReplies[u]
  <2>1. \/ made' = made
        \/ \E u \in Uids : made' = [made EXCEPT ![u] = @ + 1]
    <3>1. CASE TakeRequest
      <4>1. Head(toBackend) \in Messages
        BY <1>0, <3>1, Shortened DEF TakeRequest
      <4>2. Head(toBackend).uid \in Uids
        BY <1>b, <4>1
      <4>3. QED  BY <3>1, <4>2 DEF TakeRequest, Reply
    <3>2. TakeRequest \/ (\E u \in Uids : AcceptToken(u)) \/ UNCHANGED made
      BY DEF Next, Handler, EventLoop, Submit, SendFails, NeverStarted, StartStream, Wake, Yield,
           WaitAgain, Finish, EndWithError, Cancelled, Collected, NoticedGone, AbortStarts, CloseGenerator,
           AbortFails, BackendFails, ShutdownAsync, SendOne, SendCancelled, AbortSends, Listen, Detokenize,
           Tokenize, TakeAbort, vars, backendVars
    <3>3. QED  BY <3>1, <3>2 DEF AcceptToken, Reply
  <2>2. made' \in [Uids -> Nat]
    BY <1>0, <2>1
  <2>3. ASSUME NEW u \in Uids PROVE made'[u] \in 0 .. MaxReplies[u]
    <3>1. made[u] \in 0 .. MaxReplies[u] /\ MaxReplies[u] \in Nat
      BY FrontendAssumption DEF Shapes, TypeOK
    <3>2. /\ made'[u] = made[u] \/ made'[u] = made[u] + 1
          /\ made'[u] # made[u] => made[u] < MaxReplies[u]
      BY MadeStep
    <3>3. QED  BY <3>1, <3>2
  <2>4. QED  BY <2>2, <2>3
<1>8. \A u \in Uids : {acks'[u], batch'[u], got'[u]} \subseteq Seq(Replies)
  BY <1>3
<1>9. QED  BY <1>1, <1>2, <1>3, <1>4, <1>5, <1>6, <1>7, <1>8 DEF Shapes, TypeOK
-------------------------------------------------------------------------------
(* A reply stays one, as the scheduler makes nothing more after a last one. *)
LEMMA RepliesStay ==
  ASSUME Shapes, NEW u \in Uids, RequestFits(u), [Next]_vars
  PROVE  \A m : \A pos \in Nat \ {0} :
            m.uid = u /\ m.pos = pos /\ pos <= made[u] /\ (m.last => pos = made[u] /\ u \notin live)
              => pos <= made'[u] /\ (m.last => pos = made'[u] /\ u \notin live')
<1>1. /\ made[u] \in Nat
      /\ made'[u] = made[u] \/ made'[u] = made[u] + 1
      /\ made[u] > 0 /\ u \notin live => made'[u] = made[u] /\ u \notin live'
  BY MadeStep
<1>2. QED  BY <1>1

(* Only a step of its own handler changes what a client has got. *)
LEMMA HandlerStep ==
  ASSUME Shapes, NEW u \in Uids, RequestFits(u), HandlerFits(u), [Next]_vars,
         phase[u] \in Attached => StreamFits(u)
  PROVE  HandlerFits(u)'
<1>0. /\ acks \in [Uids -> Seq(Replies)] /\ batch \in [Uids -> Seq(Replies)] /\ got \in [Uids -> Seq(Replies)]
      /\ phase \in [Uids -> Phases] /\ fate \in [Uids -> {"open", "answered", "failed", "left"}]
      /\ made[u] \in Nat /\ Len(got[u]) \in Nat
  BY DEF Shapes, TypeOK
<1>1. \A m : \A pos \in Nat \ {0} :
        m.uid = u /\ m.pos = pos /\ pos <= made[u] /\ (m.last => pos = made[u] /\ u \notin live)
          => pos <= made'[u] /\ (m.last => pos = made'[u] /\ u \notin live')
  BY RepliesStay
<1>2. \A i \in 1 .. Len(got[u]) :
        /\ got[u][i].uid = u /\ got[u][i].pos = i /\ i <= made'[u]
        /\ got[u][i].last => i = made'[u] /\ u \notin live'
  <2> SUFFICES ASSUME NEW i \in 1 .. Len(got[u])
               PROVE  /\ got[u][i].uid = u /\ got[u][i].pos = i /\ i <= made'[u]
                      /\ got[u][i].last => i = made'[u] /\ u \notin live'
    OBVIOUS
  <2>1. /\ got[u][i].uid = u /\ got[u][i].pos = i /\ i <= made[u]
        /\ got[u][i].last => i = made[u] /\ u \notin live
    BY DEF HandlerFits, IsReply
  <2>2. i \in Nat \ {0}
    BY <1>0
  <2>3. QED  BY <1>1, <2>1, <2>2
<1>3. Len(got[u]) = made[u] /\ made[u] > 0 /\ got[u][made[u]].last => made'[u] = made[u]
  BY <1>0, <1>2
<1>4. ASSUME UNCHANGED got,
             phase'[u] \in {"idle", "sending", "ready", "waiting"} => batch'[u] = <<>>,
             phase'[u] = "last" => phase[u] = "last",
             fate'[u] = "answered" => phase'[u] = "closed",
             fate'[u] = "answered" => fate[u] = "answered" \/ phase[u] = "last"
      PROVE  HandlerFits(u)'
  <2>1. \A i \in 1 .. Len(got'[u]) : IsReply(got[u][i], u, i)'
    BY <1>2, <1>4 DEF IsReply
  <2>2. phase'[u] = "last" => got'[u] # <<>> /\ got'[u][Len(got'[u])].last
    BY <1>4 DEF HandlerFits
  <2>3. ASSUME fate'[u] = "answered"
        PROVE  phase'[u] = "closed" /\ Len(got[u]) = made[u] /\ made[u] > 0 /\ got[u][made[u]].last
    <3>1. phase'[u] = "closed"
      BY <1>4, <2>3
    <3>2. CASE fate[u] = "answered"
      BY <3>1, <3>2 DEF HandlerFits
    <3>3. CASE phase[u] = "last"
      <4>1. got[u] # <<>> /\ got[u][Len(got[u])].last
        BY <3>3 DEF HandlerFits
      <4>2. Len(got[u]) \in 1 .. Len(got[u])
        BY <1>0, <4>1, EmptySeq
      <4>3. Len(got[u]) = made[u]
        BY <4>1, <4>2 DEF HandlerFits, IsReply
      <4>4. made[u] > 0
        BY <1>0, <4>2, <4>3
      <4>5. QED  BY <3>1, <4>1, <4>3, <4>4
    <3>4. QED  BY <1>4, <2>3, <3>2, <3>3
  <2>4. fate'[u] = "answered" =>
          phase'[u] = "closed" /\ Len(got'[u]) = made'[u] /\ made'[u] > 0 /\ got'[u][made'[u]].last
    BY <1>3, <1>4, <2>3
  <2>5. QED  BY <1>4, <2>1, <2>2, <2>4 DEF HandlerFits
<1>5. ASSUME UNCHANGED <<phase, batch, got, fate>> PROVE HandlerFits(u)'
  BY <1>4, <1>5 DEF HandlerFits
<1>6. ASSUME NEW v \in Uids, Submit(v) PROVE HandlerFits(u)'
  BY <1>0, <1>4, <1>6 DEF Submit, Enters, HandlerFits
<1>7. ASSUME NEW v \in Uids, SendOne(v) \/ SendFails(v) \/ SendCancelled(v) \/ StartStream(v) \/ NeverStarted(v)
      PROVE  HandlerFits(u)'
  BY <1>0, <1>4, <1>7 DEF SendOne, SendFails, SendCancelled, StartStream, NeverStarted, Enters, Ends, HandlerFits
<1>8. ASSUME NEW v \in Uids, Wake(v) PROVE HandlerFits(u)'
  BY <1>0, <1>4, <1>8 DEF Wake, Enters, HandlerFits
<1>9. ASSUME NEW v \in Uids, Finish(v) \/ EndWithError(v) \/ Cancelled(v) \/ Collected(v)
      PROVE  HandlerFits(u)'
  BY <1>0, <1>4, <1>9 DEF Finish, EndWithError, Cancelled, Collected, Enters, Ends, HandlerFits
<1>10. ASSUME NEW v \in Uids, WaitAgain(v) \/ NoticedGone(v)
      PROVE  HandlerFits(u)'
  BY <1>0, <1>4, <1>10 DEF WaitAgain, NoticedGone, Enters, Ends, HandlerFits
<1>11. ASSUME NEW v \in Uids, Yield(v) PROVE HandlerFits(u)'
  <2>1. /\ phase[v] = "yielding" /\ batch[v] # <<>> /\ UNCHANGED fate
        /\ got' = [got EXCEPT ![v] = Append(@, Head(batch[v]))]
        /\ batch' = [batch EXCEPT ![v] = Tail(@)]
        /\ phase' = [phase EXCEPT ![v] = IF Head(batch[v]).last THEN "last" ELSE "yielding"]
    BY <1>11 DEF Yield, Enters
  <2>2. CASE u # v
    <3>1. /\ got'[u] = got[u] /\ batch'[u] = batch[u] /\ phase'[u] = phase[u] /\ fate'[u] = fate[u]
      BY <1>0, <2>1, <2>2
    <3>2. \A i \in 1 .. Len(got'[u]) : IsReply(got[u][i], u, i)'
      BY <1>2, <3>1 DEF IsReply
    <3>3. fate'[u] = "answered" =>
            phase'[u] = "closed" /\ Len(got'[u]) = made'[u] /\ made'[u] > 0 /\ got'[u][made'[u]].last
      BY <1>3, <3>1 DEF HandlerFits
    <3>4. QED  BY <3>1, <3>2, <3>3 DEF HandlerFits
  <2>3. CASE u = v
    <3> DEFINE m == Head(batch[u])
               n == Len(got[u]) + 1
    <3>1. /\ batch[u] \in Seq(Replies) /\ batch[u] # <<>> /\ got[u] \in Seq(Replies)
          /\ got'[u] = Append(got[u], m)
          /\ phase'[u] = IF m.last THEN "last" ELSE "yielding"
      BY <1>0, <2>1, <2>3
    <3>2. m = batch[u][1] /\ m \in Replies /\ 1 \in 1 .. Len(batch[u])
      <4>1. m = batch[u][1] /\ m \in Replies
        BY <3>1, Shortened
      <4>2. Len(batch[u]) \in Nat /\ Len(batch[u]) > 0
        BY <3>1, Shortened
      <4>3. QED  BY <4>1, <4>2
    <3>3. StreamFits(u)
      BY <2>1, <2>3 DEF Attached, Running
    <3>4. m.uid = u /\ m.pos = n /\ n <= made[u] /\ (m.last => n = made[u] /\ u \notin live)
      BY <3>2, <3>3 DEF StreamFits, Served, Queued, IsReply
    <3>5. n \in Nat \ {0}
      BY <1>0
    <3>6. n <= made'[u] /\ (m.last => n = made'[u] /\ u \notin live')
      BY <1>1, <3>4, <3>5
    <3>7. /\ Len(got'[u]) = n /\ got'[u][n] = m
          /\ \A i \in 1 .. Len(got[u]) : got'[u][i] = got[u][i]
      BY <3>1, <3>2, Appended
    <3> HIDE DEF m
    <3>8. \A i \in 1 .. Len(got'[u]) : IsReply(got[u][i], u, i)'
      <4> SUFFICES ASSUME NEW i \in 1 .. Len(got'[u]) PROVE IsReply(got[u][i], u, i)'
        OBVIOUS
      <4>1. CASE i = n
        BY <3>4, <3>6, <3>7, <4>1 DEF IsReply
      <4>2. CASE i # n
        <5>1. i \in 1 .. Len(got[u])
          BY <1>0, <3>7, <4>2
        <5>2. QED  BY <1>2, <3>7, <5>1 DEF IsReply
      <4>3. QED  BY <4>1, <4>2
    <3>9. phase'[u] = "last" => got'[u] # <<>> /\ got'[u][Len(got'[u])].last
      <4>1. got'[u] # <<>>
        BY <3>5, <3>7
      <4>2. phase'[u] = "last" => m.last
        BY <3>1
      <4>3. QED  BY <3>7, <4>1, <4>2
    <3>10. fate'[u] # "answered"
      BY <1>0, <2>1, <2>3 DEF HandlerFits
    <3>11. phase'[u] \notin {"idle", "sending", "ready", "waiting"}
      BY <3>1
    <3>12. QED  BY <3>8, <3>9, <3>10, <3>11 DEF HandlerFits
  <2>4. QED  BY <2>2, <2>3
<1>12. UNCHANGED <<phase, batch, got, fate>>
        \/ (\E v \in Uids : \/ Submit(v) \/ SendOne(v) \/ SendFails(v) \/ SendCancelled(v)
                            \/ StartStream(v) \/ NeverStarted(v) \/ Wake(v) \/ Finish(v)
                            \/ EndWithError(v) \/ Cancelled(v) \/ Collected(v) \/ WaitAgain(v)
                            \/ NoticedGone(v) \/ Yield(v))
  BY DEF Next, Handler, EventLoop, AbortStarts, AbortSends, AbortFails, Listen, BackendFails,
         ShutdownAsync, Tokenize, Detokenize, TakeRequest, TakeAbort, AcceptToken, vars, handlerVars
<1>13. QED  BY <1>5, <1>6, <1>7, <1>8, <1>9, <1>10, <1>11, <1>12
-------------------------------------------------------------------------------
(* The stream of a request: what the client has, what its generator took, what    *)
(* its entry holds and what is under way are the replies made, in their order.    *)
LEMMA AttachedBefore ==
  ASSUME Shapes, NEW u \in Uids, [Next]_vars, phase'[u] \in Attached
  PROVE  phase[u] \in Attached
<1>1. phase \in [Uids -> Phases]
  BY DEF Shapes, TypeOK
<1>2. ASSUME NEW v \in Uids,
             \/ Submit(v) \/ SendOne(v) \/ SendFails(v) \/ SendCancelled(v)
             \/ StartStream(v) \/ NeverStarted(v) \/ Wake(v) \/ Finish(v)
             \/ EndWithError(v) \/ Cancelled(v) \/ Collected(v) \/ WaitAgain(v)
             \/ NoticedGone(v) \/ Yield(v)
      PROVE  phase[u] \in Attached
  BY <1>1, <1>2 DEF Submit, SendOne, SendFails, SendCancelled, StartStream, NeverStarted, Wake, Finish,
       EndWithError, Cancelled, Collected, WaitAgain, NoticedGone, Yield, Enters, Attached, Running, Phases
<1>3. UNCHANGED phase
        \/ (\E v \in Uids : \/ Submit(v) \/ SendOne(v) \/ SendFails(v) \/ SendCancelled(v)
                            \/ StartStream(v) \/ NeverStarted(v) \/ Wake(v) \/ Finish(v)
                            \/ EndWithError(v) \/ Cancelled(v) \/ Collected(v) \/ WaitAgain(v)
                            \/ NoticedGone(v) \/ Yield(v))
  BY DEF Next, Handler, EventLoop, AbortStarts, AbortSends, AbortFails, Listen, BackendFails,
         ShutdownAsync, Tokenize, Detokenize, TakeRequest, TakeAbort, AcceptToken, vars, handlerVars
<1>4. QED  BY <1>2, <1>3

(* Replies that stay where they are stay what they are. *)
LEMMA KeptReplies ==
  ASSUME Shapes, NEW u \in Uids, RequestFits(u), [Next]_vars, StreamFits(u)
  PROVE  /\ \A i \in 1 .. Len(batch[u]) :
              /\ IsReply(batch[u][i], u, Len(got[u]) + i)
              /\ Len(got[u]) + i <= made'[u]
              /\ batch[u][i].last => Len(got[u]) + i = made'[u] /\ u \notin live'
         /\ \A i \in 1 .. Len(acks[u]) :
              /\ IsReply(acks[u][i], u, Out(u) + i)
              /\ Out(u) + i <= made'[u]
              /\ acks[u][i].last => Out(u) + i = made'[u] /\ u \notin live'
         /\ \A i \in Of(toFrontend, u) :
              /\ toFrontend[i].pos <= made'[u]
              /\ toFrontend[i].last => toFrontend[i].pos = made'[u] /\ u \notin live'
         /\ \A i \in Of(toDetokenizer, u) :
              /\ toDetokenizer[i].pos <= made'[u]
              /\ toDetokenizer[i].last => toDetokenizer[i].pos = made'[u] /\ u \notin live'
<1>0. /\ toFrontend \in Seq(Replies) /\ toDetokenizer \in Seq(Replies)
      /\ Len(got[u]) \in Nat /\ Len(batch[u]) \in Nat /\ Len(acks[u]) \in Nat
  BY DEF Shapes, TypeOK
<1>a. Out(u) \in Nat
  <2>1. Len(got[u]) \in Nat /\ Len(batch[u]) \in Nat
    BY <1>0
  <2>2. \A m, n \in Nat : m + n \in Nat
    OBVIOUS
  <2>3. QED  BY ONLY <2>1, <2>2, Zenon DEF Out
<1>1. \A m : \A pos \in Nat \ {0} :
        m.uid = u /\ m.pos = pos /\ pos <= made[u] /\ (m.last => pos = made[u] /\ u \notin live)
          => pos <= made'[u] /\ (m.last => pos = made'[u] /\ u \notin live')
  BY RepliesStay
<1>2. ASSUME NEW m, NEW pos \in Nat \ {0}, IsReply(m, u, pos)
      PROVE  pos <= made'[u] /\ (m.last => pos = made'[u] /\ u \notin live')
  BY <1>1, <1>2 DEF IsReply
<1>3. ASSUME NEW i \in 1 .. Len(batch[u])
      PROVE  /\ IsReply(batch[u][i], u, Len(got[u]) + i)
             /\ Len(got[u]) + i <= made'[u]
             /\ batch[u][i].last => Len(got[u]) + i = made'[u] /\ u \notin live'
  <2>1. IsReply(batch[u][i], u, Len(got[u]) + i) /\ Len(got[u]) + i \in Nat \ {0}
    BY <1>0 DEF StreamFits, Served, Queued
  <2>2. QED  BY <1>2, <2>1
<1>4. ASSUME NEW i \in 1 .. Len(acks[u])
      PROVE  /\ IsReply(acks[u][i], u, Out(u) + i)
             /\ Out(u) + i <= made'[u]
             /\ acks[u][i].last => Out(u) + i = made'[u] /\ u \notin live'
  <2>1. IsReply(acks[u][i], u, Out(u) + i)
    BY DEF StreamFits, Served, Queued
  <2>2. Out(u) + i \in Nat \ {0}
    BY <1>0, <1>a
  <2>3. QED  BY <1>2, <2>1, <2>2
<1>5. Heard(u) \in Nat
  BY <1>0, <1>a DEF Heard
<1>6. ASSUME NEW i \in Of(toFrontend, u)
      PROVE  /\ toFrontend[i].pos <= made'[u]
             /\ toFrontend[i].last => toFrontend[i].pos = made'[u] /\ u \notin live'
  <2>1. IsReply(toFrontend[i], u, toFrontend[i].pos) /\ Heard(u) < toFrontend[i].pos
    BY DEF StreamFits, Served, Queued, Carries
  <2>2. toFrontend[i].pos \in Nat \ {0}
    BY <1>0, <1>5, <2>1, OfTyped
  <2>3. QED  BY <1>2, <2>1, <2>2
<1>7. ASSUME NEW i \in Of(toDetokenizer, u)
      PROVE  /\ toDetokenizer[i].pos <= made'[u]
             /\ toDetokenizer[i].last => toDetokenizer[i].pos = made'[u] /\ u \notin live'
  <2>1. IsReply(toDetokenizer[i], u, toDetokenizer[i].pos) /\ Heard(u) < toDetokenizer[i].pos
    BY DEF StreamFits, Served, Queued, Carries
  <2>2. toDetokenizer[i].pos \in Nat \ {0}
    BY <1>0, <1>5, <2>1, OfTyped
  <2>3. QED  BY <1>2, <2>1, <2>2
<1>8. QED  BY <1>3, <1>4, <1>6, <1>7
LEMMA StreamStep ==
  ASSUME Shapes, NEW u \in Uids, TablesFit(u), RequestFits(u), HandlerFits(u), [Next]_vars,
         phase[u] \in Attached => StreamFits(u), phase'[u] \in Attached
  PROVE  StreamFits(u)'
<1>0. /\ toFrontend \in Seq(Replies) /\ toDetokenizer \in Seq(Replies)
      /\ acks \in [Uids -> Seq(Replies)] /\ batch \in [Uids -> Seq(Replies)] /\ got \in [Uids -> Seq(Replies)]
      /\ made \in [Uids -> Nat] /\ toBackend \in Seq(Messages)
  BY DEF Shapes, TypeOK
<1>t. toFrontend \in Seq(Replies)
  BY <1>0
<1>e. toDetokenizer \in Seq(Replies)
  BY <1>0
<1>n. Len(got[u]) \in Nat /\ Len(batch[u]) \in Nat /\ Len(acks[u]) \in Nat /\ made[u] \in Nat
  BY <1>0
<1>s. \A m, n \in Nat : m + n \in Nat
  OBVIOUS
<1>o. Out(u) \in Nat
  BY ONLY <1>n, <1>s, Zenon DEF Out
<1>h. Heard(u) \in Nat
  BY ONLY <1>o, <1>n, <1>s, Zenon DEF Heard
<1>1. phase[u] \in Attached
  BY AttachedBefore
<1>2. Served(u) /\ Queued(u) /\ Carries(toFrontend, toDetokenizer, u, Heard(u), made[u])
  BY <1>1 DEF StreamFits
<1>3. Heard(u) <= made[u]
  BY <1>2 DEF Served
<1>4. /\ made'[u] = made[u] \/ made'[u] = made[u] + 1
      /\ made[u] > 0 /\ u \notin live => made'[u] = made[u] /\ u \notin live'
  BY MadeStep
<1>b. \A i \in 1 .. Len(batch[u]) :
              /\ IsReply(batch[u][i], u, Len(got[u]) + i)
              /\ Len(got[u]) + i <= made'[u]
              /\ batch[u][i].last => Len(got[u]) + i = made'[u] /\ u \notin live'
  BY <1>1, KeptReplies
<1>a. \A i \in 1 .. Len(acks[u]) :
              /\ IsReply(acks[u][i], u, Out(u) + i)
              /\ Out(u) + i <= made'[u]
              /\ acks[u][i].last => Out(u) + i = made'[u] /\ u \notin live'
  BY <1>1, KeptReplies
<1>f. \A i \in Of(toFrontend, u) :
              /\ toFrontend[i].pos <= made'[u]
              /\ toFrontend[i].last => toFrontend[i].pos = made'[u] /\ u \notin live'
  BY <1>1, KeptReplies
<1>d. \A i \in Of(toDetokenizer, u) :
              /\ toDetokenizer[i].pos <= made'[u]
              /\ toDetokenizer[i].last => toDetokenizer[i].pos = made'[u] /\ u \notin live'
  BY <1>1, KeptReplies
<1>u. /\ \A i \in Of(toFrontend, u) : toFrontend[i].uid = u
      /\ \A i \in Of(toDetokenizer, u) : toDetokenizer[i].uid = u
  BY DEF Of
<1>5. ASSUME acks'[u] = acks[u], batch'[u] = batch[u], got'[u] = got[u]
      PROVE  Served(u)' /\ Heard(u)' = Heard(u)
  <2>1. Out(u)' = Out(u) /\ Heard(u)' = Heard(u)
    BY <1>5 DEF Out, Heard
  <2>2. Heard(u) <= made'[u]
    BY <1>3, <1>4, <1>n, <1>h
  <2>3. \A i \in 1 .. Len(batch'[u]) : IsReply(batch[u][i], u, Len(got[u]) + i)'
    BY <1>b, <1>5 DEF IsReply
  <2>4. \A i \in 1 .. Len(acks'[u]) : IsReply(acks[u][i], u, Out(u) + i)'
    BY <1>a, <1>5, <2>1 DEF IsReply
  <2>5. QED  BY <2>1, <2>2, <2>3, <2>4 DEF Served
<1>6. ASSUME UNCHANGED <<toFrontend, toDetokenizer>> PROVE Queued(u)'
  BY <1>f, <1>d, <1>u, <1>6 DEF Queued, IsReply, Of
<1>7. ASSUME UNCHANGED <<toFrontend, toDetokenizer>>,
             acks'[u] = acks[u], batch'[u] = batch[u], got'[u] = got[u], made'[u] = made[u]
      PROVE  StreamFits(u)'
  <2>1. Carries(toFrontend', toDetokenizer', u, Heard(u)', made'[u])
    BY <1>2, <1>5, <1>7
  <2>2. QED  BY <1>5, <1>6, <1>7, <2>1 DEF StreamFits, Carries, Of
<1>8. ASSUME NEW v \in Uids, Wake(v) PROVE StreamFits(u)'
  <2>1. /\ phase[v] = "waiting" /\ UNCHANGED <<got, toFrontend, toDetokenizer, made>>
        /\ batch' = [batch EXCEPT ![v] = acks[v]] /\ acks' = [acks EXCEPT ![v] = <<>>]
    BY <1>8 DEF Wake, Taken, queueVars, backendVars
  <2>2. CASE u # v
    BY <1>0, <1>7, <2>1, <2>2
  <2>3. CASE u = v
    <3>1. batch[u] = <<>> /\ Len(batch[u]) = 0
      <4>1. batch[u] = <<>>
        BY <2>1, <2>3 DEF HandlerFits
      <4>2. QED  BY <4>1, EmptySeq
    <3>2. batch'[u] = acks[u] /\ acks'[u] = <<>> /\ got'[u] = got[u] /\ made'[u] = made[u]
      BY <1>0, <2>1, <2>3
    <3>3. Out(u) = Len(got[u]) /\ Heard(u) = Len(got[u]) + Len(acks[u])
      BY <1>n, <3>1 DEF Out, Heard
    <3>4. Len(acks'[u]) = 0 /\ Out(u)' = Len(got[u]) + Len(acks[u])
      BY <3>2, EmptySeq DEF Out
    <3>5. Heard(u)' = Heard(u)
      BY <1>n, <3>3, <3>4 DEF Heard
    <3>6. \A i \in 1 .. Len(batch'[u]) : IsReply(batch[u][i], u, Len(got[u]) + i)'
      BY <1>a, <3>2, <3>3 DEF IsReply
    <3>7. \A i \in 1 .. Len(acks'[u]) : IsReply(acks[u][i], u, Out(u) + i)'
      BY <3>4
    <3>8. Served(u)'
      BY <1>3, <3>2, <3>5, <3>6, <3>7 DEF Served
    <3>9. Carries(toFrontend', toDetokenizer', u, Heard(u)', made'[u])
      BY <1>2, <2>1, <3>5, <3>2
    <3>10. Queued(u)'
      BY <1>6, <2>1
    <3>11. QED  BY <3>8, <3>9, <3>10 DEF StreamFits, Carries, Of
  <2>4. QED  BY <2>2, <2>3
<1>9. ASSUME NEW v \in Uids, Yield(v) PROVE StreamFits(u)'
  <2>1. /\ batch[v] # <<>> /\ UNCHANGED <<acks, toFrontend, toDetokenizer, made>>
        /\ got' = [got EXCEPT ![v] = Append(@, Head(batch[v]))]
        /\ batch' = [batch EXCEPT ![v] = Tail(@)]
    BY <1>9 DEF Yield, managerVars, queueVars, backendVars
  <2>2. CASE u # v
    BY <1>0, <1>7, <2>1, <2>2
  <2>3. CASE u = v
    <3>0. /\ batch[u] \in Seq(Replies) /\ batch[u] # <<>> /\ got[u] \in Seq(Replies)
          /\ got'[u] = Append(got[u], Head(batch[u])) /\ batch'[u] = Tail(batch[u])
          /\ acks'[u] = acks[u] /\ made'[u] = made[u]
      BY <1>0, <2>1, <2>3
    <3>1. /\ Len(batch'[u]) = Len(batch[u]) - 1 /\ Head(batch[u]) \in Replies
          /\ \A i \in 1 .. Len(batch[u]) - 1 : batch'[u][i] = batch[u][i + 1]
      BY <3>0, Shortened
    <3>2. Len(got'[u]) = Len(got[u]) + 1
      BY <3>0, <3>1, Appended
    <3>3. Out(u)' = Out(u)
      <4>1. \A m, n \in Nat : (m + 1) + (n - 1) = m + n
        OBVIOUS
      <4>2. (Len(got[u]) + 1) + (Len(batch[u]) - 1) = Len(got[u]) + Len(batch[u])
        BY ONLY <1>n, <4>1, Zenon
      <4>3. QED  BY ONLY <3>1, <3>2, <4>2, Zenon DEF Out
    <3>4. Heard(u)' = Heard(u)
      BY <3>0, <3>3 DEF Heard
    <3>5. \A i \in 1 .. Len(batch'[u]) : IsReply(batch[u][i], u, Len(got[u]) + i)'
      <4> SUFFICES ASSUME NEW i \in 1 .. Len(batch'[u])
                   PROVE  IsReply(batch[u][i], u, Len(got[u]) + i)'
        OBVIOUS
      <4>1. i + 1 \in 1 .. Len(batch[u]) /\ batch'[u][i] = batch[u][i + 1]
        BY <1>n, <3>1
      <4>2. Len(got[u]) + (i + 1) = Len(got'[u]) + i
        <5>1. \A m, n \in Nat : m + (n + 1) = (m + 1) + n
          OBVIOUS
        <5>2. i \in Nat
          BY <4>1
        <5>3. QED  BY ONLY <1>n, <3>2, <5>1, <5>2, ZenonT(30)
      <4>3. QED  BY <1>b, <4>1, <4>2 DEF IsReply
    <3>6. \A i \in 1 .. Len(acks'[u]) : IsReply(acks[u][i], u, Out(u) + i)'
      BY <1>a, <3>0, <3>3 DEF IsReply
    <3>7. Served(u)'
      BY <1>3, <3>0, <3>4, <3>5, <3>6 DEF Served
    <3>8. Carries(toFrontend', toDetokenizer', u, Heard(u)', made'[u])
      BY <1>2, <2>1, <3>0, <3>4
    <3>9. Queued(u)'
      BY <1>6, <2>1
    <3>10. QED  BY <3>7, <3>8, <3>9 DEF StreamFits, Carries, Of
  <2>4. QED  BY <2>2, <2>3
<1>10. CASE Listen
  <2> DEFINE m == Head(toFrontend)
  <2>1. /\ toFrontend # <<>> /\ toFrontend' = Tail(toFrontend)
        /\ UNCHANGED <<batch, got, toDetokenizer, made, live>>
        /\ m.uid \in mapped => acks' = [acks EXCEPT ![m.uid] = Append(@, m)]
        /\ m.uid \notin mapped => acks' = acks
    BY <1>10 DEF Listen, handlerVars, backendVars
  <2>s. toFrontend # <<>>
    BY <2>1
  <2>m. m \in Replies
    BY ONLY <1>t, <2>s, Shortened
  <2>2. /\ \A i \in Of(toFrontend', u) : i + 1 \in Of(toFrontend, u) /\ toFrontend'[i] = toFrontend[i + 1]
        /\ m \in Replies /\ m = toFrontend[1] /\ (m.uid = u <=> 1 \in Of(toFrontend, u))
    <3>1. \A i \in Of(Tail(toFrontend), u) : i \in Nat \ {0} /\ i + 1 \in Of(toFrontend, u) /\ Tail(toFrontend)[i] = toFrontend[i + 1]
      BY ONLY <1>t, <2>s, OfShortened
    <3>2. m = toFrontend[1]
      BY ONLY <1>t, <2>s, OfShortened
    <3>3. m.uid = u <=> 1 \in Of(toFrontend, u)
      BY ONLY <1>t, <2>s, OfShortened
    <3>4. \A i \in Of(toFrontend', u) : i + 1 \in Of(toFrontend, u) /\ toFrontend'[i] = toFrontend[i + 1]
      BY ONLY <2>1, <3>1
    <3>5. QED  BY ONLY <2>m, <3>2, <3>3, <3>4
  <2>3. /\ m.uid = u => /\ m.pos = Heard(u) + 1
                        /\ Carries(toFrontend', toDetokenizer, u, Heard(u) + 1, made[u])
        /\ m.uid # u => Carries(toFrontend', toDetokenizer, u, Heard(u), made[u])
    <3>1. Carries(toFrontend, toDetokenizer, u, Heard(u), made[u]) /\ made[u] \in Nat
      BY <1>2, <1>n
    <3>2. m.uid = u => m.pos = Heard(u) + 1
      BY ONLY <1>t, <1>e, <1>h, <2>s, <3>1, CarryListen
    <3>3. m.uid = u => Carries(Tail(toFrontend), toDetokenizer, u, Heard(u) + 1, made[u])
      BY ONLY <1>t, <1>e, <1>h, <2>s, <3>1, CarryListen
    <3>4. m.uid # u => Carries(Tail(toFrontend), toDetokenizer, u, Heard(u), made[u])
      BY ONLY <1>t, <1>e, <1>h, <2>s, <3>1, CarryListen
    <3>5. toFrontend' = Tail(toFrontend)
      BY <2>1
    <3> HIDE DEF m
    <3>6. QED  BY ONLY <3>2, <3>3, <3>4, <3>5
  <2> HIDE DEF m
  <2>4. Queued(u)'
    <3>1. \A i \in Of(toFrontend', u) : IsReply(toFrontend[i], u, toFrontend[i].pos)'
      BY <1>f, <1>u, <2>2 DEF IsReply
    <3>2. \A i \in Of(toDetokenizer', u) : IsReply(toDetokenizer[i], u, toDetokenizer[i].pos)'
      BY <1>d, <1>u, <2>1 DEF IsReply
    <3>3. QED  BY <3>1, <3>2 DEF Queued, Of
  <2>5. CASE m.uid # u
    <3>1. acks'[u] = acks[u] /\ batch'[u] = batch[u] /\ got'[u] = got[u] /\ made'[u] = made[u]
      BY <1>0, <2>1, <2>5
    <3>2. Served(u)' /\ Heard(u)' = Heard(u)
      BY <1>5, <3>1
    <3>3. Carries(toFrontend', toDetokenizer', u, Heard(u)', made'[u])
      BY <2>1, <2>3, <2>5, <3>1, <3>2
    <3>4. QED  BY <2>4, <3>2, <3>3 DEF StreamFits, Carries, Of
  <2>6. CASE m.uid = u
    <3>1. m = toFrontend[1] /\ 1 \in Of(toFrontend, u) /\ m.pos = Heard(u) + 1 /\ m.pos <= made[u]
      BY <1>2, <2>2, <2>3, <2>6 DEF Carries
    <3>2. u \in mapped
      <4>1. made[u] # 0
        BY <1>h, <1>n, <3>1
      <4>2. phase[u] # "idle"
        BY <4>1 DEF RequestFits
      <4>3. QED  BY <1>1, <4>2 DEF Attached, TablesFit
    <3>3. acks'[u] = Append(acks[u], m) /\ acks[u] \in Seq(Replies)
      BY <1>0, <2>1, <2>6, <3>2
    <3>4. /\ Len(acks'[u]) = Len(acks[u]) + 1 /\ acks'[u][Len(acks[u]) + 1] = m
          /\ \A i \in 1 .. Len(acks[u]) : acks'[u][i] = acks[u][i]
      BY <2>2, <3>3, Appended
    <3>5. Out(u)' = Out(u)
      BY <2>1 DEF Out
    <3>6. Heard(u)' = Heard(u) + 1
      BY <1>n, <1>o, <3>4, <3>5 DEF Heard
    <3>7. \A i \in 1 .. Len(batch'[u]) : IsReply(batch[u][i], u, Len(got[u]) + i)'
      BY <1>b, <2>1 DEF IsReply
    <3>8. Out(u) + (Len(acks[u]) + 1) = m.pos
      BY <1>n, <1>o, <3>1 DEF Heard
    <3>9. \A i \in 1 .. Len(acks'[u]) : IsReply(acks[u][i], u, Out(u) + i)'
      <4> SUFFICES ASSUME NEW i \in 1 .. Len(acks'[u])
                   PROVE  IsReply(acks[u][i], u, Out(u) + i)'
        OBVIOUS
      <4>1. CASE i = Len(acks[u]) + 1
        BY <1>f, <2>6, <3>1, <3>4, <3>5, <3>8, <4>1 DEF IsReply
      <4>2. CASE i # Len(acks[u]) + 1
        <5>1. i \in 1 .. Len(acks[u])
          BY <1>n, <3>4, <4>2
        <5>2. QED  BY <1>a, <3>4, <3>5, <5>1 DEF IsReply
      <4>3. QED  BY <4>1, <4>2
    <3>10. Heard(u)' <= made'[u]
      BY <2>1, <3>1, <3>6
    <3>11. Served(u)'
      BY <3>7, <3>9, <3>10 DEF Served
    <3>12. Carries(toFrontend', toDetokenizer', u, Heard(u)', made'[u])
      BY <2>1, <2>3, <2>6, <3>6
    <3>13. QED  BY <2>4, <3>11, <3>12 DEF StreamFits, Carries, Of
  <2>7. QED  BY <2>5, <2>6
<1>11. CASE Detokenize
  <2> DEFINE m == Head(toDetokenizer)
  <2>1. /\ toDetokenizer # <<>> /\ toDetokenizer' = Tail(toDetokenizer)
        /\ toFrontend' = Append(toFrontend, m)
        /\ UNCHANGED <<batch, got, acks, made, live>>
    BY <1>11 DEF Detokenize, handlerVars, backendVars, managerVars, Put
  <2>s. toDetokenizer # <<>>
    BY <2>1
  <2>m. m \in Replies
    BY ONLY <1>e, <2>s, Shortened
  <2>2. /\ \A i \in Of(toDetokenizer', u) : i + 1 \in Of(toDetokenizer, u) /\ toDetokenizer'[i] = toDetokenizer[i + 1]
        /\ m \in Replies /\ m = toDetokenizer[1] /\ (m.uid = u <=> 1 \in Of(toDetokenizer, u))
    <3>1. \A i \in Of(Tail(toDetokenizer), u) : i \in Nat \ {0} /\ i + 1 \in Of(toDetokenizer, u) /\ Tail(toDetokenizer)[i] = toDetokenizer[i + 1]
      BY ONLY <1>e, <2>s, OfShortened
    <3>2. m = toDetokenizer[1]
      BY ONLY <1>e, <2>s, OfShortened
    <3>3. m.uid = u <=> 1 \in Of(toDetokenizer, u)
      BY ONLY <1>e, <2>s, OfShortened
    <3>4. \A i \in Of(toDetokenizer', u) : i + 1 \in Of(toDetokenizer, u) /\ toDetokenizer'[i] = toDetokenizer[i + 1]
      BY ONLY <2>1, <3>1
    <3>5. QED  BY ONLY <2>m, <3>2, <3>3, <3>4
  <2>3. Carries(toFrontend', toDetokenizer', u, Heard(u), made[u])
    BY <1>0, <1>2, <1>h, <1>n, <2>1, CarryDetokenize
  <2> HIDE DEF m
  <2>4. /\ m.uid = u => Of(toFrontend', u) = Of(toFrontend, u) \cup {Len(toFrontend) + 1}
        /\ m.uid # u => Of(toFrontend', u) = Of(toFrontend, u)
        /\ toFrontend'[Len(toFrontend) + 1] = m
    <3>1. m.uid = u => Of(Append(toFrontend, m), u) = Of(toFrontend, u) \cup {Len(toFrontend) + 1}
      BY ONLY <1>t, <1>e, <2>m, OfAppended
    <3>2. m.uid # u => Of(Append(toFrontend, m), u) = Of(toFrontend, u)
      BY ONLY <1>t, <1>e, <2>m, OfAppended
    <3>3. Append(toFrontend, m)[Len(toFrontend) + 1] = m
      BY ONLY <1>t, <1>e, <2>m, OfAppended
    <3>4. QED  BY ONLY <2>1, <3>1, <3>2, <3>3
  <2>5. \A i \in Of(toFrontend, u) : toFrontend'[i] = toFrontend[i]
    <3>1. \A i \in Of(toFrontend, u) : Append(toFrontend, m)[i] = toFrontend[i]
      BY ONLY <1>t, <1>e, <2>m, OfAppended
    <3>2. QED  BY ONLY <2>1, <3>1
  <2>6. \A i \in Of(toFrontend', u) : IsReply(toFrontend[i], u, toFrontend[i].pos)'
    <3> SUFFICES ASSUME NEW i \in Of(toFrontend', u)
                 PROVE  IsReply(toFrontend[i], u, toFrontend[i].pos)'
      OBVIOUS
    <3>1. CASE i \in Of(toFrontend, u)
      BY <1>f, <1>u, <2>5, <3>1 DEF IsReply
    <3>2. CASE i = Len(toFrontend) + 1 /\ m.uid = u
      BY <1>d, <2>2, <2>4, <3>2 DEF IsReply
    <3>3. QED  BY <2>4, <3>1, <3>2
  <2>7. \A i \in Of(toDetokenizer', u) : IsReply(toDetokenizer[i], u, toDetokenizer[i].pos)'
    BY <1>d, <1>u, <2>2 DEF IsReply
  <2>8. Queued(u)'
    BY <2>6, <2>7 DEF Queued, Of
  <2>9. Served(u)' /\ Heard(u)' = Heard(u)
    BY <1>5, <2>1
  <2>10. Carries(toFrontend', toDetokenizer', u, Heard(u)', made'[u])
    BY <2>1, <2>3, <2>9
  <2>11. QED  BY <2>8, <2>9, <2>10 DEF StreamFits, Carries, Of
<1>12. ASSUME NEW v \in Uids, NEW ends \in BOOLEAN, Reply(v, ends),
              ends /\ v = u => u \notin live',
              UNCHANGED <<managerVars, handlerVars, toFrontend>>
       PROVE  StreamFits(u)'
  <2> DEFINE n == made[v] + 1
             m == [uid |-> v, pos |-> n, last |-> ends]
  <2>1. /\ made' = [made EXCEPT ![v] = @ + 1] /\ toDetokenizer' = Append(toDetokenizer, m)
        /\ UNCHANGED <<acks, batch, got, toFrontend>>
    BY <1>12 DEF Reply, Put, managerVars, handlerVars
  <2>2. m \in Replies /\ m.uid = v /\ m.pos = made[v] + 1 /\ m.last = ends
    <3>1. n \in Nat
      BY <1>0
    <3> HIDE DEF n
    <3>2. m \in Replies /\ m.uid = v /\ m.pos = n /\ m.last = ends
      BY <3>1, Zenon DEF Replies
    <3>3. QED  BY <3>2 DEF n
  <2>m. m \in Replies
    BY <2>2
  <2> HIDE DEF m, n
  <2>3. /\ m.uid = u /\ m.pos = made[u] + 1 => Carries(toFrontend, Append(toDetokenizer, m), u, Heard(u), made[u] + 1)
        /\ m.uid # u => Carries(toFrontend, Append(toDetokenizer, m), u, Heard(u), made[u])
    BY ONLY <1>0, <1>2, <1>3, <1>h, <1>n, <2>2, CarryReply
  <2>4. made'[u] = IF u = v THEN made[u] + 1 ELSE made[u]
    BY <1>0, <2>1
  <2>5. Served(u)' /\ Heard(u)' = Heard(u)
    BY <1>5, <2>1
  <2>6. Carries(toFrontend', toDetokenizer', u, Heard(u)', made'[u])
    BY <2>1, <2>2, <2>3, <2>4, <2>5
  <2>7. Of(toDetokenizer', u) = Of(toDetokenizer, u) \cup (IF u = v THEN {Len(toDetokenizer) + 1} ELSE {})
    <3>1. m.uid = u => Of(Append(toDetokenizer, m), u) = Of(toDetokenizer, u) \cup {Len(toDetokenizer) + 1}
      BY ONLY <1>t, <1>e, <2>m, OfAppended
    <3>2. m.uid # u => Of(Append(toDetokenizer, m), u) = Of(toDetokenizer, u)
      BY ONLY <1>t, <1>e, <2>m, OfAppended
    <3>3. QED  BY ONLY <2>1, <2>2, <3>1, <3>2
  <2>8. /\ \A i \in Of(toDetokenizer, u) : toDetokenizer'[i] = toDetokenizer[i]
        /\ toDetokenizer'[Len(toDetokenizer) + 1] = m
    <3>1. \A i \in Of(toDetokenizer, u) : Append(toDetokenizer, m)[i] = toDetokenizer[i]
      BY ONLY <1>t, <1>e, <2>m, OfAppended
    <3>2. Append(toDetokenizer, m)[Len(toDetokenizer) + 1] = m
      BY ONLY <1>t, <1>e, <2>m, OfAppended
    <3>3. QED  BY ONLY <2>1, <3>1, <3>2
  <2>9. \A i \in Of(toDetokenizer', u) : IsReply(toDetokenizer[i], u, toDetokenizer[i].pos)'
    <3> SUFFICES ASSUME NEW i \in Of(toDetokenizer', u)
                 PROVE  IsReply(toDetokenizer[i], u, toDetokenizer[i].pos)'
      OBVIOUS
    <3>1. CASE i \in Of(toDetokenizer, u)
      BY <1>d, <1>u, <2>8, <3>1 DEF IsReply
    <3>2. CASE i = Len(toDetokenizer) + 1 /\ u = v
      <4>1. /\ toDetokenizer'[i].uid = u /\ toDetokenizer'[i].pos = made'[u]
            /\ toDetokenizer'[i].last = ends
        BY <2>2, <2>4, <2>8, <3>2
      <4>2. made'[u] \in Nat
        BY <1>n, <1>4
      <4>3. toDetokenizer'[i].last => u \notin live'
        BY <1>12, <3>2, <4>1
      <4>4. QED  BY <4>1, <4>2, <4>3 DEF IsReply
    <3>3. QED  BY <2>7, <3>1, <3>2
  <2>10. \A i \in Of(toFrontend', u) : IsReply(toFrontend[i], u, toFrontend[i].pos)'
    BY <1>f, <1>u, <2>1 DEF IsReply
  <2>11. Queued(u)'
    BY <2>9, <2>10 DEF Queued, Of
  <2>12. QED  BY <2>5, <2>6, <2>11 DEF StreamFits, Carries, Of
<1>13. ASSUME NEW v \in Uids, AcceptToken(v) PROVE StreamFits(u)'
  <2>1. PICK ends \in BOOLEAN : Reply(v, ends) /\ live' = IF ends THEN live \ {v} ELSE live
    BY <1>13 DEF AcceptToken
  <2>2. UNCHANGED <<managerVars, handlerVars, toFrontend>>
    BY <1>13 DEF AcceptToken
  <2>3. ends /\ v = u => u \notin live'
    BY <2>1
  <2>4. QED  BY <1>12, <2>1, <2>2, <2>3
<1>14. CASE TakeRequest
  <2> DEFINE v == Head(toBackend).uid
  <2>1. /\ toBackend # <<>> /\ Head(toBackend).kind = "request"
        /\ UNCHANGED <<managerVars, handlerVars, toFrontend>>
        /\ \/ UNCHANGED <<made, toDetokenizer>>
           \/ Reply(v, TRUE) /\ UNCHANGED live
    BY <1>14 DEF TakeRequest
  <2>2. v \in Uids
    <3>1. Head(toBackend) \in Messages
      BY <1>0, <2>1, Shortened
    <3>2. QED  BY <3>1 DEF Messages
  <2>3. v = u => u \notin live
    <3>1. v = u => IsRequest(Head(toBackend), u)
      BY <2>1 DEF IsRequest
    <3>2. v = u => Asked(toBackend, u) # {}
      BY <1>0, <2>1, <3>1, AskedShortened
    <3>3. QED  BY <3>2 DEF RequestFits
  <2> HIDE DEF v
  <2>4. CASE UNCHANGED <<made, toDetokenizer>>
    BY <1>7, <2>1, <2>4 DEF managerVars, handlerVars
  <2>5. CASE Reply(v, TRUE) /\ UNCHANGED live
    BY <1>12, <2>1, <2>2, <2>3, <2>5
  <2>6. QED  BY <2>1, <2>4, <2>5
<1>15. ASSUME UNCHANGED <<acks, batch, got, toFrontend, toDetokenizer, made>>
       PROVE  StreamFits(u)'
  BY <1>7, <1>15
<1>16. \/ UNCHANGED <<acks, batch, got, toFrontend, toDetokenizer, made>>
       \/ \E v \in Uids : Wake(v) \/ Yield(v) \/ AcceptToken(v)
       \/ Listen \/ Detokenize \/ TakeRequest
  BY ZenonT(60) DEF Next, Handler, EventLoop, Submit, SendFails, NeverStarted, StartStream, WaitAgain, Finish,
         EndWithError, Cancelled, Collected, NoticedGone, AbortStarts, CloseGenerator, AbortFails,
         BackendFails, ShutdownAsync, SendOne, SendCancelled, AbortSends, Tokenize, TakeAbort, vars,
         managerVars, handlerVars, queueVars, backendVars
<1>17. QED  BY <1>8, <1>9, <1>10, <1>11, <1>13, <1>14, <1>15, <1>16
-------------------------------------------------------------------------------
LEMMA FrontendInit == Init => FrontendInv
<1> SUFFICES ASSUME Init PROVE FrontendInv
  OBVIOUS
<1> USE FrontendAssumption
<1>1. <<>> \in Seq(Replies) /\ <<>> \in Seq(Messages) /\ Len(<<>>) = 0
  OBVIOUS
<1>2. /\ acks = [u \in Uids |-> <<>>] /\ batch = [u \in Uids |-> <<>>] /\ got = [u \in Uids |-> <<>>]
      /\ made = [u \in Uids |-> 0] /\ toFrontend = <<>> /\ toDetokenizer = <<>>
      /\ toTokenizer = <<>> /\ toBackend = <<>>
  BY DEF Init
<1>3. {acks, batch, got} \subseteq [Uids -> Seq(Replies)] /\ made \in [Uids -> Nat]
  BY <1>1, <1>2
<1>4. TypeOK
  <2>1. /\ mapped \subseteq Uids /\ requestUids \subseteq Uids /\ live \subseteq Uids
        /\ abortTask \in [Uids -> {"none", "new", "asleep"}]
        /\ {terminal, stopping} \subseteq BOOLEAN /\ event \in [Uids -> BOOLEAN]
        /\ phase \in [Uids -> Phases]
        /\ fate \in [Uids -> {"open", "answered", "failed", "left"}]
    BY DEF Init, Phases
  <2>2. /\ \A u \in Uids : {acks[u], batch[u], got[u]} \subseteq Seq(Replies)
        /\ {toTokenizer, toBackend} \subseteq Seq(Messages)
        /\ {toDetokenizer, toFrontend} \subseteq Seq(Replies)
    BY <1>1, <1>2
  <2>3. \A u \in Uids : made[u] \in 0 .. MaxReplies[u]
    BY <1>2
  <2>4. QED  BY <2>1, <2>2, <2>3 DEF TypeOK
<1>5. ASSUME NEW u \in Uids
      PROVE  TablesFit(u) /\ RequestFits(u) /\ HandlerFits(u) /\ StreamFits(u)
  <2>1. /\ phase[u] = "idle" /\ fate[u] = "open" /\ abortTask[u] = "none"
        /\ mapped = {} /\ requestUids = {} /\ live = {} /\ made[u] = 0
    BY DEF Init
  <2>2. acks[u] = <<>> /\ batch[u] = <<>> /\ got[u] = <<>>
    BY <1>2
  <2>3. /\ Asked(toTokenizer, u) = {} /\ Asked(toBackend, u) = {}
        /\ Of(toFrontend, u) = {} /\ Of(toDetokenizer, u) = {}
    BY <1>1, <1>2 DEF Asked, Of
  <2>4. Len(acks[u]) = 0 /\ Len(batch[u]) = 0 /\ Len(got[u]) = 0
    BY <1>1, <2>2
  <2>5. Out(u) = 0 /\ Heard(u) = 0
    BY <2>4 DEF Out, Heard
  <2>6. TablesFit(u)
    BY <2>1 DEF TablesFit, Attached, Running
  <2>7. RequestFits(u)
    BY <2>1, <2>3 DEF RequestFits
  <2>8. HandlerFits(u)
    BY <2>1, <2>2, <2>4 DEF HandlerFits
  <2>9. Served(u)
    BY <2>1, <2>4, <2>5 DEF Served
  <2>10. Queued(u)
    BY <2>3 DEF Queued
  <2>11. Carries(toFrontend, toDetokenizer, u, Heard(u), made[u])
    BY <2>1, <2>3, <2>5 DEF Carries
  <2>12. QED  BY <2>6, <2>7, <2>8, <2>9, <2>10, <2>11 DEF StreamFits
<1>6. QED  BY <1>3, <1>4, <1>5 DEF FrontendInv, Shapes

LEMMA FrontendStep == FrontendInv /\ [Next]_vars => FrontendInv'
<1> SUFFICES ASSUME FrontendInv, [Next]_vars PROVE FrontendInv'
  OBVIOUS
<1>1. Shapes /\ TypeOK
  BY DEF FrontendInv, Shapes
<1>2. \A u \in Uids : /\ TablesFit(u) /\ RequestFits(u) /\ HandlerFits(u)
                      /\ phase[u] \in Attached => StreamFits(u)
  BY DEF FrontendInv
<1>3. Shapes'
  BY <1>1, <1>2, ShapesStep
<1>4. ASSUME NEW u \in Uids PROVE TablesFit(u)'
  BY <1>1, <1>2, TablesStep
<1>5. ASSUME NEW u \in Uids PROVE RequestFits(u)'
  BY <1>1, <1>2, RequestStep
<1>6. ASSUME NEW u \in Uids PROVE HandlerFits(u)'
  BY <1>1, <1>2, HandlerStep
<1>7. ASSUME NEW u \in Uids, phase'[u] \in Attached PROVE StreamFits(u)'
  BY <1>1, <1>2, <1>7, StreamStep
<1>8. QED  BY <1>3, <1>4, <1>5, <1>6, <1>7 DEF FrontendInv

(* The invariant of the frontend in every state. *)
LEMMA FrontendInvHolds == Spec => []FrontendInv
  BY FrontendInit, FrontendStep, PTL DEF Spec

(* What a client of the API server is sent is the replies of its request, each    *)
(* once and in the order the scheduler made them, and an answered client has all   *)
(* of them up to the last: wait_for_ack and listen (api_server.py) lose none,     *)
(* for any number of requests and replies, whoever leaves or fails.               *)
THEOREM RepliesAlwaysInOrder == Spec => []RepliesInOrder
<1>1. FrontendInv => RepliesInOrder
  <2> SUFFICES ASSUME FrontendInv, NEW u \in Uids
               PROVE  /\ \A i \in 1 .. Len(got[u]) : got[u][i].uid = u /\ got[u][i].pos = i
                      /\ fate[u] = "answered" => Len(got[u]) = made[u] /\ got[u][made[u]].last
    BY DEF RepliesInOrder
  <2>1. HandlerFits(u)
    BY DEF FrontendInv
  <2>2. QED  BY <2>1 DEF HandlerFits, IsReply
<1>2. QED  BY <1>1, FrontendInvHolds, PTL

(* ack_map and event_map hold the entry of a request exactly as long as somebody  *)
(* waits on it or will remove it, but for a stream that never started             *)
(* (new_user, wait_for_ack and _schedule_abort in api_server.py).                 *)
THEOREM TablesAlwaysSound == Spec => []TablesAreSound
<1>1. FrontendInv => TablesAreSound
  <2> SUFFICES ASSUME FrontendInv PROVE TablesAreSound
    OBVIOUS
  <2>1. TypeOK
    BY DEF FrontendInv, Shapes
  <2>2. EntriesHaveOwners
    <3> SUFFICES ASSUME NEW u \in Uids
                 PROVE  /\ phase[u] \in {"sending", "ready", "waiting", "yielding", "last"} => u \in mapped
                        /\ u \in mapped => \/ phase[u] \notin {"idle", "closed"}
                                           \/ abortTask[u] # "none" \/ stopping
      BY DEF EntriesHaveOwners
    <3>1. TablesFit(u)
      BY DEF FrontendInv
    <3>2. QED  BY <3>1 DEF TablesFit, Running
  <2>3. QED  BY <2>1, <2>2 DEF TablesAreSound
<1>2. QED  BY <1>1, FrontendInvHolds, PTL

-------------------------------------------------------------------------------
(* TextStream: the split of the text at the delimiter is exact.                *)
Text == Seq(Characters)

(* A set of naturals has a least element. *)
LEMMA LeastNumber ==
  ASSUME NEW S, S \subseteq Nat, S # {}
  PROVE  \E m \in S : \A k \in S : m <= k
<1> DEFINE R == OpToRel(<, Nat)
<1>1. IsWellFoundedOn(R, Nat)
  BY NatLessThanWellFounded
<1>2. \A x, y \in Nat : x < y => <<x, y>> \in R
  BY DEF OpToRel
<1> HIDE DEF R
<1>3. PICK m \in S : \A y \in S : ~(<<y, m>> \in R)
  BY <1>1, WFMin, Zenon
<1>4. \A k \in S : m <= k
  <2>1. \A k \in S : k \in Nat /\ m \in Nat /\ ~(k < m)
    BY <1>2, <1>3
  <2>2. QED  BY <2>1
<1>5. QED  BY <1>4

(* A bounded set of naturals has a greatest element. *)
LEMMA GreatestNumber ==
  ASSUME NEW n \in Nat, NEW S, S \subseteq 0 .. n, S # {}
  PROVE  \E m \in S : \A k \in S : k <= m
<1> DEFINE Away == {n - k : k \in S}
<1>1. Away \subseteq Nat /\ Away # {}
  <2>1. \A k \in S : n - k \in Nat
    OBVIOUS
  <2>2. QED  BY <2>1
<1>2. PICK a \in Away : \A b \in Away : a <= b
  <2> HIDE DEF Away
  <2>1. QED  BY <1>1, LeastNumber
<1>3. PICK m \in S : a = n - m
  BY <1>2
<1>4. \A k \in S : k <= m
  <2>1. \A k \in S : n - m <= n - k /\ k \in Int /\ m \in Int
    BY <1>2, <1>3
  <2>2. QED  BY <2>1
<1>5. QED  BY <1>4

(* Induction over an initial segment, by the least counterexample. *)
LEMMA UpTo ==
  ASSUME NEW n \in Nat, NEW S, 0 \in S, \A k \in 0 .. n - 1 : k \in S => k + 1 \in S
  PROVE  0 .. n \subseteq S
<1> DEFINE Bad == (0 .. n) \ S
<1>1. SUFFICES ASSUME Bad # {} PROVE FALSE
  OBVIOUS
<1>2. PICK m \in Bad : \A k \in Bad : m <= k
  <2>1. Bad \subseteq Nat
    OBVIOUS
  <2> HIDE DEF Bad
  <2>2. QED  BY <1>1, <2>1, LeastNumber
<1>3. m \in 1 .. n /\ m - 1 \in 0 .. n /\ m - 1 \notin Bad
  <2>1. m \in 1 .. n
    OBVIOUS
  <2>2. m - 1 \in 0 .. n /\ ~(m <= m - 1)
    BY <2>1
  <2>3. QED  BY <1>2, <2>1, <2>2
<1>4. m - 1 \in S /\ m - 1 + 1 = m /\ m - 1 \in 0 .. n - 1
  BY <1>3
<1>5. QED  BY <1>4

-------------------------------------------------------------------------------
DelimiterLen == Len(Delimiter)

LEMMA DelimiterFacts == Delimiter \in Text /\ DelimiterLen \in Nat \ {0}
BY TextAssumption DEF Text, DelimiterLen

\* The lengths of the ends of a txt that the delimiter may begin with.

(* The ends of a text that may be the beginning of the delimiter. *)
Sizes(txt) == {k \in 1 .. Len(Delimiter) - 1 :
                  k <= Len(txt) /\ From(txt, Len(txt) - k) = SubSeq(Delimiter, 1, k)}

LEMMA HeldBackSizes ==
  ASSUME NEW txt
  PROVE  HeldBack(txt) = IF Sizes(txt) = {} THEN 0
                          ELSE CHOOSE k \in Sizes(txt) : \A j \in Sizes(txt) : j <= k
BY DEF HeldBack, Sizes

(* HeldBack is the longest of them. *)
LEMMA HeldBackIs ==
  ASSUME NEW txt \in Text
  PROVE  /\ HeldBack(txt) \in 0 .. Len(txt)
         /\ \A k \in Sizes(txt) : k <= HeldBack(txt)
         /\ HeldBack(txt) # 0 => HeldBack(txt) \in Sizes(txt)
<1>1. Len(txt) \in Nat
  BY DEF Text
<1>2. CASE Sizes(txt) = {}
  <2>1. HeldBack(txt) = 0
    BY <1>2 DEF HeldBack, Sizes
  <2>2. QED  BY <1>1, <1>2, <2>1
<1>3. CASE Sizes(txt) # {}
  <2>1. \E m \in Sizes(txt) : \A k \in Sizes(txt) : k <= m
    <3>1. Sizes(txt) \subseteq 0 .. Len(txt)
      BY <1>1, DelimiterFacts DEF Sizes, DelimiterLen
    <3>2. QED  BY <1>1, <1>3, <3>1, GreatestNumber
  <2>2. HeldBack(txt) = CHOOSE k \in Sizes(txt) : \A j \in Sizes(txt) : j <= k
    BY <1>3 DEF HeldBack, Sizes
  <2>3. HeldBack(txt) \in Sizes(txt) /\ \A k \in Sizes(txt) : k <= HeldBack(txt)
    BY <2>1, <2>2
  <2>4. Sizes(txt) \subseteq 0 .. Len(txt)
    BY <1>1, DelimiterFacts DEF Sizes, DelimiterLen
  <2>5. QED  BY <2>3, <2>4
<1>4. QED  BY <1>2, <1>3

(* FirstOf is the least element, and there is one only. *)
LEMMA FirstOfIs ==
  ASSUME NEW S, S \subseteq Nat, S # {}
  PROVE  FirstOf(S) \in S /\ \A j \in S : FirstOf(S) <= j
<1>1. \E m \in S : \A k \in S : m <= k
  BY LeastNumber
<1>2. QED  BY <1>1 DEF FirstOf

LEMMA FirstOfUnique ==
  ASSUME NEW S, S \subseteq Nat, NEW i \in S, \A j \in S : i <= j
  PROVE  FirstOf(S) = i
<1>1. FirstOf(S) \in S /\ \A j \in S : FirstOf(S) <= j
  BY FirstOfIs
<1>2. FirstOf(S) \in Nat /\ i \in Nat /\ FirstOf(S) <= i /\ i <= FirstOf(S)
  BY <1>1
<1>3. QED  BY <1>2

\* The n characters of a txt from place i on are those the delimiter begins with.

(* From i on the text agrees with the first n bytes of the delimiter. *)
Agrees(txt, i, n) == \A d \in 1 .. n : txt[i + d - 1] = Delimiter[d]

LEMMA Joined ==
  ASSUME NEW s \in Text, NEW t \in Text
  PROVE  /\ s \o t \in Text /\ Len(s \o t) = Len(s) + Len(t)
         /\ Len(s) \in Nat /\ Len(t) \in Nat
         /\ \A i \in 1 .. Len(s) : (s \o t)[i] = s[i]
         /\ \A i \in 1 .. Len(t) : (s \o t)[Len(s) + i] = t[i]
BY DEF Text

(* Agreement only depends on the part of the text it is about. *)
LEMMA AgreesWithin ==
  ASSUME NEW s \in Text, NEW t \in Text, NEW i \in Nat \ {0}, NEW n \in Nat,
         i + n - 1 <= Len(s)
  PROVE  Agrees(s \o t, i, n) <=> Agrees(s, i, n)
<1>1. \A d \in 1 .. n : i + d - 1 \in 1 .. Len(s)
  BY Joined
<1>2. \A d \in 1 .. n : (s \o t)[i + d - 1] = s[i + d - 1]
  BY <1>1, Joined
<1>3. QED  BY <1>2 DEF Agrees

LEMMA AgreesBeyond ==
  ASSUME NEW s \in Text, NEW t \in Text, NEW i \in Nat \ {0}, NEW n \in Nat,
         i + n - 1 <= Len(t)
  PROVE  Agrees(s \o t, Len(s) + i, n) <=> Agrees(t, i, n)
<1>1. \A d \in 1 .. n : i + d - 1 \in 1 .. Len(t) /\ Len(s) + i + d - 1 = Len(s) + (i + d - 1)
  BY Joined
<1>2. \A d \in 1 .. n : (s \o t)[Len(s) + i + d - 1] = t[i + d - 1]
  <2> DEFINE w == s \o t
  <2>1. \A e \in 1 .. Len(t) : w[Len(s) + e] = t[e]
    BY Joined
  <2> HIDE DEF w
  <2>2. \A d \in 1 .. n : w[Len(s) + i + d - 1] = t[i + d - 1]
    BY <1>1, <2>1
  <2>3. QED  BY <2>2 DEF w
<1>3. QED  BY <1>2 DEF Agrees

LEMMA AgreesLess ==
  ASSUME NEW txt, NEW i, NEW n \in Nat, NEW m \in Nat, m <= n, Agrees(txt, i, n)
  PROVE  Agrees(txt, i, m)
BY DEF Agrees

(* A part of a txt is the beginning of the delimiter when it agrees with it.   *)
LEMMA PartIs ==
  ASSUME NEW txt \in Text, NEW i \in Nat \ {0}, NEW n \in Nat,
         i + n - 1 <= Len(txt), n <= DelimiterLen
  PROVE  SubSeq(txt, i, i + n - 1) = SubSeq(Delimiter, 1, n) <=> Agrees(txt, i, n)
<1> DEFINE a == SubSeq(txt, i, i + n - 1)
           b == SubSeq(Delimiter, 1, n)
<1>1. /\ Len(txt) \in Nat /\ txt \in Seq(Characters) /\ Delimiter \in Seq(Characters)
      /\ DelimiterLen = Len(Delimiter)
  BY DelimiterFacts DEF Text, DelimiterLen
<1>2. a \in Seq(Characters) /\ Len(a) = n /\ \A d \in 1 .. n : a[d] = txt[i + d - 1]
  BY <1>1
<1>3. b \in Seq(Characters) /\ Len(b) = n /\ \A d \in 1 .. n : b[d] = Delimiter[d]
  BY <1>1
<1> HIDE DEF a, b
<1>4. ASSUME Agrees(txt, i, n) PROVE a = b
  <2>1. \A d \in 1 .. Len(a) : a[d] = b[d]
    BY <1>2, <1>3, <1>4 DEF Agrees
  <2>2. QED  BY <1>2, <1>3, <2>1, SeqEqual
<1>5. ASSUME a = b PROVE Agrees(txt, i, n)
  BY <1>2, <1>3, <1>5 DEF Agrees
<1>6. a = b <=> Agrees(txt, i, n)
  BY <1>4, <1>5
<1>7. QED  BY <1>6 DEF a, b

(* Where the delimiter is found, and which ends may begin it, by agreement. *)
LEMMA FoundIs ==
  ASSUME NEW txt \in Text, NEW i \in Nat
  PROVE  i \in Found(txt) <=> /\ i \in Nat \ {0} /\ i + DelimiterLen - 1 <= Len(txt)
                               /\ Agrees(txt, i, DelimiterLen)
<1>1. /\ Len(txt) \in Nat /\ DelimiterLen \in Nat /\ DelimiterLen = Len(Delimiter)
      /\ SubSeq(Delimiter, 1, DelimiterLen) = Delimiter
  BY DelimiterFacts DEF Text, DelimiterLen
<1>2. i \in Found(txt) <=> /\ i \in Nat \ {0} /\ i + DelimiterLen - 1 <= Len(txt)
                            /\ SubSeq(txt, i, i + DelimiterLen - 1) = Delimiter
  BY <1>1 DEF Found, StartsAt
<1>3. ASSUME i \in Nat \ {0}, i + DelimiterLen - 1 <= Len(txt)
      PROVE  SubSeq(txt, i, i + DelimiterLen - 1) = Delimiter <=> Agrees(txt, i, DelimiterLen)
  <2>1. DelimiterLen <= DelimiterLen
    BY <1>1
  <2>2. SubSeq(txt, i, i + DelimiterLen - 1) = SubSeq(Delimiter, 1, DelimiterLen)
          <=> Agrees(txt, i, DelimiterLen)
    BY <1>1, <1>3, <2>1, PartIs
  <2>3. QED  BY <1>1, <2>2
<1>4. QED  BY <1>2, <1>3, Zenon

LEMMA FoundIsNat == ASSUME NEW txt \in Text PROVE Found(txt) \subseteq Nat \ {0}
<1>1. Len(txt) \in Nat /\ Len(Delimiter) \in Nat
  BY DelimiterFacts DEF Text, DelimiterLen
<1>2. QED  BY <1>1 DEF Found

LEMMA SizesIs ==
  ASSUME NEW txt \in Text, NEW k \in Nat
  PROVE  k \in Sizes(txt) <=> /\ 1 <= k /\ k < DelimiterLen /\ k <= Len(txt)
                               /\ Agrees(txt, Len(txt) - k + 1, k)
<1>1. Len(txt) \in Nat /\ DelimiterLen \in Nat /\ DelimiterLen = Len(Delimiter)
  BY DelimiterFacts DEF Text, DelimiterLen
<1>2. k \in Sizes(txt) <=> /\ 1 <= k /\ k < DelimiterLen /\ k <= Len(txt)
                            /\ From(txt, Len(txt) - k) = SubSeq(Delimiter, 1, k)
  BY <1>1 DEF Sizes
<1>3. ASSUME k < DelimiterLen, k <= Len(txt)
      PROVE  From(txt, Len(txt) - k) = SubSeq(Delimiter, 1, k)
               <=> Agrees(txt, Len(txt) - k + 1, k)
  <2> DEFINE i == Len(txt) - k + 1
  <2>1. i \in Nat \ {0} /\ i + k - 1 <= Len(txt) /\ i + k - 1 = Len(txt) /\ k <= DelimiterLen
    BY <1>1, <1>3
  <2>2. From(txt, Len(txt) - k) = SubSeq(txt, i, i + k - 1)
    BY <2>1 DEF From
  <2> HIDE DEF i
  <2>3. SubSeq(txt, i, i + k - 1) = SubSeq(Delimiter, 1, k) <=> Agrees(txt, i, k)
    BY <2>1, PartIs
  <2>4. QED  BY <2>2, <2>3 DEF i
<1>4. QED  BY <1>2, <1>3

(* A delimiter that has been found stays the first one.                         *)
LEMMA FirstStays ==
  ASSUME NEW o \in Text, NEW t \in Text, Found(o) # {}
  PROVE  /\ FirstOf(Found(o)) \in Found(o)
         /\ Found(o \o t) # {} /\ FirstOf(Found(o \o t)) = FirstOf(Found(o))
<1> DEFINE f == FirstOf(Found(o))
<1>1. f \in Found(o) /\ \A j \in Found(o) : f <= j
  <2>1. Found(o) \subseteq Nat
    BY FoundIsNat
  <2>2. QED  BY <2>1, FirstOfIs
<1>2. /\ o \o t \in Text /\ Len(o \o t) = Len(o) + Len(t) /\ Len(o) \in Nat /\ Len(t) \in Nat
      /\ DelimiterLen \in Nat \ {0} /\ f \in Nat \ {0}
  BY <1>1, FoundIsNat, Joined, DelimiterFacts
<1> HIDE DEF f
<1>3. f + DelimiterLen - 1 <= Len(o)
  BY <1>1, <1>2, FoundIs
<1>4. ASSUME NEW j \in Nat, j + DelimiterLen - 1 <= Len(o)
      PROVE  j \in Found(o \o t) <=> j \in Found(o)
  <2>1. j \in Nat \ {0} => (Agrees(o \o t, j, DelimiterLen) <=> Agrees(o, j, DelimiterLen))
    BY <1>2, <1>4, AgreesWithin
  <2>2. j + DelimiterLen - 1 <= Len(o \o t)
    BY <1>2, <1>4
  <2>3. QED  BY <1>2, <1>4, <2>1, <2>2, FoundIs
<1>5. f \in Found(o \o t)
  BY <1>1, <1>2, <1>3, <1>4
<1>6. ASSUME NEW j \in Found(o \o t) PROVE f <= j
  <2>1. j \in Nat
    BY <1>2, FoundIsNat
  <2>2. CASE j + DelimiterLen - 1 <= Len(o)
    BY <1>1, <1>4, <2>1, <2>2
  <2>3. CASE ~(j + DelimiterLen - 1 <= Len(o))
    BY <1>2, <1>3, <2>1, <2>3
  <2>4. QED  BY <2>2, <2>3
<1>7. Found(o \o t) \subseteq Nat
  BY <1>2, FoundIsNat
<1>8. FirstOf(Found(o \o t)) = f
  BY <1>5, <1>6, <1>7, FirstOfUnique
<1>9. QED  BY <1>1, <1>5, <1>8 DEF f

(* Nothing before what is held back can be part of a delimiter: if a txt has    *)
(* none, then no end of it that is longer than what is held back begins one.     *)
LEMMA NothingPending ==
  ASSUME NEW o \in Text, Found(o) = {}, NEW i \in Nat \ {0}, NEW k \in Nat,
         i + k - 1 = Len(o), HeldBack(o) < k, k <= DelimiterLen, Agrees(o, i, k)
  PROVE  FALSE
<1>1. /\ Len(o) \in Nat /\ DelimiterLen \in Nat \ {0} /\ HeldBack(o) \in Nat
      /\ \A m \in Sizes(o) : m <= HeldBack(o)
  <2>1. Len(o) \in Nat
    BY DEF Text
  <2>2. HeldBack(o) \in 0 .. Len(o) /\ \A m \in Sizes(o) : m <= HeldBack(o)
    BY HeldBackIs
  <2>3. QED  BY <2>1, <2>2, DelimiterFacts
<1>2. 1 <= k /\ k <= Len(o) /\ Len(o) - k + 1 = i
  BY <1>1
<1>3. CASE k < DelimiterLen
  <2>1. k \in Sizes(o)
    BY <1>2, <1>3, SizesIs
  <2>2. QED  BY <1>1, <2>1
<1>4. CASE k = DelimiterLen
  <2>1. i + DelimiterLen - 1 <= Len(o) /\ Agrees(o, i, DelimiterLen)
    BY <1>1, <1>4
  <2>2. i \in Found(o)
    BY <2>1, FoundIs
  <2>3. QED  BY <2>2
<1>5. QED  BY <1>1, <1>3, <1>4

(* So a delimiter that comes up later lies in p and what follows it, and the     *)
(* ends that may begin one are those of p and what follows it.                   *)
(* How many bytes a run of n that begins within the first x covers of x and q.   *)
LEMMA EndReaches ==
  ASSUME NEW x \in Nat, NEW q \in Nat, NEW o \in Nat, NEW i \in Nat \ {0}, NEW n \in Nat,
         o = x + q, i <= x, i + n - 1 >= o
  PROVE  /\ o - i + 1 \in Nat /\ i + (o - i + 1) - 1 = o
         /\ o - i + 1 <= n /\ q < o - i + 1
OBVIOUS

(* Where an end of k bytes begins in a text of w, the last a of its bytes new.   *)
LEMMA EndBegins ==
  ASSUME NEW x \in Nat, NEW a \in Nat, NEW w \in Nat, NEW o \in Nat, NEW k \in Nat,
         w = x + a, o <= w
  PROVE  /\ w - k + 1 = x + (a - k + 1) /\ (a - k + 1) + k - 1 <= a
         /\ k <= w => w - k + 1 \in Nat \ {0}
         /\ k > a => w - k + 1 <= x
         /\ w - k + 1 + k - 1 >= o
OBVIOUS

(* What was passed on as reasoning takes no part in a delimiter to come: it is   *)
(* enough to look for one in the pending text and the increment.                *)
LEMMA DelimiterLiesAhead ==
  ASSUME NEW r \in Text, NEW p \in Text, NEW t \in Text,
         Found(r \o p) = {}, Len(p) = HeldBack(r \o p)
  PROVE  /\ \A i \in Nat : i \in Found(r \o (p \o t)) <=>
                             /\ i > Len(r) /\ i - Len(r) \in Found(p \o t)
         /\ Sizes(r \o (p \o t)) = Sizes(p \o t)
<1> DEFINE o == r \o p
           all == p \o t
           w == r \o all
<1>1. /\ o \in Text /\ Len(o) = Len(r) + Len(p)
      /\ all \in Text /\ Len(all) = Len(p) + Len(t)
      /\ w \in Text /\ Len(w) = Len(r) + Len(all)
      /\ Len(r) \in Nat /\ Len(p) \in Nat /\ Len(t) \in Nat
      /\ DelimiterLen \in Nat \ {0}
  BY Joined, DelimiterFacts
<1>lengths. /\ Len(o) = Len(r) + Len(p) /\ Len(all) = Len(p) + Len(t) /\ Len(w) = Len(r) + Len(all)
       /\ Len(r) \in Nat /\ Len(p) \in Nat /\ Len(t) \in Nat /\ DelimiterLen \in Nat \ {0}
       /\ Len(o) \in Nat /\ Len(all) \in Nat /\ Len(w) \in Nat
  <2> DEFINE lo == Len(o)
             la == Len(all)
             lw == Len(w)
  <2>1. lo = Len(r) + Len(p) /\ la = Len(p) + Len(t) /\ lw = Len(r) + la
    BY <1>1
  <2> HIDE DEF lo, la, lw, o, all, w
  <2>2. lo \in Nat /\ la \in Nat /\ lw \in Nat
    BY <1>1, <2>1
  <2>3. QED  BY <1>1, <2>1, <2>2 DEF lo, la, lw
<1>2. w = o \o t /\ Found(o) = {}
  BY DEF Text
<1>3. ASSUME NEW i \in Nat \ {0}, i <= Len(r), NEW n \in Nat, n <= DelimiterLen,
             i + n - 1 >= Len(o), Agrees(w, i, n)
      PROVE  FALSE
  <2>1. Len(p) = HeldBack(o)
    OBVIOUS
  <2> HIDE DEF o, all, w
  <2>2. PICK k \in Nat : i + k - 1 = Len(o) /\ k <= n /\ Len(p) < k /\ k <= DelimiterLen
    <3>1. /\ Len(o) - i + 1 \in Nat /\ i + (Len(o) - i + 1) - 1 = Len(o)
          /\ Len(o) - i + 1 <= n /\ Len(p) < Len(o) - i + 1
      <4>1. i <= Len(r) /\ i + n - 1 >= Len(o)
        BY <1>3
      <4>2. QED  BY <1>lengths, <4>1, EndReaches
    <3>2. Len(o) - i + 1 <= DelimiterLen
      BY <1>lengths, <1>3, <3>1
    <3>3. QED  BY <3>1, <3>2
  <2>3. Agrees(w, i, k)
    BY <1>3, <2>2, AgreesLess
  <2>4. Agrees(o \o t, i, k) <=> Agrees(o, i, k)
    <3>1. i + k - 1 <= Len(o)
      BY <1>lengths, <2>2
    <3>2. QED  BY <1>1, <2>2, <3>1, AgreesWithin
  <2>5. QED  BY <1>1, <1>2, <2>1, <2>2, <2>3, <2>4, NothingPending
<1> HIDE DEF o, all
<1>4. ASSUME NEW j \in Nat \ {0}, NEW n \in Nat, j + n - 1 <= Len(all)
      PROVE  Agrees(w, Len(r) + j, n) <=> Agrees(all, j, n)
  BY <1>1, <1>4, AgreesBeyond
<1> HIDE DEF w
<1>5. ASSUME NEW i \in Nat, i > Len(r)
      PROVE  i \in Found(w) <=> i - Len(r) \in Found(all)
  <2>1. PICK j \in Nat \ {0} : i = Len(r) + j /\ j = i - Len(r)
    <3>1. i - Len(r) \in Nat \ {0} /\ i = Len(r) + (i - Len(r))
      BY <1>lengths, <1>5
    <3>2. QED  BY <3>1
  <2>2. i + DelimiterLen - 1 <= Len(w) <=> j + DelimiterLen - 1 <= Len(all)
    BY <1>lengths, <2>1
  <2>3. j + DelimiterLen - 1 <= Len(all) =>
          (Agrees(w, i, DelimiterLen) <=> Agrees(all, j, DelimiterLen))
    BY <1>1, <1>4, <2>1
  <2>4. i \in Nat \ {0}
    BY <1>lengths, <1>5
  <2>5. QED  BY <1>1, <2>1, <2>2, <2>3, <2>4, FoundIs
<1>6. ASSUME NEW i \in Nat, i <= Len(r), i \in Found(w) PROVE FALSE
  <2>1. /\ i \in Nat \ {0} /\ i + DelimiterLen - 1 <= Len(w) /\ Agrees(w, i, DelimiterLen)
    BY <1>1, <1>6, FoundIs
  <2>2. CASE i + DelimiterLen - 1 >= Len(o)
    BY <1>1, <1>3, <1>6, <2>1, <2>2
  <2>3. CASE i + DelimiterLen - 1 <= Len(o)
    <3>1. Agrees(o, i, DelimiterLen)
      BY <1>1, <1>2, <2>1, <2>3, AgreesWithin
    <3>2. i \in Found(o)
      BY <1>1, <2>1, <2>3, <3>1, FoundIs
    <3>3. QED  BY <1>2, <3>2
  <2>4. QED  BY <1>1, <2>1, <2>2, <2>3
<1>7. \A i \in Nat : i \in Found(w) <=> i > Len(r) /\ i - Len(r) \in Found(all)
  <2>1. \A i \in Nat : i > Len(r) \/ i <= Len(r)
    BY <1>lengths
  <2>2. \A i \in Nat : i > Len(r) => ~(i <= Len(r))
    BY <1>lengths
  <2>3. QED  BY <1>5, <1>6, <2>1, <2>2
<1>8. ASSUME NEW k \in Nat PROVE k \in Sizes(w) <=> k \in Sizes(all)
  <2>0. /\ Len(w) - k + 1 = Len(r) + (Len(all) - k + 1) /\ (Len(all) - k + 1) + k - 1 <= Len(all)
        /\ k <= Len(w) => Len(w) - k + 1 \in Nat \ {0}
        /\ k > Len(all) => Len(w) - k + 1 <= Len(r)
        /\ Len(w) - k + 1 + k - 1 >= Len(o)
    <3>1. Len(o) <= Len(w)
      BY <1>lengths
    <3>2. /\ Len(r) \in Nat /\ Len(all) \in Nat /\ Len(w) \in Nat /\ Len(o) \in Nat
          /\ Len(w) = Len(r) + Len(all)
      BY <1>lengths
    <3>3. QED  BY <3>1, <3>2, EndBegins
  <2>1. CASE k <= Len(all)
    <3>1. PICK j \in Nat \ {0} : /\ j = Len(all) - k + 1 /\ Len(w) - k + 1 = Len(r) + j
                                 /\ j + k - 1 <= Len(all)
      <4>1. Len(all) - k + 1 \in Nat \ {0}
        BY <1>lengths, <2>1
      <4>2. /\ Len(w) - k + 1 = Len(r) + (Len(all) - k + 1)
            /\ (Len(all) - k + 1) + k - 1 <= Len(all)
        BY <2>0
      <4>3. QED  BY <4>1, <4>2
    <3>2. Agrees(w, Len(w) - k + 1, k) <=> Agrees(all, Len(all) - k + 1, k)
      BY <1>4, <3>1
    <3>3. k <= Len(w)
      BY <1>lengths, <2>1
    <3>4. QED  BY <1>1, <2>1, <3>2, <3>3, SizesIs
  <2>2. CASE k > Len(all)
    <3>1. k \notin Sizes(all)
      BY <1>1, <2>2, SizesIs
    <3>2. ASSUME k \in Sizes(w) PROVE FALSE
      <4>1. 1 <= k /\ k < DelimiterLen /\ k <= Len(w) /\ Agrees(w, Len(w) - k + 1, k)
        BY <1>1, <3>2, SizesIs
      <4>2. PICK i \in Nat \ {0} : i = Len(w) - k + 1 /\ i <= Len(r) /\ i + k - 1 >= Len(o)
        <5>1. Len(w) - k + 1 \in Nat \ {0}
          BY <2>0, <4>1
        <5>2. Len(w) - k + 1 <= Len(r) /\ Len(w) - k + 1 + k - 1 >= Len(o)
          BY <2>0, <2>2
        <5>3. QED  BY <5>1, <5>2
      <4>3. k <= DelimiterLen
        BY <1>lengths, <4>1
      <4>4. QED  BY <1>3, <4>1, <4>2, <4>3
    <3>3. QED  BY <3>1, <3>2
  <2>3. QED  BY <1>1, <2>1, <2>2
<1>9. Sizes(w) \subseteq Nat /\ Sizes(all) \subseteq Nat
  BY DelimiterFacts DEF Sizes, DelimiterLen
<1>10. Sizes(w) = Sizes(all)
  BY <1>8, <1>9
<1>11. QED  BY <1>7, <1>10 DEF w, all

-------------------------------------------------------------------------------
Parsers == [pending : Text, done : BOOLEAN]

(* What _ReasoningStreamParser has made of the txt o so far.                   *)
Splits(o, p, r, c, final) ==
  /\ o \in Text /\ p \in Parsers /\ r \in Text /\ c \in Text
  /\ Found(o) = {} => /\ ~p.done /\ c = <<>> /\ o = r \o p.pending
                      /\ IF final THEN p.pending = <<>>
                         ELSE Len(p.pending) = HeldBack(o)
  /\ Found(o) # {} => /\ p.done
                      /\ r = SubSeq(o, 1, FirstOf(Found(o)) - 1)
                      /\ c = From(o, FirstOf(Found(o)) + Len(Delimiter) - 1)

LEMMA JoinedTwice ==
  ASSUME NEW r \in Text, NEW s \in Text, NEW t \in Text
  PROVE  (r \o s) \o t = r \o (s \o t)
BY DEF Text

LEMMA EmptyText ==
  /\ <<>> \in Text
  /\ \A s \in Text : s \o <<>> = s /\ <<>> \o s = s /\ (Len(s) = 0 => s = <<>>)
BY DEF Text

(* Cutting a text, and a text that two were joined to. *)
LEMMA CutAt ==
  ASSUME NEW s \in Text, NEW n \in Nat, n <= Len(s)
  PROVE  /\ SubSeq(s, 1, n) \in Text /\ From(s, n) \in Text
         /\ s = SubSeq(s, 1, n) \o From(s, n)
         /\ Len(SubSeq(s, 1, n)) = n /\ Len(From(s, n)) = Len(s) - n
         /\ \A i \in 1 .. n : SubSeq(s, 1, n)[i] = s[i]
         /\ \A i \in 1 .. Len(s) - n : From(s, n)[i] = s[n + i]
<1> DEFINE a == SubSeq(s, 1, n)
           b == SubSeq(s, n + 1, Len(s))
<1>1. s \in Seq(Characters) /\ Len(s) \in Nat
  BY DEF Text
<1>2. a \in Seq(Characters) /\ Len(a) = n /\ \A i \in 1 .. n : a[i] = s[i]
  BY <1>1
<1>3. /\ b \in Seq(Characters) /\ Len(b) = Len(s) - n
      /\ \A i \in 1 .. Len(s) - n : b[i] = s[n + i]
  BY <1>1
<1> HIDE DEF a, b
<1>4. s = a \o b
  <2>1. /\ a \o b \in Seq(Characters) /\ Len(a \o b) = Len(s)
        /\ \A i \in 1 .. n : (a \o b)[i] = a[i]
        /\ \A i \in 1 .. Len(b) : (a \o b)[n + i] = b[i]
    BY <1>1, <1>2, <1>3
  <2>2. \A i \in 1 .. Len(s) : s[i] = (a \o b)[i]
    <3>1. ASSUME NEW i \in 1 .. Len(s) PROVE s[i] = (a \o b)[i]
      <4>1. CASE i <= n
        BY <1>1, <1>2, <2>1, <4>1
      <4>2. CASE i > n
        <5>1. i - n \in 1 .. Len(b) /\ n + (i - n) = i
          BY <1>1, <1>3, <4>2
        <5>2. QED  BY <1>3, <2>1, <5>1
      <4>3. i <= n \/ i > n
        BY <1>1
      <4>4. QED  BY <4>1, <4>2, <4>3
    <3>2. QED  BY <3>1
  <2>3. QED  BY <1>1, <2>1, <2>2, SeqEqual
<1>5. QED  BY <1>2, <1>3, <1>4 DEF a, b, From, Text

(* Cutting a txt that is put together, within the first part or behind it.     *)
LEMMA CutBefore ==
  ASSUME NEW s \in Text, NEW t \in Text, NEW n \in Nat, n <= Len(s)
  PROVE  /\ From(s \o t, n) = From(s, n) \o t
         /\ SubSeq(s \o t, 1, n) = SubSeq(s, 1, n)
<1> DEFINE w == s \o t
           a == SubSeq(s, 1, n)
           b == From(s, n)
<1>1. /\ w \in Text /\ Len(w) = Len(s) + Len(t) /\ Len(s) \in Nat /\ Len(t) \in Nat
      /\ \A i \in 1 .. Len(s) : w[i] = s[i]
      /\ \A i \in 1 .. Len(t) : w[Len(s) + i] = t[i]
  BY Joined
<1>2. /\ a \in Text /\ b \in Text /\ Len(a) = n /\ Len(b) = Len(s) - n
      /\ \A i \in 1 .. n : a[i] = s[i]
      /\ \A i \in 1 .. Len(s) - n : b[i] = s[n + i]
  BY CutAt
<1> HIDE DEF w, a, b
<1>3. /\ SubSeq(w, 1, n) \in Text /\ From(w, n) \in Text
      /\ Len(SubSeq(w, 1, n)) = n /\ Len(From(w, n)) = Len(w) - n
      /\ \A i \in 1 .. n : SubSeq(w, 1, n)[i] = w[i]
      /\ \A i \in 1 .. Len(w) - n : From(w, n)[i] = w[n + i]
  <2>1. n <= Len(w)
    BY <1>1
  <2>2. QED  BY <1>1, <2>1, CutAt
<1>4. SubSeq(w, 1, n) = a
  <2>1. \A i \in 1 .. n : SubSeq(w, 1, n)[i] = a[i]
    BY <1>1, <1>2, <1>3
  <2>2. QED  BY <1>2, <1>3, <2>1, SeqEqual DEF Text
<1>5. From(w, n) = b \o t
  <2>1. /\ b \o t \in Text /\ Len(b \o t) = Len(w) - n
        /\ \A i \in 1 .. Len(b) : (b \o t)[i] = b[i]
        /\ \A i \in 1 .. Len(t) : (b \o t)[Len(b) + i] = t[i]
    <3>1. /\ b \o t \in Text /\ Len(b \o t) = Len(b) + Len(t)
          /\ \A i \in 1 .. Len(b) : (b \o t)[i] = b[i]
          /\ \A i \in 1 .. Len(t) : (b \o t)[Len(b) + i] = t[i]
      BY <1>2, Joined
    <3>2. Len(b) + Len(t) = Len(w) - n
      BY <1>1, <1>2
    <3>3. QED  BY <3>1, <3>2
  <2>2. ASSUME NEW i \in 1 .. Len(w) - n PROVE From(w, n)[i] = (b \o t)[i]
    <3>1. From(w, n)[i] = w[n + i]
      BY <1>3
    <3>2. CASE i <= Len(b)
      <4>1. i \in 1 .. Len(s) - n /\ n + i \in 1 .. Len(s)
        BY <1>1, <1>2, <3>2
      <4>2. QED  BY <1>1, <1>2, <2>1, <3>1, <4>1
    <3>3. CASE i > Len(b)
      <4>1. PICK j \in 1 .. Len(t) : i = Len(b) + j /\ n + i = Len(s) + j
        <5>1. i - Len(b) \in 1 .. Len(t) /\ i = Len(b) + (i - Len(b))
              /\ n + i = Len(s) + (i - Len(b))
          BY <1>1, <1>2, <3>3
        <5>2. QED  BY <5>1
      <4>2. QED  BY <1>1, <2>1, <3>1, <4>1
    <3>4. QED  BY <1>1, <1>2, <3>2, <3>3
  <2>3. QED  BY <1>3, <2>1, <2>2, SeqEqual DEF Text
<1>6. QED  BY <1>4, <1>5 DEF w, a, b

LEMMA CutBehind ==
  ASSUME NEW s \in Text, NEW t \in Text, NEW n \in Nat, n <= Len(t)
  PROVE  /\ From(s \o t, Len(s) + n) = From(t, n)
         /\ SubSeq(s \o t, 1, Len(s) + n) = s \o SubSeq(t, 1, n)
<1> DEFINE w == s \o t
           a == SubSeq(t, 1, n)
           b == From(t, n)
           m == Len(s) + n
<1>1. /\ w \in Text /\ Len(w) = Len(s) + Len(t) /\ Len(s) \in Nat /\ Len(t) \in Nat
      /\ \A i \in 1 .. Len(s) : w[i] = s[i]
      /\ \A i \in 1 .. Len(t) : w[Len(s) + i] = t[i]
  BY Joined
<1>2. /\ a \in Text /\ b \in Text /\ Len(a) = n /\ Len(b) = Len(t) - n
      /\ \A i \in 1 .. n : a[i] = t[i]
      /\ \A i \in 1 .. Len(t) - n : b[i] = t[n + i]
  BY CutAt
<1> HIDE DEF w, a, b
<1>3. /\ SubSeq(w, 1, m) \in Text /\ From(w, m) \in Text
      /\ Len(SubSeq(w, 1, m)) = m /\ Len(From(w, m)) = Len(w) - m
      /\ \A i \in 1 .. m : SubSeq(w, 1, m)[i] = w[i]
      /\ \A i \in 1 .. Len(w) - m : From(w, m)[i] = w[m + i]
  <2>1. m \in Nat /\ m <= Len(w)
    BY <1>1
  <2> HIDE DEF m
  <2>2. QED  BY <1>1, <2>1, CutAt
<1>4. From(w, m) = b
  <2>1. Len(w) - m = Len(b)
    BY <1>1, <1>2
  <2>2. ASSUME NEW i \in 1 .. Len(b) PROVE From(w, m)[i] = b[i]
    <3>1. n + i \in 1 .. Len(t) /\ m + i = Len(s) + (n + i) /\ i \in 1 .. Len(t) - n
      BY <1>1, <1>2
    <3>2. w[Len(s) + (n + i)] = t[n + i]
      BY <1>1, <3>1
    <3>3. From(w, m)[i] = w[m + i]
      BY <1>3, <2>1
    <3>4. QED  BY <1>2, <3>1, <3>2, <3>3
  <2>3. QED  BY <1>2, <1>3, <2>1, <2>2, SeqEqual DEF Text
<1>5. SubSeq(w, 1, m) = s \o a
  <2>1. /\ s \o a \in Text /\ Len(s \o a) = m
        /\ \A i \in 1 .. Len(s) : (s \o a)[i] = s[i]
        /\ \A i \in 1 .. Len(a) : (s \o a)[Len(s) + i] = a[i]
    BY <1>2, Joined
  <2>2. ASSUME NEW i \in 1 .. m PROVE SubSeq(w, 1, m)[i] = (s \o a)[i]
    <3>1. SubSeq(w, 1, m)[i] = w[i]
      BY <1>3
    <3>2. CASE i <= Len(s)
      <4>1. i \in 1 .. Len(s)
        BY <1>1, <3>2
      <4>2. w[i] = s[i] /\ (s \o a)[i] = s[i]
        BY <1>1, <2>1, <4>1
      <4>3. QED  BY <3>1, <4>2
    <3>3. CASE i > Len(s)
      <4>1. PICK j \in 1 .. n : i = Len(s) + j
        <5>1. i - Len(s) \in 1 .. n /\ i = Len(s) + (i - Len(s))
          BY <1>1, <3>3
        <5>2. QED  BY <5>1
      <4>2. j \in 1 .. Len(t) /\ j \in 1 .. Len(a)
        BY <1>1, <1>2
      <4>3. w[Len(s) + j] = t[j] /\ (s \o a)[Len(s) + j] = a[j] /\ a[j] = t[j]
        BY <1>1, <1>2, <2>1, <4>2
      <4>4. QED  BY <3>1, <4>1, <4>3
    <3>4. QED
      <4> HIDE DEF m
      <4>1. i <= Len(s) \/ i > Len(s)
        BY <1>1
      <4>2. QED  BY <3>2, <3>3, <4>1
  <2>3. QED  BY <1>3, <2>1, <2>2, SeqEqual DEF Text
<1>6. QED  BY <1>4, <1>5 DEF w, a, b

(* _ReasoningStreamParser.feed keeps the split exact. *)
LEMMA FeedStep ==
  ASSUME NEW o, NEW p, NEW r, NEW c, Splits(o, p, r, c, FALSE),
         NEW t \in Text, NEW final \in BOOLEAN
  PROVE  LET fed == Feed(p, t, final)
         IN Splits(o \o t, fed.parser, r \o fed.reasoning, c \o fed.content, final)
<1> DEFINE fed == Feed(p, t, final)
           all == p.pending \o t
           f == FirstOf(Found(o))
<1>1. /\ o \in Text /\ p \in Parsers /\ p.pending \in Text /\ r \in Text /\ c \in Text
      /\ <<>> \in Text /\ o \o t \in Text
      /\ DelimiterLen \in Nat \ {0} /\ DelimiterLen = Len(Delimiter)
  <2>1. <<>> \in Text
    BY DEF Text
  <2>2. o \in Text /\ p \in Parsers /\ p.pending \in Text /\ r \in Text /\ c \in Text
    BY DEF Splits, Parsers
  <2>3. QED  BY <2>1, <2>2, Joined, DelimiterFacts DEF DelimiterLen
<1>2. CASE Found(o) # {}
  <2>1. /\ p.done /\ r = SubSeq(o, 1, f - 1) /\ c = From(o, f + Len(Delimiter) - 1)
    BY <1>2 DEF Splits
  <2>2. /\ f \in Found(o) /\ Found(o \o t) # {} /\ FirstOf(Found(o \o t)) = f
    BY <1>1, <1>2, FirstStays
  <2>3. fed = [parser |-> p, reasoning |-> <<>>, content |-> t]
    BY <2>1 DEF Feed
  <2>4. f \in Nat \ {0} /\ f + DelimiterLen - 1 <= Len(o) /\ Len(o) \in Nat
    BY <1>1, <2>2, FoundIs, FoundIsNat, Joined
  <2>5. r \o <<>> = r
    BY <1>1, EmptyText
  <2> HIDE DEF f
  <2>6. f - 1 \in Nat /\ f - 1 <= Len(o) /\ f + Len(Delimiter) - 1 \in Nat
        /\ f + Len(Delimiter) - 1 <= Len(o)
    BY <1>1, <2>4
  <2>7. r \o <<>> = SubSeq(o \o t, 1, f - 1)
    BY <1>1, <2>1, <2>5, <2>6, CutBefore
  <2>8. c \o t = From(o \o t, f + Len(Delimiter) - 1)
    BY <1>1, <2>1, <2>6, CutBefore
  <2>9. c \o t \in Text /\ r \o <<>> \in Text
    BY <1>1, Joined
  <2>10. Splits(o \o t, p, r \o <<>>, c \o t, final)
    BY <1>1, <2>1, <2>2, <2>7, <2>8, <2>9 DEF Splits
  <2>11. QED  BY <2>3, <2>10
<1>3. CASE Found(o) = {}
  <2>1. ~p.done /\ c = <<>> /\ o = r \o p.pending /\ Len(p.pending) = HeldBack(o)
    BY <1>3 DEF Splits
  <2>2. o \o t = r \o all
    <3> DEFINE q == p.pending
    <3>0. q \in Text
      BY <1>1
    <3> HIDE DEF q, fed, f
    <3>1. (r \o q) \o t = r \o (q \o t)
      <4>1. r \in Text
        BY <1>1
      <4>2. QED  BY <3>0, <4>1, JoinedTwice
    <3>2. QED  BY <2>1, <3>1 DEF q
  <2>3. /\ \A i \in Nat : i \in Found(o \o t) <=> i > Len(r) /\ i - Len(r) \in Found(all)
        /\ Sizes(o \o t) = Sizes(all)
    <3>1. Found(r \o p.pending) = {} /\ Len(p.pending) = HeldBack(r \o p.pending)
      BY <1>3, <2>1
    <3>2. /\ \A i \in Nat : i \in Found(r \o all) <=> i > Len(r) /\ i - Len(r) \in Found(all)
          /\ Sizes(r \o all) = Sizes(all)
      BY <1>1, <3>1, DelimiterLiesAhead
    <3> HIDE DEF all
    <3>3. QED  BY <2>2, <3>2
  <2>4. /\ all \in Text /\ Len(all) \in Nat /\ Len(r) \in Nat
        /\ Len(o \o t) = Len(r) + Len(all)
    BY <1>1, <2>2, Joined
  <2>5. Found(all) \subseteq Nat \ {0} /\ Found(o \o t) \subseteq Nat \ {0}
    BY <1>1, <2>4, FoundIsNat
  <2> DEFINE w == o \o t
  <2> HIDE DEF all, w
  <2>6. CASE Found(all) # {}
    <3> DEFINE g == FirstOf(Found(all))
    <3>1. g \in Found(all) /\ \A j \in Found(all) : g <= j
      BY <2>5, <2>6, FirstOfIs
    <3>2. /\ g \in Nat \ {0} /\ g + DelimiterLen - 1 <= Len(all)
      BY <2>4, <2>5, <3>1, FoundIs
    <3>3. fed = [parser |-> [pending |-> <<>>, done |-> TRUE],
                 reasoning |-> SubSeq(all, 1, g - 1),
                 content |-> From(all, g + Len(Delimiter) - 1)]
      BY <2>1, <2>6 DEF Feed, all
    <3> HIDE DEF g
    <3>4. Len(r) + g \in Found(w)
      <4>1. Len(r) + g \in Nat /\ Len(r) + g > Len(r) /\ Len(r) + g - Len(r) = g
        BY <2>4, <3>2
      <4>2. \A i \in Nat : i \in Found(w) <=> i > Len(r) /\ i - Len(r) \in Found(all)
        BY <2>3 DEF w
      <4> HIDE DEF fed, f
      <4> DEFINE i == Len(r) + g
      <4>3. i \in Nat /\ i > Len(r) /\ i - Len(r) = g
        BY <2>4, <3>2
      <4> HIDE DEF i
      <4>4. i \in Found(w)
        BY <3>1, <4>2, <4>3
      <4>5. QED  BY <4>4 DEF i
    <3>5. ASSUME NEW i \in Found(w) PROVE Len(r) + g <= i
      <4>1. i \in Nat /\ i - Len(r) \in Found(all) /\ i - Len(r) \in Nat
        BY <2>3, <2>5 DEF w
      <4>2. g <= i - Len(r)
        BY <3>1, <4>1
      <4>3. QED  BY <2>4, <3>2, <4>1, <4>2
    <3>6. FirstOf(Found(w)) = Len(r) + g
      <4>1. Found(w) \subseteq Nat
        BY <2>5 DEF w
      <4>2. QED  BY <3>4, <3>5, <4>1, FirstOfUnique
    <3>7. /\ g - 1 \in Nat /\ g - 1 <= Len(all) /\ Len(r) + (g - 1) = Len(r) + g - 1
          /\ g + Len(Delimiter) - 1 \in Nat /\ g + Len(Delimiter) - 1 <= Len(all)
          /\ Len(r) + (g + Len(Delimiter) - 1) = Len(r) + g + Len(Delimiter) - 1
      BY <1>1, <2>4, <3>2
    <3>8. w = r \o all
      BY <2>2 DEF w
    <3>9. /\ SubSeq(w, 1, Len(r) + g - 1) = r \o SubSeq(all, 1, g - 1)
          /\ SubSeq(all, 1, g - 1) \in Text
      <4> DEFINE n == g - 1
      <4>1. n \in Nat /\ n <= Len(all) /\ Len(r) + n = Len(r) + g - 1
        BY <3>7
      <4> HIDE DEF n, fed, f
      <4>2. r \in Text /\ all \in Text /\ n \in Nat /\ n <= Len(all)
        BY <1>1, <2>4, <4>1
      <4>3. SubSeq(r \o all, 1, Len(r) + n) = r \o SubSeq(all, 1, n)
        BY <4>2, CutBehind, Zenon
      <4>4. SubSeq(all, 1, n) \in Text
        BY <2>4, <4>1, CutAt
      <4>5. QED  BY <3>8, <4>1, <4>3, <4>4 DEF n
    <3>10. /\ From(w, Len(r) + g + Len(Delimiter) - 1) = From(all, g + Len(Delimiter) - 1)
           /\ From(all, g + Len(Delimiter) - 1) \in Text
      <4> DEFINE n == g + Len(Delimiter) - 1
      <4>1. n \in Nat /\ n <= Len(all) /\ Len(r) + n = Len(r) + g + Len(Delimiter) - 1
        BY <3>7
      <4> HIDE DEF n
      <4>2. From(r \o all, Len(r) + n) = From(all, n)
        BY <1>1, <2>4, <4>1, CutBehind
      <4>3. From(all, n) \in Text
        BY <2>4, <4>1, CutAt
      <4>4. QED  BY <3>8, <4>1, <4>2, <4>3 DEF n
    <3>11. c \o From(all, g + Len(Delimiter) - 1) = From(all, g + Len(Delimiter) - 1)
      BY <2>1, <3>10, EmptyText
    <3>12. r \o SubSeq(all, 1, g - 1) \in Text
      BY <1>1, <3>9, Joined
    <3>13. [pending |-> <<>>, done |-> TRUE] \in Parsers
      BY <1>1 DEF Parsers
    <3>14. Splits(w, [pending |-> <<>>, done |-> TRUE], r \o SubSeq(all, 1, g - 1),
                  c \o From(all, g + Len(Delimiter) - 1), final)
      <4> DEFINE q == [pending |-> <<>>, done |-> TRUE]
                 rr == r \o SubSeq(all, 1, g - 1)
                 cc == c \o From(all, g + Len(Delimiter) - 1)
      <4>1. w \in Text /\ q \in Parsers /\ rr \in Text /\ cc \in Text
        BY <1>1, <3>10, <3>11, <3>12, <3>13 DEF w
      <4>2. q.done /\ Found(w) # {}
        BY <3>4
      <4>3. rr = SubSeq(w, 1, FirstOf(Found(w)) - 1)
        <5> HIDE DEF fed, f
        <5>1. SubSeq(w, 1, Len(r) + g - 1) = rr
          BY <3>9
        <5> HIDE DEF rr
        <5>2. FirstOf(Found(w)) - 1 = Len(r) + g - 1
          <6> DEFINE h == FirstOf(Found(w))
          <6>1. h = Len(r) + g
            BY <3>6
          <6> HIDE DEF h, q, cc
          <6>2. h - 1 = Len(r) + g - 1
            BY <2>4, <3>2, <6>1
          <6>3. QED  BY <6>2 DEF h
        <5>3. QED  BY <5>1, <5>2
      <4>6. cc = From(w, FirstOf(Found(w)) + Len(Delimiter) - 1)
        BY <3>6, <3>10, <3>11
      <4> HIDE DEF q, rr, cc
      <4>4. Splits(w, q, rr, cc, final)
        BY <4>1, <4>2, <4>3, <4>6 DEF Splits
      <4>5. QED  BY <4>4 DEF q, rr, cc
    <3>15. QED  BY <3>3, <3>14 DEF w
  <2>7. CASE Found(all) = {}
    <3> DEFINE keep == IF final THEN 0 ELSE HeldBack(all)
               next == [pending |-> From(all, Len(all) - keep), done |-> FALSE]
               part == SubSeq(all, 1, Len(all) - keep)
    <3>1. fed = [parser |-> next, reasoning |-> part, content |-> <<>>]
      BY <2>1, <2>7 DEF Feed, all
    <3>2. HeldBack(all) \in 0 .. Len(all) /\ HeldBack(w) = HeldBack(all)
      <4>1. HeldBack(all) \in 0 .. Len(all)
        BY <2>4, HeldBackIs
      <4>2. HeldBack(w) = HeldBack(all)
        <5>1. Sizes(w) = Sizes(all)
          BY <2>3 DEF w
        <5>2. /\ HeldBack(w) = IF Sizes(w) = {} THEN 0
                               ELSE CHOOSE k \in Sizes(w) : \A j \in Sizes(w) : j <= k
              /\ HeldBack(all) = IF Sizes(all) = {} THEN 0
                                 ELSE CHOOSE k \in Sizes(all) : \A j \in Sizes(all) : j <= k
          BY HeldBackSizes
        <5> HIDE DEF fed, f, next, part, keep
        <5>3. QED  BY <5>1, <5>2
      <4>3. QED  BY <4>1, <4>2
    <3>3. keep \in 0 .. Len(all) /\ Len(all) - keep \in Nat /\ Len(all) - keep <= Len(all)
          /\ Len(all) - (Len(all) - keep) = keep
      BY <2>4, <3>2
    <3>4. keep = IF final THEN 0 ELSE HeldBack(w)
      BY <3>2
    <3> HIDE DEF keep
    <3>5. /\ part \in Text /\ From(all, Len(all) - keep) \in Text
          /\ all = part \o From(all, Len(all) - keep)
          /\ Len(From(all, Len(all) - keep)) = keep
      <4> DEFINE n == Len(all) - keep
      <4>1. n \in Nat /\ n <= Len(all) /\ Len(all) - n = keep
        BY <3>3
      <4> HIDE DEF n
      <4>2. /\ SubSeq(all, 1, n) \in Text /\ From(all, n) \in Text
            /\ all = SubSeq(all, 1, n) \o From(all, n)
            /\ Len(From(all, n)) = keep
        BY <2>4, <4>1, CutAt
      <4>3. QED  BY <4>2 DEF n
    <3> HIDE DEF part
    <3> DEFINE held == From(all, Len(all) - keep)
    <3> HIDE DEF held
    <3>6. w = (r \o part) \o held
      <4>1. w = r \o (part \o held)
        BY <2>2, <3>5 DEF w, held
      <4>2. held \in Text
        BY <3>5 DEF held
      <4>3. r \o (part \o held) = (r \o part) \o held
        <5>1. r \in Text /\ part \in Text
          BY <1>1, <3>5
        <5> HIDE DEF fed, f
        <5>2. QED  BY <4>2, <5>1, JoinedTwice
      <4>4. QED  BY <4>1, <4>3
    <3>7. Found(w) = {}
      BY <2>3, <2>5, <2>7 DEF w
    <3>8. r \o part \in Text /\ c \o <<>> = <<>> /\ c \o <<>> \in Text
      <4>1. r \o part \in Text
        BY <1>1, <3>5, Joined
      <4>2. c \o <<>> = <<>>
        BY <2>1, EmptyText
      <4>3. QED  BY <1>1, <4>1, <4>2
    <3>9. next = [pending |-> held, done |-> FALSE] /\ held \in Text /\ Len(held) = keep
      BY <3>5 DEF held
    <3> HIDE DEF next
    <3>10. next \in Parsers /\ next.pending = held /\ ~next.done
      BY <3>9 DEF Parsers
    <3>11. final => held = <<>>
      BY <3>4, <3>9, EmptyText
    <3>12. Splits(w, next, r \o part, c \o <<>>, final)
      BY <1>1, <3>4, <3>6, <3>7, <3>8, <3>9, <3>10, <3>11 DEF Splits, w
    <3>13. QED  BY <3>1, <3>12 DEF w
  <2>8. QED  BY <2>6, <2>7
<1>4. QED  BY <1>2, <1>3

-------------------------------------------------------------------------------
(* A loop of N passes over states V, where pass k makes F[k][v] of v, has an     *)
(* outcome, and whatever follows the loop stays in V.                           *)
Passes(f, N, V, v0, F) ==
  f \in [0 .. N -> V] /\ f[0] = v0 /\ \A k \in 1 .. N : f[k] = F[k][f[k-1]]

LEMMA LoopExists ==
  ASSUME NEW N \in Nat, NEW V, NEW v0 \in V, NEW F \in [1 .. N -> [V -> V]]
  PROVE  \E f : Passes(f, N, V, v0, F)
<1> DEFINE Good(f, n) == /\ f \in [0 .. n -> V] /\ f[0] = v0
                         /\ \A k \in 1 .. n : f[k] = F[k][f[k-1]]
           S == {n \in 0 .. N : \E f : Good(f, n)}
<1>1. 0 \in S
  <2>1. Good([k \in 0 .. 0 |-> v0], 0)
    OBVIOUS
  <2>2. 0 \in 0 .. N
    OBVIOUS
  <2> HIDE DEF Good
  <2>3. QED  BY <2>1, <2>2
<1>2. ASSUME NEW n \in 0 .. N - 1, n \in S PROVE n + 1 \in S
  <2>1. PICK f : Good(f, n)
    BY <1>2
  <2> DEFINE g == [k \in 0 .. n + 1 |-> IF k = n + 1 THEN F[n + 1][f[n]] ELSE f[k]]
  <2>2. n \in Nat /\ n + 1 \in 1 .. N /\ f[n] \in V
    BY <2>1
  <2>3. F[n + 1][f[n]] \in V
    BY <2>2
  <2>4. g \in [0 .. n + 1 -> V]
    BY <2>1, <2>2, <2>3
  <2>5. g[0] = v0 /\ g[n + 1] = F[n + 1][g[n]]
    BY <2>1, <2>2
  <2>6. \A k \in 1 .. n : g[k] = F[k][g[k-1]]
    BY <2>1, <2>2
  <2>7. Good(g, n + 1)
    <3>1. \A k \in 1 .. n + 1 : k = n + 1 \/ k \in 1 .. n
      BY <2>2
    <3>2. n + 1 - 1 = n
      BY <2>2
    <3> HIDE DEF g
    <3>3. QED  BY <2>4, <2>5, <2>6, <3>1, <3>2
  <2> HIDE DEF Good, g
  <2>8. n + 1 \in 0 .. N
    BY <2>2
  <2>9. QED  BY <2>7, <2>8
<1>3. N \in S
  <2> HIDE DEF S
  <2>1. 0 .. N \subseteq S
    BY <1>1, <1>2, UpTo
  <2>2. QED  BY <2>1
<1>4. QED  BY <1>3 DEF Passes

(* A value that every step keeps in V is in V at the end. *)
LEMMA LoopStays ==
  ASSUME NEW N \in Nat, NEW V, NEW h, h[0] \in V,
         \A k \in 1 .. N : h[k-1] \in V => h[k] \in V
  PROVE  h[N] \in V
<1> DEFINE S == {k \in 0 .. N : h[k] \in V}
<1>1. 0 \in S
  OBVIOUS
<1>2. ASSUME NEW k \in 0 .. N - 1, k \in S PROVE k + 1 \in S
  <2>1. k + 1 \in 1 .. N /\ k + 1 - 1 = k
    BY <1>2
  <2>2. h[k] \in V
    BY <1>2
  <2>3. h[k + 1] \in V
    BY <2>1, <2>2
  <2>4. QED  BY <2>1, <2>3
<1> HIDE DEF S
<1>3. N \in S
  BY <1>1, <1>2, UpTo
<1>4. QED  BY <1>3 DEF S

(* The loops of the decoding compute texts. *)
LEMMA BytesAreText == ASSUME NEW ids \in Seq(Text) PROVE Bytes(ids) \in Text
<1> DEFINE N == Len(ids)
           F == [k \in 1 .. N |-> [v \in Text |-> v \o ids[k]]]
           Step(g) == [n \in 0 .. N |-> IF n = 0 THEN <<>> ELSE g[n-1] \o ids[n]]
           h == CHOOSE g : g = Step(g)
<1>1. N \in Nat /\ \A k \in 1 .. N : ids[k] \in Text
  OBVIOUS
<1>2. <<>> \in Text /\ \A v \in Text, k \in 1 .. N : v \o ids[k] \in Text
  BY <1>1, EmptyText, Joined
<1>3. F \in [1 .. N -> [Text -> Text]]
  BY <1>2
<1>4. \A k \in 1 .. N, v \in Text : F[k][v] = v \o ids[k]
  OBVIOUS
<1>5. Bytes(ids) = h[N]
  BY DEF Bytes
<1> HIDE DEF N, F
<1>12. <<>> \in Text /\ N \in Nat
  BY <1>1, <1>2
<1>11. PICK f : Passes(f, N, Text, <<>>, F)
  BY <1>1, <1>12, <1>3, LoopExists, Zenon
<1>6. f \in [0 .. N -> Text] /\ f[0] = <<>> /\ \A k \in 1 .. N : f[k] = F[k][f[k-1]]
  BY <1>11 DEF Passes
<1>7. f = Step(f)
  <2>1. f = [k \in 0 .. N |-> f[k]]
    BY <1>6
  <2>2. \A k \in 1 .. N : k - 1 \in 0 .. N /\ f[k-1] \in Text
    BY <1>1, <1>6
  <2>3. \A k \in 1 .. N : f[k] = f[k-1] \o ids[k]
    BY <1>4, <1>6, <2>2
  <2>4. \A k \in 0 .. N : k = 0 \/ k \in 1 .. N
    BY <1>1
  <2>5. \A k \in 0 .. N : f[k] = IF k = 0 THEN <<>> ELSE f[k-1] \o ids[k]
    BY <1>1, <1>6, <2>3, <2>4
  <2>6. QED  BY <2>1, <2>5
<1>8. h = Step(h)
  <2> HIDE DEF Step
  <2>1. QED  BY <1>7
<1> HIDE DEF h
<1>9. h[0] \in Text /\ \A k \in 1 .. N : h[k-1] \in Text => h[k] \in Text
  <2>1. h[0] = <<>>
    BY <1>1, <1>8
  <2>2. ASSUME NEW k \in 1 .. N PROVE h[k] = h[k-1] \o ids[k]
    <3>1. k \in 0 .. N /\ k # 0
      BY <1>12
    <3>2. Step(h)[k] = h[k-1] \o ids[k]
      BY <3>1
    <3> HIDE DEF Step
    <3>3. QED  BY <1>8, <3>2
  <2>3. QED  BY <1>2, <2>1, <2>2
<1>10. h[N] \in Text
  <2>1. N \in Nat
    BY <1>12
  <2>2. QED  BY <1>9, <2>1, LoopStays, Zenon
<1>13. QED  BY <1>5, <1>10

Leads == {"C1", "L1"}
Scans == [text : Text, lead : {<<>>} \cup {<<b>> : b \in Leads}]

LEMMA AppendText == ASSUME NEW s \in Text, NEW c \in Characters PROVE Append(s, c) \in Text
BY AppendProperties DEF Text

LEMMA DecodeByteScans ==
  ASSUME NEW acc \in Scans, NEW b \in Characters
  PROVE  DecodeByte(acc, b) \in Scans
<1>1. acc.text \in Text /\ acc.lead \in {<<>>} \cup {<<l>> : l \in Leads}
  BY DEF Scans
<1>2. Broken \in Characters /\ \A l \in Leads : CharOf[l] \in Characters
  BY DEF Characters, CharOf, Leads
<1>3. \A s \in Text : Fresh(s, b) \in Scans
  <2>1. ASSUME NEW s \in Text PROVE Fresh(s, b) \in Scans
    <3>1. CASE IsLead(b)
      <4>1. b \in Leads
        BY <3>1 DEF IsLead, TrailOf, Leads
      <4>2. Fresh(s, b) = [text |-> s, lead |-> <<b>>]
        BY <3>1 DEF Fresh
      <4>3. <<b>> \in {<<>>} \cup {<<l>> : l \in Leads}
        BY <4>1
      <4>4. QED  BY <4>2, <4>3 DEF Scans
    <3>2. CASE ~IsLead(b)
      <4>1. (IF IsTrail(b) THEN Broken ELSE b) \in Characters
        BY <1>2
      <4>2. Append(s, IF IsTrail(b) THEN Broken ELSE b) \in Text
        BY <4>1, AppendText
      <4>3. Fresh(s, b) = [text |-> Append(s, IF IsTrail(b) THEN Broken ELSE b), lead |-> <<>>]
        BY <3>2 DEF Fresh
      <4>4. QED  BY <4>2, <4>3 DEF Scans
    <3>3. QED  BY <3>1, <3>2
  <2>2. QED  BY <2>1
<1>4. CASE acc.lead = <<>>
  BY <1>1, <1>3, <1>4 DEF DecodeByte
<1>5. CASE acc.lead # <<>>
  <2>1. acc.lead[1] \in Leads
    BY <1>1, <1>5
  <2>2. Append(acc.text, CharOf[acc.lead[1]]) \in Text /\ Append(acc.text, Broken) \in Text
    BY <1>1, <1>2, <2>1, AppendText
  <2>3. CASE b = TrailOf[acc.lead[1]]
    <3>1. DecodeByte(acc, b) = [text |-> Append(acc.text, CharOf[acc.lead[1]]), lead |-> <<>>]
      BY <1>5, <2>3 DEF DecodeByte
    <3>2. QED  BY <2>2, <3>1 DEF Scans
  <2>4. CASE b # TrailOf[acc.lead[1]]
    <3>1. DecodeByte(acc, b) = Fresh(Append(acc.text, Broken), b)
      BY <1>5, <2>4 DEF DecodeByte
    <3>2. QED  BY <1>3, <2>2, <3>1
  <2>5. QED  BY <2>3, <2>4
<1>6. QED  BY <1>4, <1>5

LEMMA ScanIsTyped == ASSUME NEW bytes \in Text PROVE Scan(bytes) \in Scans
<1> DEFINE N == Len(bytes)
           v0 == [text |-> <<>>, lead |-> <<>>]
           F == [k \in 1 .. N |-> [v \in Scans |-> DecodeByte(v, bytes[k])]]
           Step(g) == [n \in 0 .. N |-> IF n = 0 THEN v0 ELSE DecodeByte(g[n-1], bytes[n])]
           h == CHOOSE g : g = Step(g)
<1>1. N \in Nat /\ \A k \in 1 .. N : bytes[k] \in Characters
  BY DEF Text
<1>2. v0 \in Scans /\ \A v \in Scans, k \in 1 .. N : DecodeByte(v, bytes[k]) \in Scans
  <2>1. v0 \in Scans
    BY EmptyText DEF Scans
  <2>2. QED  BY <1>1, <2>1, DecodeByteScans
<1>3. F \in [1 .. N -> [Scans -> Scans]]
  BY <1>2
<1>4. \A k \in 1 .. N, v \in Scans : F[k][v] = DecodeByte(v, bytes[k])
  OBVIOUS
<1>5. Scan(bytes) = h[N]
  BY DEF Scan
<1> HIDE DEF N, F, v0
<1>12. v0 \in Scans /\ N \in Nat
  BY <1>1, <1>2
<1>11. PICK f : Passes(f, N, Scans, v0, F)
  BY <1>1, <1>12, <1>3, LoopExists, Zenon
<1>6. f \in [0 .. N -> Scans] /\ f[0] = v0 /\ \A k \in 1 .. N : f[k] = F[k][f[k-1]]
  BY <1>11 DEF Passes
<1>7. f = Step(f)
  <2>1. f = [k \in 0 .. N |-> f[k]]
    BY <1>6
  <2>2. \A k \in 1 .. N : k - 1 \in 0 .. N /\ f[k-1] \in Scans
    BY <1>1, <1>6
  <2>3. \A k \in 1 .. N : f[k] = DecodeByte(f[k-1], bytes[k])
    BY <1>4, <1>6, <2>2
  <2>4. \A k \in 0 .. N : k = 0 \/ k \in 1 .. N
    BY <1>1
  <2>5. \A k \in 0 .. N : f[k] = IF k = 0 THEN v0 ELSE DecodeByte(f[k-1], bytes[k])
    BY <1>1, <1>6, <2>3, <2>4
  <2>6. QED  BY <2>1, <2>5
<1>8. h = Step(h)
  <2> HIDE DEF Step
  <2>1. QED  BY <1>7
<1> HIDE DEF h
<1>9. h[0] \in Scans /\ \A k \in 1 .. N : h[k-1] \in Scans => h[k] \in Scans
  <2>1. h[0] = v0
    BY <1>1, <1>8
  <2>2. \A k \in 1 .. N : h[k] = DecodeByte(h[k-1], bytes[k])
    BY <1>1, <1>8
  <2>3. QED  BY <1>2, <2>1, <2>2
<1>10. QED  BY <1>1, <1>5, <1>9, LoopStays

LEMMA DecodeIsText == ASSUME NEW ids \in Seq(Text) PROVE Decode(ids) \in Text
<1>1. Scan(Bytes(ids)) \in Scans
  BY BytesAreText, ScanIsTyped
<1>2. Scan(Bytes(ids)).text \in Text /\ Append(Scan(Bytes(ids)).text, Broken) \in Text
  <2>1. Broken \in Characters
    BY DEF Characters
  <2>2. Scan(Bytes(ids)).text \in Text
    BY <1>1 DEF Scans
  <2>3. QED  BY <2>1, <2>2, AppendText
<1>3. QED  BY <1>2 DEF Decode

LEMMA PrintableIsText == ASSUME NEW s \in Text PROVE Printable(s) \in Text
<1>1. s \in Seq(Characters) /\ Len(s) \in Nat
  BY DEF Text
<1>2. UpToLastSpace(s) \in Text
  <2> DEFINE spaces == {i \in 1 .. Len(s) : s[i] = " "}
  <2>1. spaces \cup {0} \subseteq 0 .. Len(s) /\ spaces \cup {0} # {}
    <3>1. spaces \subseteq 1 .. Len(s)
      OBVIOUS
    <3> HIDE DEF spaces
    <3>2. 1 .. Len(s) \subseteq 0 .. Len(s) /\ 0 \in 0 .. Len(s)
      BY <1>1
    <3>3. QED  BY <3>1, <3>2
  <2> HIDE DEF spaces
  <2>2. \E n \in spaces \cup {0} : \A i \in spaces \cup {0} : i <= n
    BY <1>1, <2>1, GreatestNumber
  <2>3. PICK n \in spaces \cup {0} :
          n = CHOOSE m \in spaces \cup {0} : \A i \in spaces : i <= m
    BY <2>2
  <2>4. n \in 0 .. Len(s)
    BY <2>1
  <2>5. SubSeq(s, 1, n) \in Text
    BY <1>1, <2>4, CutAt
  <2>6. UpToLastSpace(s) = SubSeq(s, 1, n)
    BY <2>3 DEF UpToLastSpace, spaces
  <2>7. QED  BY <2>5, <2>6
<1>3. Len(s) > 1 => SubSeq(s, 1, Len(s) - 1) \in Text
  BY <1>1, CutAt
<1>4. QED  BY <1>2, <1>3 DEF Printable

(* DecodeStatus: the detokenizer never reads behind the ids it has. *)
Statuses == [ids : Seq(Text), str : Text, read : Nat, surr : Nat, sent : Nat]
DecodeStatus(s) == s \in Statuses /\ s.read <= Len(s.ids)

LEMMA DetokenizeTyped ==
  ASSUME NEW s, DecodeStatus(s), NEW token \in Text, NEW final \in BOOLEAN
  PROVE  DecodeStatus(Detokenized(s, token, final)) /\ Increment(s, token, final) \in Text
<1> DEFINE ids == Ids(s, token, final)
           fresh == NewText(s, ids)
           output == Output(s, fresh)
<1>1. /\ s \in Statuses /\ s.ids \in Seq(Text) /\ s.str \in Text
      /\ s.read \in Nat /\ s.surr \in Nat /\ s.sent \in Nat /\ s.read <= Len(s.ids)
  BY DEF Statuses, DecodeStatus
<1>2. ids \in Seq(Text) /\ Len(ids) \in Nat /\ s.read <= Len(ids)
  BY <1>1 DEF Ids
<1>3. ASSUME NEW t \in Text, NEW n \in Nat PROVE From(t, n) \in Text
  BY DEF From, Text
<1> HIDE DEF ids
<1>4. fresh \in Text
  <2>1. From(ids, s.surr) \in Seq(Text) /\ SubSeq(ids, s.surr + 1, s.read) \in Seq(Text)
    <3>1. SubSeq(ids, s.surr + 1, s.read) \in Seq(Text)
      BY <1>1, <1>2
    <3>2. SubSeq(ids, s.surr + 1, Len(ids)) \in Seq(Text)
      BY <1>1, <1>2
    <3>3. QED  BY <3>1, <3>2 DEF From
  <2>2. /\ Decode(From(ids, s.surr)) \in Text
        /\ Decode(SubSeq(ids, s.surr + 1, s.read)) \in Text
    BY <2>1, DecodeIsText
  <2>3. Len(Decode(SubSeq(ids, s.surr + 1, s.read))) \in Nat
    BY <2>2 DEF Text
  <2>4. QED  BY <1>3, <2>2, <2>3 DEF NewText
<1> HIDE DEF fresh
<1>5. output \in Text /\ Len(output) \in Nat
  <2>1. Printable(fresh) \in Text
    BY <1>4, PrintableIsText
  <2>2. (IF Commits(fresh) THEN fresh ELSE Printable(fresh)) \in Text
    BY <1>4, <2>1
  <2>3. QED  BY <1>1, <2>2, Joined DEF Output
<1> HIDE DEF output
<1>6. Increment(s, token, final) \in Text
  BY <1>1, <1>3, <1>5 DEF Increment, ids, fresh, output
<1>7. DecodeStatus(Detokenized(s, token, final))
  <2>1. Detokenized(s, token, final) =
          IF Commits(fresh)
          THEN [ids |-> ids, str |-> output, surr |-> s.read, read |-> Len(ids), sent |-> Len(output)]
          ELSE [s EXCEPT !.ids = ids, !.sent = Len(output)]
    BY DEF Detokenized, ids, fresh, output
  <2> DEFINE new == [ids |-> ids, str |-> output, surr |-> s.read, read |-> Len(ids),
                     sent |-> Len(output)]
             old == [s EXCEPT !.ids = ids, !.sent = Len(output)]
  <2>2. DecodeStatus(new)
    BY <1>1, <1>2, <1>5 DEF Statuses, DecodeStatus
  <2>3. DecodeStatus(old)
    <3>1. old \in Statuses /\ old.ids = ids /\ old.read = s.read
      BY <1>1, <1>2, <1>5 DEF Statuses
    <3> HIDE DEF old
    <3>2. QED  BY <1>2, <3>1 DEF DecodeStatus
  <2> HIDE DEF new, old
  <2>4. Detokenized(s, token, final) = new \/ Detokenized(s, token, final) = old
    BY <2>1 DEF new, old
  <2>5. QED  BY <2>2, <2>3, <2>4
<1>8. QED  BY <1>6, <1>7

-------------------------------------------------------------------------------

(* The invariant: the decoder's state has its types and the parser is exact. *)
TextInv ==
  /\ DecodeStatus(status) /\ finished \in BOOLEAN
  /\ Splits(out, parser, reasoning, content, finished)

LEMMA TextInitHolds == TextInit => TextInv
<1> SUFFICES ASSUME TextInit PROVE TextInv
  OBVIOUS
<1>1. /\ status = NewStatus /\ finished = FALSE /\ out = <<>> /\ parser = NewParser
      /\ reasoning = <<>> /\ content = <<>>
  BY DEF TextInit
<1>2. DecodeStatus(status)
  BY <1>1, EmptyText DEF Statuses, NewStatus, DecodeStatus
<1>3. <<>> \in Text /\ Len(<<>>) = 0 /\ <<>> \o <<>> = <<>>
  BY EmptyText
<1>4. Found(<<>>) = {}
  <2>1. \A i \in Nat \ {0} : ~(i + DelimiterLen - 1 <= 0)
    BY DelimiterFacts
  <2>2. QED  BY <1>3, <2>1, FoundIs, FoundIsNat
<1>5. HeldBack(<<>>) = 0
  BY <1>3, HeldBackIs
<1>6. parser \in Parsers /\ ~parser.done /\ parser.pending = <<>>
  BY <1>1, <1>3 DEF NewParser, Parsers
<1>7. Splits(out, parser, reasoning, content, finished)
  BY <1>1, <1>3, <1>4, <1>5, <1>6 DEF Splits
<1>8. QED  BY <1>1, <1>2, <1>7 DEF TextInv

LEMMA MessageStep ==
  ASSUME TextInv, NEW token \in Text, NEW final \in BOOLEAN, Message(token, final)
  PROVE  TextInv'
<1> DEFINE t == Increment(status, token, final)
           fed == Feed(parser, t, final)
<1>1. /\ finished = FALSE /\ status' = Detokenized(status, token, final) /\ finished' = final
      /\ out' = out \o t /\ parser' = fed.parser
      /\ reasoning' = reasoning \o fed.reasoning /\ content' = content \o fed.content
  BY DEF Message, TextInv
<1>2. t \in Text /\ DecodeStatus(status')
  BY <1>1, DetokenizeTyped DEF TextInv
<1> HIDE DEF t
<1>3. Splits(out, parser, reasoning, content, FALSE)
  BY <1>1 DEF TextInv
<1>4. Splits(out \o t, fed.parser, reasoning \o fed.reasoning, content \o fed.content, final)
  BY <1>2, <1>3, FeedStep
<1> HIDE DEF fed
<1>5. Splits(out, parser, reasoning, content, finished)'
  BY <1>1, <1>4
<1>6. QED  BY <1>1, <1>2, <1>5 DEF TextInv

LEMMA TextStep == TextInv /\ [TextNext]_textVars => TextInv'
<1> SUFFICES ASSUME TextInv, [TextNext]_textVars PROVE TextInv'
  OBVIOUS
<1>1. Vocabulary \cup {EosToken} \subseteq Text
  BY TextAssumption DEF Text
<1>2. ASSUME NEW token \in Vocabulary, NEW final \in BOOLEAN, Message(token, final) PROVE TextInv'
  BY <1>1, <1>2, MessageStep
<1>3. CASE Message(EosToken, TRUE)
  BY <1>1, <1>3, MessageStep
<1>4. CASE UNCHANGED textVars
  BY <1>4 DEF textVars, TextInv, Splits
<1>5. QED  BY <1>2, <1>3, <1>4 DEF TextNext

(* Whatever the tokens decode to and wherever the increments cut it, the client   *)
(* gets the txt before the first delimiter as reasoning and the txt behind it   *)
(* as content, and nothing is held back but an end that may begin a delimiter      *)
(* (_ReasoningStreamParser.feed): for every vocabulary, delimiter and length.     *)
THEOREM SplitAlwaysExact == TextSpec => []SplitIsExact
<1>1. TextInv => SplitIsExact
  BY DEF TextInv, Splits, SplitIsExact
<1>2. QED  BY <1>1, TextInitHolds, TextStep, PTL DEF TextSpec
===============================================================================
