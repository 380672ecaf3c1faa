------------------------------ MODULE Reasoning ------------------------------
(***************************************************************************)
(* The grammar of a DeepSeek V4 answer and the sampler that enforces it.   *)
(* A request that thinks has to close its thoughts once, with </think>,    *)
(* before it may end; no other request may write a marker.  The host keeps *)
(* the state of a request from the tokens it has committed, but under      *)
(* overlap it prepares a forward before the tokens of the one before have  *)
(* arrived, and the device corrects the state by the token it is about to  *)
(* read.                                                                   *)
(*                                                                         *)
(* A forward runs, in stream order, when it is issued.  Chunks of a prompt *)
(* that sample nothing are left out, and so is what Scheduler models: the  *)
(* table rows, the pages and the admission.                                *)
(***************************************************************************)
EXTENDS Integers, Sequences, FiniteSets

CONSTANTS
  Requests,
  Thinking,   \* those with a reasoning_effort
  IgnoreEos,  \* those with SamplingParams.ignore_eos
  MaxTokens,  \* output_len of each
  Overlap     \* overlap_loop or normal_loop

VARIABLES
  stage,    \* "waiting", "active" or "ended"
  host,     \* Req.reasoning_state
  text,     \* the tokens that append_host has committed
  pool,     \* the sampled tokens in the token pool of the device
  last,     \* the batch whose results have not been processed, as the set of its requests
  ongoing   \* the batch this iteration has issued

reasoningVars == <<stage, host, text, pool, last, ongoing>>

Open == "think"
Close == "endthink"
Eos == "eos"
Word == "word"
Tokens == {Open, Close, Eos, Word}

-------------------------------------------------------------------------------
Initial(r) == IF r \in Thinking THEN "thinking" ELSE "chat"

(* advance_reasoning_state                                                    *)
Advance(state, token) ==
  IF state = "thinking" /\ token = Close THEN "answer" ELSE state

(* mask_reasoning_logits_: a decode row reads the token that was sampled last *)
(* and trusts it more than the state; a prefill row reads a prompt.           *)
StillThinking(state, r) ==
  /\ state = "thinking"
  /\ pool[r] # <<>> => pool[r][Len(pool[r])] # Close

Allowed(state, r) ==
  Tokens \ {Open, IF StillThinking(state, r) THEN Eos ELSE Close}

ReasoningInit ==
  /\ stage = [r \in Requests |-> "waiting"]
  /\ host = [r \in Requests |-> Initial(r)]
  /\ text = [r \in Requests |-> <<>>]
  /\ pool = [r \in Requests |-> <<>>]
  /\ last = {} /\ ongoing = {}

(* A batch is either the first sample of some requests or the next of others, *)
(* and takes the state that the host knows now (ReasoningSampler.prepare).    *)
Prefillable == {r \in Requests : stage[r] = "waiting"}
Decodable == {r \in Requests : /\ stage[r] = "active"
                               /\ pool[r] # <<>> /\ Len(pool[r]) < MaxTokens[r]}

Forward ==
  /\ ongoing = {} /\ (Overlap \/ last = {})
  /\ \E B \in ((SUBSET Prefillable) \cup (SUBSET Decodable)) \ {{}},
        token \in [Requests -> Tokens] :
       /\ \A r \in B : token[r] \in Allowed(host[r], r)
       /\ pool' = [r \in Requests |-> IF r \in B THEN Append(pool[r], token[r]) ELSE pool[r]]
       /\ stage' = [r \in Requests |-> IF r \in B THEN "active" ELSE stage[r]]
       /\ ongoing' = B
  /\ UNCHANGED <<host, text, last>>

(* _process_last_data, and the next iteration begins.  In normal_loop the     *)
(* batch is the one just issued.                                              *)
Arrived == IF Overlap THEN last ELSE ongoing
Live == {r \in Arrived : stage[r] = "active"}
NextToken(r) == pool[r][Len(text[r]) + 1]
Finished(r) == \/ NextToken(r) = Eos /\ r \notin IgnoreEos
               \/ Len(text[r]) + 1 >= MaxTokens[r]

ProcessLastData ==
  /\ last # {} \/ ongoing # {}
  /\ text' = [r \in Requests |-> IF r \in Live THEN Append(text[r], NextToken(r)) ELSE text[r]]
  /\ host' = [r \in Requests |-> IF r \in Live THEN Advance(host[r], NextToken(r)) ELSE host[r]]
  /\ stage' = [r \in Requests |-> IF r \in Live /\ Finished(r) THEN "ended" ELSE stage[r]]
  /\ last' = IF Overlap THEN ongoing ELSE {}
  /\ ongoing' = {}
  /\ UNCHANGED pool

(* Between two iterations.                                                    *)
Abort(r) ==
  /\ ongoing = {} /\ stage[r] # "ended"
  /\ stage' = [stage EXCEPT ![r] = "ended"]
  /\ UNCHANGED <<host, text, pool, last, ongoing>>

ReasoningNext == Forward \/ ProcessLastData \/ \E r \in Requests : Abort(r)

ReasoningSpec == ReasoningInit /\ [][ReasoningNext]_reasoningVars

-------------------------------------------------------------------------------
(* What a request has committed, and so what its client reads, follows the    *)
(* grammar: <think> never, </think> only out of a request that thinks and     *)
(* only once, and the end of the text not before it.  A token sampled with a  *)
(* stale state would break it one token after the delimiter (sample.py:51).   *)
Grammatical(r, tokens) ==
  \A i \in DOMAIN tokens :
    /\ tokens[i] # Open
    /\ tokens[i] = Close => r \in Thinking /\ \A j \in 1 .. i - 1 : tokens[j] # Close
    /\ tokens[i] = Eos /\ r \in Thinking => \E j \in 1 .. i - 1 : tokens[j] = Close

GrammarHolds == \A r \in Requests : Grammatical(r, text[r])
===============================================================================
