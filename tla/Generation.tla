----------------------------- MODULE Generation -----------------------------
(***************************************************************************)
(* What the engine promises a request: text generation one token at a      *)
(* time, without batches, blocks or queues.  The state is what the caller  *)
(* can observe of a request: its tokens, its limits, and whether it is     *)
(* still active.                                                           *)
(***************************************************************************)
EXTENDS Integers, Sequences

CONSTANTS SeqId, Requests, Sampled, eos

VARIABLES token_ids, num_prompt_tokens, max_tokens, ignore_eos, active

gVars == << token_ids, num_prompt_tokens, max_tokens, ignore_eos, active >>

Init ==
    /\ token_ids = [s \in SeqId |-> << >>]
    /\ num_prompt_tokens = [s \in SeqId |-> 0]
    /\ max_tokens = [s \in SeqId |-> 0]
    /\ ignore_eos = [s \in SeqId |-> FALSE]
    /\ active = {}

Submit(s, r) ==
    /\ s \notin active
    /\ active' = active \cup {s}
    /\ token_ids' = [token_ids EXCEPT ![s] = r.prompt]
    /\ num_prompt_tokens' = [num_prompt_tokens EXCEPT ![s] = Len(r.prompt)]
    /\ max_tokens' = [max_tokens EXCEPT ![s] = r.max_tokens]
    /\ ignore_eos' = [ignore_eos EXCEPT ![s] = r.ignore_eos]

\* The token that ends the text is part of it.
Ends(s, t) ==
    \/ t = eos /\ ~ignore_eos[s]
    \/ Len(token_ids[s]) + 1 - num_prompt_tokens[s] = max_tokens[s]

Emit(s, t) ==
    /\ s \in active
    /\ token_ids' = [token_ids EXCEPT ![s] = Append(@, t)]
    /\ active' = IF Ends(s, t) THEN active \ {s} ELSE active
    /\ UNCHANGED << num_prompt_tokens, max_tokens, ignore_eos >>

Next ==
    \E s \in SeqId :
        \/ \E r \in Requests : Submit(s, r)
        \/ \E t \in Sampled : Emit(s, t)

Spec == Init /\ [][Next]_gVars
=============================================================================
