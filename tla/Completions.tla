---------------------------- MODULE Completions -----------------------------
(***************************************************************************)
(* What the server promises, without the scheduler: every request is       *)
(* answered as if it were alone.  No slots, no caches, no queue, no batch, *)
(* no template: each answer grows by the greedy token of its own history   *)
(* until it ends, and answers grow independently of one another, several   *)
(* of them in one step.                                                    *)
(***************************************************************************)
EXTENDS Requests

VARIABLE answer   \* the state of each request's answer

Waiting      == [st |-> "waiting", out |-> <<>>, finish |-> "", n |-> 0]
Running(out) == [st |-> "running", out |-> out,  finish |-> "", n |-> 0]
Done(f, n)   == [st |-> "done",    out |-> <<>>, finish |-> f,  n |-> n]

Init == answer = [r \in Request |-> Waiting]

\* One step of the answer to r: out so far, then the next token or the end.
Advance(r, out) ==
  LET tok  == Argmax(Alone(r, out))
      out2 == Append(out, tok)
  IN  IF out # <<>> /\ Len(Prompt[r]) + Len(out) >= Ctx - 1
      THEN Done("length", Len(out))                        \* context full
      ELSE IF tok \in Eos THEN Done("stop", Len(out))
      ELSE IF Len(out) >= MaxTokens[r] THEN Done("length", Len(out))
      ELSE IF StopCuts(Decode(out2), Stops[r]) # {} THEN Done("stop", Len(out2))
      ELSE Running(out2)

Start(S) ==
  /\ \A r \in S : answer[r].st = "waiting"
  /\ answer' = [r \in Request |-> IF r \in S THEN Running(<<>>) ELSE answer[r]]

Grow(S) ==
  /\ \A r \in S : answer[r].st = "running"
  /\ answer' = [r \in Request |->
                  IF r \in S THEN Advance(r, answer[r].out) ELSE answer[r]]

Next == \E S \in SUBSET Request : Start(S) \/ Grow(S)

Spec == Init /\ [][Next]_answer
=============================================================================
