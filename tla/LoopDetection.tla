---------------------------- MODULE LoopDetection ----------------------------
(***************************************************************************)
(* The loop detector of a turn (agent/loop_detection.go).  A step is the   *)
(* sequence of its tool calls with the results they got; only whether two  *)
(* steps have the same calls and results matters, and a step without calls *)
(* is never counted.                                                       *)
(***************************************************************************)
EXTENDS Integers, Sequences, FiniteSets

CONSTANTS
  windowSize,  \* loopDetectionWindowSize: 10 in the code
  maxRepeats   \* loopDetectionMaxRepeats: 5 in the code

\* A step: the calls in their order and the results by the id of their call.
\* The signature pairs the two; a call without a result has an empty one.
getToolInteractionSignature(step) ==
  [i \in DOMAIN step.calls |->
     [name  |-> step.calls[i].name, input |-> step.calls[i].input,
      output |-> IF step.calls[i].id \in DOMAIN step.results
                 THEN step.results[step.calls[i].id] ELSE ""]]

\* Mutant: the steps before the last are looked at.
EarlierSteps(steps) ==
  LET window == SubSeq(steps, Len(steps) - windowSize, Len(steps) - 1)
      sig(i) == getToolInteractionSignature(window[i])
  IN  /\ Len(steps) > windowSize
      /\ \E i \in DOMAIN window :
           /\ sig(i) # <<>>
           /\ Cardinality({j \in DOMAIN window : sig(j) = sig(i)}) > maxRepeats

\* Some signature of the last windowSize steps occurs more than maxRepeats
\* times in them.
hasRepeatedToolCalls(steps) ==
  LET window == SubSeq(steps, Len(steps) - windowSize + 1, Len(steps))
      sig(i) == getToolInteractionSignature(window[i])
  IN  /\ Len(steps) >= windowSize
      /\ \E i \in DOMAIN window :
           /\ sig(i) # <<>>
           /\ Cardinality({j \in DOMAIN window : sig(j) = sig(i)}) > maxRepeats
=============================================================================
