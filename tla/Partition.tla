------------------------------ MODULE Partition ------------------------------
(***************************************************************************)
(* How the supervisor of a multiplexed execution divides a task            *)
(* (agent/multiplex/partition.go): the resources in groups up to a target  *)
(* of tokens, or by module, which ignores both limits.  A resource is told *)
(* apart by its estimated tokens and the module its path names; an intent  *)
(* is the sequence of its resources, its number is its place and its role  *)
(* is that of the task.                                                    *)
(***************************************************************************)
EXTENDS Integers, Sequences, SequencesExt

CONSTANTS
  MaxIntents,         \* config.MaxIntents: 10 in the code
  MaxTokensPerIntent  \* config.MaxTokensPerIntent: 50000 in the code

addIntent(p) ==
  IF p.group = <<>> THEN p
  ELSE [intents |-> Append(p.intents, p.group), group |-> <<>>, tokens |-> 0]

\* Mutant: a large resource goes out before the group it follows.
LargeFirst(p, r) ==
  IF r.tokens > MaxTokensPerIntent THEN [p EXCEPT !.intents = Append(@, <<r>>)]
  ELSE LET q == IF p.tokens + r.tokens > MaxTokensPerIntent THEN addIntent(p) ELSE p
       IN  [q EXCEPT !.group = Append(@, r), !.tokens = @ + r.tokens]

\* One round of the loop, for the resource r.
addResource(p, r) ==
  IF r.tokens > MaxTokensPerIntent
  THEN LET q == addIntent(p) IN [q EXCEPT !.intents = Append(@, <<r>>)]
  ELSE LET q == IF p.tokens + r.tokens > MaxTokensPerIntent THEN addIntent(p) ELSE p
           s == [q EXCEPT !.group = Append(@, r), !.tokens = @ + r.tokens]
       IN  IF Len(s.intents) + Len(s.group) > MaxIntents THEN addIntent(s) ELSE s

partitionByFile(resources) ==
  addIntent(FoldLeft(addResource, [intents |-> <<>>, group |-> <<>>, tokens |-> 0],
                     resources)).intents

addToModule(map, r) == [map EXCEPT ![r.module] = Append(@, r)]

\* The resources of every module, in the order of the task.
moduleMap(resources) ==
  FoldLeft(addToModule, [m \in {r.module : r \in ToSet(resources)} |-> <<>>], resources)

\* An intent for every module, in whatever order the map is ranged over.
partitionByModule(resources) ==
  LET map == moduleMap(resources)
  IN  {[i \in DOMAIN order |-> map[order[i]]] : order \in SetToSeqs(DOMAIN map)}

\* The partitions a task may get; one without resources is one intent without.
PartitionOf(resources, splitBy) ==
  IF resources = <<>> THEN {<< <<>> >>}
  ELSE IF splitBy = "module" THEN partitionByModule(resources)
  ELSE {partitionByFile(resources)}
=============================================================================
