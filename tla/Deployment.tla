------------------------------ MODULE Deployment ------------------------------
(***************************************************************************)
(* What programming a switch promises, whoever does it and however: a      *)
(* switch that is loaded goes through the stages of its configuration, in  *)
(* order and one at a time, and is declared ready with the last of them.   *)
(* A switch may be lost at any time, with all it holds.                    *)
(***************************************************************************)
EXTENDS Naturals, Sequences

CONSTANT Switch

VARIABLES
  stages,    \* for every switch the sequence of contents to go through, fixed
  loaded, contents, ready, lost

vars == <<stages, loaded, contents, ready, lost>>

Complete(s) == s \in loaded /\ contents[s] = stages[s][Len(stages[s])]

Init ==
  /\ \A s \in Switch : stages[s] # <<>> /\ stages[s][1] = {}
  /\ loaded = {} /\ ready = {} /\ lost = {}
  /\ contents = [s \in Switch |-> {}]

Load(s) ==
  /\ s \notin loaded \cup ready \cup lost
  /\ loaded' = loaded \cup {s}
  /\ contents' = [contents EXCEPT ![s] = stages[s][1]]
  /\ UNCHANGED <<stages, ready, lost>>

Extend(s) ==
  /\ s \in loaded \ ready
  /\ \E k \in 1..(Len(stages[s]) - 1) :
       /\ contents[s] = stages[s][k]
       /\ contents' = [contents EXCEPT ![s] = stages[s][k + 1]]
  /\ UNCHANGED <<stages, loaded, ready, lost>>

Declare(s) ==
  /\ s \in lost \/ Complete(s)
  /\ ready' = ready \cup {s}
  /\ UNCHANGED <<stages, loaded, contents, lost>>

Lose(s) ==
  /\ loaded' = loaded \ {s}
  /\ contents' = [contents EXCEPT ![s] = {}]
  /\ lost' = lost \cup {s}
  /\ UNCHANGED <<stages, ready>>

Next == \E s \in Switch : Load(s) \/ Extend(s) \/ Declare(s) \/ Lose(s)

Spec == Init /\ [][Next]_vars

\* A switch that was declared ready, and is not lost, holds its configuration.
ReadyIsComplete == \A s \in ready \ lost : Complete(s)
=============================================================================
