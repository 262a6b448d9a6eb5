--------------------------- MODULE WeightDelivery ---------------------------
(***************************************************************************)
(* What pushing weights from the trainer to the rollout replicas promises, *)
(* whatever moves the bytes: a replica serves with one version of all its  *)
(* tensors, the version it says, and is never loaded while it serves.      *)
(*                                                                         *)
(* A replica is a set of workers.  One that could not be paused is excused *)
(* until the next push: it goes on serving while it is loaded.             *)
(***************************************************************************)
EXTENDS Naturals

CONSTANTS Replicas, Tensors

VARIABLES
  latest,    \* the version the trainer pushes
  model,     \* [worker -> [tensor -> version]]
  label,     \* [replica -> the version it reports with its answers]
  open,      \* the replicas that serve
  excused    \* those that could not be paused for this push

delivery == <<latest, model, label, open, excused>>

Workers == UNION Replicas

AllHave(p, v) == \A w \in p, t \in Tensors : model[w][t] = v

Init ==
  /\ latest = 0
  /\ model = [w \in Workers |-> [t \in Tensors |-> 0]]
  /\ label = [p \in Replicas |-> 0]
  /\ open = Replicas
  /\ excused = {}

NewVersion ==
  /\ open = Replicas
  /\ \A p \in Replicas : AllHave(p, latest) /\ label[p] = latest
  /\ latest' = latest + 1
  /\ excused' = {}
  /\ UNCHANGED <<model, label, open>>

Pause(p) ==
  /\ open' = open \ {p}
  /\ UNCHANGED <<latest, model, label, excused>>

PauseFails(p) ==
  /\ excused' = excused \cup {p}
  /\ UNCHANGED <<latest, model, label, open>>

Load(p, w, S) ==
  /\ p \notin open \/ p \in excused
  /\ model' = [model EXCEPT ![w] = [t \in Tensors |-> IF t \in S THEN latest ELSE @[t]]]
  /\ UNCHANGED <<latest, label, open, excused>>

Report(p) ==
  /\ AllHave(p, latest)
  /\ label' = [label EXCEPT ![p] = latest]
  /\ UNCHANGED <<latest, model, open, excused>>

Reopen(p) ==
  /\ AllHave(p, latest) /\ label[p] = latest
  /\ open' = open \cup {p}
  /\ UNCHANGED <<latest, model, label, excused>>

Next ==
  \/ NewVersion
  \/ \E p \in Replicas :
       \/ Pause(p) \/ PauseFails(p) \/ Report(p) \/ Reopen(p)
       \/ \E w \in p, S \in SUBSET Tensors : Load(p, w, S)

Spec == Init /\ [][Next]_delivery
-----------------------------------------------------------------------------
\* The types of the variables.
TypeOK ==
  /\ latest \in Nat
  /\ model \in [Workers -> [Tensors -> Nat]]
  /\ label \in [Replicas -> Nat]
  /\ open \subseteq Replicas /\ excused \subseteq Replicas

\* A replica that serves and was paused when it had to be has one version of
\* all tensors on all its workers, the one it reports (CheckpointEngineManager,
\* update_weights; vLLMHttpServer.set_global_steps).
ServesOneVersion == \A p \in open \ excused : AllHave(p, label[p])
=============================================================================
