------------------------------- MODULE Handoff -------------------------------
(***************************************************************************)
(* The two programs that act on the handoff of a pull request between the  *)
(* agents: the coordination sink of the daemon and the pre-push runner.    *)
(* They share nothing but GitHub, where the first only reads and the       *)
(* second changes the branch, as people do; so a behaviour is one of       *)
(* either program among people.                                            *)
(***************************************************************************)
EXTENDS CoordinationAdapter, PrepushRunner

ASSUME ProgramAssumption == Readers = Runners \cup {Adapter} /\ Adapter \notin Runners

VARIABLE program   \* the program of this behaviour

vars == <<pullVars, adapterVars, runnerVars, program>>

Init ==
  /\ PullInit /\ AdapterInit /\ RunnerInit
  /\ program \in {"adapter", "runner"}

Next ==
  /\ \/ People
        /\ UNCHANGED <<reading, event, delivered, at, task, dir, flying, attempts, tested>>
        /\ held' = held \cup {ref'}
        /\ agreed' = agreed \cup Agreement' /\ admitted' = admitted \cup Admission'
     \/ program = "adapter" /\ AdapterNext /\ UNCHANGED runnerVars
     \/ program = "runner" /\ RunnerNext /\ UNCHANGED adapterVars
  /\ UNCHANGED program

Spec == Init /\ [][Next]_vars

\* The variables keep their types.
TypeOK == PullTypeOK /\ AdapterTypeOK /\ RunnerTypeOK
=============================================================================
