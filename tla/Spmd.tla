-------------------------------- MODULE Spmd --------------------------------
(***************************************************************************)
(* What the MPI programs with collective calls have in common: every       *)
(* process makes the same calls in the same order, and computes in between.*)
(*                                                                         *)
(* A call is two steps.  A process enters it, with what it gives, and      *)
(* returns from it when it has what it needs: the root of a gather or a    *)
(* reduction and everybody in an "all" call once all have entered, the     *)
(* others once the root of a scatter has, or at once.                      *)
(***************************************************************************)
EXTENDS Naturals

CONSTANTS
  num_procs,
  Stages,          \* the number of calls
  Kind(_),         \* of a call: "scatter", "gather" or "all"
  Input,           \* the possible data of process 0
  Give(_, _, _, _),\* what a process gives: call, rank, data of the root, memory
  Take(_, _, _, _),\* the memories it may have after: call, rank, memory, given
  Overruns         \* the calls that write past a buffer

Rank == 0 .. num_procs - 1

VARIABLES
  input,   \* the data of process 0
  stage,   \* the call each process makes next or is in
  inside,  \* whether it is in that call
  mem,     \* what it has computed
  given,   \* for every call what the processes that entered it gave
  aborted  \* an overrun has ended the program

spmd == <<input, stage, inside, mem, given, aborted>>

Init ==
  /\ input \in Input
  /\ stage = [p \in Rank |-> 1]
  /\ inside = [p \in Rank |-> FALSE]
  /\ mem = [p \in Rank |-> <<>>]
  /\ given = [k \in 1 .. Stages |-> <<>>]
  /\ aborted = FALSE

Entered(k) == DOMAIN given[k] \cap Rank

Enter(p) ==
  /\ ~ aborted /\ ~ inside[p] /\ stage[p] <= Stages
  /\ inside' = [inside EXCEPT ![p] = TRUE]
  /\ given' = [given EXCEPT ![stage[p]] =
                 [q \in Entered(stage[p]) \cup {p} |->
                    IF q = p THEN Give(stage[p], p, input, mem[p]) ELSE @[q]]]
  /\ UNCHANGED <<input, stage, mem, aborted>>

Completes(k, p) ==
  CASE Kind(k) = "scatter" -> 0 \in Entered(k)
    [] Kind(k) = "gather"  -> p # 0 \/ Entered(k) = Rank
    [] OTHER               -> Entered(k) = Rank

Return(p) ==
  /\ ~ aborted /\ inside[p]
  /\ Completes(stage[p], p)
  /\ \E m \in Take(stage[p], p, mem[p], given[stage[p]]) : mem' = [mem EXCEPT ![p] = m]
  /\ inside' = [inside EXCEPT ![p] = FALSE]
  /\ stage' = [stage EXCEPT ![p] = @ + 1]
  /\ aborted' \in BOOLEAN
  /\ aborted' => stage[p] \in Overruns
  /\ UNCHANGED <<input, given>>

Done(p) == stage[p] > Stages
Ended   == aborted \/ \A p \in Rank : Done(p)

Step == \E p \in Rank : Enter(p) \/ Return(p)
Over == Ended /\ UNCHANGED spmd

Spec == Init /\ [][Step \/ Over]_spmd

-----------------------------------------------------------------------------
StageOK ==
  /\ stage \in [Rank -> 1 .. Stages + 1]
  /\ inside \in [Rank -> BOOLEAN]
  /\ \A p \in Rank : inside[p] => ~ Done(p)
  /\ aborted \in BOOLEAN
=============================================================================
