----------------------------- MODULE RelayRace ------------------------------
(***************************************************************************)
(* The MPI relay race, mpi-relay_race/src/replay_race.c: process 0 sends a *)
(* baton to each team, every other process passes the one it gets to the   *)
(* process two ranks up, the last of a team returns it to process 0, which *)
(* takes the times in the order it receives.                               *)
(*                                                                         *)
(* MPI_Send may return at once or when the message is received, whichever  *)
(* the library chooses; messages of different senders arrive in any order. *)
(***************************************************************************)
EXTENDS Naturals, FiniteSets

CONSTANT num_procs \* at least 3: with fewer MPI_Send to rank 2 aborts the program

Rank  == 0 .. num_procs - 1
Team  == {1, 2}   \* the tags: 1 for the odd ranks, 2 for the even ones
Label == {"odd", "even", "first", "second", "judge", "recv", "pass", "finalize"}

VARIABLES
  pc,      \* where each process is
  net,     \* messages sent and not yet received
  pending, \* the message each process waits for the receipt of, in MPI_Send
  Tag,     \* the tag of the baton each process received
  stop,    \* for each team when process 0 got its baton back, 0 before
  now,     \* the clock of process 0
  winner   \* what process 0 prints

vars == <<pc, net, pending, Tag, stop, now, winner>>

Message == [src : Rank, dst : Rank, tag : Team]

TypeOK ==
  /\ pc \in [Rank -> Label]
  /\ net \subseteq Message
  /\ pending \in [Rank -> SUBSET Message]
  /\ Tag \in [Rank -> Team \cup {0}]
  /\ stop \in [Team -> Nat]
  /\ now \in Nat
  /\ winner \in {"none", "odd", "even"}

Init ==
  /\ pc = [p \in Rank |-> IF p = 0 THEN "odd" ELSE "recv"]
  /\ net = {}
  /\ pending = [p \in Rank |-> {}]
  /\ Tag = [p \in Rank |-> 0]
  /\ stop = [k \in Team |-> 0]
  /\ now = 1
  /\ winner = "none"

-----------------------------------------------------------------------------
(* MPI_Send and MPI_Recv.                                                  *)

\* Process p is at the label, its last MPI_Send has returned.
At(p, label) == pc[p] = label /\ pending[p] \cap net = {}

Send(p, to, k, label) ==
  LET m == [src |-> p, dst |-> to, tag |-> k]
  IN  /\ net' = net \cup {m}
      /\ \E wait \in {{}, {m}} : pending' = [pending EXCEPT ![p] = wait]
      /\ pc' = [pc EXCEPT ![p] = label]

Receive(p, m, label) ==
  /\ m \in net /\ m.dst = p
  /\ net' = net \ {m}
  /\ pc' = [pc EXCEPT ![p] = label]
  /\ UNCHANGED pending

-----------------------------------------------------------------------------
(* Process 0.                                                              *)

SendOdd ==
  /\ At(0, "odd")
  /\ Send(0, 1, 1, "even")
  /\ UNCHANGED <<Tag, stop, now, winner>>

SendEven ==
  /\ At(0, "even")
  /\ Send(0, 2, 2, "first")
  /\ UNCHANGED <<Tag, stop, now, winner>>

\* Mutant: the first baton that comes back is taken for the odd team's.
FinishAsOdd(label, next) ==
  /\ At(0, label)
  /\ \E m \in net : Receive(0, m, next) /\ stop' = [stop EXCEPT ![1] = now]
  /\ now' \in {now, now + 1}
  /\ UNCHANGED <<Tag, winner>>

\* MPI_ANY_SOURCE, MPI_ANY_TAG, then the time of the team the tag names.  Two
\* readings of MPI_Wtime may be the same.
Finish(label, next) ==
  /\ At(0, label)
  /\ \E m \in net : Receive(0, m, next) /\ stop' = [stop EXCEPT ![m.tag] = now]
  /\ now' \in {now, now + 1}
  /\ UNCHANGED <<Tag, winner>>

\* With the same time for both, the even team wins.
Judge ==
  /\ At(0, "judge")
  /\ winner' = IF stop[1] < stop[2] THEN "odd" ELSE "even"
  /\ pc' = [pc EXCEPT ![0] = "finalize"]
  /\ UNCHANGED <<net, pending, Tag, stop, now>>

-----------------------------------------------------------------------------
(* The runners.                                                            *)

Take(p) ==
  /\ At(p, "recv")
  /\ \E m \in net : Receive(p, m, "pass") /\ Tag' = [Tag EXCEPT ![p] = m.tag]
  /\ UNCHANGED <<stop, now, winner>>

\* Mutant: the runner before the last already returns the baton.
NextRankEarly(p) == IF p + 2 < num_procs - 1 THEN p + 2 ELSE 0

\* Mutant: the last runners wait for a rank that is not there.
NextRankLate(p) == IF p + 2 <= num_procs THEN p + 2 ELSE 0

NextRank(p) == IF p + 2 <= num_procs - 1 THEN p + 2 ELSE 0

Pass(p) ==
  /\ At(p, "pass")
  /\ Send(p, NextRank(p), Tag[p], "finalize")
  /\ UNCHANGED <<Tag, stop, now, winner>>

\* Everybody has called MPI_Finalize.
Over ==
  /\ \A p \in Rank : At(p, "finalize")
  /\ UNCHANGED vars

Process(p) ==
  \/ p = 0 /\ (SendOdd \/ SendEven \/ Finish("first", "second")
                 \/ Finish("second", "judge") \/ Judge)
  \/ p # 0 /\ (Take(p) \/ Pass(p))

Step == \E p \in Rank : Process(p)

Next == Step \/ Over

Spec == Init /\ [][Next]_vars

-----------------------------------------------------------------------------
(***************************************************************************)
(* There is one baton per team and it stays in the team: with process 0,   *)
(* on its way or with one runner, and the runners that had it are those    *)
(* before it (lines 85-88, 132-137).                                       *)
(***************************************************************************)
Runners(k) == {p \in Rank \ {0} : p % 2 = k % 2}

BatonKept == \A k \in Team :
  LET sent == IF k = 1 THEN pc[0] # "odd" ELSE pc[0] \notin {"odd", "even"}
      had  == {p \in Rank \ {0} : Tag[p] = k}
  IN  /\ had \subseteq Runners(k)
      /\ \A p \in had, r \in Runners(k) : r < p => r \in had /\ pc[r] = "finalize"
      /\ (IF sent THEN 0 ELSE 1) + (IF stop[k] > 0 THEN 1 ELSE 0)
           + Cardinality({m \in net : m.tag = k})
           + Cardinality({p \in had : pc[p] = "pass"}) = 1

(***************************************************************************)
(* When process 0 compares the times it has both, one for each tag, none   *)
(* is the uninitialised variable of lines 79-80, and every runner of both  *)
(* teams has had and passed its baton.                                     *)
(***************************************************************************)
BothTimed ==
  pc[0] \in {"judge", "finalize"} =>
    /\ \A k \in Team : stop[k] > 0
    /\ \A k \in Team : \A p \in Runners(k) : Tag[p] = k /\ pc[p] = "finalize"

(***************************************************************************)
(* The race is over when it has a winner and everybody has finished.       *)
(***************************************************************************)
Raced == winner # "none" /\ \A p \in Rank : pc[p] = "finalize"
=============================================================================
