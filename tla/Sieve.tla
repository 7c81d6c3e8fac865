------------------------------- MODULE Sieve --------------------------------
(***************************************************************************)
(* The sieve of Eratosthenes, sieve_eratosthenes_omp_dynamic.c (Dynamic =  *)
(* TRUE) and sieve_eratosthenes_omp.c (FALSE).  The threads take chunks of *)
(* the numbers j and strike the multiples of those that are not struck     *)
(* yet, on one array without synchronisation.                              *)
(*                                                                         *)
(* The condition k * k <= n of the second program is not one OpenMP allows *)
(* for a parallel loop: it is a program without OpenMP only, one thread.   *)
(***************************************************************************)
EXTENDS Integers

CONSTANTS
  Sizes,     \* the possible n
  Threads,   \* t in the code
  Chunk,     \* numbers a thread takes at a time, 500 in the code
  Dynamic,
  Wrap(_)    \* what an int keeps of a number

Thread == 1 .. Threads

VARIABLES
  n,
  is_prime,
  next,       \* the first number no thread has taken
  pc,         \* of each thread: takes a chunk, tests a number or strikes multiples
  j, last,    \* the number it is at, and the last of its chunk
  multiple,   \* the multiple of j it strikes next
  wild        \* whether something was written outside the array: "no", "yes" or
              \* "fatal", if it ended the program

vars == <<n, is_prime, next, pc, j, last, multiple, wild>>

Init ==
  /\ n \in Sizes
  /\ is_prime = [i \in 0 .. n |-> i >= 2]
  /\ next = 2
  /\ pc = [t \in Thread |-> "take"]
  /\ j = [t \in Thread |-> 0]
  /\ last = [t \in Thread |-> 0]
  /\ multiple = [t \in Thread |-> 0]
  /\ wild = "no"

InLoop(k) == IF Dynamic THEN k < n ELSE Wrap(k * k) <= n
Sieves(k) == Dynamic => Wrap(k * k) < n

\* schedule(dynamic, Chunk)
LastOfChunk == IF Dynamic /\ next + Chunk <= n THEN next + Chunk - 1
               ELSE IF Dynamic THEN n - 1 ELSE next

Alive == wild # "fatal"

TakeChunk(t) ==
  /\ Alive /\ pc[t] = "take" /\ InLoop(next)
  /\ pc' = [pc EXCEPT ![t] = "test"]
  /\ j' = [j EXCEPT ![t] = next]
  /\ last' = [last EXCEPT ![t] = LastOfChunk]
  /\ next' = LastOfChunk + 1
  /\ UNCHANGED <<n, is_prime, multiple, wild>>

Advance(t) ==
  /\ pc' = [pc EXCEPT ![t] = IF j[t] < last[t] THEN "test" ELSE "take"]
  /\ j' = [j EXCEPT ![t] = IF j[t] < last[t] THEN @ + 1 ELSE @]

\* Mutant: the multiples of the number itself on, the number included.
FirstMultipleItself(k) == k

\* Mutant: a number too late.
FirstMultipleNext(k) == k * (k + 1)

FirstMultiple(k) == k * k

Test(t) ==
  /\ Alive /\ pc[t] = "test"
  /\ IF Sieves(j[t]) /\ is_prime[j[t]]
     THEN /\ pc' = [pc EXCEPT ![t] = "strike"]
          /\ multiple' = [multiple EXCEPT ![t] = Wrap(FirstMultiple(j[t]))]
          /\ UNCHANGED j
     ELSE Advance(t) /\ UNCHANGED multiple
  /\ UNCHANGED <<n, is_prime, next, last, wild>>

\* A negative index: the write goes before the array.  It may end the program;
\* if it does not, the loop goes on from there.
Strike(t) ==
  /\ Alive /\ pc[t] = "strike" /\ multiple[t] <= n
  /\ wild' \in IF multiple[t] < 0 THEN {"yes", "fatal"} ELSE {wild}
  /\ is_prime' = [i \in 0 .. n |-> is_prime[i] /\ i # multiple[t]]
  /\ multiple' = [multiple EXCEPT ![t] = Wrap(@ + j[t])]
  /\ UNCHANGED <<n, next, pc, j, last>>

\* Mutant: goes on to the next number, whoever's it is.
StruckGoesOn(t) ==
  /\ Alive /\ pc[t] = "strike" /\ multiple[t] > n
  /\ pc' = [pc EXCEPT ![t] = "test"]
  /\ j' = [j EXCEPT ![t] = @ + 1]
  /\ UNCHANGED <<n, is_prime, next, last, multiple, wild>>

\* Mutant: tests the same number again.
StruckAgain(t) ==
  /\ Alive /\ pc[t] = "strike" /\ multiple[t] > n
  /\ pc' = [pc EXCEPT ![t] = "test"]
  /\ UNCHANGED <<n, is_prime, next, j, last, multiple, wild>>

Struck(t) ==
  /\ Alive /\ pc[t] = "strike" /\ multiple[t] > n
  /\ Advance(t)
  /\ UNCHANGED <<n, is_prime, next, last, multiple, wild>>

\* All threads are at the end of the loop: the primes are printed.
Printed == Alive /\ ~ InLoop(next) /\ \A t \in Thread : pc[t] = "take"
Ended   == ~ Alive \/ Printed

Step == \E t \in Thread : TakeChunk(t) \/ Test(t) \/ Strike(t) \/ Struck(t)
Over == Ended /\ UNCHANGED vars

Spec == Init /\ [][Step \/ Over]_vars

-----------------------------------------------------------------------------
TypeOK ==
  /\ is_prime \in [0 .. n -> BOOLEAN]
  /\ wild \in {"no", "yes", "fatal"}
  /\ next \in 2 .. n
  /\ pc \in [Thread -> {"take", "test", "strike"}]
  /\ \A t \in Thread : pc[t] # "take" =>
       /\ j[t] \in 2 .. n - 1
       /\ last[t] \in j[t] .. next - 1
       /\ pc[t] = "strike" => multiple[t] \in Int

Composite(i) == \E a, b \in 2 .. i : i = a * b
PrimeSquare(i) == \E k \in 2 .. i : ~ Composite(k) /\ i = k * k

\* No number of the loops is too large for an int.
Fits == \A k \in 2 .. n * (n + 1) : Wrap(k) = k

(***************************************************************************)
(* A thread that finds a number not struck yet because another is late     *)
(* only strikes multiples of a composite: no prime is ever struck, and     *)
(* nothing outside the array is written.                                   *)
(***************************************************************************)
NoPrimeStruck ==
  \/ wild = "no" /\ \A i \in 2 .. n : is_prime[i] \/ Composite(i)
  \/ ~ Fits

(***************************************************************************)
(* "Find all primes up to n" (README.md:206): whatever the interleaving,   *)
(* exactly they are printed (lines 22-38).                                 *)
(***************************************************************************)
PrimesDocumented ==
  Printed => {i \in 2 .. n : is_prime[i]} = {i \in 2 .. n : ~ Composite(i)}

(***************************************************************************)
(* They are unless a number of the loops is too large for an int or, in    *)
(* the first program, n is the square of a prime, which the conditions     *)
(* j < n and j * j < n of lines 22 and 24 never strike.                    *)
(***************************************************************************)
PrimesRight == Fits /\ ~ (Dynamic /\ PrimeSquare(n)) => PrimesDocumented
=============================================================================
