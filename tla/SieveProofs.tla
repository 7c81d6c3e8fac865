---------------------------- MODULE SieveProofs -----------------------------
(***************************************************************************)
(* The threads of the sieve never strike a prime, nor anything outside the *)
(* array, and the primes are printed unless n is the square of one: for    *)
(* any n, any number of threads, any chunk and every interleaving, if the  *)
(* numbers of the loops fit into an int.                                   *)
(*                                                                         *)
(* The first argument: whoever strikes the multiples of j, prime or not,   *)
(* is at a multiple of j that is at least twice j.  The second: once no    *)
(* thread is busy with k any more, k is struck or all its multiples from   *)
(* k * k on are; a composite has a least divisor d >= 2, which is a prime, *)
(* is never struck, and has d * d below it.                                *)
(***************************************************************************)
EXTENDS Sieve, WellFoundedInduction, TLAPS

Parameters ==
  /\ Sizes \subseteq Nat \ {0, 1}
  /\ Chunk \in Nat \ {0}
  /\ Dynamic \in BOOLEAN

TakenOK ==
  /\ n \in Nat \ {0, 1}
  /\ next \in 2 .. n
  /\ pc \in [Thread -> {"take", "test", "strike"}]
  /\ j \in [Thread -> Int]
  /\ last \in [Thread -> Int]
  /\ multiple \in [Thread -> Int]
  /\ \A t \in Thread : pc[t] # "take" => 2 <= j[t] /\ j[t] <= last[t] /\ last[t] < next

Multiple(i, k) == \E a \in Nat : 2 <= a /\ i = a * k

StrikesMultiples ==
  \A t \in Thread : pc[t] = "strike" => Multiple(multiple[t], j[t])

StruckComposite ==
  /\ wild = "no"
  /\ is_prime \in [0 .. n -> BOOLEAN]
  /\ \A i \in 2 .. n : is_prime[i] \/ Composite(i)

SieveInv == TakenOK /\ StrikesMultiples /\ StruckComposite

-----------------------------------------------------------------------------
(* Arithmetic.                                                             *)

LEMMA MultipleComposite ==
  ASSUME NEW i \in Nat, NEW k \in Nat, 2 <= k, Multiple(i, k)
  PROVE  Composite(i)
<1>1. PICK a \in Nat : 2 <= a /\ i = a * k
  BY DEF Multiple
<1>2. a * k >= a * 2 /\ a * k >= 2 * k
  BY <1>1
<1>3. a \in 2 .. i /\ k \in 2 .. i
  BY <1>1, <1>2
<1> QED BY <1>1, <1>3 DEF Composite

LEMMA MultipleNext ==
  ASSUME NEW i \in Int, NEW k \in Nat, Multiple(i, k)
  PROVE  Multiple(i + k, k)
<1>1. PICK a \in Nat : 2 <= a /\ i = a * k
  BY DEF Multiple
<1>2. (a + 1) * k = a * k + k
  BY <1>1
<1>3. a + 1 \in Nat /\ 2 <= a + 1 /\ i + k = (a + 1) * k
  BY <1>1, <1>2
<1> QED BY <1>3 DEF Multiple

LEMMA MultiplePositive ==
  ASSUME NEW i \in Int, NEW k \in Nat, 2 <= k, Multiple(i, k)
  PROVE  i >= 2
<1>1. PICK a \in Nat : 2 <= a /\ i = a * k
  BY DEF Multiple
<1>2. a * k >= 2 * k
  BY <1>1
<1> QED BY <1>1, <1>2

\* The squares of the numbers up to n, and the sums of two, fit if n * (n + 1) does.
LEMMA SquaresFit ==
  ASSUME Fits, n \in Nat \ {0, 1}, NEW k \in 2 .. n
  PROVE  /\ Wrap(k * k) = k * k
         /\ \A i \in 2 .. n : Wrap(i + k) = i + k
<1>1. k * k <= n * k /\ n * k <= n * n /\ n * (n + 1) = n * n + n /\ k * k >= 2 * k
  <2>1. k \in Nat /\ n \in Nat /\ k <= n /\ 2 <= k
    OBVIOUS
  <2> QED BY <2>1
<1>2. k * k \in 2 .. n * (n + 1)
  BY <1>1
<1>3. n * n >= 2 * n
  OBVIOUS
<1>4. ASSUME NEW i \in 2 .. n PROVE i + k \in 2 .. n * (n + 1)
  BY <1>1, <1>3
<1> QED BY <1>2, <1>4 DEF Fits

-----------------------------------------------------------------------------
(* The steps.                                                              *)

LEMMA InitSieve ==
  ASSUME Parameters, Init
  PROVE  SieveInv
<1>1. TakenOK
  BY DEF Parameters, Init, TakenOK
<1>2. StrikesMultiples
  BY DEF Init, StrikesMultiples
<1>3. StruckComposite
  <2>1. n \in Nat \ {0, 1} /\ wild = "no" /\ is_prime = [i \in 0 .. n |-> i >= 2]
    BY DEF Parameters, Init
  <2>2. is_prime \in [0 .. n -> BOOLEAN]
    BY <2>1
  <2>3. ASSUME NEW i \in 2 .. n PROVE is_prime[i]
    <3>1. i \in 0 .. n /\ i >= 2
      BY <2>1
    <3> QED BY <2>1, <3>1
  <2> QED BY <2>1, <2>2, <2>3 DEF StruckComposite
<1> QED BY <1>1, <1>2, <1>3 DEF SieveInv

LEMMA TakeChunkSieve ==
  ASSUME Parameters, Fits, SieveInv, NEW t \in Thread, TakeChunk(t)
  PROVE  SieveInv'
<1>1. /\ n \in Nat \ {0, 1} /\ next \in 2 .. n
      /\ pc \in [Thread -> {"take", "test", "strike"}]
      /\ j \in [Thread -> Int] /\ last \in [Thread -> Int]
  BY DEF SieveInv, TakenOK
<1>2. next <= LastOfChunk /\ LastOfChunk + 1 <= n /\ LastOfChunk \in Int
  <2>1. CASE Dynamic
    <3>1. next < n
      BY <2>1 DEF TakeChunk, InLoop
    <3> QED BY <1>1, <2>1, <3>1 DEF LastOfChunk, Parameters
  <2>2. CASE ~ Dynamic
    <3>1. next * next <= n
      BY <1>1, <2>2, SquaresFit DEF TakeChunk, InLoop
    <3>2. next * next >= 2 * next
      BY <1>1
    <3> QED BY <1>1, <2>2, <3>1, <3>2 DEF LastOfChunk
  <2> QED BY <2>1, <2>2
<1>3. /\ pc' = [pc EXCEPT ![t] = "test"] /\ j' = [j EXCEPT ![t] = next]
      /\ last' = [last EXCEPT ![t] = LastOfChunk] /\ next' = LastOfChunk + 1
      /\ UNCHANGED <<n, is_prime, multiple, wild>>
  BY DEF TakeChunk
<1>4. TakenOK'
  BY <1>1, <1>2, <1>3 DEF SieveInv, TakenOK
<1>5. StrikesMultiples'
  BY <1>1, <1>3 DEF SieveInv, StrikesMultiples
<1>6. StruckComposite'
  BY <1>3 DEF SieveInv, StruckComposite, Composite
<1> QED BY <1>4, <1>5, <1>6 DEF SieveInv

\* The next number of the chunk, or the end of it.
LEMMA AdvanceSieve ==
  ASSUME SieveInv, NEW t \in Thread, Advance(t), pc[t] # "take",
         UNCHANGED <<n, is_prime, next, last, multiple, wild>>
  PROVE  SieveInv'
<1>1. /\ pc \in [Thread -> {"take", "test", "strike"}]
      /\ j \in [Thread -> Int] /\ last \in [Thread -> Int]
      /\ 2 <= j[t] /\ j[t] <= last[t] /\ last[t] < next
  BY DEF SieveInv, TakenOK
<1>2. TakenOK'
  BY <1>1 DEF SieveInv, TakenOK, Advance
<1>3. StrikesMultiples'
  BY <1>1 DEF SieveInv, StrikesMultiples, Advance
<1>4. StruckComposite'
  BY DEF SieveInv, StruckComposite, Composite
<1> QED BY <1>2, <1>3, <1>4 DEF SieveInv

LEMMA TestSieve ==
  ASSUME Parameters, Fits, SieveInv, NEW t \in Thread, Test(t)
  PROVE  SieveInv'
<1>1. /\ n \in Nat \ {0, 1} /\ next \in 2 .. n
      /\ pc \in [Thread -> {"take", "test", "strike"}]
      /\ j \in [Thread -> Int] /\ multiple \in [Thread -> Int]
      /\ pc[t] = "test"
      /\ 2 <= j[t] /\ j[t] <= last[t] /\ last[t] < next /\ last[t] \in Int
  BY DEF SieveInv, TakenOK, Test
<1>2. CASE Sieves(j[t]) /\ is_prime[j[t]]
  <2>1. j[t] \in 2 .. n
    BY <1>1
  <2>2. Wrap(j[t] * j[t]) = j[t] * j[t]
    BY <1>1, <2>1, SquaresFit
  <2>3. /\ pc' = [pc EXCEPT ![t] = "strike"]
        /\ multiple' = [multiple EXCEPT ![t] = j[t] * j[t]]
        /\ UNCHANGED <<n, is_prime, next, j, last, wild>>
    BY <1>2, <2>2 DEF Test, FirstMultiple
  <2>4. j[t] * j[t] \in Int /\ Multiple(j[t] * j[t], j[t])
    BY <2>1 DEF Multiple
  <2>5. TakenOK'
    BY <1>1, <2>3, <2>4 DEF SieveInv, TakenOK
  <2>6. StrikesMultiples'
    BY <1>1, <2>3, <2>4 DEF SieveInv, StrikesMultiples
  <2>7. StruckComposite'
    BY <2>3 DEF SieveInv, StruckComposite, Composite
  <2> QED BY <2>5, <2>6, <2>7 DEF SieveInv
<1>3. CASE ~ (Sieves(j[t]) /\ is_prime[j[t]])
  BY <1>1, <1>3, AdvanceSieve DEF Test
<1> QED BY <1>2, <1>3

LEMMA StrikeSieve ==
  ASSUME Parameters, Fits, SieveInv, NEW t \in Thread, Strike(t)
  PROVE  SieveInv'
<1>1. /\ n \in Nat \ {0, 1} /\ next \in 2 .. n
      /\ multiple \in [Thread -> Int] /\ multiple[t] \in Int /\ multiple[t] <= n
      /\ pc[t] = "strike"
      /\ 2 <= j[t] /\ j[t] <= n /\ j[t] \in Int
  BY DEF SieveInv, TakenOK, Strike
<1>2. Multiple(multiple[t], j[t])
  BY <1>1 DEF SieveInv, StrikesMultiples
<1>3. multiple[t] \in 2 .. n
  BY <1>1, <1>2, MultiplePositive
<1>4. Composite(multiple[t])
  BY <1>1, <1>2, <1>3, MultipleComposite
<1>5. Wrap(multiple[t] + j[t]) = multiple[t] + j[t]
  BY <1>1, <1>3, SquaresFit
<1>6. Multiple(multiple[t] + j[t], j[t])
  BY <1>1, <1>2, MultipleNext
<1>7. /\ wild' = "no"
      /\ is_prime' = [i \in 0 .. n |-> is_prime[i] /\ i # multiple[t]]
      /\ multiple' = [multiple EXCEPT ![t] = multiple[t] + j[t]]
      /\ UNCHANGED <<n, next, pc, j, last>>
  <2>1. wild' = "no"
    <3>1. ~ (multiple[t] < 0)
      BY <1>3
    <3>2. wild' \in {wild} /\ wild = "no"
      BY <3>1 DEF Strike, SieveInv, StruckComposite
    <3> QED BY <3>2
  <2> QED BY <1>5, <2>1 DEF Strike
<1>8. TakenOK'
  BY <1>1, <1>7 DEF SieveInv, TakenOK
<1>9. StrikesMultiples'
  BY <1>1, <1>6, <1>7 DEF SieveInv, StrikesMultiples
<1>10. StruckComposite'
  <2>1. is_prime' \in [0 .. n -> BOOLEAN]
    BY <1>7
  <2>2. ASSUME NEW i \in 2 .. n PROVE is_prime'[i] \/ Composite(i)
    BY <1>1, <1>4, <1>7 DEF SieveInv, StruckComposite
  <2> QED BY <1>7, <2>1, <2>2 DEF StruckComposite, Composite
<1> QED BY <1>8, <1>9, <1>10 DEF SieveInv

LEMMA StruckSieve ==
  ASSUME SieveInv, NEW t \in Thread, Struck(t)
  PROVE  SieveInv'
  BY AdvanceSieve DEF Struck

LEMMA StepSieve ==
  ASSUME Parameters, Fits => SieveInv, [Step \/ Over]_vars
  PROVE  Fits' => SieveInv'
<1>1. SUFFICES ASSUME Fits' PROVE SieveInv'
  OBVIOUS
<1>2. n' = n
  BY DEF Step, Over, TakeChunk, Test, Strike, Struck, vars
<1>3. Fits /\ SieveInv
  BY <1>1, <1>2 DEF Fits
<1>4. ASSUME NEW t \in Thread, TakeChunk(t) PROVE SieveInv'
  BY <1>3, <1>4, TakeChunkSieve
<1>5. ASSUME NEW t \in Thread, Test(t) PROVE SieveInv'
  BY <1>3, <1>5, TestSieve
<1>6. ASSUME NEW t \in Thread, Strike(t) PROVE SieveInv'
  BY <1>3, <1>6, StrikeSieve
<1>7. ASSUME NEW t \in Thread, Struck(t) PROVE SieveInv'
  BY <1>3, <1>7, StruckSieve
<1>8. CASE UNCHANGED vars
  BY <1>3, <1>8 DEF vars, SieveInv, TakenOK, StrikesMultiples, StruckComposite, Composite,
     Multiple
<1> QED BY <1>4, <1>5, <1>6, <1>7, <1>8 DEF Step, Over

LEMMA SieveSpares ==
  ASSUME Fits => SieveInv
  PROVE  NoPrimeStruck
  BY DEF SieveInv, StruckComposite, NoPrimeStruck

(***************************************************************************)
(* No prime is struck and nothing outside the array is written.            *)
(***************************************************************************)
THEOREM PrimesSurvive ==
  ASSUME Parameters
  PROVE  Spec => []NoPrimeStruck
<1> DEFINE Inv == Fits => SieveInv
<1>1. Init => Inv
  BY InitSieve
<1>2. Inv /\ [Step \/ Over]_vars => Inv'
  BY StepSieve
<1>3. Inv => NoPrimeStruck
  BY SieveSpares
<1> QED BY <1>1, <1>2, <1>3, PTL DEF Spec

-----------------------------------------------------------------------------
(* The types, if the numbers of the loops fit or the chunks are dynamic:   *)
(* then the end of the loop is not found by a product.                     *)

Types ==
  /\ TakenOK
  /\ is_prime \in [0 .. n -> BOOLEAN]
  /\ wild \in {"no", "yes", "fatal"}

\* Whatever an int keeps is a number.
Words == (Dynamic \/ Fits) /\ \A x \in Int : Wrap(x) \in Int

LEMMA InitTypes ==
  ASSUME Parameters, Init
  PROVE  Types
  BY InitSieve DEF SieveInv, StruckComposite, Types

LEMMA ChunkBounds ==
  ASSUME Parameters, Words, Types, InLoop(next)
  PROVE  next <= LastOfChunk /\ LastOfChunk + 1 <= n /\ LastOfChunk \in Int
<1>1. n \in Nat \ {0, 1} /\ next \in 2 .. n
  BY DEF Types, TakenOK
<1>2. CASE Dynamic
  <2>1. next < n
    BY <1>2 DEF InLoop
  <2> QED BY <1>1, <1>2, <2>1 DEF LastOfChunk, Parameters
<1>3. CASE ~ Dynamic
  <2>1. next * next <= n
    BY <1>1, <1>3, SquaresFit DEF InLoop, Words
  <2>2. next * next >= 2 * next
    BY <1>1
  <2> QED BY <1>1, <1>3, <2>1, <2>2 DEF LastOfChunk
<1> QED BY <1>2, <1>3

LEMMA AdvanceTypes ==
  ASSUME Types, NEW t \in Thread, Advance(t), pc[t] # "take",
         UNCHANGED <<n, is_prime, next, last, multiple, wild>>
  PROVE  Types'
<1>1. /\ pc \in [Thread -> {"take", "test", "strike"}]
      /\ j \in [Thread -> Int] /\ last \in [Thread -> Int]
      /\ 2 <= j[t] /\ j[t] <= last[t] /\ last[t] < next
  BY DEF Types, TakenOK
<1> QED BY <1>1 DEF Types, TakenOK, Advance

LEMMA StepTypes ==
  ASSUME Parameters, Words, Types, [Step \/ Over]_vars
  PROVE  Types'
<1>1. /\ n \in Nat \ {0, 1} /\ next \in 2 .. n
      /\ pc \in [Thread -> {"take", "test", "strike"}]
      /\ j \in [Thread -> Int] /\ last \in [Thread -> Int] /\ multiple \in [Thread -> Int]
  BY DEF Types, TakenOK
<1>2. ASSUME NEW t \in Thread, TakeChunk(t) PROVE Types'
  <2>1. next <= LastOfChunk /\ LastOfChunk + 1 <= n /\ LastOfChunk \in Int
    BY <1>2, ChunkBounds DEF TakeChunk
  <2> QED BY <1>1, <1>2, <2>1 DEF TakeChunk, Types, TakenOK
<1>3. ASSUME NEW t \in Thread, Test(t) PROVE Types'
  <2>1. CASE Sieves(j[t]) /\ is_prime[j[t]]
    <3>1. Wrap(FirstMultiple(j[t])) \in Int
      <4>1. j[t] * j[t] \in Int
        BY <1>1
      <4> QED BY <4>1 DEF Words, FirstMultiple
    <3> QED BY <1>1, <1>3, <2>1, <3>1 DEF Test, Types, TakenOK
  <2>2. CASE ~ (Sieves(j[t]) /\ is_prime[j[t]])
    BY <1>3, <2>2, AdvanceTypes DEF Test
  <2> QED BY <2>1, <2>2
<1>4. ASSUME NEW t \in Thread, Strike(t) PROVE Types'
  <2>1. Wrap(multiple[t] + j[t]) \in Int
    <3>1. multiple[t] + j[t] \in Int
      BY <1>1
    <3> QED BY <3>1 DEF Words
  <2>2. is_prime' \in [0 .. n -> BOOLEAN]
    BY <1>4 DEF Strike
  <2> QED BY <1>1, <1>4, <2>1, <2>2 DEF Strike, Types, TakenOK
<1>5. ASSUME NEW t \in Thread, Struck(t) PROVE Types'
  BY <1>5, AdvanceTypes DEF Struck
<1>6. CASE UNCHANGED vars
  BY <1>6 DEF vars, Types, TakenOK
<1> QED BY <1>2, <1>3, <1>4, <1>5, <1>6 DEF Step, Over

LEMMA TypesOK ==
  ASSUME Types
  PROVE  TypeOK
  BY DEF Types, TakenOK, TypeOK

-----------------------------------------------------------------------------
(* Divisors.                                                               *)

\* Every set of natural numbers has a least one.
LEMMA LeastNumber ==
  ASSUME NEW T, T \subseteq Nat, T # {}
  PROVE  \E x \in T : \A y \in T : x <= y
<1> DEFINE Less == {p \in Nat \X Nat : p[1] < p[2]}
<1>1. IsWellFoundedOn(Less, Nat)
  BY NatLessThanWellFounded DEF OpToRel
<1>2. PICK x \in T : \A y \in T : ~ (<<y, x>> \in Less)
  BY <1>1, WFMin
<1>3. \A y \in T : ~ (y < x)
  BY <1>2
<1>4. QED
  BY <1>3

LEMMA ProductGrows ==
  ASSUME NEW x \in Nat, NEW y \in Nat, 2 <= x, 2 <= y
  PROVE  x * y \in Nat /\ x < x * y /\ y < x * y
<1>1. x * y >= 2 * y /\ x * y >= x * 2
  OBVIOUS
<1>2. QED
  BY <1>1

\* A composite has a prime divisor that is at most its square root.
LEMMA LeastDivisor ==
  ASSUME NEW i \in Nat, 2 <= i, Composite(i)
  PROVE  \E d, b \in 2 .. i : i = b * d /\ d <= b /\ ~ Composite(d)
<1> DEFINE D == {d \in 2 .. i : \E b \in 2 .. i : i = b * d}
<1>1. D \subseteq Nat /\ D # {}
  <2>1. PICK a, b \in 2 .. i : i = a * b
    BY DEF Composite
  <2>2. b \in D
    BY <2>1
  <2>3. D \subseteq Nat
    OBVIOUS
  <2>4. QED
    <3> HIDE DEF D
    <3> QED BY <2>2, <2>3
<1>2. PICK d \in D : \A y \in D : d <= y
  <2> HIDE DEF D
  <2> QED BY <1>1, LeastNumber
<1>3. PICK b \in 2 .. i : i = b * d
  BY <1>2
<1>4. d \in 2 .. i
  BY <1>2
<1>5. b * d = d * b
  BY <1>4
<1>6. b \in D
  BY <1>3, <1>4, <1>5
<1>7. d <= b
  BY <1>2, <1>6
<1>8. ASSUME Composite(d) PROVE FALSE
  <2>1. PICK x, y \in 2 .. d : d = x * y
    BY <1>8 DEF Composite
  <2>2. x < d
    BY <2>1, <1>4, ProductGrows
  <2>3. b * (x * y) = (b * y) * x
    BY <1>3, <1>4, <2>1
  <2>4. i = (b * y) * x /\ b * y \in Nat
    BY <1>3, <1>4, <2>1, <2>3
  <2>5. b * y >= 2
    BY <1>3, <2>1, <1>4, ProductGrows
  <2>6. b * y <= i
    BY <2>4, <2>5, <2>1, <1>4, ProductGrows
  <2>7. x \in D
    BY <1>4, <2>1, <2>2, <2>4, <2>5, <2>6
  <2>8. QED
    BY <1>2, <1>4, <2>1, <2>2, <2>7
<1>9. QED
  BY <1>3, <1>4, <1>7, <1>8

Divides(k, i) == \E d \in Nat : i = d * k

\* A prime that divides a product divides the second factor, if the first is
\* smaller than the prime: the least x >= 1 of which p divides x * b is 1.
LEMMA PrimeDivides ==
  ASSUME NEW p \in Nat, 2 <= p, ~ Composite(p),
         NEW a \in Nat, 1 <= a, a < p, NEW b \in Nat, Divides(p, a * b)
  PROVE  Divides(p, b)
<1>0. PICK c \in Nat : a * b = c * p
  BY DEF Divides
<1> DEFINE S == {x \in Nat : x >= 1 /\ \E y \in Nat : x * b = y * p}
<1>1. a \in S /\ S \subseteq Nat
  BY <1>0
<1>2. PICK m \in S : \A y \in S : m <= y
  <2> HIDE DEF S
  <2> QED BY <1>1, LeastNumber
<1>3. /\ m \in Nat /\ 1 <= m /\ m < p
  BY <1>1, <1>2
<1>4. PICK y \in Nat : m * b = y * p
  BY <1>2
<1>5. PICK q \in Nat, r \in Nat : p = q * m + r /\ r < m
  <2>1. p = m * (p \div m) + (p % m) /\ p \div m \in Int /\ p % m \in 0 .. m - 1
    BY <1>3
  <2>2. p \div m \in Nat
    BY <1>3
  <2>3. m * (p \div m) = (p \div m) * m
    BY <1>3, <2>2
  <2> DEFINE q == p \div m
             r == p % m
  <2>4. q \in Nat /\ r \in Nat /\ p = q * m + r /\ r < m
    BY <1>3, <2>1, <2>2, <2>3
  <2> HIDE DEF q, r
  <2>5. QED
    BY <2>4
<1>6. r * b = (b - q * y) * p
  <2>1. p * b = (q * m) * b + r * b
    BY <1>5, <1>3
  <2>2. (q * m) * b = q * (m * b)
    BY <1>5, <1>3
  <2>3. q * (m * b) = q * (y * p) /\ q * (y * p) = (q * y) * p
    BY <1>4, <1>5
  <2>4. (b - q * y) * p = b * p - (q * y) * p
    BY <1>4, <1>5
  <2>5. p * b = b * p
    OBVIOUS
  <2>6. b * p \in Int /\ (q * y) * p \in Int /\ r * b \in Int
    BY <1>4, <1>5
  <2>7. QED
    BY <2>1, <2>2, <2>3, <2>4, <2>5, <2>6
<1>7. r = 0
  <2>1. SUFFICES ASSUME r >= 1 PROVE FALSE
    BY <1>5
  <2> DEFINE e == b - q * y
  <2>2. e \in Int /\ r * b >= 0 /\ r * b = e * p
    BY <1>4, <1>5, <1>6
  <2>3. e >= 0
    <3> HIDE DEF e
    <3>1. SUFFICES ASSUME e <= -1 PROVE FALSE
      BY <2>2
    <3>2. e * p <= (-1) * p
      BY <2>2, <3>1
    <3>3. QED
      BY <2>2, <3>2
  <2>4. r \in S
    BY <1>5, <2>1, <2>2, <2>3
  <2>5. QED
    BY <1>2, <1>3, <1>5, <2>4
<1>8. p = q * m
  BY <1>3, <1>5, <1>7
<1>9. m = 1
  <2>1. SUFFICES ASSUME 2 <= m PROVE FALSE
    BY <1>3
  <2>2. q >= 2
    <3>1. q # 0 /\ q # 1
      BY <1>3, <1>8
    <3>2. QED
      BY <1>5, <3>1
  <2>3. q \in 2 .. p /\ m \in 2 .. p
    BY <1>3, <1>5, <1>8, <2>1, <2>2, ProductGrows
  <2>4. QED
    BY <1>8, <2>3 DEF Composite
<1>10. QED
  BY <1>4, <1>9 DEF Divides

\* The square of a prime is no multiple of a smaller number.
LEMMA SquareOfPrime ==
  ASSUME NEW p \in Nat, 2 <= p, ~ Composite(p),
         NEW k \in Nat, 2 <= k, k < p, NEW a \in Nat, p * p = a * k
  PROVE  FALSE
<1>1. 1 <= k /\ Divides(p, k * a)
  <2>1. k * a = p * p
    OBVIOUS
  <2>2. QED
    BY <2>1 DEF Divides
<1>2. PICK d \in Nat : a = d * p
  <2>1. Divides(p, a)
    BY <1>1, PrimeDivides
  <2>2. QED
    BY <2>1 DEF Divides
<1>3. p * p = (d * k) * p
  <2>1. (d * p) * k = (d * k) * p
    BY <1>2
  <2>2. QED
    BY <1>2, <2>1
<1>4. p = d * k
  BY <1>2, <1>3
<1>5. d >= 2
  <2>1. d # 0 /\ d # 1
    BY <1>4
  <2>2. QED
    BY <1>2, <2>1
<1>6. d \in 2 .. p /\ k \in 2 .. p
  BY <1>2, <1>4, <1>5, ProductGrows
<1>7. QED
  BY <1>4, <1>6 DEF Composite

-----------------------------------------------------------------------------
(* The inductive invariant.                                                *)

\* A multiple of k from its square on.
From(i, k) == \E b \in Nat : k <= b /\ i = b * k

\* The multiples of k below m are struck.
StruckBelow(k, m) == \A i \in 2 .. n : From(i, k) /\ i < m => ~ is_prime[i]

\* Some thread still has k before it.
Pending(k) == \E t \in Thread : pc[t] # "take" /\ j[t] <= k /\ k <= last[t]

Finished(k) == Sieves(k) => ~ is_prime[k] \/ StruckBelow(k, n + 1)

AllFinished == \A k \in 2 .. next - 1 : Pending(k) \/ Finished(k)

Striking ==
  \A t \in Thread : pc[t] = "strike" =>
    Sieves(j[t]) /\ From(multiple[t], j[t]) /\ StruckBelow(j[t], multiple[t])

\* Only the multiples of a number the program sieves are struck.
StruckReason ==
  \A i \in 2 .. n : ~ is_prime[i] => \E k \in 2 .. n : Sieves(k) /\ From(i, k)

ResultInv == SieveInv /\ AllFinished /\ Striking /\ StruckReason

LEMMA FromNext ==
  ASSUME NEW k \in Nat, 2 <= k, NEW m \in Int, From(m, k)
  PROVE  /\ From(m + k, k)
         /\ \A i \in Int : From(i, k) /\ i < m + k => i < m \/ i = m
<1>1. PICK c \in Nat : k <= c /\ m = c * k
  BY DEF From
<1>2. m + k = (c + 1) * k
  BY <1>1
<1>3. From(m + k, k)
  BY <1>1, <1>2 DEF From
<1>4. ASSUME NEW i \in Int, From(i, k), i < m + k
      PROVE  i < m \/ i = m
  <2>1. PICK b \in Nat : i = b * k
    BY <1>4 DEF From
  <2>2. CASE b <= c
    <3>1. b * k <= c * k
      BY <1>1, <2>2
    <3>2. QED
      BY <1>1, <2>1, <3>1
  <2>3. CASE c + 1 <= b
    <3>1. (c + 1) * k <= b * k
      BY <1>1, <2>3
    <3>2. QED
      BY <1>2, <1>4, <2>1, <3>1
  <2>4. QED
    BY <1>1, <2>1, <2>2, <2>3
<1>5. QED
  BY <1>3, <1>4

\* A step that strikes nothing leaves what is finished finished.
LEMMA FinishedKept ==
  ASSUME UNCHANGED <<n, is_prime>>, NEW k
  PROVE  /\ Finished(k)' <=> Finished(k)
         /\ \A m : StruckBelow(k, m)' <=> StruckBelow(k, m)
         /\ Sieves(k)' <=> Sieves(k)
  BY DEF Finished, StruckBelow, Sieves

LEMMA ReasonKept ==
  ASSUME UNCHANGED <<n, is_prime>>, StruckReason
  PROVE  StruckReason'
  BY DEF StruckReason, Sieves

LEMMA InitResult ==
  ASSUME Parameters, Init
  PROVE  ResultInv
<1>1. SieveInv
  BY InitSieve
<1>2. AllFinished /\ Striking
  BY DEF Init, AllFinished, Striking
<1>3. StruckReason
  <2>1. ASSUME NEW i \in 2 .. n PROVE is_prime[i]
    <3>1. n \in Nat /\ i \in 0 .. n /\ i >= 2
      BY DEF Parameters, Init
    <3>2. QED
      BY <3>1 DEF Init
  <2>2. QED
    BY <2>1 DEF StruckReason
<1>4. QED
  BY <1>1, <1>2, <1>3 DEF ResultInv

LEMMA TakeChunkResult ==
  ASSUME Parameters, Fits, ResultInv, NEW t \in Thread, TakeChunk(t)
  PROVE  ResultInv'
<1>1. SieveInv'
  BY TakeChunkSieve DEF ResultInv
<1>2. /\ n \in Nat /\ next \in Int /\ next' \in Int
      /\ pc \in [Thread -> {"take", "test", "strike"}]
      /\ j \in [Thread -> Int] /\ last \in [Thread -> Int]
  BY <1>1 DEF ResultInv, SieveInv, TakenOK
<1>3. /\ pc[t] = "take" /\ pc' = [pc EXCEPT ![t] = "test"] /\ j' = [j EXCEPT ![t] = next]
      /\ last' = [last EXCEPT ![t] = LastOfChunk] /\ next' = LastOfChunk + 1
      /\ UNCHANGED <<n, is_prime, multiple, wild>>
  BY DEF TakeChunk
<1>4. LastOfChunk = next' - 1
  <2>1. LastOfChunk \in Int
    BY <1>2 DEF LastOfChunk, Parameters
  <2>2. QED
    BY <1>3, <2>1
<1>5. AllFinished'
  <2>1. SUFFICES ASSUME NEW k \in 2 .. next' - 1 PROVE Pending(k)' \/ Finished(k)'
    BY DEF AllFinished
  <2>2. CASE k < next
    <3>1. Pending(k) \/ Finished(k)
      BY <1>2, <2>1, <2>2 DEF ResultInv, AllFinished
    <3>2. CASE Pending(k)
      BY <1>2, <1>3, <3>2 DEF Pending
    <3>3. QED
      BY <1>3, <3>1, <3>2, FinishedKept
  <2>3. CASE next <= k
    BY <1>2, <1>3, <1>4, <2>1, <2>3 DEF Pending
  <2>4. QED
    BY <1>2, <2>1, <2>2, <2>3
<1>6. Striking'
  BY <1>2, <1>3, FinishedKept DEF ResultInv, Striking
<1>7. StruckReason'
  BY <1>3, ReasonKept DEF ResultInv
<1>8. QED
  BY <1>1, <1>5, <1>6, <1>7 DEF ResultInv

\* A thread leaves a number when it is finished.
LEMMA AdvanceResult ==
  ASSUME ResultInv, NEW t \in Thread, Advance(t), pc[t] # "take", Finished(j[t]),
         UNCHANGED <<n, is_prime, next, last, multiple, wild>>
  PROVE  ResultInv'
<1>1. SieveInv'
  BY AdvanceSieve DEF ResultInv
<1>2. /\ next \in Int
      /\ pc \in [Thread -> {"take", "test", "strike"}]
      /\ j \in [Thread -> Int] /\ last \in [Thread -> Int]
  BY DEF ResultInv, SieveInv, TakenOK
<1>3. AllFinished'
  <2>1. SUFFICES ASSUME NEW k \in 2 .. next - 1 PROVE Pending(k)' \/ Finished(k)'
    BY DEF AllFinished
  <2>2. Pending(k) \/ Finished(k)
    BY <2>1 DEF ResultInv, AllFinished
  <2>3. CASE Pending(k) /\ k # j[t]
    <3>1. PICK u \in Thread : pc[u] # "take" /\ j[u] <= k /\ k <= last[u]
      BY <2>3 DEF Pending
    <3>2. CASE u # t
      <4>1. pc'[u] = pc[u] /\ j'[u] = j[u] /\ last'[u] = last[u]
        BY <1>2, <3>2 DEF Advance
      <4>2. QED
        BY <3>1, <4>1 DEF Pending
    <3>3. CASE u = t
      <4>1. j[t] < last[t] /\ j[t] + 1 <= k /\ k <= last[t]
        BY <1>2, <2>1, <2>3, <3>1, <3>3
      <4>2. pc'[t] = "test" /\ j'[t] = j[t] + 1 /\ last'[t] = last[t]
        BY <1>2, <4>1 DEF Advance
      <4>3. QED
        BY <4>1, <4>2 DEF Pending
    <3>4. QED
      BY <3>2, <3>3
  <2>4. CASE Finished(k)
    BY <2>4, FinishedKept
  <2>5. QED
    BY <2>2, <2>3, <2>4
<1>4. Striking'
  <2>1. SUFFICES ASSUME NEW u \in Thread, pc'[u] = "strike"
        PROVE  Sieves(j[u])' /\ From(multiple[u], j[u])' /\ StruckBelow(j[u], multiple[u])'
    BY DEF Striking
  <2>2. u # t /\ pc[u] = "strike" /\ j'[u] = j[u] /\ multiple'[u] = multiple[u]
    BY <1>2, <2>1 DEF Advance
  <2>3. Sieves(j[u]) /\ From(multiple[u], j[u]) /\ StruckBelow(j[u], multiple[u])
    BY <2>2 DEF ResultInv, Striking
  <2>4. QED
    BY <2>2, <2>3 DEF Sieves, From, StruckBelow
<1>5. StruckReason'
  BY ReasonKept DEF ResultInv
<1>6. QED
  BY <1>1, <1>3, <1>4, <1>5 DEF ResultInv

LEMMA TestResult ==
  ASSUME Parameters, Fits, ResultInv, NEW t \in Thread, Test(t)
  PROVE  ResultInv'
<1>1. SieveInv'
  BY TestSieve DEF ResultInv
<1>2. /\ n \in Nat \ {0, 1} /\ next \in 2 .. n
      /\ pc \in [Thread -> {"take", "test", "strike"}]
      /\ j \in [Thread -> Int] /\ multiple \in [Thread -> Int]
      /\ pc[t] = "test"
      /\ 2 <= j[t] /\ j[t] <= last[t] /\ last[t] < next /\ last[t] \in Int
  BY DEF ResultInv, SieveInv, TakenOK, Test
<1>3. CASE Sieves(j[t]) /\ is_prime[j[t]]
  <2>1. j[t] \in 2 .. n
    BY <1>2
  <2>2. Wrap(j[t] * j[t]) = j[t] * j[t]
    BY <1>2, <2>1, SquaresFit
  <2>3. /\ pc' = [pc EXCEPT ![t] = "strike"]
        /\ multiple' = [multiple EXCEPT ![t] = j[t] * j[t]]
        /\ UNCHANGED <<n, is_prime, next, j, last, wild>>
    BY <1>3, <2>2 DEF Test, FirstMultiple
  <2>4. From(j[t] * j[t], j[t])
    BY <2>1 DEF From
  <2>5. ASSUME NEW i \in 2 .. n, From(i, j[t])
        PROVE  ~ (i < j[t] * j[t])
    <3>1. PICK b \in Nat : j[t] <= b /\ i = b * j[t]
      BY <2>5 DEF From
    <3>2. b * j[t] >= j[t] * j[t]
      BY <2>1, <3>1
    <3>3. QED
      BY <2>1, <3>1, <3>2
  <2>6. AllFinished'
    <3>1. \A k : Pending(k) => Pending(k)'
      BY <1>2, <2>3 DEF Pending
    <3>2. QED
      BY <2>3, <3>1, FinishedKept DEF ResultInv, AllFinished
  <2>7. Striking'
    <3>1. SUFFICES ASSUME NEW u \in Thread, pc'[u] = "strike"
          PROVE  Sieves(j[u])' /\ From(multiple[u], j[u])' /\ StruckBelow(j[u], multiple[u])'
      BY DEF Striking
    <3>2. CASE u = t
      <4>1. j'[t] = j[t] /\ multiple'[t] = j[t] * j[t]
        BY <1>2, <2>3
      <4>2. QED
        BY <1>3, <2>3, <2>4, <2>5, <3>2, <4>1 DEF Sieves, From, StruckBelow
    <3>3. CASE u # t
      <4>1. pc[u] = "strike" /\ multiple'[u] = multiple[u] /\ j'[u] = j[u]
        BY <1>2, <2>3, <3>1, <3>3
      <4>2. Sieves(j[u]) /\ From(multiple[u], j[u]) /\ StruckBelow(j[u], multiple[u])
        BY <4>1 DEF ResultInv, Striking
      <4>3. QED
        BY <2>3, <4>1, <4>2 DEF Sieves, From, StruckBelow
    <3>4. QED
      BY <3>2, <3>3
  <2>8. QED
    BY <1>1, <2>3, <2>6, <2>7, ReasonKept DEF ResultInv
<1>4. CASE ~ (Sieves(j[t]) /\ is_prime[j[t]])
  BY <1>2, <1>4, AdvanceResult DEF Test, Finished
<1>5. QED
  BY <1>3, <1>4

LEMMA StrikeResult ==
  ASSUME Parameters, Fits, ResultInv, NEW t \in Thread, Strike(t)
  PROVE  ResultInv'
<1>1. SieveInv'
  BY StrikeSieve DEF ResultInv
<1> DEFINE k == j[t]
           m == multiple[t]
<1>2. /\ n \in Nat \ {0, 1} /\ next \in 2 .. n
      /\ pc \in [Thread -> {"take", "test", "strike"}]
      /\ j \in [Thread -> Int] /\ multiple \in [Thread -> Int] /\ last \in [Thread -> Int]
      /\ pc[t] = "strike" /\ m <= n /\ m \in Int /\ k \in 2 .. n
  BY DEF ResultInv, SieveInv, TakenOK, Strike
<1>3. /\ Multiple(m, k) /\ Sieves(k) /\ From(m, k) /\ StruckBelow(k, m)
  BY <1>2 DEF ResultInv, SieveInv, StrikesMultiples, Striking
<1>4. m \in 2 .. n
  BY <1>2, <1>3, MultiplePositive
<1>5. Wrap(m + k) = m + k
  BY <1>2, <1>4, SquaresFit
<1>6. /\ is_prime' = [i \in 0 .. n |-> is_prime[i] /\ i # m]
      /\ multiple' = [multiple EXCEPT ![t] = m + k]
      /\ UNCHANGED <<n, next, pc, j, last>>
  BY <1>5 DEF Strike
<1>7. \A i \in 2 .. n : is_prime'[i] = (is_prime[i] /\ i # m)
  BY <1>2, <1>6
<1>8. /\ From(m + k, k)
      /\ \A i \in Int : From(i, k) /\ i < m + k => i < m \/ i = m
  BY <1>2, <1>3, FromNext
<1>9. \A x, y : StruckBelow(x, y) => StruckBelow(x, y)'
  BY <1>6, <1>7 DEF StruckBelow, From
<1>10. AllFinished'
  <2>1. SUFFICES ASSUME NEW x \in 2 .. next - 1 PROVE Pending(x)' \/ Finished(x)'
    BY <1>6 DEF AllFinished
  <2>2. Pending(x) \/ Finished(x)
    BY <2>1 DEF ResultInv, AllFinished
  <2>3. Pending(x) => Pending(x)'
    BY <1>6 DEF Pending
  <2>4. x \in 2 .. n
    BY <1>2, <2>1
  <2>5. ~ is_prime[x] => ~ is_prime'[x]
    BY <1>7, <2>4
  <2>6. Sieves(x)' <=> Sieves(x)
    BY <1>6 DEF Sieves
  <2>7. Finished(x) => Finished(x)'
    BY <1>6, <1>9, <2>5, <2>6 DEF Finished
  <2>8. QED
    BY <2>2, <2>3, <2>7
<1>11. Striking'
  <2>1. SUFFICES ASSUME NEW u \in Thread, pc[u] = "strike"
        PROVE  Sieves(j[u])' /\ From(multiple[u], j[u])' /\ StruckBelow(j[u], multiple[u])'
    BY <1>6 DEF Striking
  <2>2. CASE u = t
    <3>1. multiple'[u] = m + k /\ j'[u] = k
      BY <1>2, <1>6, <2>2
    <3>2. \A i \in 2 .. n : From(i, k) /\ i < m + k => ~ is_prime'[i]
      <4>1. SUFFICES ASSUME NEW i \in 2 .. n, From(i, k), i < m + k
            PROVE  ~ is_prime'[i]
        OBVIOUS
      <4>2. i < m \/ i = m
        BY <1>8, <4>1
      <4>3. i < m => ~ is_prime[i]
        BY <1>3, <4>1 DEF StruckBelow
      <4>4. QED
        BY <1>7, <4>1, <4>2, <4>3
    <3>3. Sieves(j[u])'
      BY <1>3, <1>6, <3>1 DEF Sieves
    <3>4. QED
      BY <1>6, <1>8, <3>1, <3>2, <3>3 DEF From, StruckBelow
  <2>3. CASE u # t
    <3>1. multiple'[u] = multiple[u] /\ j'[u] = j[u]
      BY <1>2, <1>6, <2>3
    <3>2. Sieves(j[u]) /\ From(multiple[u], j[u]) /\ StruckBelow(j[u], multiple[u])
      BY <2>1 DEF ResultInv, Striking
    <3>3. StruckBelow(j[u], multiple[u])'
      BY <1>7, <1>6, <3>1, <3>2 DEF StruckBelow, From
    <3>4. QED
      BY <1>6, <3>1, <3>2, <3>3 DEF Sieves, From
  <2>4. QED
    BY <2>2, <2>3
<1>12. StruckReason'
  <2>1. ASSUME NEW i \in 2 .. n, ~ is_prime'[i]
        PROVE  \E x \in 2 .. n : Sieves(x) /\ From(i, x)
    <3>1. CASE i = m
      BY <1>2, <1>3, <3>1
    <3>2. CASE i # m
      BY <1>7, <2>1, <3>2 DEF ResultInv, StruckReason
    <3>3. QED
      BY <3>1, <3>2
  <2>2. QED
    BY <1>6, <2>1 DEF StruckReason, Sieves, From
<1>13. QED
  BY <1>1, <1>10, <1>11, <1>12 DEF ResultInv

LEMMA StruckResult ==
  ASSUME ResultInv, NEW t \in Thread, Struck(t)
  PROVE  ResultInv'
<1>1. n \in Nat /\ multiple[t] \in Int /\ multiple[t] > n /\ pc[t] = "strike"
  BY DEF ResultInv, SieveInv, TakenOK, Struck
<1>2. StruckBelow(j[t], multiple[t])
  BY <1>1 DEF ResultInv, Striking
<1>3. Finished(j[t])
  BY <1>1, <1>2 DEF Finished, StruckBelow
<1>4. QED
  BY <1>1, <1>3, AdvanceResult DEF Struck

-----------------------------------------------------------------------------
(* The result.                                                             *)

\* At the end every number a composite could be struck for is finished.
LEMMA AllTested ==
  ASSUME Fits, ResultInv, Printed, NEW k \in 2 .. n, k * k <= n
  PROVE  Finished(k)
<1>1. n \in Nat \ {0, 1} /\ next \in 2 .. n
  BY DEF ResultInv, SieveInv, TakenOK
<1>2. k < next
  <2>1. CASE Dynamic
    <3>1. k * k >= 2 * k
      OBVIOUS
    <3>2. next >= n
      BY <1>1, <2>1 DEF Printed, InLoop
    <3>3. QED
      BY <1>1, <3>1, <3>2
  <2>2. CASE ~ Dynamic
    <3>1. next * next > n
      BY <1>1, <2>2, SquaresFit DEF Printed, InLoop
    <3>2. SUFFICES ASSUME next <= k PROVE FALSE
      BY <1>1
    <3>3. next * next <= k * k
      BY <1>1, <3>2
    <3>4. QED
      BY <1>1, <3>1, <3>3
  <2>3. QED
    BY <2>1, <2>2
<1>3. ~ Pending(k)
  BY DEF Printed, Pending
<1>4. QED
  BY <1>1, <1>2, <1>3 DEF ResultInv, AllFinished

LEMMA CompositeStruck ==
  ASSUME Fits, ResultInv, Printed, NEW i \in 2 .. n, Composite(i), is_prime[i]
  PROVE  Dynamic /\ i = n /\ PrimeSquare(i)
<1>1. n \in Nat \ {0, 1} /\ i \in Nat /\ 2 <= i /\ i <= n
  BY DEF ResultInv, SieveInv, TakenOK
<1>2. PICK d \in 2 .. i, b \in 2 .. i : i = b * d /\ d <= b /\ ~ Composite(d)
  BY <1>1, LeastDivisor
<1>3. d * d <= b * d
  BY <1>2
<1>4. d \in 2 .. n /\ d * d <= n
  BY <1>1, <1>2, <1>3
<1>5. is_prime[d]
  BY <1>2, <1>4 DEF ResultInv, SieveInv, StruckComposite
<1>6. Sieves(d) => StruckBelow(d, n + 1)
  BY <1>4, <1>5, AllTested DEF Finished
<1>7. From(i, d)
  BY <1>2 DEF From
<1>8. ~ Sieves(d)
  BY <1>1, <1>6, <1>7 DEF StruckBelow
<1>9. Dynamic /\ d * d >= n
  BY <1>1, <1>4, <1>8, SquaresFit DEF Sieves
<1>10. d * d \in Int /\ b * d \in Int
  BY <1>2
<1>11. i = n /\ i = d * d
  BY <1>1, <1>2, <1>3, <1>9, <1>10
<1>12. QED
  BY <1>2, <1>9, <1>11 DEF PrimeSquare

LEMMA SquareLeft ==
  ASSUME Fits, ResultInv, Dynamic, PrimeSquare(n)
  PROVE  is_prime[n]
<1>1. n \in Nat \ {0, 1}
  BY DEF ResultInv, SieveInv, TakenOK
<1>2. PICK p \in 2 .. n : ~ Composite(p) /\ n = p * p
  BY DEF PrimeSquare
<1>3. SUFFICES ASSUME ~ is_prime[n] PROVE FALSE
  OBVIOUS
<1>4. PICK k \in 2 .. n : Sieves(k) /\ From(n, k)
  BY <1>1, <1>3 DEF ResultInv, StruckReason
<1>5. k * k < n
  BY <1>1, <1>4, SquaresFit DEF Sieves
<1>6. k < p
  <2>1. SUFFICES ASSUME p <= k PROVE FALSE
    BY <1>2, <1>4
  <2>2. p * p <= k * k
    BY <1>2, <1>4, <2>1
  <2>3. k * k \in Int /\ p * p \in Int
    BY <1>2, <1>4
  <2>4. QED
    BY <1>2, <1>5, <2>2, <2>3
<1>7. PICK a \in Nat : n = a * k
  BY <1>4 DEF From
<1>8. p * p = a * k
  BY <1>2, <1>7
<1>9. p \in Nat /\ 2 <= p /\ ~ Composite(p) /\ k \in Nat /\ 2 <= k
  BY <1>2, <1>4
<1>10. QED
  BY <1>6, <1>7, <1>8, <1>9, SquareOfPrime

LEMMA ResultRight ==
  ASSUME Fits, ResultInv
  PROVE  PrimesRight
<1>1. SUFFICES ASSUME Printed, ~ (Dynamic /\ PrimeSquare(n)), NEW i \in 2 .. n
      PROVE  is_prime[i] <=> ~ Composite(i)
  BY DEF PrimesRight, PrimesDocumented
<1>2. ASSUME is_prime[i], Composite(i) PROVE FALSE
  BY <1>1, <1>2, CompositeStruck
<1>3. ASSUME ~ Composite(i) PROVE is_prime[i]
  BY <1>3 DEF ResultInv, SieveInv, StruckComposite
<1> QED BY <1>2, <1>3

LEMMA StepResult ==
  ASSUME Parameters, Fits => ResultInv, [Step \/ Over]_vars
  PROVE  Fits' => ResultInv'
<1>1. SUFFICES ASSUME Fits' PROVE ResultInv'
  OBVIOUS
<1>2. n' = n
  BY DEF Step, Over, TakeChunk, Test, Strike, Struck, vars
<1>3. Fits /\ ResultInv
  BY <1>1, <1>2 DEF Fits
<1>4. ASSUME NEW t \in Thread, TakeChunk(t) PROVE ResultInv'
  BY <1>3, <1>4, TakeChunkResult
<1>5. ASSUME NEW t \in Thread, Test(t) PROVE ResultInv'
  BY <1>3, <1>5, TestResult
<1>6. ASSUME NEW t \in Thread, Strike(t) PROVE ResultInv'
  BY <1>3, <1>6, StrikeResult
<1>7. ASSUME NEW t \in Thread, Struck(t) PROVE ResultInv'
  BY <1>3, <1>7, StruckResult
<1>8. CASE UNCHANGED vars
  <2>1. SieveInv'
    BY <1>3, <1>8 DEF vars, ResultInv, SieveInv, TakenOK, StrikesMultiples,
       StruckComposite, Composite, Multiple
  <2>2. AllFinished' /\ Striking' /\ StruckReason'
    BY <1>3, <1>8 DEF vars, ResultInv, AllFinished, Striking, StruckReason, Pending,
       Finished, StruckBelow, From, Sieves
  <2> QED BY <2>1, <2>2 DEF ResultInv
<1> QED BY <1>4, <1>5, <1>6, <1>7, <1>8 DEF Step, Over

(***************************************************************************)
(* The sieve prints exactly the primes, whatever the interleaving of its   *)
(* threads, unless the condition is j * j < n and n the square of a prime. *)
(***************************************************************************)
THEOREM PrimesPrinted ==
  ASSUME Parameters
  PROVE  Spec => []PrimesRight
<1> DEFINE Inv == Fits => ResultInv
<1>1. Init => Inv
  BY InitResult
<1>2. Inv /\ [Step \/ Over]_vars => Inv'
  BY StepResult
<1>3. Inv => PrimesRight
  BY ResultRight DEF PrimesRight
<1> QED BY <1>1, <1>2, <1>3, PTL DEF Spec

(***************************************************************************)
(* Then n is never struck, in no interleaving: j * j < n leaves out the    *)
(* only number it is a multiple of (line 24), and n is printed.            *)
(***************************************************************************)
THEOREM SquareStays ==
  ASSUME Parameters
  PROVE  Spec => [](Fits /\ Dynamic /\ PrimeSquare(n) => is_prime[n])
<1> DEFINE Inv == Fits => ResultInv
<1>1. Init => Inv
  BY InitResult
<1>2. Inv /\ [Step \/ Over]_vars => Inv'
  BY StepResult
<1>3. Inv => (Fits /\ Dynamic /\ PrimeSquare(n) => is_prime[n])
  BY SquareLeft
<1> QED BY <1>1, <1>2, <1>3, PTL DEF Spec
=============================================================================
