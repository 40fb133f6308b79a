--------------------------- MODULE WorkVerification ---------------------------
(***************************************************************************)
(* The declarative workloads: how a job is split into shards, what a shard *)
(* computes, and how a result is judged, by a witness drawn after it was   *)
(* submitted or by recomputation. A shard's answer is kept in BUCKETS      *)
(* buckets, of which AUDIT_BUCKETS are redrawn; a matrix product is        *)
(* checked against a random vector.                                        *)
(*                                                                         *)
(* The hash behind a nonce is a choice: the residues its rounds leave, the *)
(* challenge vector, and whether an audit is drawn at all.                 *)
(***************************************************************************)
EXTENDS Integers, Sequences, FiniteSets, FiniteSetsExt, SequencesExt

CONSTANTS
  Works,          \* [kind, start, end]; for a matrix start..end are its rows
  ShardCounts,
  BUCKETS, AUDIT_BUCKETS,
  MODULUS, dim,   \* the field, and the size of the matrices
  SeedA, SeedB,   \* row -> column -> element
  MaxStreak

VARIABLES work, result, nonce, verdict, streak, phase
verifyVars == <<work, result, nonce, verdict, streak, phase>>

NoNonce == [picks |-> <<>>, vector |-> <<>>, luck |-> FALSE]
Buckets == 0..(BUCKETS - 1)

----------------------------------------------------------------------------
(* split_work: the first shards carry one more.                            *)
split_primes(start, end, shards) ==
  LET width == end - start
      actual == IF shards < width THEN shards ELSE IF width = 0 THEN 1 ELSE width
      base == width \div actual
      extra(i) == IF i < width % actual THEN i ELSE width % actual
  IN [i \in 1..actual |-> [start |-> start + base * (i - 1) + extra(i - 1),
                           end |-> start + base * i + extra(i)]]

split_work(w, shards) ==
  LET cuts == split_primes(w.start, w.end, shards)
  IN [i \in DOMAIN cuts |-> [kind |-> w.kind, start |-> cuts[i].start, end |-> cuts[i].end]]

\* Faulty: the bucket width is rounded down.
bucket_bounds_floored(start, end, index, buckets) ==
  LET base == (end - start) \div buckets
  IN <<start + base * index, start + base * (index + 1)>>

(* The half-open range a bucket covers.                                    *)
bucket_bounds(start, end, index, buckets) ==
  LET width == end - start
      base == width \div buckets
      remainder == width % buckets
      lead == IF index < remainder THEN index ELSE remainder
      from == start + base * index + lead
      to == from + base + (IF index < remainder THEN 1 ELSE 0)
  IN <<from, IF to < end THEN to ELSE end>>

----------------------------------------------------------------------------
(* The three computations.                                                 *)
is_prime(n) ==
  /\ n >= 2
  /\ \/ n \in {2, 3}
     \/ /\ n % 2 # 0 /\ n % 3 # 0
        /\ \A i \in {k \in 5..n : k % 6 = 5 /\ k <= n \div k} : n % i # 0 /\ n % (i + 2) # 0

count_primes(from, to) == Cardinality({n \in from..(to - 1) : is_prime(n)})

RECURSIVE StepsFrom(_)
StepsFrom(value) ==
  IF value = 1 THEN 0 ELSE 1 + StepsFrom(IF value % 2 = 0 THEN value \div 2 ELSE value * 3 + 1)
collatz_steps(n) == IF n = 0 THEN 0 ELSE StepsFrom(n)

(* A later seed replaces an earlier one only by being strictly longer.     *)
peak_trajectory(from, to) ==
  FoldLeft(LAMBDA best, n : IF collatz_steps(n) > best[1] THEN <<collatz_steps(n), n>> ELSE best,
           <<0, 0>>, [i \in 1..(to - from) |-> from + i - 1])

combine_peaks(peaks) ==
  FoldLeft(LAMBDA best, p : IF p[1] > best[1] \/ (p[1] = best[1] /\ p[1] > 0 /\ p[2] < best[2])
                            THEN p ELSE best,
           <<0, 0>>, [i \in 1..BUCKETS |-> peaks[i - 1]])

dot(left, right) == MapThenSumSet(LAMBDA k : left[k] * right[k], 1..dim) % MODULUS
Column(m, j) == [k \in 1..dim |-> m[k][j]]
multiply_rows(from, to) ==
  [i \in from..(to - 1) |-> [j \in 1..dim |-> dot(SeedA[i + 1], Column(SeedB, j))]]
matrix_vector(m, vector) == [i \in 1..dim |-> dot(m[i], vector)]

bucket_of(w, index) ==
  LET b == bucket_bounds(w.start, w.end, index, BUCKETS)
  IN IF w.kind = "primes" THEN count_primes(b[1], b[2]) ELSE peak_trajectory(b[1], b[2])

Headline(w, buckets) ==
  IF w.kind = "primes" THEN MapThenSumSet(LAMBDA i : buckets[i], Buckets)
  ELSE combine_peaks(buckets)

execute_work(w) ==
  IF w.kind = "matrix" THEN [total |-> 0, parts |-> multiply_rows(w.start, w.end)]
  ELSE LET parts == [i \in Buckets |-> bucket_of(w, i)]
       IN [total |-> Headline(w, parts), parts |-> parts]

----------------------------------------------------------------------------
(* The witnesses.                                                          *)

(* A partial Fisher-Yates shuffle: slot after slot, one of the rest.       *)
swap(pool, a, b) == [i \in DOMAIN pool |-> IF i = a THEN pool[b] ELSE IF i = b THEN pool[a] ELSE pool[i]]
\* Faulty: an index may be drawn twice.
audit_indices_repeating(picks, count) ==
  {LET pick == slot + (picks[slot] % (BUCKETS - slot + 1)) IN pick - 1 : slot \in 1..count}
audit_indices(picks, count) ==
  LET shuffled == FoldLeft(LAMBDA pool, slot : swap(pool, slot, slot + (picks[slot] % (BUCKETS - slot + 1))),
                           [i \in 1..BUCKETS |-> i - 1], [i \in 1..count |-> i])
  IN {shuffled[i] : i \in 1..count}

prime_witness(w, r, n) ==
  /\ Headline(w, r.parts) = r.total
  /\ \A i \in audit_indices(n.picks, AUDIT_BUCKETS) : bucket_of(w, i) = r.parts[i]

(* A(Br) against Cr, row by row.                                           *)
freivalds(w, r, n) ==
  LET projected == matrix_vector(SeedB, n.vector)
  IN \A i \in w.start..(w.end - 1) : dot(SeedA[i + 1], projected) = dot(r.parts[i], n.vector)

witness_check(w, r, n) ==
  IF w.kind = "matrix" THEN freivalds(w, r, n) ELSE prime_witness(w, r, n)

adjudicate(w, r) == r = execute_work(w)

should_audit(n) == streak = 0 \/ n.luck

----------------------------------------------------------------------------
Perturbed(kind, part) ==
  CASE kind = "primes" -> part + 1
    [] kind = "collatz" -> <<part[1] + 1, part[2]>>
    [] OTHER -> [part EXCEPT ![1] = (@ + 1) % MODULUS]

(* A shard is handed out, and an answer comes back: the right one, or one  *)
(* wrong in some parts, its headline made to agree or not.                 *)
Submit ==
  /\ phase = "idle"
  /\ \E w \in Works, shards \in ShardCounts :
       \E i \in DOMAIN split_work(w, shards) :
         LET shard == split_work(w, shards)[i]
             honest == execute_work(shard)
         IN /\ work' = [whole |-> w, shards |-> shards, shard |-> shard]
            /\ \E wrong \in SUBSET DOMAIN honest.parts, agree \in BOOLEAN :
                 LET parts == [p \in DOMAIN honest.parts |->
                                 IF p \in wrong THEN Perturbed(w.kind, honest.parts[p]) ELSE honest.parts[p]]
                 IN result' = [total |-> IF agree /\ w.kind # "matrix" THEN Headline(w, parts) ELSE honest.total,
                               parts |-> parts]
  /\ phase' = "submitted"
  /\ UNCHANGED <<nonce, verdict, streak>>

(* The nonce is drawn after the result is on record; the part of it a      *)
(* workload has no use for is fixed.                                       *)
settle ==
  /\ phase = "submitted"
  /\ nonce' \in [picks : [1..AUDIT_BUCKETS -> Buckets], vector : [1..dim -> 0..(MODULUS - 1)],
                 luck : BOOLEAN]
  /\ work.shard.kind = "matrix" => nonce'.picks = [i \in 1..AUDIT_BUCKETS |-> 0]
  /\ work.shard.kind # "matrix" => nonce'.vector = [i \in 1..dim |-> 1]
  /\ verdict' = IF ~should_audit(nonce') THEN "unaudited"
                ELSE IF witness_check(work.shard, result, nonce') THEN "witness" ELSE "rejected"
  /\ streak' = IF verdict' = "rejected" THEN 0 ELSE IF streak < MaxStreak THEN streak + 1 ELSE streak
  /\ phase' = "judged"
  /\ UNCHANGED <<work, result>>

(* A disagreement is settled by doing the work again.                      *)
Recompute ==
  /\ phase = "submitted"
  /\ verdict' = IF adjudicate(work.shard, result) THEN "recompute" ELSE "rejected"
  /\ phase' = "judged"
  /\ UNCHANGED <<work, result, nonce, streak>>

VerifyReset ==
  /\ phase = "judged"
  /\ phase' = "idle"
  /\ work' = [whole |-> 0, shards |-> 0, shard |-> 0]
  /\ result' = [total |-> 0, parts |-> <<>>]
  /\ nonce' = NoNonce /\ verdict' = "none"
  /\ UNCHANGED streak

VerifyInit ==
  /\ work = [whole |-> 0, shards |-> 0, shard |-> 0]
  /\ result = [total |-> 0, parts |-> <<>>]
  /\ nonce = NoNonce /\ verdict = "none"
  /\ streak = 0 /\ phase = "idle"

VerifyNext == Submit \/ settle \/ Recompute \/ VerifyReset
VerifySpec == VerifyInit /\ [][VerifyNext]_verifyVars

----------------------------------------------------------------------------
(* What the whole job asks for, by definition rather than by shard.        *)
Primes(w) == {n \in w.start..(w.end - 1) : n > 1 /\ \A d \in 2..(n - 1) : n % d # 0}
LongestFrom(w) ==
  LET longest == Max({collatz_steps(n) : n \in w.start..(w.end - 1)})
  IN <<longest, Min({n \in w.start..(w.end - 1) : collatz_steps(n) = longest})>>
ShardTotals == [i \in DOMAIN split_work(work.whole, work.shards) |->
                  execute_work(split_work(work.whole, work.shards)[i])]

(* Honest shards, put together, are the answer to the whole job, and       *)
(* whatever nonce is drawn no honest result is refused (split_work,        *)
(* bucket_bounds, combine_peaks, and the three witnesses).                 *)
HonestWorkPasses ==
  phase = "judged" =>
    /\ result = execute_work(work.shard) => verdict # "rejected"
    /\ LET totals == ShardTotals
       IN CASE work.whole.kind = "primes" ->
                 MapThenSumSet(LAMBDA i : totals[i].total, DOMAIN totals) = Cardinality(Primes(work.whole))
            [] work.whole.kind = "collatz" /\ work.whole.end > 2 ->
                 \E i \in DOMAIN totals :
                   /\ totals[i].total = LongestFrom(work.whole)
                   /\ \A j \in DOMAIN totals : totals[j].total[1] <= totals[i].total[1]
            [] OTHER -> UNION {DOMAIN totals[i].parts : i \in DOMAIN totals}
                          = work.whole.start..(work.whole.end - 1)

Wrong == {p \in DOMAIN result.parts : result.parts[p] # execute_work(work.shard).parts[p]}

(* An audit that is drawn catches a headline its buckets do not make, an   *)
(* answer with fewer right buckets than it redraws, and a matrix row wrong *)
(* where the challenge is not zero; recomputation catches every wrong      *)
(* answer (prime_witness, collatz_witness, freivalds, adjudicate).         *)
WrongWorkIsCaught ==
  /\ verdict = "recompute" => Wrong = {}
  /\ verdict = "witness" =>
       IF work.shard.kind = "matrix" THEN nonce.vector[1] = 0 \/ Wrong = {}
       ELSE /\ Headline(work.shard, result.parts) = result.total
            /\ BUCKETS - Cardinality(Wrong) >= AUDIT_BUCKETS
================================================================================
