--------------------------- MODULE FederationProofs ---------------------------
(***************************************************************************)
(* Ownership of jobs, for every federation: a job without an owner is one  *)
(* left to a dead coordinator, and a coordinator that learns of a change   *)
(* moves no job but those of the peers that changed.                       *)
(***************************************************************************)
EXTENDS Federation, TLAPS, FiniteSetTheorems, WellFoundedInduction

(* owner's order is total: of two coordinators one has the higher weight,  *)
(* or the higher id at equal weights.                                      *)
LEMMA WeightOrder ==
  ASSUME NEW j \in Jobs, NEW c \in Peers, NEW d \in Peers
  PROVE  /\ Outweighs(j, c, d) \/ Outweighs(j, d, c)
         /\ Outweighs(j, c, d) /\ Outweighs(j, d, c) => c = d
         /\ \A e \in Peers : Outweighs(j, c, d) /\ Outweighs(j, d, e) => Outweighs(j, c, e)
<1>1. /\ \A e \in Peers : weight[e][j] \in Nat /\ Name[e] \in Nat
      /\ Name[c] = Name[d] => c = d
  BY FederationAssumption
<1>2. Outweighs(j, c, d) \/ Outweighs(j, d, c)
  BY <1>1 DEF Outweighs
<1>3. Outweighs(j, c, d) /\ Outweighs(j, d, c) => c = d
  BY <1>1 DEF Outweighs
<1>4. ASSUME NEW e \in Peers, Outweighs(j, c, d), Outweighs(j, d, e)
      PROVE  Outweighs(j, c, e)
  BY <1>1, <1>4 DEF Outweighs
<1> QED
  BY <1>2, <1>3, <1>4

Heaviest(j, c, S) == c \in S /\ \A d \in S : Outweighs(j, c, d)

(* Whoever is alive, one of them outweighs the rest (the max in owner).    *)
LEMMA SomeoneOutweighs ==
  ASSUME NEW j \in Jobs, NEW S \in SUBSET Peers, S # {}
  PROVE  \E c \in S : Heaviest(j, c, S)
<1> DEFINE Without == {T \in SUBSET Peers : T # {} /\ ~\E c \in T : Heaviest(j, c, T)}
<1>1. SUFFICES ASSUME Without # {} PROVE FALSE
  OBVIOUS
<1>2. Without \subseteq FiniteSubsetsOf(Peers)
  BY FederationAssumption, FS_Subset DEF FiniteSubsetsOf
<1>3. IsWellFoundedOn(StrictSubsetOrdering(Peers), FiniteSubsetsOf(Peers))
  BY FS_StrictSubsetOrderingWellFounded
<1> HIDE DEF Without
<1>4. PICK T \in Without : \A U \in Without : ~(<<U, T>> \in StrictSubsetOrdering(Peers))
  BY <1>1, <1>2, <1>3, WFMin
<1> USE DEF Without
<1>5. T \in SUBSET Peers /\ T # {} /\ ~\E c \in T : Heaviest(j, c, T)
  BY <1>4
<1>6. PICK x \in T : TRUE
  BY <1>5
<1>7. T \ {x} \notin Without
  <2>1. <<T \ {x}, T>> \in StrictSubsetOrdering(Peers)
    BY <1>5, <1>6 DEF StrictSubsetOrdering
  <2> QED
    BY <1>4, <2>1
<1>8. CASE T \ {x} = {}
  <2>1. T = {x}
    BY <1>6, <1>8
  <2>2. Outweighs(j, x, x)
    BY <1>5, <1>6, WeightOrder
  <2> QED
    BY <1>5, <2>1, <2>2 DEF Heaviest
<1>9. CASE T \ {x} # {}
  <2>1. PICK y \in T \ {x} : Heaviest(j, y, T \ {x})
    BY <1>5, <1>7, <1>9
  <2>2. x \in Peers /\ y \in Peers /\ \A d \in T \ {x} : d \in Peers /\ Outweighs(j, y, d)
    BY <1>5, <1>6, <2>1 DEF Heaviest
  <2>3. CASE Outweighs(j, y, x)
    BY <1>5, <2>1, <2>2, <2>3 DEF Heaviest
  <2>4. CASE Outweighs(j, x, y)
    <3>1. \A d \in T \ {x} : Outweighs(j, x, d)
      BY <2>2, <2>4, WeightOrder
    <3>2. Outweighs(j, x, x)
      BY <2>2, WeightOrder
    <3>3. \A d \in T : Outweighs(j, x, d)
      BY <3>1, <3>2
    <3> QED
      BY <1>5, <1>6, <3>3 DEF Heaviest
  <2> QED
    BY <2>2, <2>3, <2>4, WeightOrder
<1> QED
  BY <1>8, <1>9

(* The owner among some coordinators outweighs them all, and is the only   *)
(* one that does.                                                          *)
LEMMA OwnerIsHeaviest ==
  ASSUME NEW j \in Jobs, NEW S \in SUBSET Peers, S # {}
  PROVE  /\ Heaviest(j, owner(j, S), S)
         /\ \A c : Heaviest(j, c, S) => c = owner(j, S)
<1>1. \E c \in S : \A d \in S : Outweighs(j, c, d)
  BY SomeoneOutweighs DEF Heaviest
<1>2. Heaviest(j, owner(j, S), S)
  BY <1>1 DEF owner, Heaviest
<1>3. ASSUME NEW c, Heaviest(j, c, S) PROVE c = owner(j, S)
  BY <1>2, <1>3, WeightOrder DEF Heaviest
<1> QED
  BY <1>2, <1>3

(* A coordinator is among those it believes alive.                         *)
LEMMA OwnerType ==
  ASSUME NEW c \in Peers, NEW j \in Jobs
  PROVE  /\ live(c) \in SUBSET Peers /\ c \in live(c)
         /\ owner_of(c, j) = owner(j, live(c))
BY DEF live, owner_of

-------------------------------------------------------------------------------
(* serving holds coordinators only (FedTypeOK's first part).               *)
LEMMA ServingType == FedSpec => [](serving \subseteq Peers)
<1>1. FedInit => serving \subseteq Peers
  BY DEF FedInit
<1>2. serving \subseteq Peers /\ [FedNext]_fedVars => (serving \subseteq Peers)'
  BY DEF FedNext, fedVars, probe, ProbeLost, Stop, new
<1> QED
  BY <1>1, <1>2, PTL DEF FedSpec

(* While no running coordinator believes a stopped one alive, every job    *)
(* has an owner that runs, however much the views of live peers differ:    *)
(* the heaviest of all that run owns it in its own view (owner, live).     *)
THEOREM UnownedIsLeftToTheDead == FedSpec => []UnownedOnlyBehindDead
<1>1. ASSUME serving \subseteq Peers PROVE UnownedOnlyBehindDead
  <2> SUFFICES ASSUME serving # {}, ~DeadBelieved, NEW j \in Jobs
               PROVE  \E c \in serving : owns(c, j)
    BY DEF UnownedOnlyBehindDead
  <2>1. PICK c \in serving : Heaviest(j, c, serving)
    BY <1>1, SomeoneOutweighs
  <2>2. live(c) \subseteq serving /\ c \in live(c) /\ live(c) \in SUBSET Peers
    BY <1>1, OwnerType DEF DeadBelieved
  <2>3. Heaviest(j, c, live(c))
    BY <2>1, <2>2 DEF Heaviest
  <2>4. owner_of(c, j) = c
    BY <1>1, <2>2, <2>3, OwnerIsHeaviest, OwnerType
  <2> QED
    BY <2>4 DEF owns
<1> QED
  BY <1>1, ServingType, PTL

(* A coordinator that learns of a peer that is gone or back moves a job    *)
(* only if its owner is gone, or to an owner that is back: everything else *)
(* stays where it is (the module comment's rendezvous hashing).            *)
THEOREM OnlyTheChangedMoves == FedSpec => OnlyTheChangedMove
<1> DEFINE Step == \A c \in Peers : Learns(c) => \A j \in Jobs :
                     owner_of(c, j)' # owner_of(c, j) =>
                       \/ owner_of(c, j) \notin live(c)'
                       \/ owner_of(c, j)' \notin live(c)
<1>1. Step
  <2> SUFFICES ASSUME NEW c \in Peers, NEW j \in Jobs,
                      owner_of(c, j) \in live(c)', owner_of(c, j)' \in live(c)
               PROVE  owner_of(c, j)' = owner_of(c, j)
    OBVIOUS
  <2> DEFINE o == owner(j, live(c))
             n == owner(j, live(c)')
  <2>1. /\ live(c) \in SUBSET Peers /\ live(c) # {}
        /\ live(c)' \in SUBSET Peers /\ live(c)' # {}
    BY DEF live
  <2>2. owner_of(c, j) = o /\ owner_of(c, j)' = n
    BY <2>1 DEF owner_of, owner, Outweighs
  <2>3. Heaviest(j, o, live(c)) /\ Heaviest(j, n, live(c)')
    BY <2>1, OwnerIsHeaviest
  <2> HIDE DEF o, n
  <2>4. Outweighs(j, o, n) /\ Outweighs(j, n, o) /\ o \in Peers /\ n \in Peers
    BY <2>1, <2>2, <2>3 DEF Heaviest
  <2> QED
    BY <2>2, <2>4, WeightOrder
<1> QED
  BY <1>1, PTL DEF OnlyTheChangedMove
===============================================================================
