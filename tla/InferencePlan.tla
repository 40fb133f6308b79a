---------------------------- MODULE InferencePlan ----------------------------
(***************************************************************************)
(* How an inference job is laid over the machines that are online: the     *)
(* ranking of their devices, the chain of machines that holds the stages   *)
(* of a pipeline, the layers each stage gets, and the prompts of each      *)
(* batch. Scores and distances are integers; a cached model is cached      *)
(* whole, as plan_ai reports it.                                           *)
(***************************************************************************)
EXTENDS Integers, Sequences, FiniteSets, SequencesExt, FiniteSetsExt

CONSTANTS
  Fleets,        \* sets of machines: node_id, ready, cached, latency, load,
                 \* devices (memory sizes), bandwidth (0: not measured),
                 \* position (NoPlace: not fitted), prefill
  Requirements,  \* memory, batch_size, pipeline_stages, tensor_parallelism,
                 \* layer_count
  NoPlace,
  TransferCost,  \* milliseconds a model that is not cached costs
  UNKNOWN_EDGE_MICROS

VARIABLES planned   \* what plan_ai was asked and answered, in one step

----------------------------------------------------------------------------
(* Ranking: cheapest first, of equals the smaller node id; the devices of  *)
(* one machine keep their order.                                           *)
score(node, memory, need) ==
  node.latency + node.load - (memory - need)
    + (IF node.cached THEN -100 ELSE TransferCost)

Candidate(node, i, need) ==
  [node_id |-> node.node_id, device_id |-> i, score |-> score(node, node.devices[i], need),
   bandwidth |-> node.bandwidth, position |-> node.position, prefill |-> node.prefill]

device_matches(node, i, need) == node.ready /\ node.devices[i] >= need

Ranks(a, b) ==
  \/ a.score < b.score
  \/ a.score = b.score /\ a.node_id < b.node_id
  \/ a.score = b.score /\ a.node_id = b.node_id /\ a.device_id <= b.device_id

rank_candidates(fleet, need) ==
  LET pool == UNION {{Candidate(node, i, need) : i \in {k \in DOMAIN node.devices : device_matches(node, k, need)}}
                     : node \in fleet}
  IN  SetToSortSeq(pool, Ranks)

----------------------------------------------------------------------------
(* The layers of each stage.                                               *)

Sum(s) == FoldSeq(+, 0, s)
Spans(counts) ==
  [i \in DOMAIN counts |-> <<Sum(SubSeq(counts, 1, i - 1)), Sum(SubSeq(counts, 1, i))>>]

uniform_spans(n, layers) == [i \in 1..n |-> <<(layers * (i - 1)) \div n, (layers * i) \div n>>]

(* The layers flooring left over go to the stages floored hardest, then a  *)
(* stage with none takes one from the largest, the last of equals.         *)
Rounded(weights, layers) ==
  LET total == Sum(weights)
      floor == [i \in DOMAIN weights |-> (layers * weights[i]) \div total]
      rest == [i \in DOMAIN weights |-> (layers * weights[i]) % total]
      left == layers - Sum(floor)
      ahead(i) == {j \in DOMAIN weights : rest[j] > rest[i] \/ (rest[j] = rest[i] /\ j < i)}
  IN  [i \in DOMAIN weights |-> floor[i] + (IF Cardinality(ahead(i)) < left THEN 1 ELSE 0)]

Lift(counts, i) ==
  LET donor == Max({j \in DOMAIN counts : \A k \in DOMAIN counts : counts[k] <= counts[j]})
  IN  IF counts[i] > 0 \/ counts[donor] <= 1 THEN counts
      ELSE [j \in DOMAIN counts |-> counts[j] + (IF j = i THEN 1 ELSE IF j = donor THEN -1 ELSE 0)]
Lifted(counts) == FoldLeft(Lift, counts, [i \in DOMAIN counts |-> i])

\* Faulty: every span is rounded down and the rest forgotten.
layer_spans_floored(stages, layers) ==
  LET weights == [i \in DOMAIN stages |-> stages[i].bandwidth]
      total == Sum(weights)
  IN  IF layers <= Len(stages) \/ \E i \in DOMAIN stages : stages[i].bandwidth = 0
      THEN uniform_spans(Len(stages), layers)
      ELSE Spans(Lifted([i \in DOMAIN weights |-> (layers * weights[i]) \div total]))

(* One machine without a measurement makes the whole split even.           *)
layer_spans(stages, layers) ==
  IF layers <= Len(stages) \/ \E i \in DOMAIN stages : stages[i].bandwidth = 0
  THEN uniform_spans(Len(stages), layers)
  ELSE Spans(Lifted(Rounded([i \in DOMAIN stages |-> stages[i].bandwidth], layers)))

----------------------------------------------------------------------------
(* The chain of machines, grown from every machine that may be the head to *)
(* its nearest neighbour, and the cheapest of those chains.                *)

Abs(x) == IF x < 0 THEN -x ELSE x
edge_micros(a, b) ==
  IF a.node_id = b.node_id THEN 0
  ELSE IF a.position = NoPlace \/ b.position = NoPlace THEN UNKNOWN_EDGE_MICROS
  ELSE Abs(a.position - b.position)

first_per_node(ranked) == {i \in DOMAIN ranked : \A k \in 1..(i - 1) : ranked[k].node_id # ranked[i].node_id}

Nearest(ranked, tail, rest) ==
  CHOOSE i \in rest : \A k \in rest :
    LET di == edge_micros(ranked[tail], ranked[i])
        dk == edge_micros(ranked[tail], ranked[k])
    IN  di < dk \/ (di = dk /\ i <= k)

Grow(ranked, chain) == Append(chain, Nearest(ranked, Last(chain), first_per_node(ranked) \ Range(chain)))
ChainFrom(ranked, head, count) ==
  LET chain[k \in 1..count] == IF k = 1 THEN <<head>> ELSE Grow(ranked, chain[k - 1])
  IN  chain[count]

Hops(ranked, chain) == [i \in 1..(Len(chain) - 1) |-> edge_micros(ranked[chain[i]], ranked[chain[i + 1]])]
chain_cost(ranked, chain) ==
  LET hops == Hops(ranked, chain)
  IN  <<Sum(hops), Max({0} \cup Range(hops)), Head(chain)>>
Cheaper(x, y) ==
  \/ x[1] < y[1]
  \/ x[1] = y[1] /\ x[2] < y[2]
  \/ x[1] = y[1] /\ x[2] = y[2] /\ x[3] <= y[3]

Heads(ranked) == {i \in first_per_node(ranked) : ranked[i].prefill}
CanChain(ranked, count) == Cardinality(first_per_node(ranked)) >= count /\ Heads(ranked) # {}
order_pipeline(ranked, count) ==
  LET chains == {ChainFrom(ranked, head, count) : head \in Heads(ranked)}
      cheapest == CHOOSE chain \in chains : \A other \in chains : Cheaper(chain_cost(ranked, chain), chain_cost(ranked, other))
  IN  [i \in 1..count |-> ranked[cheapest[i]]]

----------------------------------------------------------------------------
AtLeastOne(x) == IF x < 1 THEN 1 ELSE x
NoPlan == [pipeline |-> <<>>, tensor_group |-> <<>>, batches |-> <<>>]

plan_parallelism(ranked, need) ==
  LET stages == AtLeastOne(need.pipeline_stages)
      tensors == AtLeastOne(need.tensor_parallelism)
      workers == Min({Len(ranked), need.batch_size})
      chain == order_pipeline(ranked, stages)
      spans == layer_spans(chain, need.layer_count)
  IN  IF Len(ranked) < Max({stages, tensors}) \/ (stages > 1 /\ ~CanChain(ranked, stages)) THEN NoPlan
      ELSE [pipeline |-> IF stages > 1 THEN [i \in 1..stages |-> [node |-> chain[i], span |-> spans[i]]] ELSE <<>>,
            tensor_group |-> IF tensors > 1 THEN [i \in 1..tensors |-> ranked[i]] ELSE <<>>,
            batches |-> [i \in 1..workers |->
               [node |-> ranked[i],
                span |-> <<(need.batch_size * (i - 1)) \div workers, (need.batch_size * i) \div workers>>]]]

Contiguous(parts, size) ==
  parts # <<>> => /\ parts[1].span[1] = 0
                  /\ Last(parts).span[2] = size
                  /\ \A i \in 1..(Len(parts) - 1) : parts[i].span[2] = parts[i + 1].span[1]
validate_plan(plan, need) ==
  /\ Contiguous(plan.pipeline, need.layer_count)
  /\ Contiguous(plan.batches, need.batch_size)
  /\ plan.pipeline # <<>> \/ plan.tensor_group # <<>> \/ plan.batches # <<>>

plan_ai ==
  /\ ~planned.asked
  /\ \E fleet \in Fleets, need \in Requirements :
       LET ranked == rank_candidates(fleet, need.memory)
       IN  planned' = [asked |-> TRUE, ranked |-> ranked, need |-> need, plan |-> plan_parallelism(ranked, need)]

PlanRead == planned.asked /\ planned' = [asked |-> FALSE]

PlanInit == planned = [asked |-> FALSE]
PlanNext == plan_ai \/ PlanRead
PlanSpec == PlanInit /\ [][PlanNext]_planned

----------------------------------------------------------------------------
(* A plan that is made is one that can be served: it covers every layer    *)
(* and every prompt exactly once, its first stage is on a machine that     *)
(* showed the uplink for it, its stages are on different machines, none of *)
(* them is empty when there are layers enough, and where all bandwidths    *)
(* are known no stage is a whole layer off its share, but for the layers   *)
(* the empty ones were lifted with.                                        *)
Size(stage) == stage.span[2] - stage.span[1]
Bandwidths(pipeline) == Sum([i \in DOMAIN pipeline |-> pipeline[i].node.bandwidth])
OffShare(s, pipeline, layers) == Size(s) * Bandwidths(pipeline) - layers * s.node.bandwidth
Measured(pipeline) == \A i \in DOMAIN pipeline : pipeline[i].node.bandwidth > 0
Starved(pipeline, layers) == \E i \in DOMAIN pipeline : layers * pipeline[i].node.bandwidth < Bandwidths(pipeline)
PlanIsServable ==
  planned.asked /\ planned.plan # NoPlan =>
    LET pipeline == planned.plan.pipeline
        layers == planned.need.layer_count
    IN  /\ validate_plan(planned.plan, planned.need)
        /\ pipeline # <<>> =>
             /\ pipeline[1].node.prefill
             /\ Cardinality({s.node.node_id : s \in Range(pipeline)}) = Len(pipeline)
             /\ layers >= Len(pipeline) => \A s \in Range(pipeline) : Size(s) > 0
             /\ Measured(pipeline) /\ layers > Len(pipeline) /\ ~Starved(pipeline, layers) =>
                  \A s \in Range(pipeline) : Abs(OffShare(s, pipeline, layers)) < Bandwidths(pipeline)
================================================================================
