------------------------------ MODULE ModelShard ------------------------------
(***************************************************************************)
(* Which bytes of a model a stage holds and which it reads. A GGUF file is *)
(* its tensor directory and the extents of its tensors; ModelShard writes  *)
(* the chunks a range of blocks needs into a sparse file, then a sidecar   *)
(* that says which bytes are there; StageServe checks the sidecar and      *)
(* loads. The command may be killed anywhere in between.                   *)
(*                                                                         *)
(* A tensor is [of, offset, len]: a block number or the name of a shared   *)
(* tensor, its place after data_start, its bytes or Unknown when the type  *)
(* code is.                                                                *)
(***************************************************************************)
EXTENDS Integers, Sequences, SequencesExt, FiniteSets

CONSTANTS
  Models,     \* [alignment, header, data_start, file_len, chunk_size, tensors]
  BlockCount,
  Unknown,    \* the length of a tensor of an unknown type
  NoFile,
  MaxShards   \* ModelShard commands

VARIABLES
  model,     \* the model in the chunk store
  output,    \* the chunks written to the output file, or NoFile
  sidecar,   \* the extents the sidecar names, or NoFile
  command,   \* the ModelShard under way: [at, blocks, left]
  commands,  \* commands so far
  cut,       \* the last command was killed before it wrote its sidecar
  stage      \* what StageServe did last

shardVars == <<model, output, sidecar, command, commands, cut, stage>>

token_embd == -1
output_norm == -2
output_weight == -3
layer_index(t) == t.of   \* negative: no block, a shared tensor
Ranges == {<<a, b>> \in (0..BlockCount) \X (0..BlockCount) : a < b}   \* parse_blocks

----------------------------------------------------------------------------
(* The tensor directory.                                                   *)

align_up(m, n) == ((n + m.alignment - 1) \div m.alignment) * m.alignment
MinOf(a, b) == IF a < b THEN a ELSE b

(* A tensor of an unknown type reaches to the next one.                    *)
extent_of(m, t) ==
  LET start == m.data_start + t.offset
      later == {u.offset : u \in {v \in m.tensors : v.offset > t.offset}}
      end == IF t.len # Unknown THEN start + t.len
             ELSE IF later = {} THEN m.file_len
             ELSE m.data_start + CHOOSE o \in later : \A p \in later : o <= p
  IN <<start, MinOf(end, m.file_len)>>

(* The extents of some tensors, sorted; two that only padding parts are    *)
(* one.                                                                    *)
Before(x, y) == x[1] < y[1] \/ (x[1] = y[1] /\ x[2] < y[2])
Merge(m, merged, x) ==
  IF merged # <<>> /\ x[1] <= align_up(m, Last(merged)[2])
  THEN Append(Front(merged), <<Last(merged)[1], IF x[2] > Last(merged)[2] THEN x[2] ELSE Last(merged)[2]>>)
  ELSE Append(merged, x)
extents_of(m, tensors) ==
  LET spans == {x \in {extent_of(m, t) : t \in tensors} : x[1] < x[2]}
  IN Range(FoldLeft(LAMBDA merged, x : Merge(m, merged, x), <<>>, SetToSortSeq(spans, Before)))

tensors_for_layers(m, blocks) == {t \in m.tensors : layer_index(t) \in blocks[1]..(blocks[2] - 1)}
shared_tensors(m) == {t \in m.tensors : layer_index(t) < 0}

(* Every tensor in the file and no two of known length over each other.    *)
validate(m) ==
  /\ m.data_start <= m.file_len
  /\ \A t \in m.tensors : m.data_start + t.offset + (IF t.len = Unknown THEN 0 ELSE t.len) <= m.file_len
  /\ \A t, u \in {v \in m.tensors : v.len # Unknown} :
       t # u => t.offset + t.len <= u.offset \/ u.offset + u.len <= t.offset

\* Faulty: the chunk an extent ends in is left out.
chunks_for_extents_open(extents, size) ==
  UNION {{c \in 0..(x[2] \div size) : c >= x[1] \div size /\ c < x[2] \div size} : x \in {y \in extents : y[1] < y[2]}}

(* Fixed-size chunks, of which the last one may be short.                  *)
chunks_for_extents(extents, size) ==
  UNION {(x[1] \div size)..((x[2] - 1) \div size) : x \in {y \in extents : y[1] < y[2]}}

chunks_for_blocks(m, blocks) ==
  chunks_for_extents(
    extents_of(m, tensors_for_layers(m, blocks)) \cup extents_of(m, shared_tensors(m))
      \cup {<<0, MinOf(m.data_start, m.file_len)>>},
    m.chunk_size)

(* The bytes of a chunk, and the runs of chunks as extents.                *)
ChunkSpan(m, c) == <<c * m.chunk_size, MinOf((c + 1) * m.chunk_size, m.file_len)>>
Present(m, kept) ==
  {<<ChunkSpan(m, a)[1], ChunkSpan(m, b)[2]>> :
     <<a, b>> \in {<<x, y>> \in kept \X kept : x <= y /\ x..y \subseteq kept /\ x - 1 \notin kept /\ y + 1 \notin kept}}
Bytes(extents) == UNION {x[1]..(x[2] - 1) : x \in extents}

----------------------------------------------------------------------------
(* What a stage reads.                                                     *)

(* assert_layers_present: every merged extent inside one held extent.      *)
Covered(m, blocks, held) ==
  \A x \in extents_of(m, tensors_for_layers(m, blocks)) \cup extents_of(m, shared_tensors(m)) :
    \E h \in held : h[1] <= x[1] /\ h[2] >= x[2]

(* Stage::load: the embedding at the front; at the back the norm and the   *)
(* head, which is the embedding when the model ties the two.               *)
Loaded(m, blocks) ==
  LET Named(name) == {t \in m.tensors : t.of = name}
      head == IF Named(output_weight) # {} THEN Named(output_weight) ELSE Named(token_embd)
  IN tensors_for_layers(m, blocks)
     \cup (IF blocks[1] = 0 THEN Named(token_embd) ELSE {})
     \cup (IF blocks[2] = BlockCount THEN Named(output_norm) \cup head ELSE {})

Refused == [at |-> "refused", blocks |-> <<0, 0>>, reads |-> {}]

(* StageState::load: without a sidecar the file is taken to be whole.      *)
load(m, blocks) ==
  LET held == IF sidecar = NoFile THEN {<<0, m.file_len>>} ELSE sidecar
      header == Bytes({ChunkSpan(m, c) : c \in output}) \cap 0..(m.header - 1) = 0..(m.header - 1)
      tensors == Loaded(m, blocks)
  IN IF header /\ validate(m) /\ Covered(m, blocks, held) /\ \A t \in tensors : t.len # Unknown
     THEN [at |-> "serving", blocks |-> blocks, reads |-> Bytes({extent_of(m, t) : t \in tensors})]
     ELSE Refused

----------------------------------------------------------------------------
NoCommand == [at |-> "idle", blocks |-> <<0, 0>>, left |-> {}]

(* The directory is read from the first chunk, which must hold all of it;  *)
(* then the output is created at its full length, a hole from end to end.  *)
CommandBegins(blocks) ==
  /\ command.at = "idle" /\ commands < MaxShards
  /\ model.header <= model.chunk_size
  /\ commands' = commands + 1
  /\ command' = [at |-> "writing", blocks |-> blocks, left |-> chunks_for_blocks(model, blocks)]
  /\ output' = {}
  /\ UNCHANGED <<model, sidecar, cut, stage>>

(* materialize_partial writes the chunks it keeps in file order.           *)
WriteChunk ==
  /\ command.at = "writing" /\ command.left # {}
  /\ LET c == CHOOSE x \in command.left : \A y \in command.left : x <= y
     IN /\ output' = output \cup {c}
        /\ command' = [command EXCEPT !.left = @ \ {c}]
  /\ UNCHANGED <<model, sidecar, commands, cut, stage>>

WriteSidecar ==
  /\ command.at = "writing" /\ command.left = {}
  /\ sidecar' = Present(model, output)
  /\ command' = [command EXCEPT !.at = "idle"]
  /\ cut' = FALSE
  /\ UNCHANGED <<model, output, commands, stage>>

CommandKilled ==
  /\ command.at = "writing"
  /\ command' = NoCommand
  /\ cut' = TRUE
  /\ UNCHANGED <<model, output, sidecar, commands, stage>>

(* A stage may be started on the file whatever is going on.                *)
StageServe(blocks) ==
  /\ output # NoFile
  /\ stage' = load(model, blocks)
  /\ UNCHANGED <<model, output, sidecar, command, commands, cut>>

ShardInit ==
  /\ model \in Models
  /\ output = NoFile /\ sidecar = NoFile
  /\ command = NoCommand
  /\ commands = 0 /\ cut = FALSE
  /\ stage = Refused

ShardNext ==
  \/ \E blocks \in Ranges : CommandBegins(blocks) \/ StageServe(blocks)
  \/ WriteChunk \/ WriteSidecar \/ CommandKilled

ShardSpec == ShardInit /\ [][ShardNext]_shardVars

----------------------------------------------------------------------------
Readable(m, blocks) == validate(m) /\ \A t \in Loaded(m, blocks) : t.len # Unknown

(* After a ModelShard that ran to its end, a stage of those blocks starts, *)
(* and a stage of any blocks that starts reads no hole of the file: only a *)
(* command killed before its sidecar leaves a file a stage misreads.       *)
StageReadsWhatIsThere ==
  command.at = "idle" /\ ~cut /\ output # NoFile =>
    \A blocks \in Ranges :
      LET got == load(model, blocks)
      IN /\ blocks = command.blocks /\ Readable(model, blocks) => got.at = "serving"
         /\ got.reads \subseteq Bytes({ChunkSpan(model, c) : c \in output})
================================================================================
