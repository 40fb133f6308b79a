----------------------------- MODULE TensorStream -----------------------------
(***************************************************************************)
(* Frames of one tensor stream on their way into an inbox. A sender tries  *)
(* its endpoints in turn; a frame may arrive late, twice or out of order;  *)
(* the handler of each arrival reassembles under one lock and hands over   *)
(* what became ready under another, and may be dropped between the two     *)
(* when its connection goes.                                               *)
(***************************************************************************)
EXTENDS Naturals, Sequences, SequencesExt, FiniteSets

CONSTANTS
  Endpoint,            \* 1..n, the route in order of preference
  Frames,              \* frames of the stream, 0..Frames - 1
  max_reorder_window,
  MaxStreamFaults      \* lost answers, late copies and dropped handlers

VARIABLES
  next_sequence, pending,   \* the assembler of the stream at each endpoint
  hands,       \* handlers between the two locks: [endpoint, ready]
  handed_over, \* each inbox
  taken,       \* what its reader took from it, in order
  sending,     \* [sequence, endpoint], or the sender is between frames
  answers,     \* frames whose send returned Ok
  strays,      \* [endpoint, sequence]: copies still on the wire
  lost_frames, \* ready frames that went with a dropped handler
  stream_faults

streamVars == <<next_sequence, pending, hands, handed_over, taken, sending, answers, strays,
                lost_frames, stream_faults>>

Rest == [sequence |-> Frames, endpoint |-> 0]
StreamFault == stream_faults < MaxStreamFaults /\ stream_faults' = stream_faults + 1

(* accept: refuse a replay, a frame past the window and a duplicate;       *)
(* otherwise hand over the run that starts at next_sequence.               *)
Accepts(e, s) ==
  /\ s >= next_sequence[e]
  /\ s < next_sequence[e] + max_reorder_window
  /\ s \notin pending[e]

RunFrom(have, n) ==
  LET stop == CHOOSE m \in n..Frames : m \notin have /\ \A k \in n..(m - 1) : k \in have
  IN [i \in 1..(stop - n) |-> n + i - 1]

\* Faulty: a frame in order releases itself only.
accept_advances_one(e, s) ==
  LET have == pending[e] \cup {s}
      ready == RunFrom(have, next_sequence[e])
  IN /\ next_sequence' = [next_sequence EXCEPT ![e] = IF ready = <<>> THEN @ ELSE @ + 1]
     /\ pending' = [pending EXCEPT ![e] = have \ ToSet(ready)]
     /\ hands' = hands \cup {[endpoint |-> e, frame |-> s, ready |-> ready]}
accept(e, s) ==
  LET have == pending[e] \cup {s}
      ready == RunFrom(have, next_sequence[e])
  IN /\ next_sequence' = [next_sequence EXCEPT ![e] = @ + Len(ready)]
     /\ pending' = [pending EXCEPT ![e] = have \ ToSet(ready)]
     /\ hands' = hands \cup {[endpoint |-> e, frame |-> s, ready |-> ready]}

----------------------------------------------------------------------------
(* send_tensor_with_failover: the next endpoint after a failure, an error  *)
(* after the last; the caller then sends that frame again.                 *)
Begin ==
  /\ sending = Rest
  /\ \E s \in 0..(Frames - 1) : s \notin answers /\ sending' = [sequence |-> s, endpoint |-> 1]
  /\ UNCHANGED <<next_sequence, pending, hands, handed_over, taken, answers, strays, lost_frames, stream_faults>>

Failover ==
  sending' = IF sending.endpoint < Cardinality(Endpoint)
             THEN [sending EXCEPT !.endpoint = @ + 1] ELSE Rest

Arrive ==
  /\ sending # Rest
  /\ \/ /\ Accepts(sending.endpoint, sending.sequence)
        /\ accept(sending.endpoint, sending.sequence)
        /\ sending' = Rest
        /\ answers' = answers \cup {sending.sequence}
        /\ UNCHANGED <<strays, stream_faults>>
     \/ /\ Accepts(sending.endpoint, sending.sequence)   \* the answer is lost
        /\ accept(sending.endpoint, sending.sequence)
        /\ StreamFault /\ Failover
        /\ UNCHANGED <<answers, strays>>
     \/ /\ ~Accepts(sending.endpoint, sending.sequence)  \* 409
        /\ Failover
        /\ UNCHANGED <<next_sequence, pending, hands, answers, strays, stream_faults>>
     \/ /\ StreamFault /\ Failover                       \* given up on, still on the wire
        /\ strays' = strays \cup {[endpoint |-> sending.endpoint, sequence |-> sending.sequence]}
        /\ UNCHANGED <<next_sequence, pending, hands, answers>>
  /\ UNCHANGED <<handed_over, taken, lost_frames>>

StrayArrives ==
  \E x \in strays :
    /\ strays' = strays \ {x}
    /\ \/ Accepts(x.endpoint, x.sequence) /\ accept(x.endpoint, x.sequence)
       \/ ~Accepts(x.endpoint, x.sequence) /\ UNCHANGED <<next_sequence, pending, hands>>
    /\ UNCHANGED <<handed_over, taken, sending, answers, lost_frames, stream_faults>>

(* The second lock.                                                        *)
Deliver ==
  \E h \in hands :
    /\ hands' = hands \ {h}
    /\ handed_over' = [handed_over EXCEPT ![h.endpoint] = @ \o h.ready]
    /\ UNCHANGED <<next_sequence, pending, taken, sending, answers, strays,
                lost_frames, stream_faults>>

HandlerDropped ==
  \E h \in hands :
    /\ StreamFault
    /\ hands' = hands \ {h}
    /\ lost_frames' = lost_frames \cup {[endpoint |-> h.endpoint, sequence |-> s] : s \in ToSet(h.ready)}
    /\ UNCHANGED <<next_sequence, pending, handed_over, taken, sending, answers, strays>>

take_delivered ==
  \E e \in Endpoint :
    /\ handed_over[e] # <<>>
    /\ taken' = [taken EXCEPT ![e] = @ \o handed_over[e]]
    /\ handed_over' = [handed_over EXCEPT ![e] = <<>>]
    /\ UNCHANGED <<next_sequence, pending, hands, sending, answers, strays, lost_frames, stream_faults>>

----------------------------------------------------------------------------
StreamInit ==
  /\ next_sequence = [e \in Endpoint |-> 0] /\ pending = [e \in Endpoint |-> {}]
  /\ hands = {} /\ handed_over = [e \in Endpoint |-> <<>>] /\ taken = [e \in Endpoint |-> <<>>]
  /\ sending = Rest /\ answers = {} /\ strays = {} /\ lost_frames = {} /\ stream_faults = 0

StreamNext == Begin \/ Arrive \/ StrayArrives \/ Deliver \/ HandlerDropped \/ take_delivered
StreamSpec == StreamInit /\ [][StreamNext]_streamVars

----------------------------------------------------------------------------
(* Whatever is retried, late or sent to both endpoints, an inbox passes    *)
(* every frame on at most once, and each frame below next_sequence is      *)
(* accounted for: with the reader, in the inbox, in a handler's hands, or  *)
(* lost with a handler that was dropped between the two locks              *)
(* (TensorAssembler::accept, receive_tensor, take_delivered).              *)
FramesAccountedFor ==
  \A e \in Endpoint :
    LET out == taken[e] \o handed_over[e]
        held_back == UNION {ToSet(h.ready) : h \in {x \in hands : x.endpoint = e}}
        gone == {x.sequence : x \in {y \in lost_frames : y.endpoint = e}}
    IN /\ IsInjective(out)
       /\ ToSet(out) \cup held_back \cup gone = 0..(next_sequence[e] - 1)
       /\ ToSet(out) \cap (held_back \cup gone) = {}
================================================================================
