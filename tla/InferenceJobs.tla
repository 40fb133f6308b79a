----------------------------- MODULE InferenceJobs -----------------------------
(***************************************************************************)
(* A batch of an inference job at its coordinator: the rows ai_jobs and    *)
(* ai_assignments and the intent that funds them, the handlers that lease, *)
(* take delivery, judge, refund and reroute the batch, and the sweep that  *)
(* returns an unjudged batch to the commons. The ledger is the append-only *)
(* chain of ComputeJobs: what was sent may be certified at any later time. *)
(***************************************************************************)
EXTENDS Naturals, Sequences, FiniteSets, Functions

CONSTANTS
  Provider,       \* the devices that can run the model, best first
  Billed,       \* the provider the signed bill names
  Nobody,
  WINDOW, LEASE,  \* SETTLEMENT_WINDOW_SECS and DEFAULT_LEASE_SECONDS
  LastTick,       \* the clock stops here
  LastReceipt,    \* no receipt is signed later, so that its window closes
  CallBound,      \* handlers in flight at once
  CrashBound      \* times the coordinator dies

VARIABLES
  clock,
  job,        \* the row of ai_jobs: status and created_at
  intent,     \* the status of the job's inference_reserve intent
  batch,      \* the row of ai_assignments
  running,    \* providers that polled the batch and have not answered yet
  waiting,    \* handlers that wait for the ledger
  offered,    \* transactions proposed so far whose claim is still free
  entries,    \* the certified chain
  died,
  lost        \* history: a receipt was sent and its handler did not finish

batchVars == <<clock, job, intent, batch, running, waiting, offered, entries, died, lost>>

----------------------------------------------------------------------------
(* The ledger's side. A receipt and a refund claim the batch's escrow;     *)
(* reward, dispute and expiry claim what the receipt put into holding.     *)

Tx(kind, digest, to, receipt_at) ==
  [kind |-> kind, digest |-> digest, to |-> to, receipt_at |-> receipt_at, created_at |-> clock]

\* Faulty: a refund and a receipt spend claims of their own.
inference_claim_by_kind(tx) ==
  CASE tx.kind \in {"reserve", "refund"} -> tx.kind
    [] tx.kind = "receipt" -> "escrow"
    [] OTHER -> "payout"

inference_claim(tx) ==
  CASE tx.kind = "reserve" -> "reserve"
    [] tx.kind \in {"receipt", "refund"} -> "escrow"
    [] OTHER -> "payout"

\* Faulty: a transaction that was sent counts as certified.
Certified_or_sent(tx) == TRUE
Certified(tx) == tx \in Range(entries)
Of(kind) == {tx \in Range(entries) : tx.kind = kind}
Spent(claim) == \E tx \in Range(entries) : inference_claim(tx) = claim
Closes == (CHOOSE tx \in Of("reserve") : TRUE).created_at + WINDOW

Accepted(tx) ==
  /\ ~Spent(inference_claim(tx))
  /\ tx.kind # "reserve" => Spent("reserve")
  /\ tx.kind = "refund" => tx.created_at > Closes
  /\ inference_claim(tx) = "payout" => Of("receipt") # {}
  /\ tx.kind = "reward" => tx.to = Billed /\ tx.created_at <= Closes
  /\ tx.kind = "expiry" =>
       /\ tx.created_at >= tx.receipt_at + WINDOW
       /\ \E r \in Of("receipt") : r.digest = tx.digest /\ r.receipt_at = tx.receipt_at

CertifyBatch ==
  \E tx \in offered :
    /\ Accepted(tx)
    /\ entries' = Append(entries, tx)
    /\ offered' = {other \in offered : inference_claim(other) # inference_claim(tx)}
    /\ UNCHANGED <<clock, job, intent, batch, running, waiting, died, lost>>

----------------------------------------------------------------------------
(* The handlers. Each reads its row, sends a transaction and writes when   *)
(* the ledger has decided.                                                 *)

Transact(op, tx) ==
  /\ offered' = IF Spent(inference_claim(tx)) THEN offered ELSE offered \cup {tx}
  /\ waiting' = waiting \cup {[op |-> op, tx |-> tx]}

(* The requests of clients; the sweep is the coordinator's own.            *)
Free == Cardinality({call \in waiting : call.op # "sweep"}) < CallBound
Request(op, tx) == Free /\ Transact(op, tx)

(* A handler whose transaction failed, or seemed to, leaves nothing behind *)
(* in the database.                                                        *)
HandlerFails ==
  \E call \in waiting :
    /\ call.op # "report"
    /\ waiting' = waiting \ {call}
    /\ lost' = (lost \/ call.op = "receipt")
    /\ UNCHANGED <<clock, job, intent, batch, running, offered, entries, died>>

submit_inference ==
  /\ job.status = "none"
  /\ clock = 0
  /\ job' = [status |-> "funding", created_at |-> clock]
  /\ batch' = [batch EXCEPT !.status = "blocked"]
  /\ intent' = "pending"
  /\ Request("submit", Tx("reserve", Nobody, Nobody, 0))
  /\ UNCHANGED <<clock, running, entries, died, lost>>

finalize_inference_reservation ==
  \E call \in waiting :
    /\ call.op = "submit" /\ Certified(call.tx)
    /\ intent' = "certified"
    /\ job' = [job EXCEPT !.status = IF @ = "funding" THEN "pending" ELSE @]
    /\ batch' = [batch EXCEPT !.status = IF @ = "blocked" THEN "pending" ELSE @]
    /\ waiting' = waiting \ {call}
    /\ UNCHANGED <<clock, running, offered, entries, died, lost>>

(* Recovery does not know the kind inference_reserve and parks the intent. *)
recover_inference_reserve ==
  /\ intent = "pending"
  /\ intent' = "unrecoverable"
  /\ UNCHANGED <<clock, job, batch, running, waiting, offered, entries, died, lost>>

poll_inference(n) ==
  LET late == batch.status = "leased" /\ batch.lease_until < clock
      row == IF late THEN [batch EXCEPT !.status = "pending", !.lease_until = 0] ELSE batch
  IN  /\ n \notin running
      /\ IF row.status = "pending" /\ row.assigned = n
         THEN /\ batch' = [row EXCEPT !.status = "leased", !.lease_until = clock + LEASE]
              /\ running' = running \cup {n}
         ELSE batch' = row /\ UNCHANGED running
      /\ UNCHANGED <<clock, job, intent, waiting, offered, entries, died, lost>>

Reporting(n) == \E call \in waiting : call.op = "report" /\ call.tx.to = n

(* The report is read against the row in one step and written in another.  *)
report_inference(n) ==
  /\ n \in running /\ ~Reporting(n)
  /\ IF batch.status = "leased" /\ batch.assigned = n
     THEN /\ Free
          /\ waiting' = waiting \cup {[op |-> "report", tx |-> Tx("report", n, n, 0)]}
          /\ UNCHANGED running
     ELSE running' = running \ {n} /\ UNCHANGED waiting
  /\ UNCHANGED <<clock, job, intent, batch, offered, entries, died, lost>>

ReportWritten ==
  \E call \in waiting :
    /\ call.op = "report"
    /\ batch' = [batch EXCEPT !.status = "completed", !.lease_until = 0, !.outputs = call.tx.digest]
    /\ job' = [job EXCEPT !.status = "completed"]
    /\ waiting' = waiting \ {call}
    /\ running' = running \ {call.tx.to}
    /\ UNCHANGED <<clock, intent, offered, entries, died, lost>>

(* A provider that could not run the batch hands it to the next device.    *)
fail_inference(n) ==
  /\ n \in running /\ ~Reporting(n)
  /\ running' = running \ {n}
  /\ IF batch.assigned = n /\ Provider \ (batch.failed \cup {n}) # {}
     THEN batch' = [batch EXCEPT !.assigned = CHOOSE p \in Provider \ (batch.failed \cup {n}) : TRUE,
                                 !.failed = @ \cup {n}, !.status = "pending", !.lease_until = 0]
     ELSE UNCHANGED batch
  /\ UNCHANGED <<clock, job, intent, waiting, offered, entries, died, lost>>

delivered == batch.outputs # Nobody

receipt_inference ==
  /\ delivered /\ ~batch.receipted
  /\ clock <= LastReceipt
  /\ Request("receipt", Tx("receipt", batch.outputs, Nobody, clock))
  /\ UNCHANGED <<clock, job, intent, batch, running, entries, died, lost>>

Received(row, tx) == [row EXCEPT !.receipted = TRUE, !.receipt_at = tx.receipt_at]
ReceiptWritten ==
  \E call \in waiting :
    /\ call.op = "receipt" /\ Certified(call.tx)
    /\ batch' = Received(batch, call.tx)
    /\ waiting' = waiting \ {call}
    /\ UNCHANGED <<clock, job, intent, running, offered, entries, died, lost>>

settle_inference(accepted) ==
  /\ delivered /\ batch.receipted /\ batch.settled = "null"
  /\ Request("settle", IF accepted THEN Tx("reward", batch.outputs, batch.outputs, 0)
                                    ELSE Tx("dispute", batch.outputs, Nobody, 0))
  /\ UNCHANGED <<clock, job, intent, batch, running, entries, died, lost>>

Verdict(tx) == IF tx.kind = "reward" THEN "paid" ELSE "disputed"
SettleWritten ==
  \E call \in waiting :
    /\ call.op = "settle" /\ Certified(call.tx)
    /\ batch' = [batch EXCEPT !.settled = IF @ = "null" THEN Verdict(call.tx) ELSE @]
    /\ waiting' = waiting \ {call}
    /\ UNCHANGED <<clock, job, intent, running, offered, entries, died, lost>>

refund_inference ==
  /\ batch.status \notin {"none", "completed", "refunded"}
  /\ clock > job.created_at + WINDOW
  /\ Request("refund", Tx("refund", Nobody, Nobody, 0))
  /\ UNCHANGED <<clock, job, intent, batch, running, entries, died, lost>>

RefundWritten ==
  \E call \in waiting :
    /\ call.op = "refund" /\ Certified(call.tx)
    /\ batch' = [batch EXCEPT !.status = "refunded", !.lease_until = 0]
    /\ waiting' = waiting \ {call}
    /\ UNCHANGED <<clock, job, intent, running, offered, entries, died, lost>>

----------------------------------------------------------------------------
(* The sweep: a received batch nobody judged within its window goes to the *)
(* commons. An entry found under the claim, whichever it is, ends it.      *)

ripe == batch.receipted /\ batch.settled = "null" /\ clock >= batch.receipt_at + WINDOW
Sweeping == \E call \in waiting : call.op = "sweep"

\* Faulty: the expiry is stamped with the clock of each sweep.
expiry_tx_now == Tx("expiry", batch.outputs, Nobody, clock)
expiry_tx == Tx("expiry", batch.outputs, Nobody, batch.receipt_at)

sweep_expired_batches ==
  /\ ripe /\ ~Sweeping
  /\ IF Spent("payout")
     THEN batch' = [batch EXCEPT !.settled = "expired"] /\ UNCHANGED <<waiting, offered>>
     ELSE Transact("sweep", expiry_tx) /\ UNCHANGED batch
  /\ UNCHANGED <<clock, job, intent, running, entries, died, lost>>

SweepWritten ==
  \E call \in waiting :
    /\ call.op = "sweep" /\ Certified(call.tx)
    /\ batch' = [batch EXCEPT !.settled = IF @ = "null" THEN "expired" ELSE @]
    /\ waiting' = waiting \ {call}
    /\ UNCHANGED <<clock, job, intent, running, offered, entries, died, lost>>

----------------------------------------------------------------------------
CoordinatorDies ==
  /\ died < CrashBound
  /\ died' = died + 1
  /\ waiting' = {}
  /\ running' = {n \in running : ~Reporting(n)}
  /\ lost' = (lost \/ \E call \in waiting : call.op = "receipt")
  /\ UNCHANGED <<clock, job, intent, batch, offered, entries>>

ClockTicks ==
  /\ clock < LastTick /\ job.status # "none"
  /\ clock' = clock + 1
  /\ UNCHANGED <<job, intent, batch, running, waiting, offered, entries, died, lost>>

BatchInit ==
  /\ clock = 0
  /\ job = [status |-> "none", created_at |-> 0]
  /\ intent = "none"
  /\ batch = [status |-> "none", assigned |-> Billed, lease_until |-> 0, failed |-> {}, outputs |-> Nobody,
              receipted |-> FALSE, receipt_at |-> 0, settled |-> "null"]
  /\ running = {} /\ waiting = {} /\ offered = {} /\ entries = <<>>
  /\ died = 0 /\ lost = FALSE

BatchNext ==
  \/ CertifyBatch \/ HandlerFails \/ CoordinatorDies \/ ClockTicks
  \/ submit_inference \/ finalize_inference_reservation \/ recover_inference_reserve
  \/ \E n \in Provider : poll_inference(n) \/ report_inference(n) \/ fail_inference(n)
  \/ ReportWritten
  \/ receipt_inference \/ ReceiptWritten
  \/ \E accepted \in BOOLEAN : settle_inference(accepted)
  \/ SettleWritten
  \/ refund_inference \/ RefundWritten
  \/ sweep_expired_batches \/ SweepWritten

(* Time passes, handlers end at their deadline, the sweep runs on a timer, *)
(* and a proposal the validators accept is certified in the end.           *)
BatchFairness ==
  /\ WF_batchVars(ClockTicks)
  /\ WF_batchVars(CertifyBatch)
  /\ WF_batchVars(HandlerFails \/ ReportWritten)
  /\ WF_batchVars(sweep_expired_batches)

BatchSpec == BatchInit /\ [][BatchNext]_batchVars /\ BatchFairness

----------------------------------------------------------------------------
(* What the row says was decided, the ledger decided: paid, disputed and   *)
(* refunded name the entry on the chain, expired names a spent claim, and  *)
(* no batch is leased before its reserve is certified.                     *)
RowsFollowLedger ==
  /\ batch.settled = "paid" => Of("reward") # {}
  /\ batch.settled = "disputed" => Of("dispute") # {}
  /\ batch.settled = "expired" => Spent("payout")
  /\ batch.status = "refunded" => Of("refund") # {}
  /\ batch.status = "leased" => Spent("reserve")

(* An answer can be read only once the receipt for that very answer is on  *)
(* the chain, and then its CU can no longer be refunded. The other way     *)
(* round, CU in holding is within reach of a verdict or the sweep: its row *)
(* is marked, or the handler that will mark it is still there, unless that *)
(* handler died between the certificate and the mark (receipt_inference).  *)
AnswerBehindReceipt ==
  /\ batch.receipted => /\ \E r \in Of("receipt") : r.digest = batch.outputs
                        /\ Of("refund") = {}
  /\ Of("receipt") # {} =>
       \/ batch.receipted
       \/ \E call \in waiting : call.op = "receipt" /\ Certified(call.tx)
       \/ lost

(* A batch the requester took and never judged does not stay in holding.   *)
HoldingIsEmptied == batch.receipted ~> Spent("payout")
================================================================================
