----------------------------- MODULE RunLedger -----------------------------
(***************************************************************************)
(* What the durable record of one run promises its readers, whatever       *)
(* worker, crash or redelivery produced it.  The API, the gate and the     *)
(* analytics read that record at any time, so the promise is about every   *)
(* committed state:                                                        *)
(*                                                                         *)
(*   - it grows by whole examples, in dataset order: every candidate of an *)
(*     example is resolved, or none of them is;                            *)
(*   - a resolved work unit is never resolved again, and carries at most   *)
(*     one cost entry, written together with it;                           *)
(*   - the checkpoint is exactly the end of that prefix.                   *)
(*                                                                         *)
(* RunExecution implements this specification (its property Implements-    *)
(* Ledger, proved in RunExecutionProofs).                                  *)
(***************************************************************************)
EXTENDS Integers

CONSTANTS Candidates,    \* the run's candidates, by label
          NumExamples    \* examples of the run's dataset version

VARIABLES checkpoint,    \* index of the last example wholly resolved
          sample,        \* resolution of each work unit, or "none"
          entries        \* cost entries of each work unit

Units == (0 .. NumExamples - 1) \X Candidates
Resolutions == {"scored", "abstained", "failed"}

LedgerInit ==
    /\ checkpoint = -1
    /\ sample = [u \in Units |-> "none"]
    /\ entries = [u \in Units |-> 0]

(* A commit: the examples after the checkpoint, up to k, become durable.   *)
Extend(k) ==
    /\ k > checkpoint
    /\ checkpoint' = k
    /\ \A u \in Units :
         IF checkpoint < u[1] /\ u[1] <= k
         THEN /\ sample'[u] \in Resolutions
              /\ entries'[u] \in {0, 1}
              /\ sample'[u] = "failed" => entries'[u] = 0
         ELSE /\ sample'[u] = sample[u]
              /\ entries'[u] = entries[u]

LedgerNext == \E k \in 0 .. NumExamples - 1 : Extend(k)

ledgerVars == <<checkpoint, sample, entries>>

LedgerSpec == LedgerInit /\ [][LedgerNext]_ledgerVars
=============================================================================
