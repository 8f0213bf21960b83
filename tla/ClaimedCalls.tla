---------------------------- MODULE ClaimedCalls ----------------------------
(***************************************************************************)
(* The rule every paid call of a scientific run obeys: it is claimed in a  *)
(* durable ledger before it is made, it is made at most once under its     *)
(* claim, and nothing is claimed on top of a call whose outcome was never  *)
(* settled, so an interrupted call is never silently repeated.             *)
(*                                                                         *)
(* Plan-revision attempts (ScientificRun) and evidence-request attempts    *)
(* (EvidenceResolution) both implement this specification.                 *)
(***************************************************************************)
EXTENDS Naturals, Sequences

CONSTANT Limit  \* a natural number: the largest number of claims

VARIABLE ledger

States == {"claimed", "called", "settled"}

Init == ledger = <<>>

Newest == ledger[Len(ledger)]

Claim ==
  /\ Len(ledger) < Limit
  /\ ledger # <<>> => Newest = "settled"
  /\ ledger' = Append(ledger, "claimed")

Call ==
  /\ ledger # <<>> /\ Newest = "claimed"
  /\ ledger' = [ledger EXCEPT ![Len(ledger)] = "called"]

\* Also without a call, when the claim turns out not to need one.
Settle ==
  /\ ledger # <<>> /\ Newest # "settled"
  /\ ledger' = [ledger EXCEPT ![Len(ledger)] = "settled"]

Next == Claim \/ Call \/ Settle

Spec == Init /\ [][Next]_ledger
=============================================================================
