-------------------------- MODULE BudgetAccounting --------------------------
(***************************************************************************)
(* The arithmetic of one operating budget row                              *)
(* (localnet/registry/budget-accounting.mjs): what was reserved, spent and *)
(* returned, and what one operation may take.  The caller passes the sum   *)
(* of the open holds, which protects them from every other operation.  A   *)
(* row that does not exist yet has three zero columns.                     *)
(***************************************************************************)
EXTENDS Integers

EmptyBudget == [reserved |-> 0, spent |-> 0, returned |-> 0]

Available(b, held) == b.reserved - b.spent - b.returned - held

Column(action) ==
  CASE action = "reserve" -> "reserved" [] action = "spend" -> "spent"
    [] action = "return" -> "returned"

Insufficient(b, action, n, held) == action # "reserve" /\ n > Available(b, held)

\* change(): the new row and the outcome that is stored under the operation key.
Change(b, action, n, held) ==
  IF Insufficient(b, action, n, held) THEN [outcome |-> "insufficient", budget |-> b]
  ELSE [outcome |-> Column(action), budget |-> [b EXCEPT ![Column(action)] = @ + n]]

\* budgets.put: a row never shows more spent and returned than reserved.
Put(b) == b.spent + b.returned <= b.reserved

\* budgets.apply: a key that was applied before answers its stored outcome;
\* a row that may not be put leaves nothing behind.
Apply(b, applied, key, action, n, held) ==
  LET c == Change(b, action, n, held) IN
  IF key \in DOMAIN applied THEN [outcome |-> applied[key], budget |-> b, applied |-> applied]
  ELSE IF ~Put(c.budget) THEN [outcome |-> "refused", budget |-> b, applied |-> applied]
  ELSE [outcome |-> c.outcome, budget |-> c.budget,
        applied |-> [k \in DOMAIN applied \cup {key} |->
                       IF k = key THEN c.outcome ELSE applied[k]]]
=============================================================================
