----------------------------- MODULE EventTable -----------------------------
(***************************************************************************)
(* What the table stop_events promises to its writers and readers: rows    *)
(* inserted by a transaction are all there once it has committed, none     *)
(* before, and none is ever taken away.  "id" comes from a sequence, which *)
(* no rollback gives back.                                                 *)
(***************************************************************************)
EXTENDS Integers

CONSTANTS
  Writers,  \* sessions that insert: the poller and a cycle run by hand
  MaxId     \* bound: the last id the sequence hands out

VARIABLES
  last_id,  \* stop_events_id_seq
  open,     \* per writer, the rows of its open transaction
  rows      \* the committed rows a reader of stop_events sees

tableVars == <<last_id, open, rows>>

TableInit ==
  /\ last_id = 0
  /\ open = [w \in Writers |-> {}]
  /\ rows = {}

Insert(w) ==
  /\ last_id < MaxId
  /\ last_id' = last_id + 1
  /\ open' = [open EXCEPT ![w] = @ \cup {last_id'}]
  /\ UNCHANGED rows

Commit(w) ==
  /\ open[w] # {}
  /\ rows' = rows \cup open[w]
  /\ open' = [open EXCEPT ![w] = {}]
  /\ UNCHANGED last_id

Rollback(w) ==
  /\ open[w] # {}
  /\ open' = [open EXCEPT ![w] = {}]
  /\ UNCHANGED <<last_id, rows>>

TableNext == \E w \in Writers : Insert(w) \/ Commit(w) \/ Rollback(w)

TableSpec == TableInit /\ [][TableNext]_tableVars
=============================================================================
