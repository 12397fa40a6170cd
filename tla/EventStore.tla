---------------------------- MODULE EventStore ----------------------------
(***************************************************************************)
(* What the callers of append_memory_event and record_cost_event may count *)
(* on, told without files, lines and writes.  A record is offered, and the *)
(* call returns or not.  When it returns, the record is kept: it is there  *)
(* for every later reader.  Only a fault of the storage lets a record go,  *)
(* each fault at most two of them, and only at the moment the call         *)
(* returns: what was kept once is kept for good.                           *)
(***************************************************************************)
EXTENDS Integers

CONSTANT Event

VARIABLES
    offered,    \* records handed to the store
    accepted,   \* records whose call returned
    kept,       \* records every later reader returns
    allowance   \* how many records the faults so far may still cost

storeVars == <<offered, accepted, kept, allowance>>

StoreInit ==
    /\ offered = {}
    /\ accepted = {}
    /\ kept = {}
    /\ allowance = 0

Offer(e) ==
    /\ e \notin offered
    /\ offered' = offered \cup {e}
    /\ UNCHANGED <<accepted, kept, allowance>>

Keep(e) ==
    /\ e \in offered \ accepted
    /\ accepted' = accepted \cup {e}
    /\ kept' = kept \cup {e}
    /\ UNCHANGED <<offered, allowance>>

Lose(e) ==
    /\ e \in offered \ accepted
    /\ allowance > 0
    /\ accepted' = accepted \cup {e}
    /\ allowance' = allowance - 1
    /\ UNCHANGED <<offered, kept>>

Fault ==
    /\ allowance' = allowance + 2
    /\ UNCHANGED <<offered, accepted, kept>>

StoreNext ==
    \/ \E e \in Event : Offer(e) \/ Keep(e) \/ Lose(e)
    \/ Fault

StoreSpec == StoreInit /\ [][StoreNext]_storeVars
=============================================================================
