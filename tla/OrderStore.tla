----------------------------- MODULE OrderStore -----------------------------
(***************************************************************************)
(* What the market order cache promises to the threads that serve HTTP     *)
(* requests, with no file, no index, no mutex and no clock.                *)
(*                                                                         *)
(* A region's contents are replaced by a staged download as a whole, or    *)
(* are lost as a whole; nobody reads a region while it is being replaced;  *)
(* and an answer is what the region holds for the id at one instant.  A    *)
(* region can also break: from then on every id it holds answers with an   *)
(* error, never with other orders, until it is replaced again.             *)
(***************************************************************************)
EXTENDS MarketData

CONSTANT Handlers   \* the threads that call get_orders

VARIABLES
  store,      \* store[r][id]: the reply for each id that region r holds
  staged,     \* a complete download not yet in the store
  updating,   \* the regions being replaced, which nobody can read
  reply       \* the last answer each handler was given

vars == <<store, staged, updating, reply>>

Served(files)  == [id \in DOMAIN files |-> Found(files[id])]
Broken(held)   == [id \in DOMAIN held |-> Failed]
Lookup(held, id) == IF id \in DOMAIN held THEN held[id] ELSE Found(<<>>)

Init ==
  /\ store = [r \in Regions |-> Nothing]
  /\ staged = Nothing
  /\ updating = {}
  /\ reply = [h \in Handlers |-> NoReply]

-----------------------------------------------------------------------------
Stage(files) ==
  /\ updating = {}
  /\ staged' = files
  /\ UNCHANGED <<store, updating, reply>>

BeginUpdate(r) ==
  /\ updating = {}
  /\ staged \in Snapshots(r)
  /\ updating' = {r}
  /\ store' = [store EXCEPT ![r] = Nothing]
  /\ UNCHANGED <<staged, reply>>

\* The update ends with the whole download in place, with nothing in place, or
\* with the ids of the download in place and none of them readable.
EndUpdate(r) ==
  /\ r \in updating
  /\ updating' = {}
  /\ \E held \in {Served(staged), Nothing, Broken(staged)} :
        store' = [store EXCEPT ![r] = held]
  /\ staged' = Nothing
  /\ UNCHANGED reply

Answer(h, r, id) ==
  /\ r \notin updating
  /\ reply' = [reply EXCEPT ![h] = Lookup(store[r], id)]
  /\ UNCHANGED <<store, staged, updating>>

AnswerUnknownRegion(h) ==
  /\ reply' = [reply EXCEPT ![h] = Failed]
  /\ UNCHANGED <<store, staged, updating>>

Break(r) ==
  /\ r \notin updating
  /\ store[r] # Nothing
  /\ store' = [store EXCEPT ![r] = Broken(store[r])]
  /\ UNCHANGED <<staged, updating>>

BreakWhileReading(h, r) == Break(r) /\ reply' = [reply EXCEPT ![h] = Failed]
BreakWhileScanning(r)   == Break(r) /\ UNCHANGED reply

Next ==
  \/ \E r \in Regions : \E files \in Snapshots(r) : Stage(files)
  \/ \E r \in Regions : BeginUpdate(r) \/ EndUpdate(r) \/ BreakWhileScanning(r)
  \/ \E h \in Handlers, r \in Regions, id \in Ids : Answer(h, r, id)
  \/ \E h \in Handlers, r \in Regions : BreakWhileReading(h, r)
  \/ \E h \in Handlers : AnswerUnknownRegion(h)

Spec == Init /\ [][Next]_vars

=============================================================================
