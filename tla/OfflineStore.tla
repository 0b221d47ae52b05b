---------------------------- MODULE OfflineStore ---------------------------
(***************************************************************************)
(* The web console's drafts (ts/offline.ts): a map in memory over an       *)
(* IndexedDB store.  Every method awaits the database and changes the map   *)
(* only afterwards; the constructor's load runs beside them.               *)
(*                                                                         *)
(* IndexedDB runs the transactions of a store one after the other in the   *)
(* order they were made, and reports their results in that order.          *)
(***************************************************************************)
EXTENDS Naturals, Sequences, SequencesExt

CONSTANTS
    Keys, Values,   \* drafts
    MaxOps          \* bound: calls of saveDraft, clearDraft, clearAllDrafts

None == "none"
Map == [Keys -> Values \cup {None}]
NoDrafts == [k \in Keys |-> None]

Save(k, v) == [op |-> "save", key |-> k, val |-> v]
Clear(k) == [op |-> "clear", key |-> k, val |-> None]
ClearAll(k) == [op |-> "clearAll", key |-> k, val |-> None]
Load(k) == [op |-> "load", key |-> k, val |-> None]

VARIABLES
    open,       \* dbPromise: "pending", "ok" or "failed"
    db,         \* the store in IndexedDB
    queue,      \* transactions not executed yet
    results,    \* executed or failed ones whose continuation has not run
    drafts,     \* this.drafts
    loaded,     \* this.loaded
    loadOk,     \* the load was executed
    calls       \* how many calls were made

vars == <<open, db, queue, results, drafts, loaded, loadOk, calls>>

AnyKey == CHOOSE k \in Keys : TRUE

(* A page load: drafts of an earlier one are in the store, loadDrafts has  *)
(* been called.                                                            *)
Init ==
    /\ open = "pending"
    /\ db \in Map
    /\ queue = <<Load(AnyKey)>>
    /\ results = <<>>
    /\ drafts = NoDrafts
    /\ loaded = FALSE /\ loadOk = FALSE
    /\ calls = 0

(* getDB: the promise of openDB, kept whatever becomes of it.              *)
GetDB ==
    /\ open = "pending"
    /\ open' \in {"ok", "failed"}
    /\ UNCHANGED <<db, queue, results, drafts, loaded, loadOk, calls>>

(* Mutant of Call: the map is changed before the draft is stored.          *)
CallUpdatesMap(o) ==
    /\ calls < MaxOps
    /\ calls' = calls + 1
    /\ queue' = Append(queue, o)
    /\ drafts' = IF o.op = "save" THEN [drafts EXCEPT ![o.key] = o.val] ELSE drafts
    /\ UNCHANGED <<open, db, results, loaded, loadOk>>

(* saveDraft, clearDraft and clearAllDrafts up to their first await.       *)
Call(o) ==
    /\ calls < MaxOps
    /\ calls' = calls + 1
    /\ queue' = Append(queue, o)
    /\ UNCHANGED <<open, db, results, drafts, loaded, loadOk>>

(* What a transaction does to the store.                                   *)
Apply(m, o) ==
    CASE o.op = "save" -> [m EXCEPT ![o.key] = o.val]
      [] o.op = "clear" -> [m EXCEPT ![o.key] = None]
      [] o.op = "clearAll" -> NoDrafts
      [] OTHER -> m

(* The next transaction is executed, or fails; all fail when the database  *)
(* could not be opened.                                                    *)
Execute ==
    /\ open # "pending"
    /\ queue # <<>>
    /\ queue' = Tail(queue)
    /\ \/ /\ open = "ok"
          /\ db' = Apply(db, Head(queue))
          /\ results' = Append(results, [o |-> Head(queue), ok |-> TRUE, found |-> db])
          /\ loadOk' = (loadOk \/ Head(queue).op = "load")
       \/ /\ results' = Append(results, [o |-> Head(queue), ok |-> FALSE, found |-> db])
          /\ UNCHANGED <<db, loadOk>>
    /\ UNCHANGED <<open, drafts, loaded, calls>>

(* The map after the continuation of a call: replaced by what was loaded,  *)
(* changed by what was stored, untouched after an error.                   *)
Continued(m, x) ==
    IF ~x.ok THEN m
    ELSE IF x.o.op = "load" THEN x.found
    ELSE Apply(m, x.o)

Continue ==
    /\ results # <<>>
    /\ results' = Tail(results)
    /\ drafts' = Continued(drafts, Head(results))
    /\ loaded' = (loaded \/ Head(results).o.op = "load")
    /\ UNCHANGED <<open, db, queue, loadOk, calls>>

Next ==
    \/ GetDB \/ Execute \/ Continue
    \/ \E k \in Keys : Call(Clear(k)) \/ \E v \in Values : Call(Save(k, v))
    \/ Call(ClearAll(AnyKey))

Spec == Init /\ [][Next]_vars
FairSpec == Spec /\ WF_vars(GetDB) /\ WF_vars(Execute) /\ WF_vars(Continue)

-----------------------------------------------------------------------------
(* The variables keep their types: the map holds drafts only.              *)
TypeOK ==
    /\ open \in {"pending", "ok", "failed"}
    /\ db \in Map
    /\ drafts \in Map
    /\ loaded \in BOOLEAN /\ loadOk \in BOOLEAN
    /\ calls \in 0..MaxOps

(* saveDraft, clearDraft: "Persist to IndexedDB FIRST".  The map together   *)
(* with the results on their way to it is always the content of the store, *)
(* whichever calls overlap or fail, once the drafts have been read.        *)
MapFollowsStore == loadOk => FoldLeft(Continued, drafts, results) = db

(* isLoaded becomes true, also when the database cannot be opened.         *)
LoadEnds == <>loaded
=============================================================================
