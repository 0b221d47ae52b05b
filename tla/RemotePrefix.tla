---------------------------- MODULE RemotePrefix ---------------------------
(***************************************************************************)
(* s3Source.fetchPrefix of sys/remote: a tree is brought in line with the   *)
(* objects under an S3 prefix, page by page and object by object, while     *)
(* objects are put and deleted.  Calls on one destination are serialised    *)
(* by the caller.  An object is the number of the put that made it: no two  *)
(* puts give the same ETag.                                                *)
(***************************************************************************)
EXTENDS Integers

CONSTANTS
    Keys,           \* object keys, in listing order: a set of numbers
    MaxPuts,        \* bound: puts of objects
    MaxFaults       \* bound: requests and removals that fail, deaths of the process

Gone == 0
NoToken == <<>>
Objects == 0..MaxPuts
Listings == [Keys -> Objects]

VARIABLES
    sync,       \* the S3Config: Prune, and whether dest is in a managed root
    bucket,     \* the object each key has, or None
    puts,       \* puts so far
    tree,       \* the object each path of the destination holds, or None
    token,      \* s.revision, as the listing it is the hash of
    known,      \* the destination is in recordedDests
    step,       \* where the call is
    listing,    \* the pages read by the call
    todo,       \* keys it has still to list, or to get
    wiped,      \* Wipe has emptied the destination of this Source
    faults      \* failures and deaths so far

prefixVars == <<sync, bucket, puts, tree, token, known, step, listing, todo, wiped, faults>>
bucketVars == <<bucket, puts>>
prefixCallVars == <<step, listing, todo>>
ledgerVars == <<token, known, wiped, faults>>

NoObjects == [k \in Keys |-> Gone]

PrefixInit ==
    /\ sync \in [prune : {"no", "yes"}, managed : {"no", "yes"}]
    /\ bucket = NoObjects
    /\ puts = 0
    /\ tree = NoObjects
    /\ token = NoToken
    /\ known = "no"
    /\ step = "idle"
    /\ listing = NoObjects
    /\ todo = {}
    /\ wiped = "no"
    /\ faults = 0

-----------------------------------------------------------------------------
(* The bucket.                                                             *)

Put(k) ==
    /\ puts < MaxPuts
    /\ puts' = puts + 1
    /\ bucket' = [bucket EXCEPT ![k] = puts + 1]
    /\ UNCHANGED <<sync, tree, prefixCallVars, ledgerVars>>

Delete(k) ==
    /\ bucket[k] # Gone
    /\ bucket' = [bucket EXCEPT ![k] = Gone]
    /\ UNCHANGED <<sync, puts, tree, prefixCallVars, ledgerVars>>

-----------------------------------------------------------------------------
(* fetchPrefix.                                                            *)

PrefixReturns ==
    /\ step' = "idle"
    /\ listing' = NoObjects
    /\ todo' = {}

PrefixFault ==
    /\ faults < MaxFaults
    /\ faults' = faults + 1

PrefixStarts ==
    /\ step = "idle"
    /\ step' = "list"
    /\ todo' = Keys
    /\ UNCHANGED <<sync, bucketVars, tree, listing, ledgerVars>>

(* The keys are listed, and got, in their order.                           *)
Foremost(k) == k \in todo /\ \A j \in todo : k <= j

(* One page of listObjects.                                                *)
ListPage ==
    /\ step = "list"
    /\ \E k \in todo :
          /\ Foremost(k)
          /\ listing' = [listing EXCEPT ![k] = bucket[k]]
          /\ todo' = todo \ {k}
    /\ UNCHANGED <<sync, bucketVars, tree, step, ledgerVars>>

(* Mutant of Unchanged: the hash leaves the ETags out.                     *)
UnchangedByKeys ==
    /\ step = "list" /\ todo = {}
    /\ token # NoToken /\ \A k \in Keys : listing[k] = Gone <=> token[k] = Gone
    /\ PrefixReturns
    /\ UNCHANGED <<sync, bucketVars, tree, ledgerVars>>

(* The hash of the listing is the drift token: Changed=false.              *)
Unchanged ==
    /\ step = "list" /\ todo = {}
    /\ listing = token
    /\ PrefixReturns
    /\ UNCHANGED <<sync, bucketVars, tree, ledgerVars>>

Drifted ==
    /\ step = "list" /\ todo = {}
    /\ listing # token
    /\ step' = "get"
    /\ todo' = {k \in Keys : listing[k] # Gone}
    /\ UNCHANGED <<sync, bucketVars, tree, listing, ledgerVars>>

(* One object: what the key has now is streamed and renamed into place.     *)
GetObject ==
    /\ step = "get"
    /\ \E k \in todo :
          /\ Foremost(k) /\ bucket[k] # Gone
          /\ tree' = [tree EXCEPT ![k] = bucket[k]]
          /\ todo' = todo \ {k}
    /\ UNCHANGED <<sync, bucketVars, step, listing, ledgerVars>>

Stored == todo = {}

MayPrune == "yes" \in {sync.managed, known}

(* pruneTo the listed paths.                                               *)
Prune ==
    /\ step = "get" /\ Stored
    /\ sync.prune = "yes"
    /\ MayPrune
    /\ tree' = [k \in Keys |-> IF listing[k] = Gone THEN Gone ELSE tree[k]]
    /\ step' = "finish"
    /\ UNCHANGED <<sync, bucketVars, listing, todo, ledgerVars>>

NoPrune ==
    /\ step = "get" /\ Stored
    /\ sync.prune = "no"
    /\ step' = "finish"
    /\ UNCHANGED <<sync, bucketVars, tree, listing, todo, ledgerVars>>

(* A file cannot be removed: those before it are gone, the call fails.     *)
PruneFails ==
    /\ PrefixFault
    /\ step = "get" /\ Stored
    /\ sync.prune = "yes" /\ MayPrune
    /\ \E gone \in SUBSET {k \in Keys : listing[k] = Gone} :
          tree' = [k \in Keys |-> IF k \in gone THEN Gone ELSE tree[k]]
    /\ PrefixReturns
    /\ UNCHANGED <<sync, bucketVars, token, known, wiped>>

(* Mutant of NewToken: the hash is of what the bucket holds at the end.    *)
NewTokenLate == bucket

NewToken == listing

PrefixDone ==
    /\ step = "finish"
    /\ token' = NewToken
    /\ known' = "yes"
    /\ PrefixReturns
    /\ wiped' = "no"
    /\ UNCHANGED <<sync, bucketVars, tree, faults>>

(* A page, a GET or the mode fails: an error ends the call.                *)
PrefixFails ==
    /\ PrefixFault
    /\ step # "idle"
    /\ PrefixReturns
    /\ UNCHANGED <<sync, bucketVars, tree, token, known, wiped>>

(* A listed object is gone by the time of its GET, or the destination may   *)
(* not be pruned: neither in a managed root nor recorded.                  *)
PrefixRefused ==
    /\ step = "get"
    /\ \/ \E k \in todo : Foremost(k) /\ bucket[k] = Gone
       \/ Stored /\ sync.prune = "yes" /\ ~MayPrune
    /\ PrefixReturns
    /\ UNCHANGED <<sync, bucketVars, tree, ledgerVars>>

-----------------------------------------------------------------------------
(* Wipe of the same destination; it leaves the drift token.                *)
PrefixWipe ==
    /\ step = "idle"
    /\ MayPrune
    /\ tree' = NoObjects
    /\ known' = "no"
    /\ wiped' = "yes"
    /\ UNCHANGED <<sync, bucketVars, prefixCallVars, token, faults>>

(* RemoveAll fails on its way.                                             *)
PrefixWipeFails ==
    /\ PrefixFault
    /\ step = "idle"
    /\ MayPrune
    /\ \E gone \in SUBSET Keys : tree' = [k \in Keys |-> IF k \in gone THEN Gone ELSE tree[k]]
    /\ wiped' = "yes"
    /\ UNCHANGED <<sync, bucketVars, prefixCallVars, token, known>>

(* The process dies and starts again with a Source of its own.             *)
PrefixCrash ==
    /\ PrefixFault
    /\ token' = NoToken
    /\ known' = "no"
    /\ wiped' = "no"
    /\ PrefixReturns
    /\ UNCHANGED <<sync, bucketVars, tree>>

PrefixCall ==
    \/ ListPage \/ Unchanged \/ Drifted \/ GetObject
    \/ Prune \/ NoPrune \/ PrefixDone \/ PrefixRefused

PrefixNext ==
    \/ \E k \in Keys : Put(k) \/ Delete(k)
    \/ PrefixStarts \/ PrefixCall \/ PruneFails \/ PrefixFails
    \/ PrefixWipe \/ PrefixWipeFails \/ PrefixCrash

PrefixSpec == PrefixInit /\ [][PrefixNext]_prefixVars

(* The caller fetches again and again, and no call hangs: the client gives  *)
(* up on a request after 30 minutes.                                       *)
Fairness == WF_prefixVars(PrefixStarts) /\ WF_prefixVars(PrefixCall)

FairSpec == PrefixSpec /\ Fairness

-----------------------------------------------------------------------------
(* The variables keep their types.                                         *)
PrefixTypeOK ==
    /\ sync \in [prune : {"no", "yes"}, managed : {"no", "yes"}]
    /\ bucket \in Listings /\ tree \in Listings /\ listing \in Listings
    /\ puts \in Objects /\ faults \in 0..MaxFaults
    /\ token = NoToken \/ token \in Listings
    /\ known \in {"no", "yes"} /\ wiped \in {"no", "yes"}
    /\ step \in {"idle", "list", "get", "finish"}
    /\ todo \in SUBSET Keys

(* Unless Wipe emptied it, the tree holds every object that the drift token *)
(* stands for and that the bucket still has: however the bucket changes     *)
(* under the pages and the GETs, and wherever a call fails, Changed=false   *)
(* never covers up an object that is missing or old.                       *)
TreeNotBehind ==
    token # NoToken /\ wiped = "no" =>
        \A k \in Keys : token[k] # Gone /\ bucket[k] = token[k] => tree[k] = token[k]

(* Only pruning and Wipe remove an object from the tree, and pruning only   *)
(* removes what the listing has no key for, once every listed object is in  *)
(* place: a sync that fails half-way has lost nothing.                     *)
PruneLast ==
    [][\A k \in Keys : tree[k] # Gone /\ tree'[k] = Gone =>
          \/ wiped = "no" /\ wiped' = "yes"
          \/ wiped = "yes" /\ step = "idle"
          \/ listing[k] = Gone /\ \A j \in Keys : tree[j] >= listing[j]]_prefixVars

(* Once the bucket rests, fetching again and again brings every object of   *)
(* the bucket to the tree, unless Wipe empties it behind the drift token.   *)
(* (Not that the tree has no others: an object stored by a call that then   *)
(* failed stays when its deletion brings the old listing back.)            *)
EventuallyHeld ==
    <>[](wiped = "no") => <>[](\A k \in Keys : bucket[k] # Gone => tree[k] = bucket[k])
=============================================================================
