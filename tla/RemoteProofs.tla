---------------------------- MODULE RemoteProofs ---------------------------
(***************************************************************************)
(* Proofs about the sources of sys/remote: one payload (RemoteFetch), the   *)
(* objects of an S3 prefix (RemotePrefix) and a working tree of git         *)
(* (RemoteGit).                                                             *)
(***************************************************************************)
EXTENDS RemoteFetch, RemotePrefix, RemoteGit, TLAPS

-----------------------------------------------------------------------------
(* RemoteFetch, for any number of callers and versions.  The token is compared *)
(* with what is at the destination; the invariant says what each call has in *)
(* hand on its way there, and that calls that never overlapped are one call. *)

(* TypeOK, a variable at a time; nothing is newer than what upstream serves. *)
FetchTypes ==
    /\ MaxVersion \in Nat \ {0}
    /\ cfg \in Configs
    /\ upstream \in 1..MaxVersion
    /\ dest \in (0..upstream) \cup {Absent, Foreign, Partial}
    /\ revision \in (0..upstream) \cup {NoRev}
    /\ recorded \in {"no", "yes"} /\ overlapped \in {"no", "yes"}
    /\ pc \in [Callers -> Steps]
    /\ cached \in [Callers -> (0..upstream) \cup {NoRev}]
    /\ body \in [Callers -> (0..upstream) \cup {Absent}]
    /\ etag \in [Callers -> (0..upstream) \cup {NoRev}]

(* The steps at which a call has a body, and those after its check.         *)
InHand == {"stream", "unpack", "clearing", "rename", "mode", "revise", "record"}
Past == {"unpack", "clearing", "rename", "mode", "revise", "record"}

(* What a call has in hand is a body; what it compared stands.              *)
BodyInv ==
    \A c \in Callers :
       /\ pc[c] \in InHand => body[c] # Absent
       /\ pc[c] \in Past => Verified(c)
       /\ pc[c] = "record" => revision # NoRev
       /\ pc[c] \in {"unpack", "clearing"} => cfg.kind = "archive"

(* A recorded destination is one a Fetch has reached.                       *)
RecordInv == recorded = "yes" => revision # NoRev

(* Calls that do not overlap: what the one there is has read and got.       *)
AloneInv ==
    overlapped = "no" =>
       /\ \A c, d \in Callers : pc[c] # "idle" /\ pc[d] # "idle" => c = d
       /\ (cfg.kind = "file" => cfg.pin # 0) =>
             \A c \in Callers :
                /\ pc[c] = "get" /\ cfg.kind = "object" => ~NotModified(c)
                /\ pc[c] \in InHand /\ body[c] = Empty => pc[c] = "stream" /\ cfg.kind = "file"
                /\ pc[c] \in InHand /\ body[c] # Empty =>
                      revision <= body[c] /\ etag[c] \in {NoRev, body[c]}
                /\ pc[c] \in {"mode", "revise"} => dest = body[c]

(* The inductive invariant.                                                 *)
FetchInv == FetchTypes /\ BodyInv /\ RecordInv /\ PinnedFileOnly /\ AloneInv /\ TokenNotAhead

(* The initial states.                                                      *)
LEMMA FetchInit0 == ASSUME MaxVersion \in Nat \ {0} PROVE Init => FetchInv
<1> SUFFICES ASSUME Init PROVE FetchInv
  OBVIOUS
<1>1. FetchTypes
  BY DEF Init, FetchTypes, Absent, Foreign, NoRev, Steps
<1>2. BodyInv /\ RecordInv /\ PinnedFileOnly
  BY DEF Init, BodyInv, RecordInv, PinnedFileOnly, InHand, Past
<1>3. AloneInv
  BY DEF Init, AloneInv, InHand
<1>4. TokenNotAhead
  BY DEF Init, TokenNotAhead, Absent, Foreign, Empty
<1> QED
  BY <1>1, <1>2, <1>3, <1>4 DEF FetchInv

(* A call that returns has no locals left.                                  *)
LEMMA ReturnTypes ==
    ASSUME FetchTypes, NEW c \in Callers, Return(c), UNCHANGED upstream
    PROVE  /\ pc' \in [Callers -> Steps]
           /\ cached' \in [Callers -> (0..upstream') \cup {NoRev}]
           /\ body' \in [Callers -> (0..upstream') \cup {Absent}]
           /\ etag' \in [Callers -> (0..upstream') \cup {NoRev}]
BY DEF FetchTypes, Return, Goto, Steps

(* Every step keeps the types.                                              *)
LEMMA FetchTypesStep == FetchTypes /\ Next => FetchTypes'
<1> SUFFICES ASSUME FetchTypes, Next PROVE FetchTypes'
  OBVIOUS
<1>1. CASE Publish
  <2>1. upstream' \in 1..MaxVersion /\ \A n \in 0..upstream : n \in 0..upstream'
    BY <1>1 DEF Publish, FetchTypes
  <2> QED
    BY <1>1, <2>1 DEF Publish, FetchTypes, callVars
<1>2. CASE OtherProgramWrites
  BY <1>2 DEF OtherProgramWrites, FetchTypes, worldVars, callVars
<1>3. CASE Crash
  BY <1>3 DEF Crash, FetchTypes, worldVars, Steps
<1>4. ASSUME NEW c \in Callers, FetchStarts(c) \/ WipeStarts(c) PROVE FetchTypes'
  BY <1>4 DEF FetchStarts, WipeStarts, Starts, Goto, FetchTypes, Steps, callVars
<1>5. ASSUME NEW c \in Callers,
             \/ HeadUnchanged(c) \/ FetchFails(c) \/ ClearFails(c) \/ RecordDest(c)
             \/ WipeFails(c) \/ ForgetDest(c)
      PROVE  FetchTypes'
  BY <1>5, ReturnTypes DEF HeadUnchanged, FetchFails, ClearFails, RecordDest, WipeFails, ForgetDest,
     FetchTypes, worldVars
<1>6. ASSUME NEW c \in Callers,
             HeadChanged(c) \/ StreamToTmp(c) \/ Unpack(c) \/ Clear(c) \/ ApplyMode(c) \/ RemoveAll(c)
      PROVE  FetchTypes'
  BY <1>6 DEF HeadChanged, StreamToTmp, Unpack, Clear, ApplyMode, RemoveAll, Goto, Steps,
     FetchTypes, worldVars, callVars
<1>7. ASSUME NEW c \in Callers, GetBody(c) PROVE FetchTypes'
  BY <1>7 DEF GetBody, Goto, Steps, FetchTypes, worldVars
<1>8. ASSUME NEW c \in Callers, GetNotModified(c) PROVE FetchTypes'
  BY <1>8, ReturnTypes DEF GetNotModified, Goto, Steps, FetchTypes, worldVars, Empty
<1>9. ASSUME NEW c \in Callers, Rename(c) PROVE FetchTypes'
  BY <1>9 DEF Rename, Goto, Steps, FetchTypes, worldVars, callVars
<1>10. ASSUME NEW c \in Callers, SetRevision(c) PROVE FetchTypes'
  BY Zenon, <1>10 DEF SetRevision, Goto, Steps, FetchTypes, worldVars, callVars, Absent, NoRev
<1> QED
  BY <1>1, <1>2, <1>3, <1>4, <1>5, <1>6, <1>7, <1>8, <1>9, <1>10 DEF Next, Fetch, Wipe

(* Every step keeps what is known of a call by itself.                      *)
LEMMA BodyStep == FetchInv /\ Next => BodyInv' /\ RecordInv'
<1> SUFFICES ASSUME FetchInv, Next PROVE BodyInv' /\ RecordInv'
  OBVIOUS
<1> USE DEF FetchInv, BodyInv, RecordInv
<1>1. CASE Publish
  BY <1>1 DEF Publish, callVars, Verified
<1>2. CASE OtherProgramWrites
  BY <1>2 DEF OtherProgramWrites, worldVars, callVars, Verified
<1>3. CASE Crash
  BY <1>3 DEF Crash, worldVars, InHand, Past
<1>4. ASSUME NEW c \in Callers, FetchStarts(c) \/ WipeStarts(c) PROVE BodyInv' /\ RecordInv'
  BY Zenon, <1>4 DEF FetchStarts, WipeStarts, Starts, Goto, FetchTypes, callVars, Verified, InHand, Past
<1>5. ASSUME NEW c \in Callers,
             \/ HeadUnchanged(c) \/ FetchFails(c) \/ ClearFails(c) \/ WipeFails(c) \/ RecordDest(c)
             \/ ForgetDest(c)
      PROVE  BodyInv' /\ RecordInv'
  BY <1>5 DEF HeadUnchanged, FetchFails, ClearFails, RecordDest, WipeFails, ForgetDest,
     Return, Goto, FetchTypes, worldVars, Verified, InHand, Past
<1>6. ASSUME NEW c \in Callers,
             HeadChanged(c) \/ StreamToTmp(c) \/ Unpack(c) \/ Clear(c) \/ ApplyMode(c) \/ RemoveAll(c)
      PROVE  BodyInv' /\ RecordInv'
  BY <1>6 DEF HeadChanged, StreamToTmp, Unpack, Clear, ApplyMode, RemoveAll, Goto,
     FetchTypes, worldVars, callVars, Verified, InHand, Past
<1>7. ASSUME NEW c \in Callers, GetBody(c) PROVE BodyInv' /\ RecordInv'
  BY <1>7 DEF GetBody, Goto, FetchTypes, worldVars, Verified, InHand, Past, Absent
<1>8. ASSUME NEW c \in Callers, GetNotModified(c) PROVE BodyInv' /\ RecordInv'
  BY <1>8 DEF GetNotModified, Return, Goto, FetchTypes, worldVars, Verified, InHand, Past, Absent, Empty
<1>9. ASSUME NEW c \in Callers, Rename(c) PROVE BodyInv' /\ RecordInv'
  BY <1>9 DEF Rename, Goto, FetchTypes, worldVars, callVars, Verified, InHand, Past
<1>10. ASSUME NEW c \in Callers, SetRevision(c) PROVE BodyInv' /\ RecordInv'
  BY Zenon, <1>10 DEF SetRevision, Goto, FetchTypes, worldVars, callVars, Verified, InHand, Past, Absent, NoRev
<1> QED
  BY <1>1, <1>2, <1>3, <1>4, <1>5, <1>6, <1>7, <1>8, <1>9, <1>10 DEF Next, Fetch, Wipe

(* Only Rename brings a version to the destination, and it is the pinned one. *)
LEMMA PinStep == FetchInv /\ Next => PinnedFileOnly'
<1> SUFFICES ASSUME FetchInv, Next PROVE PinnedFileOnly'
  BY Zenon
<1>a. cfg' = cfg
    BY DEF Next, Publish, OtherProgramWrites, Crash, Fetch, Wipe, worldVars, FetchStarts, WipeStarts,
       HeadUnchanged, HeadChanged, GetBody, GetNotModified, StreamToTmp, Unpack, Clear, ClearFails, Rename,
       ApplyMode, FetchFails, SetRevision, RecordDest, RemoveAll, WipeFails, ForgetDest
<1> SUFFICES ASSUME cfg.kind = "file", cfg.pin # 0
             PROVE  dest' \in {Absent, Foreign, Partial, cfg.pin}
  BY <1>a DEF PinnedFileOnly
<1>1. dest \in {Absent, Foreign, Partial, cfg.pin}
  BY DEF FetchInv, PinnedFileOnly
<1>2. CASE dest' \in {dest, Absent, Foreign, Partial}
  BY <1>1, <1>2
<1>3. ASSUME NEW c \in Callers, Rename(c) PROVE dest' = cfg.pin
  BY Zenon, <1>3 DEF Rename, FetchInv, BodyInv, Past, Verified
<1> QED
  BY <1>1, <1>2, <1>3 DEF Next, Publish, OtherProgramWrites, Crash, Fetch, Wipe, FetchStarts, WipeStarts,
       HeadUnchanged, HeadChanged, GetBody, GetNotModified, StreamToTmp, Unpack, Clear, ClearFails,
       ApplyMode, FetchFails, SetRevision, RecordDest, RemoveAll, WipeFails, ForgetDest

(* The calls that run: none of the others gets between.                     *)
LEMMA AloneStep == FetchInv /\ Next => AloneInv' /\ TokenNotAhead'
<1> SUFFICES ASSUME FetchInv, Next PROVE AloneInv' /\ TokenNotAhead'
  OBVIOUS
<1> USE DEF FetchInv, AloneInv, TokenNotAhead
<1>1. CASE Publish
  <2>1. \A c \in Callers : cached[c] # upstream'
    BY <1>1 DEF Publish, FetchTypes, NoRev
  <2> QED
    BY <1>1, <2>1 DEF Publish, callVars, NotModified
<1>2. CASE OtherProgramWrites
  <2>1. \A c \in Callers : pc[c] \notin {"mode", "revise"} \/ overlapped = "yes"
         \/ (cfg.kind = "file" /\ cfg.pin = 0)
    BY <1>2 DEF OtherProgramWrites, BodyInv, InHand, FetchTypes
  <2> QED
    BY <1>2, <2>1 DEF OtherProgramWrites, worldVars, callVars, NotModified, FetchTypes, Foreign, Empty
<1>3. CASE Crash
  BY <1>3 DEF Crash, worldVars, InHand, NoRev, Empty, FetchTypes, Partial, Absent, Foreign
<1>4. ASSUME NEW c \in Callers, FetchStarts(c) \/ WipeStarts(c) PROVE AloneInv' /\ TokenNotAhead'
  BY <1>4 DEF FetchStarts, WipeStarts, Starts, Goto, FetchTypes, callVars, NotModified, InHand, NoRev
<1>5. ASSUME NEW c \in Callers,
             \/ HeadUnchanged(c) \/ FetchFails(c) \/ RecordDest(c) \/ ForgetDest(c)
      PROVE  AloneInv' /\ TokenNotAhead'
  BY <1>5 DEF HeadUnchanged, FetchFails, RecordDest, ForgetDest,
     Return, Goto, FetchTypes, worldVars, NotModified, InHand
<1>6. ASSUME NEW c \in Callers, ClearFails(c) \/ WipeFails(c) PROVE AloneInv' /\ TokenNotAhead'
  BY <1>6 DEF ClearFails, WipeFails, Return, Goto, FetchTypes, worldVars, NotModified, InHand, Partial, Empty
<1>7. ASSUME NEW c \in Callers, HeadChanged(c) \/ StreamToTmp(c) PROVE AloneInv' /\ TokenNotAhead'
  BY <1>7 DEF HeadChanged, StreamToTmp, Verified, Goto, FetchTypes, worldVars, callVars,
       NotModified, InHand, Empty
<1>8. ASSUME NEW c \in Callers, Unpack(c) \/ ApplyMode(c) PROVE AloneInv' /\ TokenNotAhead'
  BY <1>8 DEF Unpack, ApplyMode, Goto, FetchTypes, worldVars, callVars, NotModified, InHand
<1>9. ASSUME NEW c \in Callers, Clear(c) \/ RemoveAll(c) PROVE AloneInv' /\ TokenNotAhead'
  BY <1>9 DEF Clear, RemoveAll, Goto, FetchTypes, worldVars, callVars, NotModified, InHand, Absent, Empty
<1>10. ASSUME NEW c \in Callers, GetBody(c) PROVE AloneInv' /\ TokenNotAhead'
  BY <1>10 DEF GetBody, Goto, FetchTypes, worldVars, NotModified, InHand, Empty, NoRev
<1>11. ASSUME NEW c \in Callers, GetNotModified(c) PROVE AloneInv' /\ TokenNotAhead'
  BY SMTT(30), <1>11 DEF GetNotModified, Return, Goto, FetchTypes, Configs, worldVars,
       NotModified, InHand, Empty
<1>12. ASSUME NEW c \in Callers, Rename(c) PROVE AloneInv' /\ TokenNotAhead'
  BY <1>12 DEF Rename, Goto, FetchTypes, worldVars, callVars, NotModified, InHand, Empty, BodyInv
<1>13. ASSUME NEW c \in Callers, SetRevision(c) PROVE AloneInv' /\ TokenNotAhead'
  BY <1>13 DEF SetRevision, Goto, FetchTypes, worldVars, callVars, NotModified, InHand, Empty, NoRev, BodyInv
<1> QED
  BY Zenon, <1>1, <1>2, <1>3, <1>4, <1>5, <1>6, <1>7, <1>8, <1>9, <1>10, <1>11, <1>12,
       <1>13 DEF Next, Fetch, Wipe

(* A step of something else.                                                *)
LEMMA FetchStutter == FetchInv /\ UNCHANGED vars => FetchInv'
BY DEF vars, FetchInv, FetchTypes, BodyInv, RecordInv, PinnedFileOnly, AloneInv, TokenNotAhead,
     Verified, NotModified

(* The invariant is one of every behaviour of Fetch and Wipe.               *)
LEMMA FetchInvariant == ASSUME MaxVersion \in Nat \ {0} PROVE Spec => []FetchInv
<1>1. FetchInv /\ [Next]_vars => FetchInv'
  <2> SUFFICES ASSUME FetchInv, [Next]_vars PROVE FetchInv'
    OBVIOUS
  <2>1. CASE Next
    BY <2>1, FetchTypesStep, BodyStep, PinStep, AloneStep DEF FetchInv
  <2>2. CASE UNCHANGED vars
    BY <2>2, FetchStutter
  <2> QED
    BY <2>1, <2>2
<1> QED
  BY <1>1, FetchInit0, PTL DEF Spec

(* However calls, versions, failures and crashes interleave, nothing but the *)
(* pinned version of a pinned file reaches the destination, and, unless calls *)
(* overlapped, the drift token is not ahead of what is there (Fetch, StreamToTmp, *)
(* SetRevision).                                                            *)
THEOREM FetchStaysHonest ==
    ASSUME MaxVersion \in Nat \ {0}
    PROVE  Spec => [](TypeOK /\ PinnedFileOnly /\ TokenNotAhead)
<1>1. FetchInv => TypeOK
  <2> SUFFICES ASSUME FetchInv PROVE TypeOK
    OBVIOUS
  <2>1. \A n \in 0..upstream : n \in Versions \cup {Empty}
    BY DEF FetchInv, FetchTypes, Versions, Empty
  <2> QED
    BY <2>1 DEF FetchInv, FetchTypes, TypeOK, Versions
<1>2. FetchInv => PinnedFileOnly /\ TokenNotAhead
  BY DEF FetchInv
<1> QED
  BY <1>1, <1>2, FetchInvariant, PTL

(* Wipe of a destination outside the managed roots is refused unless a Fetch *)
(* of this process reached its end there (canWipe, recordDest), for any number *)
(* of callers.                                                              *)
THEOREM WipesOnlyFetched == ASSUME MaxVersion \in Nat \ {0} PROVE Spec => WipeOnlyFetched
<1>1. FetchInv /\ [Next]_vars =>
        [\A c \in Callers :
          pc[c] = "idle" /\ pc'[c] = "wiping" => cfg.managed = "yes" \/ revision # NoRev]_vars
  <2> SUFFICES ASSUME FetchInv, Next, NEW c \in Callers, pc[c] = "idle", pc'[c] = "wiping"
               PROVE  cfg.managed = "yes" \/ revision # NoRev
    BY Zenon DEF vars
  <2>1. CanWipe
    BY Zenon DEF FetchInv, FetchTypes, Next, Publish, OtherProgramWrites, Crash, Fetch, Wipe,
         FetchStarts, WipeStarts,
       HeadUnchanged, HeadChanged, GetBody, GetNotModified, StreamToTmp, Unpack, Clear, ClearFails, Rename,
       ApplyMode, FetchFails, SetRevision, RecordDest, RemoveAll, WipeFails, ForgetDest, Return, Goto, Starts
  <2> QED
    BY <2>1 DEF CanWipe, FetchInv, RecordInv
<1> QED
  BY <1>1, FetchInvariant, PTL DEF Spec, WipeOnlyFetched

-----------------------------------------------------------------------------
(* RemotePrefix, for any keys and any number of puts and failures.  No two  *)
(* puts make the same object: an object that the bucket still has as it was *)
(* listed cannot have been replaced while it was got.                       *)

(* PrefixTypeOK, a variable at a time; no object is newer than the last put. *)
PrefixTypes ==
    /\ MaxPuts \in Nat /\ MaxFaults \in Nat /\ Keys \subseteq Nat
    /\ sync \in [prune : {"no", "yes"}, managed : {"no", "yes"}]
    /\ puts \in 0..MaxPuts
    /\ bucket \in [Keys -> 0..puts] /\ tree \in [Keys -> 0..puts] /\ listing \in [Keys -> 0..puts]
    /\ token = NoToken \/ token \in [Keys -> 0..puts]
    /\ faults \in 0..MaxFaults
    /\ known \in {"no", "yes"} /\ wiped \in {"no", "yes"}
    /\ step \in {"idle", "list", "get", "finish"}
    /\ todo \in SUBSET Keys

(* The keys whose page the call has read, and those it has got.             *)
Listed(k) == step \in {"get", "finish"} \/ (step = "list" /\ k \notin todo)
Got(k) == listing[k] # Gone /\ (step = "finish" \/ (step = "get" /\ k \notin todo))

(* What the bucket has for a key is not older than what was read of it.     *)
PageInv ==
    /\ step = "finish" => todo = {}
    /\ \A k \in Keys :
       /\ bucket[k] # Gone => listing[k] <= bucket[k]
       /\ Listed(k) /\ token # NoToken /\ token[k] # Gone /\ bucket[k] = token[k] => listing[k] = token[k]
       /\ Got(k) => listing[k] <= tree[k] /\ (bucket[k] = listing[k] => tree[k] = listing[k])

(* The inductive invariant.                                                 *)
PrefixInv == PrefixTypes /\ PageInv /\ TreeNotBehind

(* The initial states.                                                      *)
LEMMA PrefixInit0 ==
    ASSUME MaxPuts \in Nat, MaxFaults \in Nat, Keys \subseteq Nat
    PROVE  PrefixInit => PrefixInv
<1> SUFFICES ASSUME PrefixInit PROVE PrefixInv
  OBVIOUS
<1>1. PrefixTypes
  BY DEF PrefixInit, PrefixTypes, NoObjects, Gone
<1>2. PageInv
  BY DEF PrefixInit, PageInv, NoObjects, Gone, Listed, Got
<1>3. TreeNotBehind
  BY DEF PrefixInit, TreeNotBehind
<1> QED
  BY <1>1, <1>2, <1>3 DEF PrefixInv

(* The bound on the failures.                                               *)
LEMMA FaultsStep == PrefixTypes /\ PrefixFault => faults' \in 0..MaxFaults
BY DEF PrefixTypes, PrefixFault

(* A put is newer than all there is.                                        *)
LEMMA PutStep == ASSUME PrefixInv, NEW k \in Keys, Put(k) PROVE PrefixInv'
<1> USE DEF PrefixInv
<1>0. /\ puts \in Nat /\ puts' = puts + 1 /\ puts' \in 0..MaxPuts
      /\ bucket' = [bucket EXCEPT ![k] = puts + 1]
      /\ \A n \in 0..puts : n \in 0..puts' /\ n # puts + 1 /\ n < puts + 1
      /\ UNCHANGED <<sync, tree, step, listing, todo, token, known, wiped, faults>>
  BY DEF Put, PrefixTypes, prefixCallVars, ledgerVars
<1>1. PrefixTypes'
  BY <1>0 DEF PrefixTypes
<1>2. PageInv'
  BY <1>0 DEF PrefixTypes, PageInv, Listed, Got, Gone
<1>3. TreeNotBehind'
  BY SMTT(30), <1>0 DEF PrefixTypes, TreeNotBehind, Gone
<1> QED
  BY <1>1, <1>2, <1>3

(* Every step keeps the types.                                              *)
LEMMA PrefixTypesStep == PrefixInv /\ PrefixNext => PrefixTypes'
<1> SUFFICES ASSUME PrefixInv, PrefixNext PROVE PrefixTypes'
  OBVIOUS
<1> USE DEF PrefixInv, PrefixTypes
<1>1. ASSUME NEW k \in Keys, Delete(k) PROVE PrefixTypes'
  BY <1>1 DEF Delete, prefixCallVars, ledgerVars, Gone
<1>2. CASE PrefixStarts \/ Drifted \/ NoPrune
  BY Zenon, <1>2 DEF PrefixStarts, Drifted, NoPrune, bucketVars, ledgerVars
<1>3. CASE ListPage
  BY <1>3 DEF ListPage, bucketVars, ledgerVars
<1>4. CASE Unchanged \/ PrefixRefused
  BY <1>4 DEF Unchanged, PrefixRefused, PrefixReturns, NoObjects, Gone, bucketVars, ledgerVars
<1>5. CASE GetObject
  BY <1>5 DEF GetObject, bucketVars, ledgerVars
<1>6. CASE Prune
  BY <1>6 DEF Prune, Gone, bucketVars, ledgerVars
<1>7. CASE PruneFails
  BY <1>7, FaultsStep DEF PruneFails, PrefixReturns, NoObjects, Gone, bucketVars
<1>8. CASE PrefixDone
  BY <1>8 DEF PrefixDone, NewToken, PrefixReturns, NoObjects, Gone, bucketVars
<1>9. CASE PrefixFails
  BY <1>9, FaultsStep DEF PrefixFails, PrefixReturns, NoObjects, Gone, bucketVars
<1>10. CASE PrefixWipe
  BY <1>10 DEF PrefixWipe, NoObjects, Gone, bucketVars, prefixCallVars
<1>11. CASE PrefixWipeFails
  BY <1>11, FaultsStep DEF PrefixWipeFails, Gone, bucketVars, prefixCallVars
<1>12. CASE PrefixCrash
  BY <1>12, FaultsStep DEF PrefixCrash, PrefixReturns, NoObjects, Gone, bucketVars
<1> QED
  BY Zenon, <1>1, <1>2, <1>3, <1>4, <1>5, <1>6, <1>7, <1>8, <1>9, <1>10, <1>11, <1>12,
       PutStep DEF PrefixNext, PrefixCall

(* Between calls nothing is listed and nothing got.                         *)
LEMMA ReturnsPage == PrefixTypes /\ PrefixReturns /\ UNCHANGED bucketVars => PageInv'
BY DEF PrefixTypes, PrefixReturns, PageInv, Listed, Got, NoObjects, Gone, bucketVars

(* Every step keeps what is known of the pages and of the objects got.      *)
LEMMA PageStep == PrefixInv /\ PrefixNext => PageInv'
<1> SUFFICES ASSUME PrefixInv, PrefixNext PROVE PageInv'
  OBVIOUS
<1> USE DEF PrefixInv
<1>1. ASSUME NEW k \in Keys, Delete(k) PROVE PageInv'
  BY <1>1 DEF PrefixTypes, PageInv, Listed, Got, Delete, prefixCallVars, ledgerVars, Gone
<1>2. CASE PrefixStarts
  BY <1>2 DEF PrefixTypes, PageInv, Listed, Got, PrefixStarts, bucketVars, ledgerVars
<1>3. CASE Drifted
  BY <1>3 DEF PrefixTypes, PageInv, Listed, Got, Drifted, bucketVars, ledgerVars
<1>4. CASE ListPage
  <2>1. PICK k \in todo : /\ Foremost(k) /\ listing' = [listing EXCEPT ![k] = bucket[k]]
                          /\ todo' = todo \ {k}
    BY Zenon, <1>4 DEF ListPage
  <2> QED
    BY <1>4, <2>1 DEF PrefixTypes, PageInv, Listed, Got, ListPage, bucketVars, ledgerVars
<1>5. CASE GetObject
  <2>1. PICK k \in todo : /\ bucket[k] # Gone /\ tree' = [tree EXCEPT ![k] = bucket[k]]
                          /\ todo' = todo \ {k}
    BY Zenon, <1>5 DEF GetObject
  <2> QED
    BY <1>5, <2>1 DEF PrefixTypes, PageInv, Listed, Got, GetObject, bucketVars, ledgerVars
<1>6. CASE Prune
  BY <1>6 DEF PrefixTypes, PageInv, Listed, Got, Prune, Stored, bucketVars, ledgerVars
<1>7. CASE NoPrune
  BY <1>7 DEF PrefixTypes, PageInv, Listed, Got, NoPrune, Stored, bucketVars, ledgerVars
<1>8. CASE Unchanged \/ PrefixRefused \/ PruneFails \/ PrefixDone \/ PrefixFails \/ PrefixCrash
  BY <1>8, ReturnsPage DEF Unchanged, PrefixRefused, PruneFails, PrefixDone, PrefixFails, PrefixCrash
<1>9. CASE PrefixWipe \/ PrefixWipeFails
  BY <1>9 DEF PageInv, Listed, Got, PrefixWipe, PrefixWipeFails, bucketVars, prefixCallVars
<1> QED
  BY <1>1, <1>2, <1>3, <1>4, <1>5, <1>6, <1>7, <1>8, <1>9, PutStep DEF PrefixNext, PrefixCall

(* Every step keeps the tree up with the token.                             *)
LEMMA TokenStep == PrefixInv /\ PrefixNext => TreeNotBehind'
<1> SUFFICES ASSUME PrefixInv, PrefixNext PROVE TreeNotBehind'
  OBVIOUS
<1> USE DEF PrefixInv
<1>1. ASSUME NEW k \in Keys, Delete(k) PROVE TreeNotBehind'
  BY Zenon, <1>1 DEF PrefixTypes, TreeNotBehind, Delete, ledgerVars, Gone
<1>2. CASE PrefixStarts \/ Drifted \/ ListPage \/ NoPrune \/ Unchanged \/ PrefixRefused \/ PrefixFails
  BY <1>2 DEF TreeNotBehind, PrefixStarts, Drifted, ListPage, NoPrune, Unchanged, PrefixRefused,
              PrefixFails, bucketVars, ledgerVars
<1>5. CASE GetObject
  BY Zenon, <1>5 DEF PrefixTypes, TreeNotBehind, GetObject, bucketVars, ledgerVars
<1>6. CASE Prune
  BY <1>6 DEF PrefixTypes, TreeNotBehind, PageInv, Listed, Prune, bucketVars, ledgerVars
<1>7. CASE PruneFails
  BY <1>7 DEF PrefixTypes, TreeNotBehind, PageInv, Listed, PruneFails, bucketVars
<1>8. CASE PrefixDone
  BY <1>8 DEF PrefixTypes, TreeNotBehind, PageInv, Got, PrefixDone, NewToken, bucketVars
<1>9. CASE PrefixWipe \/ PrefixWipeFails
  BY <1>9 DEF TreeNotBehind, PrefixWipe, PrefixWipeFails
<1>10. CASE PrefixCrash
  BY <1>10 DEF TreeNotBehind, PrefixCrash
<1> QED
  BY <1>1, <1>2, <1>5, <1>6, <1>7, <1>8, <1>9, <1>10, PutStep DEF PrefixNext, PrefixCall

(* A step of something else.                                                *)
LEMMA PrefixStutter == PrefixInv /\ UNCHANGED prefixVars => PrefixInv'
BY DEF prefixVars, PrefixInv, PrefixTypes, PageInv, TreeNotBehind, Listed, Got

(* The invariant is one of every behaviour of fetchPrefix.                  *)
LEMMA PrefixInvariant ==
    ASSUME MaxPuts \in Nat, MaxFaults \in Nat, Keys \subseteq Nat
    PROVE  PrefixSpec => []PrefixInv
<1>1. PrefixInv /\ [PrefixNext]_prefixVars => PrefixInv'
  BY PrefixTypesStep, PageStep, TokenStep, PrefixStutter DEF PrefixInv
<1> QED
  BY <1>1, PrefixInit0, PTL DEF PrefixSpec

(* fetchPrefix: for any keys, puts, deletions and failures, the tree holds every *)
(* object the drift token stands for and the bucket still has, unless Wipe  *)
(* emptied it.                                                              *)
THEOREM TokenNeverCoversUp ==
    ASSUME MaxPuts \in Nat, MaxFaults \in Nat, Keys \subseteq Nat
    PROVE  PrefixSpec => [](PrefixTypeOK /\ TreeNotBehind)
<1>1. PrefixInv => PrefixTypeOK
  <2> SUFFICES ASSUME PrefixInv PROVE PrefixTypeOK
    OBVIOUS
  <2>1. \A n \in 0..puts : n \in Objects
    BY DEF PrefixInv, PrefixTypes, Objects
  <2>2. \A g \in [Keys -> 0..puts] : g \in Listings
    BY <2>1 DEF Listings
  <2> QED
    BY <2>2 DEF PrefixInv, PrefixTypes, PrefixTypeOK, Objects
<1>2. PrefixInv => TreeNotBehind
  BY DEF PrefixInv
<1> QED
  BY <1>1, <1>2, PrefixInvariant, PTL

(* fetchPrefix and pruneTo: an object leaves the tree by Wipe, or when the  *)
(* listing has no key for it and every listed object is in place.           *)
THEOREM PruningLast ==
    ASSUME MaxPuts \in Nat, MaxFaults \in Nat, Keys \subseteq Nat
    PROVE  PrefixSpec => PruneLast
<1>1. PrefixInv /\ [PrefixNext]_prefixVars =>
        [\A k \in Keys : tree[k] # Gone /\ tree'[k] = Gone =>
          \/ wiped = "no" /\ wiped' = "yes"
          \/ wiped = "yes" /\ step = "idle"
          \/ listing[k] = Gone /\ \A j \in Keys : tree[j] >= listing[j]]_prefixVars
  <2> SUFFICES ASSUME PrefixInv, PrefixNext, NEW k \in Keys, tree[k] # Gone, tree'[k] = Gone
               PROVE  \/ wiped = "no" /\ wiped' = "yes"
                      \/ wiped = "yes" /\ step = "idle"
                      \/ listing[k] = Gone /\ \A j \in Keys : tree[j] >= listing[j]
    BY DEF prefixVars
  <2>1. CASE tree' = tree
    BY <2>1
  <2>2. CASE GetObject
    BY <2>2 DEF GetObject, PrefixInv, PrefixTypes
  <2>3. CASE Prune \/ PruneFails
    <3>1. \A j \in Keys : listing[j] # Gone => listing[j] <= tree[j]
      BY <2>3 DEF Prune, PruneFails, Stored, PrefixInv, PageInv, Got
    <3>2. listing[k] = Gone
      BY <2>3 DEF Prune, PruneFails, PrefixInv, PrefixTypes
    <3>3. \A j \in Keys : tree[j] \in Nat /\ listing[j] \in Nat
      BY DEF PrefixInv, PrefixTypes
    <3> QED
      BY <3>1, <3>2, <3>3 DEF Gone
  <2>4. CASE PrefixWipe \/ PrefixWipeFails
    BY <2>4 DEF PrefixWipe, PrefixWipeFails, PrefixInv, PrefixTypes
  <2> QED
    BY <2>1, <2>2, <2>3, <2>4 DEF PrefixNext, PrefixCall, Put, Delete, PrefixStarts, ListPage,
       Unchanged, Drifted, NoPrune, PrefixDone, PrefixRefused, PrefixFails, PrefixCrash
<1> QED
  BY <1>1, PrefixInvariant, PTL DEF PrefixSpec, PruneLast

-----------------------------------------------------------------------------
(* RemoteGit, for any files, commits and trees of theirs.  A checkout removes *)
(* what is not tracked; the invariant says that the additions have been put *)
(* aside by then.                                                           *)

(* GitTypeOK, a variable at a time, and what the constants are.             *)
GitTypes ==
    /\ MaxMishaps \in Nat /\ Commits \subseteq Nat \ {0} /\ Tracked \in [Commits -> SUBSET Files]
    /\ clean \in {"no", "yes"} /\ dotgit \in {"no", "yes"}
    /\ fresh \in {"no", "yes"} /\ torn \in {"no", "yes"}
    /\ origin \in Commits \cup {NoCommit} /\ ref \in Commits \cup {NoCommit}
    /\ head \in Commits \cup {NoCommit} /\ rev \in Commits \cup {NoCommit}
    /\ target \in Commits \cup {NoCommit}
    /\ work \in [Files -> Commits \cup {NoCommit, Local}]
    /\ gitstep \in {"idle", "resolve", "open", "fetch", "target", "checkout", "restore",
                    "clean", "mode"}
    /\ snapshot \subseteq Files /\ additions \subseteq Files
    /\ mishaps \in 0..MaxMishaps

(* The steps after the target was chosen.                                   *)
Later == {"checkout", "restore", "clean", "mode"}

(* Where a call is, what it has: a fresh clone is checked out or removed    *)
(* before the call returns, so that a repository has the ref by then.       *)
CallInv ==
    /\ fresh = "yes" => dotgit = "yes" /\ gitstep \in {"target"} \cup Later
    /\ gitstep \in {"fetch", "target"} \cup Later => dotgit = "yes"
    /\ gitstep \in Later => target \in Commits /\ ref = target
    /\ dotgit = "no" => head = NoCommit /\ ref = NoCommit
    /\ dotgit = "yes" /\ torn = "no" /\ fresh = "no" => ref # NoCommit

(* The paths, unless a checkout was cut short.                              *)
PathsInv ==
    torn = "no" \/ dotgit = "no" =>
        \A f \in Files : work[f] \in IF f \in TrackedAt(head) THEN {head, Local}
                                     ELSE {NoCommit, Local}

(* An addition is there, or was put aside for a checkout under way.         *)
AddedInv ==
    /\ \A f \in additions : f \notin TrackedAt(head)
    /\ dotgit = "no" \/ fresh = "yes" => additions = {}
    /\ clean = "no" /\ gitstep # "restore" => \A f \in additions : work[f] = Local
    /\ clean = "no" /\ gitstep \in {"checkout", "restore"} => additions \subseteq snapshot

(* The inductive invariant.                                                 *)
GitInv == GitTypes /\ CallInv /\ PathsInv /\ AddedInv

(* The initial states.                                                      *)
LEMMA GitInit0 ==
    ASSUME MaxMishaps \in Nat, Commits \subseteq Nat \ {0}, Tracked \in [Commits -> SUBSET Files]
    PROVE  GitInit => GitInv
<1> SUFFICES ASSUME GitInit PROVE GitInv
  OBVIOUS
<1>1. GitTypes
  BY DEF GitInit, GitTypes, NoCommit, Local
<1>2. CallInv
  BY DEF GitInit, CallInv, Later
<1>3. PathsInv
  BY DEF GitInit, PathsInv, TrackedAt
<1>4. AddedInv
  BY DEF GitInit, AddedInv
<1> QED
  BY <1>1, <1>2, <1>3, <1>4 DEF GitInv

(* The bound on the failures.                                               *)
LEMMA MishapsStep == GitTypes /\ GitFault => mishaps' \in 0..MaxMishaps
BY SMTT(30) DEF GitTypes, GitFault

(* Every step keeps the types.                                              *)
LEMMA GitTypesStep == GitTypes /\ CallInv /\ GitNext => GitTypes'
<1> SUFFICES ASSUME GitTypes, CallInv, GitNext PROVE GitTypes'
  OBVIOUS
<1> USE DEF GitTypes
<1>1. ASSUME NEW c \in Commits \cup {NoCommit}, Push(c) PROVE GitTypes'
  BY <1>1 DEF Push, cloneVars, gitCallVars
<1>2. ASSUME NEW f \in Files, AddLocal(f) PROVE GitTypes'
  BY <1>2 DEF AddLocal, cloneVars, gitCallVars
<1>3. CASE GitStarts \/ ResolveOther \/ OpenExisting
  BY <1>3 DEF GitStarts, ResolveOther, OpenExisting, cloneVars, gitCallVars
<1>4. CASE ResolveSame
  BY <1>4 DEF ResolveSame, GitReturns, cloneVars
<1>5. CASE Clone
  BY <1>5 DEF Clone
<1>6. CASE CloneFails
  BY <1>6, MishapsStep DEF CloneFails, RemoveDest, GitReturns, Nothing
<1>7. CASE FetchRefs
  BY <1>7 DEF FetchRefs, gitCallVars
<1>8. CASE UnknownRef
  BY <1>8 DEF UnknownRef, RemoveDest, GitReturns, Nothing, cloneVars
<1>9. CASE AtTarget
  BY <1>9 DEF AtTarget, Cleaned, Untracked, cloneVars
<1>10. CASE SnapshotUntracked
  BY <1>10 DEF SnapshotUntracked, ToPutAside, Untracked, cloneVars
<1>11. CASE Checkout
  BY Zenon, <1>11 DEF Checkout, CheckedOut, CallInv, Later, gitCallVars
<1>12. CASE CheckoutFails
  BY <1>12, MishapsStep DEF CheckoutFails, RemoveDest, GitReturns, Nothing, CheckedOut, CallInv,
       Later, Surviving
<1>13. CASE RestoreUntracked
  BY Zenon, <1>13 DEF RestoreUntracked, cloneVars, gitCallVars
<1>14. CASE RestoreFails
  BY <1>14, MishapsStep DEF RestoreFails, cloneVars, GitReturns, Surviving
<1>15. CASE CleanWorktree
  BY <1>15 DEF CleanWorktree, Cleaned, cloneVars, gitCallVars
<1>16. CASE GitDone
  BY Zenon, <1>16 DEF GitDone, GitReturns, cloneVars
<1>17. CASE GitFails
  BY <1>17, MishapsStep DEF GitFails, GitReturns, cloneVars
<1>18. CASE GitWipe
  BY Zenon, <1>18 DEF GitWipe, RemoveDest, Nothing, gitCallVars
<1>19. CASE GitCrash
  BY Zenon, <1>19, MishapsStep DEF GitCrash, GitReturns, Surviving
<1> QED
  BY Zenon, <1>1, <1>2, <1>3, <1>4, <1>5, <1>6, <1>7, <1>8, <1>9, <1>10, <1>11, <1>12, <1>13, <1>14,
     <1>15, <1>16, <1>17, <1>18, <1>19 DEF GitNext, GitCall

(* Every step keeps what is known of the call and the repository.           *)
LEMMA CallStep == GitInv /\ GitNext => CallInv'
<1> SUFFICES ASSUME GitInv, GitNext PROVE CallInv'
  OBVIOUS
<1> USE DEF GitInv, CallInv, Later
<1>1. ASSUME NEW c \in Commits \cup {NoCommit}, Push(c) PROVE CallInv'
  BY <1>1 DEF Push, cloneVars, gitCallVars
<1>2. ASSUME NEW f \in Files, AddLocal(f) PROVE CallInv'
  BY <1>2 DEF AddLocal, cloneVars, gitCallVars
<1>3. CASE GitStarts \/ ResolveOther \/ OpenExisting
  BY <1>3 DEF GitStarts, ResolveOther, OpenExisting, cloneVars, gitCallVars
<1>4. CASE ResolveSame
  BY <1>4 DEF ResolveSame, GitReturns, cloneVars, GitTypes
<1>5. CASE Clone
  BY <1>5 DEF Clone
<1>6. CASE CloneFails
  BY <1>6 DEF CloneFails, RemoveDest, GitReturns
<1>7. CASE FetchRefs
  BY <1>7 DEF FetchRefs, gitCallVars
<1>8. CASE UnknownRef
  BY <1>8 DEF UnknownRef, RemoveDest, GitReturns, cloneVars, GitTypes
<1>9. CASE AtTarget
  BY <1>9 DEF AtTarget, cloneVars, GitTypes
<1>10. CASE SnapshotUntracked
  BY <1>10 DEF SnapshotUntracked, cloneVars, GitTypes
<1>11. CASE Checkout
  BY <1>11 DEF Checkout, gitCallVars, GitTypes, NoCommit
<1>12. CASE CheckoutFails
  BY <1>12 DEF CheckoutFails, RemoveDest, GitReturns, GitTypes, NoCommit
<1>13. CASE RestoreUntracked
  BY <1>13 DEF RestoreUntracked, cloneVars, gitCallVars
<1>14. CASE RestoreFails
  BY <1>14 DEF RestoreFails, cloneVars, GitReturns, GitTypes, NoCommit
<1>15. CASE CleanWorktree
  BY <1>15 DEF CleanWorktree, cloneVars, gitCallVars
<1>16. CASE GitDone
  BY <1>16 DEF GitDone, GitReturns, cloneVars, GitTypes, NoCommit
<1>17. CASE GitFails
  BY <1>17 DEF GitFails, GitReturns, cloneVars, GitTypes, NoCommit
<1>18. CASE GitWipe
  BY <1>18 DEF GitWipe, RemoveDest, gitCallVars
<1>19. CASE GitCrash
  BY Zenon, <1>19 DEF GitCrash, GitReturns, GitTypes, NoCommit
<1> QED
  BY Zenon, <1>1, <1>2, <1>3, <1>4, <1>5, <1>6, <1>7, <1>8, <1>9, <1>10, <1>11, <1>12, <1>13, <1>14,
     <1>15, <1>16, <1>17, <1>18, <1>19 DEF GitNext, GitCall

(* Clean leaves what is tracked, and RemoveDest nothing.                    *)
LEMMA PathsStep == GitInv /\ GitNext => PathsInv'
<1> SUFFICES ASSUME GitInv, GitNext PROVE PathsInv'
  OBVIOUS
<1> USE DEF GitInv, PathsInv
<1>0. CASE RemoveDest
  BY <1>0 DEF RemoveDest, Nothing, TrackedAt
<1>1. ASSUME NEW c \in Commits \cup {NoCommit}, Push(c) PROVE PathsInv'
  BY <1>1 DEF Push, cloneVars, TrackedAt
<1>2. ASSUME NEW f \in Files, AddLocal(f) PROVE PathsInv'
  BY Zenon, <1>2 DEF AddLocal, cloneVars, TrackedAt, GitTypes
<1>3. CASE GitStarts \/ ResolveOther \/ OpenExisting \/ ResolveSame \/ GitDone \/ GitFails \/ SnapshotUntracked
  BY <1>3 DEF GitStarts, ResolveOther, OpenExisting, ResolveSame, GitDone, GitFails,
       SnapshotUntracked, cloneVars, TrackedAt
<1>5. CASE Clone
  BY Zenon, <1>5 DEF Clone, TrackedAt, CallInv, GitTypes, NoCommit
<1>6. CASE CloneFails
  BY <1>0, <1>6 DEF CloneFails
<1>7. CASE FetchRefs
  BY Zenon, <1>7 DEF FetchRefs, TrackedAt
<1>8. CASE UnknownRef
  BY Zenon, <1>0, <1>8 DEF UnknownRef, cloneVars, TrackedAt
<1>9. CASE AtTarget \/ CleanWorktree
  BY <1>9 DEF AtTarget, CleanWorktree, Cleaned, Untracked, cloneVars, TrackedAt
<1>11. CASE Checkout
  BY Zenon, <1>11 DEF Checkout, CheckedOut, CallInv, Later, TrackedAt, GitTypes, NoCommit
<1>12. CASE CheckoutFails
  BY Zenon, <1>0, <1>12 DEF CheckoutFails, CallInv, Later
<1>13. CASE RestoreUntracked
  BY Zenon, <1>13 DEF RestoreUntracked, cloneVars, TrackedAt
<1>14. CASE RestoreFails
  BY <1>14 DEF RestoreFails, cloneVars, CallInv, Later
<1>18. CASE GitWipe
  BY <1>0, <1>18 DEF GitWipe
<1>19. CASE GitCrash
  BY Zenon, <1>19 DEF GitCrash, TrackedAt
<1> QED
  BY Zenon, <1>1, <1>2, <1>3, <1>5, <1>6, <1>7, <1>8, <1>9, <1>11, <1>12, <1>13, <1>14,
     <1>18, <1>19 DEF GitNext, GitCall

(* Every step keeps the additions, in the tree or put aside.                *)
LEMMA AddedStep == GitInv /\ GitNext => AddedInv'
<1> SUFFICES ASSUME GitInv, GitNext PROVE AddedInv'
  OBVIOUS
<1> USE DEF GitInv, AddedInv
<1>0. CASE RemoveDest
  BY Zenon, <1>0 DEF RemoveDest
<1>1. ASSUME NEW c \in Commits \cup {NoCommit}, Push(c) PROVE AddedInv'
  BY <1>1 DEF Push, cloneVars, gitCallVars, TrackedAt
<1>2. ASSUME NEW f \in Files, AddLocal(f) PROVE AddedInv'
  BY <1>2 DEF AddLocal, cloneVars, gitCallVars, TrackedAt, GitTypes
<1>3. CASE GitStarts \/ ResolveOther \/ OpenExisting
  BY <1>3 DEF GitStarts, ResolveOther, OpenExisting, cloneVars, gitCallVars, TrackedAt
<1>4. CASE ResolveSame \/ GitDone \/ GitFails
  BY Zenon, <1>4 DEF ResolveSame, GitDone, GitFails, GitReturns, cloneVars, TrackedAt
<1>5. CASE Clone
  BY <1>5 DEF Clone
<1>6. CASE CloneFails
  BY Zenon, <1>0, <1>6 DEF CloneFails
<1>7. CASE FetchRefs
  BY <1>7 DEF FetchRefs, gitCallVars, TrackedAt
<1>8. CASE UnknownRef
  BY Zenon, <1>0, <1>8 DEF UnknownRef, GitReturns, cloneVars, TrackedAt
<1>9. CASE AtTarget \/ CleanWorktree
  BY <1>9 DEF AtTarget, CleanWorktree, cloneVars, gitCallVars, TrackedAt
<1>10. CASE SnapshotUntracked
  BY Zenon, <1>10 DEF SnapshotUntracked, ToPutAside, Untracked, cloneVars, TrackedAt, GitTypes
<1>11. CASE Checkout
  BY Zenon, <1>11 DEF Checkout, CallInv, Later, TrackedAt, GitTypes, gitCallVars
<1>12. CASE CheckoutFails
  BY Zenon, <1>0, <1>12 DEF CheckoutFails, Surviving, GitReturns, CallInv, Later
<1>13. CASE RestoreUntracked
  BY <1>13 DEF RestoreUntracked, cloneVars, gitCallVars, TrackedAt, GitTypes
<1>14. CASE RestoreFails
  BY <1>14 DEF RestoreFails, Surviving, GitReturns, cloneVars, CallInv, Later
<1>18. CASE GitWipe
  BY <1>0, <1>18 DEF GitWipe
<1>19. CASE GitCrash
  BY Zenon, <1>19 DEF GitCrash, Surviving, GitReturns
<1> QED
  BY Zenon, <1>1, <1>2, <1>3, <1>4, <1>5, <1>6, <1>7, <1>8, <1>9, <1>10, <1>11, <1>12, <1>13, <1>14,
     <1>18, <1>19 DEF GitNext, GitCall

(* A step of something else.                                                *)
LEMMA GitStutter == GitInv /\ UNCHANGED gitVars => GitInv'
BY DEF gitVars, GitInv, GitTypes, CallInv, PathsInv, AddedInv, TrackedAt

(* The invariant is one of every behaviour of CloneOrSync.                  *)
LEMMA GitInvariant ==
    ASSUME MaxMishaps \in Nat, Commits \subseteq Nat \ {0}, Tracked \in [Commits -> SUBSET Files]
    PROVE  GitSpec => []GitInv
<1>1. GitInv /\ [GitNext]_gitVars => GitInv'
  BY GitTypesStep, CallStep, PathsStep, AddedStep, GitStutter DEF GitInv
<1> QED
  BY <1>1, GitInit0, PTL DEF GitSpec

(* CloneOrSync: between calls a repository has the ref that was asked for and *)
(* the working tree is the one of HEAD, unless a checkout was cut short, for *)
(* any commits, files and failures.                                         *)
THEOREM TreeStaysConsistent ==
    ASSUME MaxMishaps \in Nat, Commits \subseteq Nat \ {0}, Tracked \in [Commits -> SUBSET Files]
    PROVE  GitSpec => [](GitTypeOK /\ NoHalfClone /\ TreeMatchesHead)
<1>1. GitInv => GitTypeOK
  BY DEF GitInv, GitTypes, GitTypeOK
<1>2. GitInv => NoHalfClone
  BY DEF GitInv, CallInv, Later, NoHalfClone, GitTypes
<1>3. GitInv => TreeMatchesHead
  BY DEF GitInv, PathsInv, TreeMatchesHead
<1> QED
  BY <1>1, <1>2, <1>3, GitInvariant, PTL

(* CloneOrSync without Prune keeps the files that were added to the clone:  *)
(* they are put aside before the forced checkout and written back after it. *)
THEOREM AdditionsStay ==
    ASSUME MaxMishaps \in Nat, Commits \subseteq Nat \ {0}, Tracked \in [Commits -> SUBSET Files]
    PROVE  GitSpec => []SyncKeepsAdditions
<1>1. GitInv => SyncKeepsAdditions
  BY DEF GitInv, AddedInv, SyncKeepsAdditions
<1> QED
  BY <1>1, GitInvariant, PTL
=============================================================================
