----------------------------- MODULE RemoteFetch ---------------------------
(***************************************************************************)
(* Source.Fetch and Wipe of sys/remote for one payload and one destination: *)
(* an HTTP file, an HTTP archive (Extract) or one S3 object, called by      *)
(* several goroutines while the origin publishes new versions and the      *)
(* process may die.                                                        *)
(*                                                                         *)
(* A payload is the number of its version.  The origin never publishes a   *)
(* version twice.  An ETag stands for its version; without ETags the drift  *)
(* token is the digest of the payload, which no origin recognises.         *)
(***************************************************************************)
EXTENDS Integers

CONSTANTS
    Callers,        \* goroutines that call Fetch and Wipe
    MaxVersion      \* bound: versions the origin publishes

(* What is at the destination besides a version: nothing, a file or tree    *)
(* that Fetch did not put there, what is left of a half-removed tree, and   *)
(* an empty file.                                                          *)
Absent == -1
Foreign == -2
Partial == -3
Empty == 0
NoRev == -1
Versions == 1..MaxVersion

VARIABLES
    cfg,        \* the configuration of the Source, and of its origin
    upstream,   \* the version the origin serves
    dest,       \* what is at the destination
    revision,   \* h.revision / s.revision: the drift token, or NoRev
    recorded,   \* the destination is in recordedDests
    pc,         \* the step of each caller
    cached,     \* the drift token it read under mu
    body,       \* the payload it has streamed
    etag,       \* the token the origin sent with it
    overlapped  \* two calls were in progress at once

vars == <<cfg, upstream, dest, revision, recorded, pc, cached, body, etag, overlapped>>
worldVars == <<cfg, upstream, overlapped>>
callVars == <<cached, body, etag>>

(* validateHTTPConfig: pruning needs an archive and a pin.  S3 has no pin.  *)
ValidConfig(c) ==
    /\ c.prune = "yes" => c.kind = "archive" /\ c.pin # 0
    /\ c.kind = "object" => c.pin = 0

Configs ==
    {c \in [kind : {"file", "archive", "object"}, pin : 0..MaxVersion, prune : {"no", "yes"},
            tagged : {"no", "yes"}, managed : {"no", "yes"}] : ValidConfig(c)}

Init ==
    /\ cfg \in Configs
    /\ upstream = 1
    /\ dest \in {Absent, Foreign}
    /\ revision = NoRev
    /\ recorded = "no"
    /\ pc = [c \in Callers |-> "idle"]
    /\ cached = [c \in Callers |-> NoRev]
    /\ body = [c \in Callers |-> Absent]
    /\ etag = [c \in Callers |-> NoRev]
    /\ overlapped = "no"

Goto(c, step) == pc' = [pc EXCEPT ![c] = step]

(* The call returns; its locals are gone.                                  *)
Return(c) ==
    /\ Goto(c, "idle")
    /\ cached' = [cached EXCEPT ![c] = NoRev]
    /\ body' = [body EXCEPT ![c] = Absent]
    /\ etag' = [etag EXCEPT ![c] = NoRev]

Starts(c, step) ==
    /\ pc[c] = "idle"
    /\ Goto(c, step)
    /\ overlapped' = IF \E d \in Callers : pc[d] # "idle" THEN "yes" ELSE overlapped

-----------------------------------------------------------------------------
(* The origin and other programs.                                          *)

Publish ==
    /\ upstream < MaxVersion
    /\ upstream' = upstream + 1
    /\ UNCHANGED <<cfg, dest, revision, recorded, pc, callVars, overlapped>>

OtherProgramWrites ==
    /\ dest = Absent
    /\ dest' = Foreign
    /\ UNCHANGED <<worldVars, revision, recorded, pc, callVars>>

(* The agent dies; a Wipe or swap under way may leave half a tree.  Sources *)
(* and recordedDests live in the process.                                  *)
Crash ==
    /\ pc' = [c \in Callers |-> "idle"]
    /\ revision' = NoRev
    /\ recorded' = "no"
    /\ cached' = [c \in Callers |-> NoRev]
    /\ body' = [c \in Callers |-> Absent]
    /\ etag' = [c \in Callers |-> NoRev]
    /\ dest' \in {dest} \cup
         IF dest # Absent /\ \E c \in Callers : pc[c] \in {"clearing", "wiping"}
         THEN {Partial} ELSE {}
    /\ UNCHANGED worldVars

-----------------------------------------------------------------------------
(* Fetch.                                                                  *)

(* The destination is validated (a refused one ends the call with nothing   *)
(* done) and the drift token read.                                         *)
FetchStarts(c) ==
    /\ Starts(c, IF revision = NoRev THEN "get" ELSE "head")
    /\ cached' = [cached EXCEPT ![c] = revision]
    /\ UNCHANGED <<cfg, upstream, dest, revision, recorded, body, etag>>

NotModified(c) == cfg.tagged = "yes" /\ cached[c] = upstream

(* The conditional HEAD.  304: the call returns Changed=false.              *)
HeadUnchanged(c) ==
    /\ pc[c] = "head"
    /\ NotModified(c)
    /\ Return(c)
    /\ UNCHANGED <<worldVars, dest, revision, recorded>>

(* Another answer: on to the GET.  The origin of an HTTP source may answer  *)
(* a HEAD with a status of its own; S3 takes anything but 200 for an error. *)
HeadChanged(c) ==
    /\ pc[c] = "head"
    /\ cfg.kind = "object" => ~NotModified(c)
    /\ Goto(c, "get")
    /\ UNCHANGED <<worldVars, dest, revision, recorded, callVars>>

(* The conditional GET of the current version.                             *)
GetBody(c) ==
    /\ pc[c] = "get"
    /\ ~NotModified(c)
    /\ body' = [body EXCEPT ![c] = upstream]
    /\ etag' = [etag EXCEPT ![c] = IF cfg.tagged = "yes" THEN upstream ELSE NoRev]
    /\ Goto(c, "stream")
    /\ UNCHANGED <<worldVars, dest, revision, recorded, cached>>

(* 304 to the GET: fetchArchive returns Changed=false; openBody and         *)
(* openObject hand an empty body to the rest of Fetch.                     *)
GetNotModified(c) ==
    /\ pc[c] = "get"
    /\ NotModified(c)
    /\ \/ /\ cfg.kind = "archive"
          /\ Return(c)
       \/ /\ cfg.kind # "archive"
          /\ body' = [body EXCEPT ![c] = Empty]
          /\ etag' = [etag EXCEPT ![c] = cached[c]]
          /\ Goto(c, "stream")
          /\ UNCHANGED cached
    /\ UNCHANGED <<worldVars, dest, revision, recorded>>

(* The pin is compared for single files.                                   *)
Verified(c) == cfg.kind = "file" /\ cfg.pin # 0 => body[c] = cfg.pin

(* The body is streamed to a temporary file beside the destination and      *)
(* verified.                                                               *)
StreamToTmp(c) ==
    /\ pc[c] = "stream"
    /\ Verified(c)
    /\ Goto(c, IF cfg.kind = "archive" THEN "unpack" ELSE "rename")
    /\ UNCHANGED <<worldVars, dest, revision, recorded, callVars>>

(* An archive is unpacked into a staging directory, entry by entry; an      *)
(* entry that is refused ends the call.                                    *)
Unpack(c) ==
    /\ pc[c] = "unpack"
    /\ Goto(c, "clearing")
    /\ UNCHANGED <<worldVars, dest, revision, recorded, callVars>>

(* Archives: what is at the destination is removed.                        *)
Clear(c) ==
    /\ pc[c] = "clearing"
    /\ dest' = Absent
    /\ Goto(c, "rename")
    /\ UNCHANGED <<worldVars, revision, recorded, callVars>>

(* RemoveAll fails on its way.                                             *)
ClearFails(c) ==
    /\ pc[c] = "clearing"
    /\ dest # Absent
    /\ dest' \in {dest, Partial}
    /\ Return(c)
    /\ UNCHANGED <<worldVars, revision, recorded>>

(* Neither a tree nor a file can be renamed over a tree.                   *)
Rename(c) ==
    /\ pc[c] = "rename"
    /\ IF cfg.kind = "archive" THEN dest = Absent ELSE dest # Partial
    /\ dest' = body[c]
    /\ Goto(c, "mode")
    /\ UNCHANGED <<worldVars, revision, recorded, callVars>>

ApplyMode(c) ==
    /\ pc[c] = "mode"
    /\ Goto(c, "revise")
    /\ UNCHANGED <<worldVars, dest, revision, recorded, callVars>>

(* A request, the stream, the unpacking, the rename or the mode fails: the  *)
(* temporary file and the staging directory are removed.                   *)
FetchFails(c) ==
    /\ pc[c] \in {"head", "get", "stream", "unpack", "rename", "mode"}
    /\ Return(c)
    /\ UNCHANGED <<worldVars, dest, revision, recorded>>

(* The drift token is the ETag, or the digest of what was streamed.        *)
SetRevision(c) ==
    /\ pc[c] = "revise"
    /\ revision' = IF etag[c] = NoRev THEN body[c] ELSE etag[c]
    /\ Goto(c, "record")
    /\ UNCHANGED <<worldVars, dest, recorded, callVars>>

RecordDest(c) ==
    /\ pc[c] = "record"
    /\ recorded' = "yes"
    /\ Return(c)
    /\ UNCHANGED <<worldVars, dest, revision>>

-----------------------------------------------------------------------------
(* Wipe.                                                                   *)

(* Mutant of CanWipe: any destination will do.                             *)
CanWipeAnything == TRUE

CanWipe == "yes" \in {cfg.managed, recorded}

WipeStarts(c) ==
    /\ CanWipe
    /\ Starts(c, "wiping")
    /\ UNCHANGED <<cfg, upstream, dest, revision, recorded, callVars>>

RemoveAll(c) ==
    /\ pc[c] = "wiping"
    /\ dest' = Absent
    /\ Goto(c, "forget")
    /\ UNCHANGED <<worldVars, revision, recorded, callVars>>

WipeFails(c) ==
    /\ pc[c] = "wiping"
    /\ dest # Absent
    /\ dest' \in {dest, Partial}
    /\ Return(c)
    /\ UNCHANGED <<worldVars, revision, recorded>>

ForgetDest(c) ==
    /\ pc[c] = "forget"
    /\ recorded' = "no"
    /\ Return(c)
    /\ UNCHANGED <<worldVars, dest, revision>>

-----------------------------------------------------------------------------
Fetch(c) ==
    \/ FetchStarts(c) \/ HeadUnchanged(c) \/ HeadChanged(c)
    \/ GetBody(c) \/ GetNotModified(c)
    \/ StreamToTmp(c) \/ Unpack(c) \/ Clear(c) \/ ClearFails(c)
    \/ Rename(c) \/ ApplyMode(c) \/ FetchFails(c) \/ SetRevision(c) \/ RecordDest(c)

Wipe(c) == WipeStarts(c) \/ RemoveAll(c) \/ WipeFails(c) \/ ForgetDest(c)

Next ==
    \/ Publish \/ OtherProgramWrites \/ Crash
    \/ \E c \in Callers : Fetch(c) \/ Wipe(c)

Spec == Init /\ [][Next]_vars

-----------------------------------------------------------------------------
Steps == {"idle", "head", "get", "stream", "unpack", "clearing", "rename", "mode", "revise",
          "record", "wiping", "forget"}

(* The variables keep their types.                                         *)
TypeOK ==
    /\ cfg \in Configs
    /\ upstream \in Versions
    /\ dest \in Versions \cup {Absent, Foreign, Partial, Empty}
    /\ revision \in Versions \cup {NoRev, Empty}
    /\ recorded \in {"no", "yes"} /\ overlapped \in {"no", "yes"}
    /\ pc \in [Callers -> Steps]
    /\ cached \in [Callers -> Versions \cup {NoRev, Empty}]
    /\ body \in [Callers -> Versions \cup {Absent, Empty}]
    /\ etag \in [Callers -> Versions \cup {NoRev, Empty}]

(* "a poisoned payload never reaches dest": of a pinned file nothing but    *)
(* the pinned version is ever at the destination, however many calls and    *)
(* versions race.                                                          *)
PinnedFileOnly ==
    cfg.kind = "file" /\ cfg.pin # 0 => dest \in {Absent, Foreign, Partial, cfg.pin}

(* The drift token never runs ahead of the destination: a version that is   *)
(* there is at least as new as the token, so that Changed=false never       *)
(* covers up an older version.  Calls that overlap may break it (the last    *)
(* rename and the last token may be of different calls), and an unpinned    *)
(* file may be emptied by a 304.                                           *)
TokenNotAhead ==
    overlapped = "no" /\ (cfg.kind = "file" => cfg.pin # 0) /\ dest >= Empty
        => revision <= dest

(* A destination outside the managed roots is wiped only when a Fetch of    *)
(* this process has reached its end there since the last Wipe.             *)
WipeOnlyFetched ==
    [][\A c \in Callers :
          pc[c] = "idle" /\ pc'[c] = "wiping" => cfg.managed = "yes" \/ revision # NoRev]_vars

(* "Equivalent to a cache-hit" (openBody): a 304 leaves the destination as  *)
(* it is.  It does not hold: the empty body replaces the file.             *)
CacheHitKeepsDest == dest # Empty

(* "the bytes that drive the prune are verified before anything is removed" *)
(* (validateHTTPConfig): nothing but the pinned archive is unpacked over   *)
(* the destination.                                                        *)
PrunedOnlyByPin ==
    cfg.prune = "yes" => dest \in {Absent, Foreign, Partial, cfg.pin}
=============================================================================
