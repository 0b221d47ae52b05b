------------------------------ MODULE Accounts -----------------------------
(***************************************************************************)
(* The account of one user, through calls of the shadow-utils Manager        *)
(* (sys/user): the shadow entry that Lock, Unlock and SetPassword change     *)
(* and the home that Create, EnsureHome and Delete do.  Each command may      *)
(* fail, with or without its effect, the agent may be killed between two of   *)
(* them, and the user works in the home meanwhile.                           *)
(***************************************************************************)
EXTENDS Naturals

CONSTANTS
    AcCallers,      \* goroutines
    Passwords,      \* hashes SetPassword can leave in the entry
    MaxAcCalls      \* bound: calls

NoEntry == [bang |-> "no", word |-> "none"]
NoHome == [there |-> "no", skel |-> "no", owner |-> "none", own |-> "no"]
AcIdle == [op |-> "none", at |-> "idle", saw |-> "none"]

VARIABLES
    shadow,     \* the shadow entry: the leading "!" and the rest
    home,       \* the directory: its skeleton, owner, and the user's own files
    acCall,     \* the call of each caller
    done,       \* the call that succeeded last, nothing having changed since
    crossed,    \* a call read what another one changed before it acted
    cutShort,   \* a call ended between making the home and seeding it
    acCalls     \* how many calls were made

acVars == <<shadow, home, acCall, done, crossed, cutShort, acCalls>>

Fresh == [there |-> "yes", skel |-> "no", owner |-> "root", own |-> "no"]

AcInit ==
    /\ shadow \in {NoEntry, [bang |-> "yes", word |-> "empty"]}
    /\ home \in {NoHome, [Fresh EXCEPT !.own = "yes"]}
    /\ acCall = [c \in AcCallers |-> AcIdle]
    /\ done = "none" /\ crossed = "no" /\ cutShort = "no" /\ acCalls = 0

Account == shadow # NoEntry
InFlight(ops) == \E c \in AcCallers : acCall[c].op \in ops

AcGoes(c, at) == acCall' = [acCall EXCEPT ![c].at = at] /\ done' = "none"
AcEnds(c, r) ==
    /\ acCall' = [acCall EXCEPT ![c] = AcIdle]
    /\ done' = IF r = "ok" THEN acCall[c].op ELSE "none"

(* A call of several commands; at names the first of them.                  *)
AcStarts(c, op, at) ==
    /\ acCall[c] = AcIdle /\ acCalls < MaxAcCalls
    /\ acCalls' = acCalls + 1
    /\ acCall' = [acCall EXCEPT ![c] = [op |-> op, at |-> at, saw |-> "none"]]
    /\ crossed' = IF op # "unlock" /\ InFlight({"create", "ensure"}) THEN "yes" ELSE crossed
    /\ done' = "none" /\ UNCHANGED <<shadow, home, cutShort>>

(* A call of one command: e is the entry it leaves, h the home.             *)
AcCommand(c, op, possible, e, h, crosses) ==
    /\ acCall[c] = AcIdle /\ acCalls < MaxAcCalls
    /\ acCalls' = acCalls + 1 /\ UNCHANGED <<acCall, cutShort>>
    /\ crossed' = IF crosses THEN "yes" ELSE crossed
    /\ \/ possible /\ shadow' = e /\ home' = h /\ done' \in {op, "none"}
       \/ done' = "none" /\ UNCHANGED <<shadow, home>>

DeleteUser(c, removeHome) ==
    AcCommand(c, "delete", Account, NoEntry,
              IF removeHome = "yes" THEN NoHome ELSE home, InFlight({"create", "ensure", "unlock"}))

Lock(c) == AcCommand(c, "lock", Account, [shadow EXCEPT !.bang = "yes"], home, FALSE)

(* chpasswd writes the whole field: the "!" of a locked account goes too.   *)
SetPassword(c, p) ==
    AcCommand(c, "setPassword", Account, [bang |-> "no", word |-> p], home, InFlight({"unlock"}))

-----------------------------------------------------------------------------
(* Unlock reads the entry and picks its command from what it read.          *)
UnlockReads(c) ==
    /\ acCall[c].at = "read"
    /\ \/ /\ Account /\ shadow.bang = "yes"
          /\ acCall' = [acCall EXCEPT ![c].at = "write", ![c].saw = shadow.word]
          /\ done' = "none"
       \/ Account /\ shadow.bang = "no" /\ AcEnds(c, "ok")
       \/ AcGoes(c, "write")        \* the shadow could not be read
    /\ UNCHANGED <<shadow, home, crossed, cutShort, acCalls>>

(* Mutant of Unlocked: every locked account gets "*".                       *)
UnlockedStar(saw) == [bang |-> "no", word |-> "star"]

(* usermod -p "*" for a locked account without a password, where usermod -U  *)
(* refuses; usermod -U otherwise.                                           *)
Unlocked(saw) ==
    IF saw \in {"empty", "star"} THEN [bang |-> "no", word |-> "star"]
    ELSE [shadow EXCEPT !.bang = "no"]

UnlockWrites(c) ==
    /\ acCall[c].at = "write"
    /\ \/ /\ Account /\ Unlocked(acCall[c].saw).word # "empty"
          /\ shadow' = Unlocked(acCall[c].saw)
          /\ AcEnds(c, "ok") \/ AcEnds(c, "failed")
       \/ AcEnds(c, "failed") /\ UNCHANGED shadow
    /\ UNCHANGED <<home, crossed, cutShort, acCalls>>

-----------------------------------------------------------------------------
(* Create looks for the home, adds the account, with a home unless there     *)
(* was one, and gives a home that was there to the new user.                 *)
CreateLooks(c) ==
    /\ acCall[c].at = "stat"
    /\ acCall' = [acCall EXCEPT ![c].at = "useradd", ![c].saw = home.there]
    /\ UNCHANGED <<shadow, home, done, crossed, cutShort, acCalls>>

Useradd(c) ==
    /\ acCall[c].at = "useradd"
    /\ \/ /\ ~Account /\ (acCall[c].saw = "yes" \/ home.there = "no")
          /\ shadow' = [bang |-> "yes", word |-> "empty"]
          /\ IF acCall[c].saw = "yes"
             THEN (AcGoes(c, "chown") \/ AcEnds(c, "failed")) /\ UNCHANGED home
             ELSE /\ home' = [Fresh EXCEPT !.skel = "yes", !.owner = "user"]
                  /\ AcEnds(c, "ok") \/ AcEnds(c, "failed")
       \/ AcEnds(c, "failed") /\ UNCHANGED <<shadow, home>>
    /\ UNCHANGED <<crossed, cutShort, acCalls>>

-----------------------------------------------------------------------------
(* Mutant of EnsureLooks: a home that is there is taken for a good one.     *)
EnsureLooksOnly(c) ==
    /\ acCall[c].at = "look" /\ Account
    /\ IF home.there = "yes" THEN AcEnds(c, "ok") ELSE AcGoes(c, "mkdir")
    /\ UNCHANGED <<shadow, home, crossed, cutShort, acCalls>>

(* EnsureHome: Get and PrimaryGroup, then Exists.                           *)
EnsureLooks(c) ==
    /\ acCall[c].at = "look"
    /\ \/ Account /\ AcGoes(c, IF home.there = "yes" THEN "chown" ELSE "mkdir")
       \/ AcEnds(c, "failed")
    /\ UNCHANGED <<shadow, home, crossed, cutShort, acCalls>>

(* mkdir -p: a home that has appeared since is as good as its own.          *)
EnsureMkdir(c) ==
    /\ acCall[c].at = "mkdir"
    /\ \/ /\ home' = IF home.there = "yes" THEN home ELSE Fresh
          /\ \/ AcGoes(c, "seed") /\ UNCHANGED cutShort
             \/ AcEnds(c, "failed") /\ cutShort' = "yes"
       \/ AcEnds(c, "failed") /\ UNCHANGED <<home, cutShort>>
    /\ UNCHANGED <<shadow, crossed, acCalls>>

(* CopyTree: the skeleton, which the host has, goes over what is there.     *)
Seeded(h) == [h EXCEPT !.skel = "yes", !.owner = "root",
                       !.own = IF h.own = "yes" THEN "lost" ELSE h.own]

EnsureSeeds(c) ==
    /\ acCall[c].at = "seed"
    /\ \/ home.there = "yes" /\ home' = Seeded(home) /\ AcGoes(c, "chown") /\ UNCHANGED cutShort
       \/ AcEnds(c, "failed") /\ cutShort' = "yes" /\ UNCHANGED home
    /\ UNCHANGED <<shadow, crossed, acCalls>>

(* SetOwnershipRecursive, the end of Create over a home that was there; and  *)
(* with SetMode the end of EnsureHome.                                      *)
ChownHome(c) ==
    /\ acCall[c].at = "chown"
    /\ \/ /\ Account /\ home.there = "yes" /\ home' = [home EXCEPT !.owner = "user"]
          /\ AcEnds(c, "ok") \/ AcEnds(c, "failed")
       \/ AcEnds(c, "failed") /\ UNCHANGED home
    /\ UNCHANGED <<shadow, crossed, cutShort, acCalls>>

-----------------------------------------------------------------------------
(* The user makes files of their own, in a home that is theirs.             *)
UserWorks ==
    /\ Account /\ home.owner = "user" /\ home.own = "no" /\ home' = [home EXCEPT !.own = "yes"]
    /\ UNCHANGED <<shadow, acCall, done, crossed, cutShort, acCalls>>

AcKilled ==
    /\ \E c \in AcCallers : acCall[c] # AcIdle
    /\ acCall' = [c \in AcCallers |-> AcIdle] /\ done' = "none"
    /\ cutShort' = IF \E c \in AcCallers : acCall[c].at = "seed" THEN "yes" ELSE cutShort
    /\ UNCHANGED <<shadow, home, crossed, acCalls>>

AcNext ==
    \/ \E c \in AcCallers :
         \/ AcStarts(c, "create", "stat") \/ AcStarts(c, "ensure", "look")
         \/ AcStarts(c, "unlock", "read")
         \/ \E r \in {"yes", "no"} : DeleteUser(c, r)
         \/ Lock(c)
         \/ \E p \in Passwords : SetPassword(c, p)
         \/ UnlockReads(c) \/ UnlockWrites(c)
         \/ CreateLooks(c) \/ Useradd(c)
         \/ EnsureLooks(c) \/ EnsureMkdir(c) \/ EnsureSeeds(c) \/ ChownHome(c)
    \/ UserWorks \/ AcKilled

AcSpec == AcInit /\ [][AcNext]_acVars

-----------------------------------------------------------------------------
AcTypeOK ==
    /\ shadow.bang \in {"yes", "no"}
    /\ shadow.word \in Passwords \cup {"none", "empty", "star"}
    /\ home.there \in {"yes", "no"} /\ home.skel \in {"yes", "no"}
    /\ home.owner \in {"none", "root", "user"} /\ home.own \in {"no", "yes", "lost"}
    /\ \A c \in AcCallers : acCall[c].op \in {"none", "create", "ensure", "unlock"}
    /\ {crossed, cutShort} \subseteq {"yes", "no"} /\ acCalls \in 0..MaxAcCalls

(* Whatever failed or was killed before: a home that Create or EnsureHome    *)
(* says is ready is there and the user's; one that it made was seeded, unless *)
(* an earlier call ended between making and seeding it; and an account        *)
(* that Unlock or Lock says is open or shut is.                              *)
AccountReady ==
    crossed = "no" =>
      /\ done \in {"create", "ensure"} =>
           /\ home.there = "yes" /\ home.owner = "user"
           /\ home.skel = "yes" \/ home.own = "yes" \/ cutShort = "yes"
      /\ done = "unlock" => shadow.bang = "no" /\ shadow.word # "empty"
      /\ done = "lock" => shadow.bang = "yes"

(* What is the user's stays theirs: no call but SetPassword and Delete        *)
(* changes a password (sys/user/user.go:410, "preserving the hash"), and      *)
(* none writes over files of the user's (user.go:293, "a user's customised    *)
(* dotfiles are preserved"), unless calls cross.                             *)
UsersOwnKept ==
    [][crossed' = "no" =>
         /\ shadow.word \in Passwords /\ shadow' # NoEntry /\ shadow'.word # shadow.word
              => acCalls' # acCalls      \* a command that is a call of its own
         /\ home.own = "yes" => home'.own # "lost"]_acVars

(* A home that EnsureHome reports ready after making it has the skeleton     *)
(* (sys/user/user.go:286-287, "it exists, is seeded from skel when freshly    *)
(* created").  It fails after a call that ended before the copy.            *)
MadeHomeSeeded == (done = "ensure" /\ home.own = "no" /\ crossed = "no") => home.skel = "yes"
=============================================================================
