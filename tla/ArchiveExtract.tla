--------------------------- MODULE ArchiveExtract --------------------------
(***************************************************************************)
(* The extraction of a fetched archive into its staging directory           *)
(* (sys/remote/http_archive.go), entry by entry, under the cap on the bytes  *)
(* an archive may unpack to.  The size an entry declares is not the number   *)
(* of bytes it yields, and it is added to the running total as an int64.     *)
(***************************************************************************)
EXTENDS Integers, FiniteSetsExt

CONSTANTS
    Cap,            \* cfg.MaxBytes
    IntMax,         \* the largest int64
    StreamMax,      \* bytes a downloaded tar stream can hold, less than IntMax
    Paths,          \* that entries have
    MaxEntries      \* bound: entries of an archive

VARIABLES
    format,     \* detectArchiveKind
    exAt,       \* "entry", then "done" or "failed"
    total,      \* totalBytes
    read,       \* bytes of the tar stream consumed
    staged,     \* size of the file staged at each path, 0 if there is none
    entries     \* entries met

arVars == <<format, exAt, total, read, staged, entries>>

Nothing == [p \in Paths |-> 0]

ArInit ==
    /\ format \in {"tar.gz", "zip"}
    /\ exAt = "entry" /\ total = 0 /\ read = 0 /\ staged = Nothing /\ entries = 0

Int64(x) == ((x + IntMax + 1) % (2 * IntMax + 2)) - (IntMax + 1)
OnDisk == MapThenSumSet(LAMBDA p : staged[p], Paths)

-----------------------------------------------------------------------------
(* fetchArchive removes the staging directory of a failed extraction.       *)
ArFails == exAt' = "failed" /\ staged' = Nothing /\ UNCHANGED <<format, total, read, entries>>

Meets == exAt = "entry" /\ entries < MaxEntries

(* A directory; also the links, devices and unsafe names that end the       *)
(* extraction, and what fails in the archive or on the disk.               *)
OtherEntry ==
    /\ Meets
    /\ \/ entries' = entries + 1 /\ UNCHANGED <<format, exAt, total, read, staged>>
       \/ ArFails

(* What io.Copy writes of an entry: a tar reader ends after the declared     *)
(* size, and with an error if the stream is shorter; a zip entry yields what *)
(* it holds, behind a LimitReader one byte above what is left.               *)
Yields(declared) ==
    IF format = "tar.gz"
    THEN {IF declared <= StreamMax - read THEN declared ELSE StreamMax - read}
    ELSE 0 .. (Cap - total + 1)

Cut(declared) == format = "tar.gz" /\ declared > StreamMax - read

(* Mutant of FileEntry: the total is not looked at again after the copy.    *)
FileEntryDeclared(p, declared) ==
    /\ Meets
    /\ \/ (declared < 0 \/ Int64(total + declared) > Cap) /\ ArFails
       \/ /\ declared >= 0 /\ Int64(total + declared) <= Cap
          /\ \E w \in Yields(declared) :
                \/ Cut(declared) /\ ArFails
                \/ /\ ~Cut(declared)
                   /\ staged' = [staged EXCEPT ![p] = w]
                   /\ total' = total + w /\ entries' = entries + 1
                   /\ read' = IF format = "tar.gz" THEN read + w ELSE read
                   /\ UNCHANGED <<format, exAt>>

FileEntry(p, declared) ==
    /\ Meets
    /\ \/ (declared < 0 \/ Int64(total + declared) > Cap) /\ ArFails
       \/ /\ declared >= 0 /\ Int64(total + declared) <= Cap
          /\ \E w \in Yields(declared) :
                \/ (Cut(declared) \/ total + w > Cap) /\ ArFails
                \/ /\ ~Cut(declared) /\ total + w <= Cap
                   /\ staged' = [staged EXCEPT ![p] = w]
                   /\ total' = total + w /\ entries' = entries + 1
                   /\ read' = IF format = "tar.gz" THEN read + w ELSE read
                   /\ UNCHANGED <<format, exAt>>

(* io.EOF, or the last entry of the zip directory.                          *)
LastEntry ==
    /\ exAt = "entry"
    /\ exAt' = "done"
    /\ UNCHANGED <<format, total, read, staged, entries>>

(* staging has become the destination, or is gone; the Source may fetch       *)
(* again.                                                                   *)
NextFetch ==
    /\ exAt # "entry"
    /\ exAt' = "entry" /\ total' = 0 /\ read' = 0 /\ staged' = Nothing /\ entries' = 0
    /\ UNCHANGED format

ArNext ==
    \/ OtherEntry
    \/ \E p \in Paths, declared \in -1 .. IntMax : FileEntry(p, declared)
    \/ LastEntry \/ NextFetch

ArSpec == ArInit /\ [][ArNext]_arVars

-----------------------------------------------------------------------------
ArTypeOK ==
    /\ format \in {"tar.gz", "zip"} /\ exAt \in {"entry", "done", "failed"}
    /\ total \in 0 .. IntMax /\ read \in 0 .. StreamMax
    /\ staged \in [Paths -> 0 .. IntMax] /\ entries \in 0 .. MaxEntries

(* extractTarGz and extractZipFile return "ErrIntegrity when the cumulative  *)
(* size exceeds maxBytes": what is swapped into the destination is never     *)
(* larger than the cap, whatever sizes the entries declare, also when the    *)
(* sum of a declared size and the total wraps.                              *)
ExtractedWithinCap == exAt = "done" => OnDisk <= total /\ total <= Cap
=============================================================================
