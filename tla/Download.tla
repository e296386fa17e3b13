------------------------------ MODULE Download ------------------------------
(***************************************************************************)
(* One package's download (crates/substrate-installer-http/src/download),  *)
(* tried, paused, cancelled, cut off and tried again, into a file or, while *)
(* it arrives, through a bounded pipe into the unpacker on a thread of its *)
(* own (crates/substrate-installer-app, installing/stream.rs and pipe).    *)
(*                                                                         *)
(* A file is a sequence of chunks; a chunk is the publication it is of, so *)
(* that a file put together from two of them can be told.  The server may  *)
(* replace the file once, honours ranges or does not, and can drop the     *)
(* line at any moment.  A try is one run of the installer: it ends, or the *)
(* process crashes; `part` and `dest` are on disk and outlive it.          *)
(***************************************************************************)
EXTENDS Naturals, Sequences

CONSTANTS
    FirstSize,   \* chunks of the file as the plan knows it
    SecondSize,  \* chunks of what the server replaces it with
    Depth,       \* chunks the pipe holds
    MaxTries,    \* bound: tries
    Absent       \* no file

SizesAssumption ==
    /\ FirstSize \in Nat \ {0}
    /\ SecondSize \in Nat \ {0}
    /\ Depth \in Nat \ {0}
    /\ MaxTries \in Nat
    /\ Absent \notin Seq({1, 2})

Publications == {1, 2}
Size == <<FirstSize, SecondSize>>
Whole(p) == [i \in 1 .. Size[p] |-> p]

VARIABLES
    digest,     \* whether the request carries the first publication's digest
    ranges,     \* whether the server honours Range
    published,  \* what the server publishes now
    part,       \* <destination>.part
    dest,       \* the destination
    tries,      \* tries, counted
    pc,         \* where the downloading thread is
    streaming,  \* whether this try unpacks while it downloads
    hashed,     \* what the hasher has seen in this try
    body,       \* the answer being read: of which publication, and how far
    result,     \* how the transfer stopped
    pipe,       \* chunks on their way to the unpacker
    got,        \* chunks the unpacker has taken
    unpacker,   \* where the unpacking thread is
    unpacked,   \* how it ended
    cancelled,  \* the token's flags
    paused,
    outcome     \* how the last try ended

server == <<digest, ranges, published>>
disk == <<part, dest>>
transfer == <<tries, streaming, hashed, body, result>>
consumer == <<pipe, got, unpacker, unpacked>>
token == <<cancelled, paused>>
vars == <<server, disk, transfer, consumer, token, pc, outcome>>

Files == Seq(Publications)
NoBody == [of |-> 0, at |-> 0]
\* What leaves no use for the partial file, and what does not (Stop).
Discarding == {"cancelled", "checksum", "no_resume"}
Stops == Discarding \cup {"consumer", "failed"}

TypeOK ==
    /\ digest \in BOOLEAN /\ ranges \in BOOLEAN
    /\ published \in Publications
    /\ part \in Files \cup {Absent} /\ dest \in Files \cup {Absent}
    /\ tries \in 0 .. MaxTries
    /\ pc \in {"idle", "replay", "hand", "check", "connect", "pump", "look",
               "read", "verify", "finish", "discard", "join"}
    /\ streaming \in BOOLEAN
    /\ hashed \in Files
    /\ body \in [of : 0 .. 2, at : Nat]
    /\ result \in Stops \cup {"none", "ok"}
    /\ pipe \in Files /\ Len(pipe) <= Depth
    /\ got \in Files
    /\ unpacker \in {"none", "check", "read", "drain", "gone"}
    /\ unpacked \in {"none", "ok", "cancelled", "failed"}
    /\ cancelled \in BOOLEAN /\ paused \in BOOLEAN
    /\ outcome \in Stops \cup {"none", "ok", "crashed"}

Init ==
    /\ digest \in BOOLEAN /\ ranges \in BOOLEAN
    /\ published = 1
    /\ part = Absent /\ dest = Absent
    /\ tries = 0
    /\ pc = "idle"
    /\ streaming = FALSE
    /\ hashed = <<>>
    /\ body = NoBody
    /\ result = "none"
    /\ pipe = <<>> /\ got = <<>>
    /\ unpacker = "none" /\ unpacked = "none"
    /\ cancelled = FALSE /\ paused = FALSE
    /\ outcome = "none"

Running == pc # "idle"

-----------------------------------------------------------------------------
(* Transfer::open, and what an earlier try left in the partial file.       *)

StartTry ==
    /\ ~Running
    /\ tries < MaxTries
    /\ tries' = tries + 1
    /\ streaming' \in BOOLEAN
    /\ part' = IF part = Absent THEN <<>> ELSE part
    /\ hashed' = <<>> /\ body' = NoBody /\ result' = "none"
    /\ pipe' = <<>> /\ got' = <<>>
    /\ unpacker' = IF streaming' THEN "check" ELSE "none"
    /\ unpacked' = "none"
    /\ cancelled' = FALSE /\ paused' = FALSE
    /\ outcome' = "none"
    /\ pc' = "replay"
    /\ UNCHANGED <<server, dest>>

\* A chunk is in the file and in the hash; a stream's consumer gets it next.
Taken == IF streaming THEN "hand" ELSE "pump"

\* The mutant hashes the file without feeding it to the consumer.
Replay_Silent ==
    /\ pc = "replay"
    /\ hashed' = part
    /\ pc' = "check"
    /\ UNCHANGED <<server, disk, tries, streaming, body, result, consumer, token,
                   outcome>>
Replay ==
    /\ pc = "replay"
    /\ IF Len(hashed) < Len(part)
       THEN /\ hashed' = Append(hashed, part[Len(hashed) + 1])
            /\ pc' = IF streaming THEN "hand" ELSE "replay"
       ELSE pc' = "check" /\ UNCHANGED hashed
    /\ UNCHANGED <<server, disk, tries, streaming, body, result, consumer, token,
                   outcome>>

Stop(how) ==
    /\ result' = how
    /\ body' = NoBody
    /\ pc' = IF how \in Discarding THEN "discard" ELSE "join"

\* write_all into the pipe: it waits while the pipe is full, and fails once
\* the unpacker is gone.  The mutant's pipe has no bound.
HandOn_Unbounded ==
    /\ pc = "hand"
    /\ \/ /\ unpacker = "gone"
          /\ Stop("consumer")
          /\ UNCHANGED pipe
       \/ /\ unpacker # "gone"
          /\ pipe' = Append(pipe, hashed[Len(hashed)])
          /\ pc' = IF body = NoBody THEN "replay" ELSE "pump"
          /\ UNCHANGED <<body, result>>
    /\ UNCHANGED <<server, disk, tries, streaming, hashed, got, unpacker,
                   unpacked, token, outcome>>
HandOn ==
    /\ pc = "hand"
    /\ \/ /\ unpacker = "gone"
          /\ Stop("consumer")
          /\ UNCHANGED pipe
       \/ /\ unpacker # "gone"
          /\ Len(pipe) < Depth
          /\ pipe' = Append(pipe, hashed[Len(hashed)])
          /\ pc' = IF body = NoBody THEN "replay" ELSE "pump"
          /\ UNCHANGED <<body, result>>
    /\ UNCHANGED <<server, disk, tries, streaming, hashed, got, unpacker,
                   unpacked, token, outcome>>

-----------------------------------------------------------------------------
(* Transfer::run: a connection for every stretch between two pauses.       *)

\* cancel.check() waits while the operation is paused and not cancelled; the
\* mutant's waits whenever it is paused.
Check_Paused ==
    /\ pc = "check"
    /\ ~paused
    /\ \/ cancelled /\ Stop("cancelled")
       \/ ~cancelled /\ pc' = "connect" /\ UNCHANGED <<body, result>>
    /\ UNCHANGED <<server, disk, tries, streaming, hashed, consumer, token,
                   outcome>>
Check ==
    /\ pc = "check"
    /\ \/ cancelled /\ Stop("cancelled")
       \/ ~cancelled /\ ~paused /\ pc' = "connect" /\ UNCHANGED <<body, result>>
    /\ UNCHANGED <<server, disk, tries, streaming, hashed, consumer, token,
                   outcome>>

Answer(from) ==
    /\ body' = [of |-> published, at |-> from]
    /\ pc' = "pump"
    /\ UNCHANGED result

\* The server sends everything again: start_over empties the file and the
\* hash.  The mutants go on with both, and with the hash.
StartOver_KeepsHash ==
    /\ part' = <<>>
    /\ UNCHANGED hashed
    /\ Answer(0)
StartOver_Appends ==
    /\ UNCHANGED <<part, hashed>>
    /\ Answer(0)
StartOver ==
    /\ part' = <<>> /\ hashed' = <<>>
    /\ Answer(0)

\* The rest of the file, by the number of bytes it already has.
Connect ==
    LET from == Len(hashed) IN
    /\ pc = "connect"
    /\ \/ /\ from = 0
          /\ Answer(0)
          /\ UNCHANGED <<part, hashed>>
       \/ /\ from > 0 /\ ranges /\ from < Size[published]
          /\ Answer(from)
          /\ UNCHANGED <<part, hashed>>
       \/ /\ from > 0 /\ ranges /\ from >= Size[published]  \* 416
          /\ pc' = "verify"
          /\ UNCHANGED <<part, hashed, body, result>>
       \/ /\ from > 0 /\ ~ranges /\ streaming
          /\ Stop("no_resume")
          /\ UNCHANGED <<part, hashed>>
       \/ /\ from > 0 /\ ~ranges /\ ~streaming
          /\ StartOver
    /\ UNCHANGED <<server, dest, tries, streaming, consumer, token, outcome>>

\* No answer, an error status, or the line drops while the body is read.
LineFails ==
    /\ pc \in {"connect", "read"}
    /\ Stop("failed")
    /\ UNCHANGED <<server, disk, tries, streaming, hashed, consumer, token,
                   outcome>>

\* The loop's look at the pause, and the check inside it.
Pump ==
    /\ pc = "pump"
    /\ pc' = IF paused THEN "check" ELSE "look"
    /\ body' = IF paused THEN NoBody ELSE body
    /\ UNCHANGED <<server, disk, tries, streaming, hashed, result, consumer,
                   token, outcome>>

Look ==
    /\ pc = "look"
    /\ \/ cancelled /\ Stop("cancelled")
       \/ ~cancelled /\ ~paused /\ pc' = "read" /\ UNCHANGED <<body, result>>
    /\ UNCHANGED <<server, disk, tries, streaming, hashed, consumer, token,
                   outcome>>

ReadChunk ==
    /\ pc = "read"
    /\ IF body.at = Size[body.of]
       THEN /\ pc' = "verify"
            /\ body' = NoBody
            /\ UNCHANGED <<part, hashed>>
       ELSE /\ part' = Append(part, body.of)
            /\ hashed' = Append(hashed, body.of)
            /\ body' = [body EXCEPT !.at = @ + 1]
            /\ pc' = Taken
    /\ UNCHANGED <<server, dest, tries, streaming, result, consumer, token,
                   outcome>>

\* The whole file against the digest the request carries, if it does.
Verify ==
    /\ pc = "verify"
    /\ \/ /\ digest => hashed = Whole(1)
          /\ pc' = "finish"
          /\ UNCHANGED <<body, result>>
       \/ /\ digest /\ hashed # Whole(1)
          /\ Stop("checksum")
    /\ UNCHANGED <<server, disk, tries, streaming, hashed, consumer, token,
                   outcome>>

\* The rename over the destination, which may fail.
Finish ==
    /\ pc = "finish"
    /\ \/ /\ dest' = part
          /\ part' = Absent
          /\ result' = "ok"
          /\ pc' = "join"
          /\ UNCHANGED body
       \/ Stop("failed") /\ UNCHANGED disk
    /\ UNCHANGED <<server, tries, streaming, hashed, consumer, token, outcome>>

Discard ==
    /\ pc = "discard"
    /\ part' = Absent
    /\ pc' = "join"
    /\ UNCHANGED <<server, dest, transfer, consumer, token, outcome>>

-----------------------------------------------------------------------------
(* stream_in: the writer is dropped, the unpacker joined.                  *)

\* The download's error, unless it only stopped because the unpacking did.
\* The mutant asks the unpacking first.
Combine_Unpacked ==
    IF streaming THEN unpacked ELSE result
Combine ==
    IF streaming /\ result \in {"consumer", "ok"} THEN unpacked ELSE result

Join ==
    /\ pc = "join"
    /\ unpacker \in {"none", "gone"}
    /\ outcome' = Combine
    /\ pc' = "idle"
    /\ UNCHANGED <<server, disk, transfer, consumer, token>>

-----------------------------------------------------------------------------
(* The unpacking thread: it looks at the token between chunks, and reads   *)
(* what is left after the archive's end without looking.                   *)

UnpackEnds(how) ==
    /\ unpacked' = how
    /\ unpacker' = "gone"
    /\ UNCHANGED <<pipe, got>>

UnpackCheck ==
    /\ unpacker = "check"
    /\ \/ cancelled /\ UnpackEnds("cancelled")
       \/ /\ ~cancelled /\ ~paused
          /\ unpacker' = "read"
          /\ UNCHANGED <<pipe, got, unpacked>>
    /\ UNCHANGED <<server, disk, transfer, token, pc, outcome>>

\* A chunk, which may hold the end of the archive.
UnpackRead ==
    /\ unpacker \in {"read", "drain"}
    /\ pipe # <<>>
    /\ got' = Append(got, Head(pipe))
    /\ pipe' = Tail(pipe)
    /\ unpacker' \in {IF unpacker = "read" THEN "check" ELSE "drain", "drain"}
    /\ UNCHANGED <<server, disk, transfer, token, pc, outcome, unpacked>>

\* The end of the pipe, once the writer is dropped: a cut off archive may or
\* may not show as one.
UnpackEof ==
    /\ unpacker \in {"read", "drain"}
    /\ pipe = <<>>
    /\ pc = "join"
    /\ \/ UnpackEnds("ok")
       \/ unpacker = "read" /\ UnpackEnds("failed")
    /\ UNCHANGED <<server, disk, transfer, token, pc, outcome>>

\* A bad archive, or a disk that is full.
UnpackFails ==
    /\ unpacker = "read"
    /\ UnpackEnds("failed")
    /\ UNCHANGED <<server, disk, transfer, token, pc, outcome>>

-----------------------------------------------------------------------------
(* The user, the server and the machine.                                   *)

Cancel ==
    /\ Running /\ ~cancelled
    /\ cancelled' = TRUE
    /\ UNCHANGED <<server, disk, transfer, consumer, paused, pc, outcome>>

Pause ==
    /\ Running /\ ~paused
    /\ paused' = TRUE
    /\ UNCHANGED <<server, disk, transfer, consumer, cancelled, pc, outcome>>

Resume ==
    /\ Running /\ paused
    /\ paused' = FALSE
    /\ UNCHANGED <<server, disk, transfer, consumer, cancelled, pc, outcome>>

\* The server replaces the file under the same address.
Republish ==
    /\ published = 1
    /\ published' = 2
    /\ UNCHANGED <<digest, ranges, disk, transfer, consumer, token, pc, outcome>>

\* The process dies; the files stay as they are.
Crash ==
    /\ Running
    /\ pc' = "idle"
    /\ outcome' = "crashed"
    /\ hashed' = <<>> /\ body' = NoBody /\ result' = "none"
    /\ pipe' = <<>> /\ got' = <<>>
    /\ unpacker' = "none" /\ unpacked' = "none"
    /\ UNCHANGED <<server, disk, tries, streaming, token>>

\* Every try is used up.
Finished ==
    /\ ~Running
    /\ tries = MaxTries
    /\ UNCHANGED vars

DownloadThread ==
    \/ Replay \/ HandOn \/ Check \/ Connect \/ LineFails \/ Pump \/ Look
    \/ ReadChunk \/ Verify \/ Finish \/ Discard \/ Join
UnpackThread == UnpackCheck \/ UnpackRead \/ UnpackEof \/ UnpackFails

Next ==
    \/ StartTry \/ DownloadThread \/ UnpackThread
    \/ Cancel \/ Pause \/ Resume \/ Republish \/ Crash
    \/ Finished

Spec == Init /\ [][Next]_vars

\* Both threads run on.  A read that hears nothing ends (READ_TIMEOUT), so a
\* wait for the server is a step that is always taken.  Nobody has to resume,
\* cancel or try again.
FairSpec == Spec /\ WF_vars(DownloadThread) /\ WF_vars(UnpackThread)

-----------------------------------------------------------------------------
(* Properties.                                                             *)

\* "the destination is never half a file" (HttpDownloader): whatever was
\* paused, cut off, crashed or started over on the way, the destination is
\* the file the plan asked for, if the plan has its digest or the server
\* never replaced it.
DestinationIsWhole ==
    dest # Absent /\ (digest \/ published = 1) => dest = Whole(1)

\* A download that is put together from several tries and several answers of
\* the same file is that file: it is never taken for a damaged one.
NoFalseAlarm == published = 1 => result # "checksum"

\* The consumer gets the file from its start, each chunk once and in order,
\* also what an earlier try left; the last one may not have been handed on.
StreamIsTheFile ==
    streaming /\ Running /\ unpacker # "none" =>
        LET handed == IF pc = "hand" THEN Len(hashed) - 1 ELSE Len(hashed) IN
        result # "consumer" => got \o pipe = SubSeq(hashed, 1, handed)

\* What is put into place was unpacked from the file that was verified, not
\* from one that was cut off or damaged: unpacking that ran ahead is thrown
\* away when the download fails.
InstalledIsVerified ==
    outcome = "ok" /\ streaming =>
        /\ unpacked = "ok"
        /\ got = dest

\* What a download promises the installer, together.
DownloadIsWhole ==
    /\ TypeOK /\ DestinationIsWhole /\ NoFalseAlarm
    /\ StreamIsTheFile /\ InstalledIsVerified

\* A try comes to its end, with a full pipe, a failing unpacker or a slow one,
\* unless it is paused; and a cancel ends it, paused or not.
MustEnd == Running /\ (cancelled \/ ~paused)
HasEnded == ~Running \/ (paused /\ ~cancelled)

=============================================================================
