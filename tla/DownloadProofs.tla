--------------------------- MODULE DownloadProofs ---------------------------
(***************************************************************************)
(* Theorems of Download, for files and pipes of any size and any number of *)
(* tries: what stands at the destination is the published file, a download *)
(* put together from several tries is never taken for a damaged one, the   *)
(* unpacker gets the file once and in order, and what is installed was     *)
(* verified.                                                               *)
(***************************************************************************)
EXTENDS Download, SequenceTheorems, TLAPS

\* The steps of the next-state relation, as the proofs split on them.
LEMMA StepCases ==
    ASSUME [Next]_vars
    PROVE  \/ StartTry \/ Replay \/ HandOn \/ Check \/ Connect \/ LineFails
           \/ Pump \/ Look \/ ReadChunk \/ Verify \/ Finish \/ Discard \/ Join
           \/ UnpackCheck \/ UnpackRead \/ UnpackEof \/ UnpackFails
           \/ Cancel \/ Pause \/ Resume \/ Republish \/ Crash
           \/ UNCHANGED vars
BY Zenon DEF Next, DownloadThread, UnpackThread, Finished

-----------------------------------------------------------------------------
(* The inductive invariant.                                                *)

\* While the transfer runs, the hash has seen what is in the partial file: all
\* of it, once what an earlier try left was read again.
HashFollowsPart ==
    /\ pc \in {"replay", "hand"} /\ body = NoBody =>
          /\ part # Absent /\ Len(hashed) <= Len(part)
          /\ \A i \in 1 .. Len(hashed) : hashed[i] = part[i]
    /\ pc = "hand" => streaming /\ Len(hashed) > 0
    /\ pc = "hand" /\ body # NoBody => hashed = part
    /\ pc \in {"check", "connect", "pump", "look", "read", "verify", "finish"} =>
          hashed = part

\* An answer is read from where the hash ends, to the end of its file.
BodyFollowsHash ==
    /\ pc \in {"replay", "check", "connect", "verify", "finish"} => body = NoBody
    /\ pc \in {"pump", "look", "read"} => body # NoBody
    /\ body # NoBody =>
          /\ body.of \in Publications /\ body.of <= published
          /\ body.at = Len(hashed) /\ body.at <= Size[body.of]

\* As long as the server did not replace the file, whatever is on the disk is a
\* beginning of it, and what is verified is all of it.
OfTheFirst(s) == Len(s) <= FirstSize /\ \A i \in 1 .. Len(s) : s[i] = 1
FirstOnly ==
    published = 1 =>
        /\ part # Absent => OfTheFirst(part)
        /\ pc \in {"verify", "finish"} => Len(part) = FirstSize
VerifiedIsFirst == digest /\ pc = "finish" => hashed = Whole(1)

\* How the two threads of a try stop.
Endings ==
    /\ pc \notin {"idle", "discard", "join"} => result = "none"
    /\ pc = "discard" => result \in Discarding
    /\ pc = "join" => result # "none"
    /\ Running => outcome = "none"
    /\ IF Running THEN streaming <=> unpacker # "none"
                  ELSE unpacker \in {"none", "gone"}
    /\ unpacked # "none" <=> unpacker = "gone"
    /\ result = "consumer" => unpacker = "gone" /\ unpacked # "ok"
    /\ unpacked = "ok" => pc \in {"join", "idle"} /\ pipe = <<>>
    /\ result = "ok" => dest = hashed

Shape == TypeOK /\ HashFollowsPart /\ BodyFollowsHash /\ Endings

-----------------------------------------------------------------------------
(* Types.                                                                  *)

\* The values a stop may leave.
LEMMA StopsAre ==
    /\ \A how \in Stops : how \in Stops \cup {"none", "ok"}
    /\ {"cancelled", "checksum", "no_resume", "consumer", "failed"} = Stops
    /\ NoBody \in [of : 0 .. 2, at : Nat]
BY DEF Stops, Discarding, NoBody

\* No file is no file.
LEMMA AbsentIsNoFile ==
    ASSUME SizesAssumption PROVE Absent \notin Files /\ <<>> \in Files
<1>1. Absent \notin Files
    BY Zenon DEF SizesAssumption, Files, Publications
<1>2. <<>> \in Files
    BY DEF Files
<1> QED
    BY <1>1, <1>2

LEMMA TypeStep ==
    ASSUME SizesAssumption, Shape, [Next]_vars PROVE TypeOK'
<1> USE DEF Shape, TypeOK, server, disk, transfer, consumer, token
<1>1. CASE StartTry
  <2>1. <<>> \in Files /\ Len(<<>>) = 0 /\ 0 <= Depth
    BY DEF Files, SizesAssumption
  <2>2. tries' \in 0 .. MaxTries
    BY <1>1 DEF StartTry, SizesAssumption
  <2>3. /\ UNCHANGED <<digest, ranges, published, dest>> /\ streaming' \in BOOLEAN
        /\ part' \in Files \cup {Absent} /\ hashed' = <<>> /\ body' = NoBody
        /\ result' = "none" /\ pipe' = <<>> /\ got' = <<>> /\ unpacked' = "none"
        /\ unpacker' \in {"check", "none"} /\ cancelled' = FALSE
        /\ paused' = FALSE /\ outcome' = "none" /\ pc' = "replay"
    BY <1>1, <2>1 DEF StartTry
  <2> QED
    BY <2>1, <2>2, <2>3, StopsAre
<1>2. CASE Replay
  <2>1. /\ part \in Files /\ hashed \in Files
        /\ Len(hashed) < Len(part) => part[Len(hashed) + 1] \in Publications
    BY <1>2 DEF Replay, HashFollowsPart, BodyFollowsHash, Files
  <2>2. hashed' \in Files
    <3>1. CASE Len(hashed) < Len(part)
      <4>1. hashed' = Append(hashed, part[Len(hashed) + 1])
        BY <1>2, <3>1 DEF Replay
      <4> QED
        BY <2>1, <3>1, <4>1 DEF Files
    <3>2. CASE ~(Len(hashed) < Len(part))
      BY <1>2, <3>2 DEF Replay
    <3> QED
      BY <3>1, <3>2
  <2> QED
    BY <1>2, <2>2 DEF Replay
<1>3. CASE HandOn
  <2>1. hashed[Len(hashed)] \in Publications
    BY <1>3 DEF HandOn, HashFollowsPart, Files
  <2>2. CASE unpacker = "gone"
    BY <1>3, <2>2, StopsAre DEF HandOn, Stop
  <2>3. CASE unpacker # "gone"
    <3>1. pipe' = Append(pipe, hashed[Len(hashed)]) /\ Len(pipe) < Depth
      BY <1>3, <2>3 DEF HandOn
    <3>2. pipe' \in Files /\ Len(pipe') <= Depth
      BY <2>1, <3>1 DEF Files, SizesAssumption
    <3> QED
      BY <1>3, <2>3, <3>2 DEF HandOn
  <2> QED
    BY <2>2, <2>3
<1>4. CASE Check \/ Look
    BY <1>4, StopsAre DEF Check, Look, Stop
<1>5. CASE Connect
  <2>1. Len(hashed) \in Nat /\ hashed \in Files /\ <<>> \in Files
    BY DEF Files
  <2>2. /\ part' \in Files \cup {Absent} /\ hashed' \in Files
        /\ body' \in [of : 0 .. 2, at : Nat]
        /\ result' \in Stops \cup {"none", "ok"}
    BY <1>5, <2>1, StopsAre DEF Connect, Answer, StartOver, Stop, Publications
  <2>3. pc' \in {"pump", "verify", "discard", "join"}
    BY <1>5 DEF Connect, Answer, StartOver, Stop
  <2> QED
    BY <1>5, <2>2, <2>3 DEF Connect
<1>6. CASE LineFails \/ Pump
    BY <1>6, StopsAre DEF LineFails, Pump, Stop
<1>7. CASE ReadChunk
  <2>1. /\ part \in Files /\ body.of \in Publications
    BY <1>7 DEF ReadChunk, HashFollowsPart, BodyFollowsHash
  <2>2. /\ part' \in Files /\ hashed' \in Files
        /\ body' \in [of : 0 .. 2, at : Nat]
    <3>1. /\ Append(part, body.of) \in Files /\ Append(hashed, body.of) \in Files
      BY <2>1 DEF Files
    <3>2. [body EXCEPT !.at = @ + 1] \in [of : 0 .. 2, at : Nat]
      OBVIOUS
    <3> QED
      BY <1>7, <2>1, <3>1, <3>2, StopsAre DEF ReadChunk
  <2>3. pc' \in {"verify", "hand", "pump"}
    BY <1>7 DEF ReadChunk, Taken
  <2> QED
    BY <1>7, <2>2, <2>3 DEF ReadChunk
<1>8. CASE Verify
    BY <1>8, StopsAre DEF Verify, Stop
<1>9. CASE Finish
    BY <1>9, StopsAre DEF Finish, Stop
<1>10. CASE Discard \/ Join
    BY <1>10, StopsAre DEF Discard, Join, Combine, Stops
<1>11. CASE UnpackCheck \/ UnpackEof \/ UnpackFails
    BY <1>11 DEF UnpackCheck, UnpackEof, UnpackFails, UnpackEnds
<1>12. CASE UnpackRead
  <2>1. got' \in Files /\ pipe' \in Files /\ Len(pipe') <= Depth
    BY <1>12 DEF UnpackRead, Files, SizesAssumption
  <2> QED
    BY <1>12, <2>1 DEF UnpackRead
<1>13. CASE Cancel \/ Pause \/ Resume \/ Republish
  <2>1. published' \in Publications /\ cancelled' \in BOOLEAN /\ paused' \in BOOLEAN
    BY <1>13 DEF Cancel, Pause, Resume, Republish, Publications
  <2>2. /\ UNCHANGED <<digest, ranges>>
        /\ UNCHANGED <<disk, transfer, consumer, pc, outcome>>
    BY <1>13 DEF Cancel, Pause, Resume, Republish
  <2> QED
    BY <2>1, <2>2
<1>14. CASE Crash
  <2>1. <<>> \in Files /\ Len(<<>>) = 0 /\ 0 <= Depth
    BY DEF Files, SizesAssumption
  <2> QED
    BY <1>14, <2>1, StopsAre DEF Crash
<1>15. CASE UNCHANGED vars
    BY <1>15 DEF vars
<1> QED
    BY StepCases, <1>1, <1>2, <1>3, <1>4, <1>5, <1>6, <1>7, <1>8, <1>9, <1>10,
       <1>11, <1>12, <1>13, <1>14, <1>15

-----------------------------------------------------------------------------
(* The hash and the answer.                                                *)

\* What the unpacking thread, the user and the server do leaves the transfer.
LEMMA Bystanders ==
    ASSUME \/ UnpackCheck \/ UnpackRead \/ UnpackEof \/ UnpackFails
           \/ Cancel \/ Pause \/ Resume \/ Republish \/ UNCHANGED vars
    PROVE  /\ UNCHANGED <<pc, part, dest, hashed, body, result, streaming>>
           /\ UNCHANGED <<digest, ranges, outcome, tries>>
BY DEF UnpackCheck, UnpackRead, UnpackEof, UnpackFails, Cancel, Pause, Resume,
       Republish, vars, server, disk, transfer

LEMMA HashStep ==
    ASSUME SizesAssumption, Shape, [Next]_vars PROVE HashFollowsPart'
<1> USE DEF Shape, HashFollowsPart, disk, transfer
<1>0. part # Absent => part \in Files /\ Len(part) \in Nat
    BY DEF TypeOK, Files
<1>1. CASE StartTry
  <2>1. part' # Absent /\ part' \in Files /\ hashed' = <<>> /\ pc' = "replay"
        /\ body' = NoBody
    <3>1. <<>> \in Files /\ <<>> # Absent
      BY AbsentIsNoFile
    <3> QED
      BY <1>1, <1>0, <3>1 DEF StartTry
  <2> QED
    BY <2>1 DEF Files
<1>2. CASE Replay
  <2>1. /\ part \in Files /\ hashed \in Files /\ body = NoBody
        /\ Len(hashed) <= Len(part) /\ Len(hashed) \in Nat
        /\ UNCHANGED <<part, body, streaming>> /\ part # Absent
    BY <1>2, <1>0 DEF Replay, BodyFollowsHash, TypeOK, Files
  <2>2. CASE Len(hashed) < Len(part)
    <3>1. /\ hashed' = Append(hashed, part[Len(hashed) + 1])
          /\ pc' \in {"hand", "replay"} /\ (pc' = "hand" => streaming)
      BY <1>2, <2>2 DEF Replay
    <3>2. part[Len(hashed) + 1] \in Publications
      BY <2>1, <2>2 DEF Files
    <3>3. /\ Len(hashed') = Len(hashed) + 1
          /\ \A i \in 1 .. Len(hashed') : hashed'[i] = part[i]
      BY <1>2, <2>1, <3>1, <3>2 DEF Replay, Files
    <3> QED
      BY <2>1, <2>2, <3>1, <3>3
  <2>3. CASE ~(Len(hashed) < Len(part))
    <3>1. hashed' = hashed /\ pc' = "check"
      BY <1>2, <2>3 DEF Replay
    <3>2. Len(hashed) = Len(part) /\ \A i \in 1 .. Len(hashed) : hashed[i] = part[i]
      BY <1>2, <1>0, <2>1, <2>3 DEF Replay
    <3>3. hashed = part
      BY <2>1, <3>2, SeqEqual DEF Files
    <3> QED
      BY <2>1, <3>1, <3>3
  <2> QED
    BY <2>2, <2>3
<1>3. CASE HandOn
    BY <1>3 DEF HandOn, Stop, Discarding
<1>4. CASE Check \/ LineFails \/ Pump \/ Look \/ Verify
    BY <1>4 DEF Check, LineFails, Pump, Look, Verify, Stop, Discarding
<1>5. CASE Connect
    BY <1>5 DEF Connect, Answer, StartOver, Stop, Discarding
<1>6. CASE ReadChunk
  <2>1. CASE body.at = Size[body.of]
    BY <1>6, <2>1 DEF ReadChunk
  <2>2. CASE body.at # Size[body.of]
    <3>1. /\ hashed' = Append(hashed, body.of) /\ part' = Append(part, body.of)
          /\ body' = [body EXCEPT !.at = @ + 1] /\ pc' = Taken
          /\ part = hashed /\ UNCHANGED streaming
      BY <1>6, <2>2 DEF ReadChunk
    <3>2. body' # NoBody
      BY <3>1 DEF TypeOK, NoBody
    <3>3. Len(hashed') > 0
      BY <3>1 DEF TypeOK, Files
    <3> QED
      BY <3>1, <3>2, <3>3 DEF Taken
  <2> QED
    BY <2>1, <2>2
<1>7. CASE Finish \/ Discard \/ Join \/ Crash
    BY <1>7 DEF Finish, Discard, Join, Crash, Stop, Discarding
<1>8. CASE \/ UnpackCheck \/ UnpackRead \/ UnpackEof \/ UnpackFails
           \/ Cancel \/ Pause \/ Resume \/ Republish \/ UNCHANGED vars
    BY <1>8, Bystanders
<1> QED
    BY StepCases, <1>1, <1>2, <1>3, <1>4, <1>5, <1>6, <1>7, <1>8

LEMMA BodyStep ==
    ASSUME SizesAssumption, Shape, [Next]_vars PROVE BodyFollowsHash'
<1> USE DEF Shape, BodyFollowsHash, server, disk, transfer
<1>0. /\ published \in {1, 2} /\ Len(hashed) \in Nat
      /\ Size[1] \in Nat \ {0} /\ Size[2] \in Nat \ {0}
    BY DEF TypeOK, Publications, SizesAssumption, Size, Files
<1>1. CASE StartTry \/ Replay
    BY <1>1 DEF StartTry, Replay
<1>2. CASE HandOn
    BY <1>2 DEF HandOn, Stop, Discarding
<1>3. CASE Check \/ LineFails \/ Pump \/ Look \/ Verify
    BY <1>3 DEF Check, LineFails, Pump, Look, Verify, Stop, Discarding
<1>4. CASE Connect
  <2>1. ASSUME NEW from \in Nat, Answer(from), from <= Size[published]
        PROVE  /\ body' # NoBody /\ pc' = "pump" /\ body'.of = published
               /\ body'.at = from /\ body'.of \in Publications
    BY <1>0, <2>1 DEF Answer, NoBody, Publications
  <2>2. CASE Len(hashed) = 0 /\ Answer(0) /\ UNCHANGED <<part, hashed>>
    BY <1>0, <1>4, <2>1, <2>2 DEF Connect
  <2>3. CASE /\ Len(hashed) < Size[published] /\ Answer(Len(hashed))
             /\ UNCHANGED <<part, hashed>>
    BY <1>0, <1>4, <2>1, <2>3 DEF Connect
  <2>4. CASE pc' = "verify" /\ UNCHANGED <<part, hashed, body, result>>
    BY <1>4, <2>4 DEF Connect
  <2>5. CASE Stop("no_resume")
    BY <1>4, <2>5 DEF Stop, Discarding
  <2>6. CASE StartOver
    BY <1>0, <1>4, <2>1, <2>6 DEF Connect, StartOver
  <2> QED
    BY <1>4, <2>2, <2>3, <2>4, <2>5, <2>6 DEF Connect
<1>5. CASE ReadChunk
  <2>1. CASE body.at = Size[body.of]
    BY <1>5, <2>1 DEF ReadChunk
  <2>2. CASE body.at # Size[body.of]
    <3>1. /\ body' = [body EXCEPT !.at = @ + 1] /\ body.of \in Publications
          /\ body.at = Len(hashed) /\ body.at <= Size[body.of]
          /\ hashed' = Append(hashed, body.of) /\ pc' \in {"hand", "pump"}
          /\ UNCHANGED published /\ body.of <= published
      BY <1>5, <2>2 DEF ReadChunk, Taken
    <3>2. /\ body'.of = body.of /\ body'.at = body.at + 1 /\ body' # NoBody
          /\ Len(hashed') = Len(hashed) + 1
      BY <1>0, <3>1 DEF TypeOK, NoBody, Files
    <3>3. body.at + 1 <= Size[body.of]
      BY <1>0, <2>2, <3>1 DEF Publications
    <3> QED
      BY <3>1, <3>2, <3>3
  <2> QED
    BY <2>1, <2>2
<1>6. CASE Finish \/ Discard \/ Join \/ Crash
    BY <1>6 DEF Finish, Discard, Join, Crash, Stop, Discarding
<1>7. CASE \/ UnpackCheck \/ UnpackRead \/ UnpackEof \/ UnpackFails
           \/ Cancel \/ Pause \/ Resume \/ Republish \/ UNCHANGED vars
  <2>1. published <= published' /\ published' \in Nat
    BY <1>0, <1>7 DEF UnpackCheck, UnpackRead, UnpackEof, UnpackFails, Cancel,
                      Pause, Resume, Republish, vars
  <2> QED
    BY <1>0, <1>7, <2>1, Bystanders DEF Publications
<1> QED
    BY StepCases, <1>1, <1>2, <1>3, <1>4, <1>5, <1>6, <1>7

\* Once a try has stopped, nothing of it goes on.
LEMMA EndingsStep ==
    ASSUME SizesAssumption, Shape, [Next]_vars PROVE Endings'
<1> USE DEF Shape, Endings, Running, server, disk, transfer, consumer, token
<1>1. CASE StartTry
    BY <1>1 DEF StartTry
<1>2. CASE Replay
    BY <1>2 DEF Replay
<1>3. CASE HandOn
    BY <1>3 DEF HandOn, HashFollowsPart, Stop, Discarding
<1>4. CASE Check \/ LineFails \/ Pump \/ Look
    BY <1>4 DEF Check, LineFails, Pump, Look, Stop, Discarding
<1>5. CASE Connect
    BY <1>5 DEF Connect, Answer, StartOver, Stop, Discarding
<1>6. CASE ReadChunk
    BY <1>6 DEF ReadChunk, Taken
<1>7. CASE Verify
    BY <1>7 DEF Verify, Stop, Discarding
<1>8. CASE Finish
    BY <1>8 DEF Finish, HashFollowsPart, Stop, Discarding
<1>9. CASE Discard
    BY <1>9 DEF Discard, Discarding
<1>10. CASE Join
    BY <1>10 DEF Join
<1>11. CASE UnpackCheck \/ UnpackFails \/ UnpackEof
    BY <1>11 DEF UnpackCheck, UnpackFails, UnpackEof, UnpackEnds, TypeOK
<1>12. CASE UnpackRead
    BY <1>12 DEF UnpackRead
<1>13. CASE Cancel \/ Pause \/ Resume \/ Republish \/ UNCHANGED vars
    BY <1>13 DEF Cancel, Pause, Resume, Republish, vars
<1>14. CASE Crash
    BY <1>14 DEF Crash
<1> QED
    BY StepCases, <1>1, <1>2, <1>3, <1>4, <1>5, <1>6, <1>7, <1>8, <1>9, <1>10,
       <1>11, <1>12, <1>13, <1>14

LEMMA ShapeHolds ==
    ASSUME SizesAssumption PROVE Spec => []Shape
<1>1. Init => Shape
  <2>1. <<>> \in Files /\ Len(<<>>) = 0 /\ 0 <= Depth
    BY DEF Files, SizesAssumption
  <2>2. Init => TypeOK
    <3>1. 0 \in 0 .. MaxTries
      BY DEF SizesAssumption
    <3> QED
      BY <2>1, <3>1, StopsAre DEF Init, TypeOK, Publications
  <2> QED
    BY <2>1, <2>2 DEF Init, Shape, HashFollowsPart, BodyFollowsHash, Endings, Running
<1>2. Shape /\ [Next]_vars => Shape'
    BY TypeStep, HashStep, BodyStep, EndingsStep DEF Shape
<1> QED
    BY <1>1, <1>2, PTL DEF Spec

-----------------------------------------------------------------------------
(* What is on the disk.                                                    *)

\* A file of the first publication's chunks and of its size is all of it.
LEMMA WholeIs ==
    ASSUME SizesAssumption, NEW s \in Files
    PROVE  s = Whole(1) <=> Len(s) = FirstSize /\ \A i \in 1 .. Len(s) : s[i] = 1
<1>1. Size[1] = FirstSize /\ FirstSize \in Nat
    BY DEF Size, SizesAssumption
<1>2. /\ Whole(1) \in Seq(Publications) /\ Len(Whole(1)) = FirstSize
      /\ \A i \in 1 .. FirstSize : Whole(1)[i] = 1
    BY <1>1 DEF Whole, Publications
<1> QED
    BY <1>1, <1>2, SeqEqual DEF Files

LEMMA FirstOnlyStep ==
    ASSUME SizesAssumption, Shape, FirstOnly, [Next]_vars PROVE FirstOnly'
<1> USE DEF FirstOnly, OfTheFirst, server, disk, transfer
<1>0. /\ Size[1] = FirstSize /\ FirstSize \in Nat /\ <<>> \in Files
      /\ part # Absent => part \in Files /\ Len(part) \in Nat
      /\ published' = 1 => published = 1
  <2>1. published' = published \/ published' = 2
    BY StepCases DEF StartTry, Replay, HandOn, Check, Connect, LineFails, Pump, Look,
       ReadChunk, Verify, Finish, Discard, Join, UnpackCheck, UnpackRead, UnpackEof,
       UnpackFails, Cancel, Pause, Resume, Republish, Crash, vars
  <2>2. part # Absent => part \in Files /\ Len(part) \in Nat
    BY DEF Shape, TypeOK, Files
  <2>3. Size[1] = FirstSize /\ FirstSize \in Nat
    BY DEF Size, SizesAssumption
  <2> QED
    BY <2>1, <2>2, <2>3, AbsentIsNoFile
<1>1. CASE StartTry
    BY <1>0, <1>1 DEF StartTry
<1>2. CASE Replay \/ HandOn
    BY <1>0, <1>2 DEF Replay, HandOn, Stop
<1>3. CASE Check \/ LineFails \/ Pump \/ Look
    BY <1>0, <1>3 DEF Check, LineFails, Pump, Look, Stop
<1>4. CASE Connect
  <2>1. hashed = part /\ part # Absent
    BY <1>4, <1>0 DEF Connect, Shape, HashFollowsPart, TypeOK, SizesAssumption, Files,
                      Publications
  <2>2. CASE UNCHANGED part /\ pc' \notin {"verify", "finish"}
    BY <1>0, <2>2
  <2>3. CASE UNCHANGED part /\ pc' = "verify"
    BY <1>0, <1>4, <2>1, <2>3 DEF Connect, Answer, StartOver, Stop, Discarding
  <2>4. CASE part' = <<>> /\ pc' = "pump"
    BY <1>0, <2>4
  <2> QED
    BY <1>4, <2>2, <2>3, <2>4 DEF Connect, Answer, Stop, StartOver
<1>5. CASE ReadChunk
  <2>1. /\ hashed = part /\ part \in Files /\ body.at = Len(part)
        /\ body.at <= Size[body.of] /\ body.of \in {1, 2}
        /\ published = 1 => body.of = 1
    BY <1>5, <1>0
       DEF ReadChunk, Shape, HashFollowsPart, BodyFollowsHash, Publications, TypeOK
  <2>2. CASE body.at = Size[body.of]
    BY <1>0, <1>5, <2>1, <2>2 DEF ReadChunk
  <2>3. CASE body.at # Size[body.of]
    <3>1. part' = Append(part, body.of) /\ pc' \notin {"verify", "finish"}
      BY <1>5, <2>3 DEF ReadChunk, Taken
    <3>2. ASSUME published = 1 PROVE OfTheFirst(part')
      <4>1. body.of = 1 /\ Len(part) < FirstSize /\ OfTheFirst(part) /\ part # Absent
        BY <1>0, <2>1, <2>3, <3>2 DEF SizesAssumption, Files, Publications
      <4>2. /\ part' = Append(part, 1) /\ Len(part') = Len(part) + 1
            /\ \A i \in 1 .. Len(part) : part'[i] = part[i]
            /\ part'[Len(part) + 1] = 1
        BY <2>1, <3>1, <4>1 DEF Files, Publications
      <4> QED
        BY <1>0, <4>1, <4>2
    <3> QED
      BY <1>0, <3>1, <3>2
  <2> QED
    BY <2>2, <2>3
<1>6. CASE Verify
    BY <1>0, <1>6 DEF Verify, Stop
<1>7. CASE Finish \/ Discard \/ Join \/ Crash
    BY <1>0, <1>7 DEF Finish, Discard, Join, Crash, Stop
<1>8. CASE \/ UnpackCheck \/ UnpackRead \/ UnpackEof \/ UnpackFails
           \/ Cancel \/ Pause \/ Resume \/ Republish \/ UNCHANGED vars
    BY <1>0, <1>8, Bystanders
<1> QED
    BY StepCases, <1>1, <1>2, <1>3, <1>4, <1>5, <1>6, <1>7, <1>8

\* What is verified while the server has the first publication is all of it.
LEMMA VerifiesTheFirst ==
    ASSUME SizesAssumption, Shape, FirstOnly, published = 1,
           pc \in {"verify", "finish"}
    PROVE  hashed = Whole(1)
<1>1. hashed = part /\ part \in Files /\ part # Absent
    BY DEF Shape, HashFollowsPart, TypeOK, SizesAssumption, Files, Publications
<1> QED
    BY <1>1, WholeIs DEF FirstOnly, OfTheFirst

LEMMA DiskStep ==
    ASSUME SizesAssumption, Shape, FirstOnly, VerifiedIsFirst, DestinationIsWhole,
           NoFalseAlarm, [Next]_vars
    PROVE  VerifiedIsFirst' /\ DestinationIsWhole' /\ NoFalseAlarm'
<1> USE DEF VerifiedIsFirst, DestinationIsWhole, NoFalseAlarm, server, disk, transfer
<1>1. CASE StartTry \/ Replay \/ HandOn
    BY <1>1 DEF StartTry, Replay, HandOn, Stop
<1>2. CASE Check \/ LineFails \/ Pump \/ Look
    BY <1>2 DEF Check, LineFails, Pump, Look, Stop
<1>3. CASE Connect
    BY <1>3 DEF Connect, Answer, StartOver, Stop
<1>4. CASE ReadChunk
    BY <1>4 DEF ReadChunk, Taken
<1>5. CASE Verify
  <2>1. published = 1 => hashed = Whole(1)
    BY <1>5, VerifiesTheFirst DEF Verify
  <2> QED
    BY <1>5, <2>1 DEF Verify, Stop
<1>6. CASE Finish
  <2>1. hashed = part /\ (published = 1 => hashed = Whole(1))
    BY <1>6, VerifiesTheFirst DEF Finish, Shape, HashFollowsPart
  <2> QED
    BY <1>6, <2>1 DEF Finish, Stop
<1>7. CASE Discard \/ Join \/ Crash
    BY <1>7 DEF Discard, Join, Crash
<1>8. CASE \/ UnpackCheck \/ UnpackRead \/ UnpackEof \/ UnpackFails
           \/ Cancel \/ Pause \/ Resume \/ UNCHANGED vars
    BY <1>8, Bystanders DEF UnpackCheck, UnpackRead, UnpackEof, UnpackFails, Cancel,
       Pause, Resume, vars
<1>9. CASE Republish
    BY <1>9 DEF Republish
<1> QED
    BY StepCases, <1>1, <1>2, <1>3, <1>4, <1>5, <1>6, <1>7, <1>8, <1>9

\* The destination is the published file, and a file that was published once
\* and for all is never taken for a damaged one.
THEOREM DestinationIsWholeHolds ==
    ASSUME SizesAssumption
    PROVE  Spec => [](DestinationIsWhole /\ NoFalseAlarm)
<1>1. Init => FirstOnly /\ VerifiedIsFirst /\ DestinationIsWhole /\ NoFalseAlarm
    BY DEF Init, FirstOnly, VerifiedIsFirst, DestinationIsWhole, NoFalseAlarm
<1> QED
    BY <1>1, FirstOnlyStep, DiskStep, ShapeHolds, PTL DEF Spec

-----------------------------------------------------------------------------
(* The unpacker's stream.                                                  *)

LEMMA Grown ==
    ASSUME NEW s \in Files, NEW x \in Publications
    PROVE  SubSeq(Append(s, x), 1, Len(s)) = s
<1>1. /\ Append(s, x) \in Seq(Publications) /\ Len(Append(s, x)) = Len(s) + 1
      /\ Len(s) \in Nat /\ \A i \in 1 .. Len(s) : Append(s, x)[i] = s[i]
    BY DEF Files
<1>2. \A i \in 1 .. Len(s) : Append(s, x)[i] \in Publications
    BY <1>1 DEF Files
<1> DEFINE t == SubSeq(Append(s, x), 1, Len(s))
<1>3. t \in Seq(Publications) /\ Len(t) = Len(s) /\ \A i \in 1 .. Len(s) : t[i] = s[i]
  <2>1. /\ t \in Seq(Publications)
        /\ Len(t) = IF 1 <= Len(s) THEN Len(s) - 1 + 1 ELSE 0
        /\ \A i \in 1 .. Len(s) - 1 + 1 : t[i] = Append(s, x)[1 + i - 1]
    BY <1>1, <1>2, SubSeqProperties
  <2> QED
    BY <1>1, <2>1
<1> QED
    BY <1>3, SeqEqual DEF Files

LEMMA HandedOver ==
    ASSUME NEW s \in Files, Len(s) > 0
    PROVE  Append(SubSeq(s, 1, Len(s) - 1), s[Len(s)]) = s
<1>1. /\ Len(s) \in Nat /\ Len(s) \in 1 .. Len(s) /\ 1 \in 1 .. Len(s)
      /\ s[Len(s)] \in Publications
      /\ \A i \in 1 .. Len(s) - 1 : s[i] \in Publications
    BY DEF Files
<1>2. SubSeq(s, 1, Len(s)) = SubSeq(s, 1, Len(s) - 1) \o <<s[Len(s)]>>
    BY <1>1, SubSeqRecursiveSecond DEF Files
<1>3. SubSeq(s, 1, Len(s)) = s
    BY SubSeqFull DEF Files
<1>4. SubSeq(s, 1, Len(s) - 1) \in Seq(Publications)
    BY <1>1, SubSeqProperties
<1> QED
    BY <1>1, <1>2, <1>3, <1>4, AppendIsConcat

LEMMA IntoThePipe ==
    ASSUME NEW g \in Files, NEW p \in Files, NEW x \in Publications
    PROVE  g \o Append(p, x) = Append(g \o p, x)
<1>1. /\ Append(p, x) = p \o <<x>> /\ <<x>> \in Seq(Publications)
      /\ g \o p \in Seq(Publications)
    BY AppendIsConcat DEF Files
<1>2. Append(g \o p, x) = (g \o p) \o <<x>>
    BY <1>1, AppendIsConcat
<1> QED
    BY <1>1, <1>2, ConcatAssociative DEF Files

LEMMA OutOfThePipe ==
    ASSUME NEW g \in Files, NEW p \in Files, p # <<>>
    PROVE  Append(g, Head(p)) \o Tail(p) = g \o p
<1>1. /\ Head(p) \in Publications /\ Tail(p) \in Seq(Publications)
      /\ <<Head(p)>> \in Seq(Publications)
    BY HeadTailProperties DEF Files
<1>2. Append(g, Head(p)) = g \o <<Head(p)>> /\ p = <<Head(p)>> \o Tail(p)
    BY <1>1, AppendIsConcat, HeadTailAppend DEF Files
<1> QED
    BY <1>1, <1>2, ConcatAssociative DEF Files

\* What of the hash is in the pipe or beyond it.
Handed == SubSeq(hashed, 1, IF pc = "hand" THEN Len(hashed) - 1 ELSE Len(hashed))
Flowing == streaming /\ Running /\ result # "consumer"
Flows == Flowing => got \o pipe = Handed

LEMMA StreamIs ==
    ASSUME Shape PROVE StreamIsTheFile <=> Flows
BY DEF Shape, Endings, StreamIsTheFile, Flows, Flowing, Handed

\* What the pipe leaves alone.
LEMMA FlowStill ==
    ASSUME Flows, Flowing' => Flowing, UNCHANGED <<hashed, pipe, got>>,
           pc # "hand", pc' # "hand"
    PROVE  Flows'
BY DEF Flows, Handed

LEMMA FlowStep ==
    ASSUME SizesAssumption, Shape, Flows, [Next]_vars PROVE Flows'
<1> USE DEF server, disk, transfer, consumer, token, Running
<1>0. /\ hashed \in Files /\ pipe \in Files /\ got \in Files /\ Len(hashed) \in Nat
      /\ SubSeq(hashed, 1, Len(hashed)) = hashed
    BY SubSeqFull DEF Shape, TypeOK, Files
<1>1. CASE StartTry
  <2>1. <<>> \o <<>> = <<>> /\ SubSeq(<<>>, 1, Len(<<>>)) = <<>>
    BY ConcatEmptySeq, SubSeqFull, AbsentIsNoFile DEF Files
  <2> QED
    BY <1>1, <2>1 DEF StartTry, Flows, Handed
<1>2. CASE Replay
  <2>1. CASE Len(hashed) < Len(part)
    <3>1. /\ hashed' = Append(hashed, part[Len(hashed) + 1])
          /\ streaming => pc' = "hand"
          /\ UNCHANGED <<pipe, got, streaming, result>> /\ pc = "replay"
      BY <1>2, <2>1 DEF Replay
    <3>2. part[Len(hashed) + 1] \in Publications
      BY <1>0, <2>1, <3>1 DEF Shape, TypeOK, HashFollowsPart, BodyFollowsHash, Files
    <3>3. Len(hashed') - 1 = Len(hashed) /\ SubSeq(hashed', 1, Len(hashed)) = hashed
      BY <1>0, <3>1, <3>2, Grown DEF Files
    <3> QED
      BY <1>0, <3>1, <3>3 DEF Flows, Flowing, Handed
  <2>2. CASE ~(Len(hashed) < Len(part))
    BY <1>2, <2>2, FlowStill DEF Replay, Flowing
  <2> QED
    BY <2>1, <2>2
<1>3. CASE HandOn
  <2>1. CASE unpacker = "gone"
    BY <1>3, <2>1 DEF HandOn, Stop, Flows, Flowing
  <2>2. CASE unpacker # "gone"
    <3>1. /\ pipe' = Append(pipe, hashed[Len(hashed)])
          /\ pc' # "hand" /\ pc = "hand" /\ result # "consumer" /\ Len(hashed) > 0
          /\ UNCHANGED <<hashed, got, streaming, result>> /\ streaming
      BY <1>3, <2>2 DEF HandOn, Shape, Endings, HashFollowsPart
    <3>2. got \o pipe = SubSeq(hashed, 1, Len(hashed) - 1)
      BY <3>1 DEF Flows, Flowing, Handed
    <3>3. hashed[Len(hashed)] \in Publications
      BY <1>0, <3>1 DEF Files
    <3>4. got \o pipe' = hashed
      BY ZenonT(60), <1>0, <3>1, <3>2, <3>3, IntoThePipe, HandedOver
    <3> QED
      BY <1>0, <3>1, <3>4 DEF Flows, Handed
  <2> QED
    BY <2>1, <2>2
<1>4. CASE Check \/ LineFails \/ Pump \/ Look \/ Verify
  <2>1. /\ UNCHANGED <<hashed, pipe, got, streaming>> /\ pc # "hand" /\ pc' # "hand"
        /\ result = "none" /\ pc # "idle"
    BY <1>4 DEF Check, LineFails, Pump, Look, Verify, Stop, Discarding, Shape, Endings
  <2> QED
    BY <2>1, FlowStill DEF Flowing
<1>5. CASE Connect
  <2>1. /\ UNCHANGED <<pipe, got, streaming>> /\ (streaming => hashed' = hashed)
        /\ pc = "connect" /\ pc' # "hand" /\ result = "none"
    BY <1>5 DEF Connect, Answer, StartOver, Stop, Discarding, Shape, Endings
  <2> QED
    BY <2>1, FlowStill DEF Flows, Flowing
<1>6. CASE ReadChunk
  <2>1. CASE body.at = Size[body.of]
    BY <1>6, <2>1, FlowStill DEF ReadChunk, Flowing
  <2>2. CASE body.at # Size[body.of]
    <3>1. /\ hashed' = Append(hashed, body.of) /\ (streaming => pc' = "hand")
          /\ body.of \in Publications
          /\ UNCHANGED <<pipe, got, streaming, result>> /\ pc = "read"
      BY <1>6, <2>2 DEF ReadChunk, Taken, Shape, BodyFollowsHash
    <3>2. Len(hashed') - 1 = Len(hashed) /\ SubSeq(hashed', 1, Len(hashed)) = hashed
      BY <1>0, <3>1, Grown DEF Files
    <3> QED
      BY <1>0, <3>1, <3>2 DEF Flows, Flowing, Handed
  <2> QED
    BY <2>1, <2>2
<1>7. CASE Finish
  <2>1. /\ UNCHANGED <<hashed, pipe, got, streaming>> /\ pc = "finish" /\ pc' # "hand"
        /\ result = "none"
    BY <1>7 DEF Finish, Stop, Discarding, Shape, Endings
  <2> QED
    BY <2>1, FlowStill DEF Flowing
<1>8. CASE Discard \/ Join
    BY <1>8, FlowStill DEF Discard, Join, Flowing
<1>9. CASE UnpackRead
  <2>1. got' \o pipe' = got \o pipe
    BY <1>0, <1>9, OutOfThePipe DEF UnpackRead
  <2> QED
    BY <1>9, <2>1, Bystanders DEF Flows, Flowing, Handed
<1>10. CASE \/ UnpackCheck \/ UnpackEof \/ UnpackFails
            \/ Cancel \/ Pause \/ Resume \/ Republish \/ UNCHANGED vars
  <2>1. UNCHANGED <<pipe, got>>
    BY <1>10 DEF UnpackCheck, UnpackEof, UnpackFails, UnpackEnds, Cancel, Pause,
                 Resume, Republish, vars
  <2> QED
    BY <1>10, <2>1, Bystanders DEF Flows, Flowing, Handed
<1>11. CASE Crash
    BY <1>11 DEF Crash, Flows, Flowing
<1> QED
    BY StepCases, <1>1, <1>2, <1>3, <1>4, <1>5, <1>6, <1>7, <1>8, <1>9, <1>10, <1>11

\* The unpacker gets the file from its start, each chunk once and in order.
THEOREM StreamIsTheFileHolds ==
    ASSUME SizesAssumption PROVE Spec => []StreamIsTheFile
<1>1. Init => Flows
    BY DEF Init, Flows, Flowing, Running
<1>2. Spec => []Flows
    BY <1>1, FlowStep, ShapeHolds, PTL DEF Spec
<1> QED
    BY <1>2, StreamIs, ShapeHolds, PTL

-----------------------------------------------------------------------------
(* What is installed.                                                      *)

LEMMA InstalledStep ==
    ASSUME Shape, Flows, InstalledIsVerified, [Next]_vars
    PROVE  InstalledIsVerified'
<1> USE DEF server, disk, transfer, consumer, token, Running, InstalledIsVerified
<1>1. CASE Join
  <2>1. /\ UNCHANGED <<streaming, unpacked, got, dest, pipe, hashed, result>>
        /\ pc = "join" /\ outcome' = Combine
    BY <1>1 DEF Join
  <2>2. ASSUME streaming, Combine = "ok" PROVE unpacked = "ok" /\ got = dest
    <3>1. unpacked = "ok" /\ result = "ok" /\ pipe = <<>> /\ dest = hashed
      BY <2>2 DEF Combine, Shape, Endings
    <3>2. got \o <<>> = SubSeq(hashed, 1, Len(hashed))
      BY <2>1, <2>2, <3>1 DEF Flows, Flowing, Handed
    <3>3. got = hashed
      BY <3>2, ConcatEmptySeq, SubSeqFull DEF Shape, TypeOK, Files
    <3> QED
      BY <3>1, <3>3
  <2> QED
    BY <2>1, <2>2
<1>2. CASE pc # "idle" /\ UNCHANGED outcome
    BY <1>2 DEF Shape, Endings
<1>3. CASE Replay \/ HandOn \/ Check \/ Connect \/ LineFails \/ Pump \/ Look
           \/ ReadChunk
    BY <1>2, <1>3 DEF Replay, HandOn, Check, Connect, LineFails, Pump, Look, ReadChunk
<1>4. CASE Verify \/ Finish \/ Discard \/ Cancel \/ Pause \/ Resume
    BY <1>2, <1>4 DEF Verify, Finish, Discard, Cancel, Pause, Resume
<1>5. CASE UnpackCheck \/ UnpackRead \/ UnpackEof \/ UnpackFails
    BY <1>2, <1>5 DEF UnpackCheck, UnpackRead, UnpackEof, UnpackFails, Shape, Endings
<1>6. CASE StartTry \/ Crash \/ Republish \/ UNCHANGED vars
    BY <1>6 DEF StartTry, Crash, Republish, vars
<1> QED
    BY StepCases, <1>1, <1>3, <1>4, <1>5, <1>6

\* A download is whole: the destination, the consumer's stream and what is
\* installed are the published file, whatever happened on the way.
THEOREM DownloadIsWholeHolds ==
    ASSUME SizesAssumption PROVE Spec => []DownloadIsWhole
<1>1. Init => InstalledIsVerified
    BY DEF Init, InstalledIsVerified
<1>2. Shape => (StreamIsTheFile <=> Flows)
    BY StreamIs
<1>3. Spec => []InstalledIsVerified
    BY <1>1, <1>2, InstalledStep, ShapeHolds, StreamIsTheFileHolds, PTL DEF Spec
<1>4. Shape => TypeOK
    BY DEF Shape
<1> QED
    BY <1>3, <1>4, ShapeHolds, DestinationIsWholeHolds, StreamIsTheFileHolds, PTL
       DEF DownloadIsWhole

=============================================================================
