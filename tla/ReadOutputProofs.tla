-------------------------- MODULE ReadOutputProofs --------------------------
(***************************************************************************)
(* That a response is read exactly, protected before it is written and     *)
(* reported truly: for every limit, every size of a chunk and every way in *)
(* which the calls may fail.                                               *)
(***************************************************************************)
EXTENDS ReadOutput, SequenceTheorems, TLAPS

\* What was pulled and not yet reduced.
Pending == IF ahead = <<>> THEN 0 ELSE ahead[1]

\* The body may be parsed, or can no longer become one that may.
Good == Len(got) <= Limit /\ Text(got) /\ json = TRUE /\ taken = Len(got)
Rejected ==
  \/ Len(got) > Limit \/ ~Decodes(Len(got))
  \/ wire = "ended" /\ ~(Text(got) /\ json = TRUE)

\* The decoder has accepted what was reduced; what was given up could not be
\* read, whatever is pulled after it.
BodyInv ==
  /\ at = "read" =>
       sound = TRUE /\ Len(got) = taken + Pending /\ Decodes(taken) /\ wire # "cancelled"
  /\ at = "cancel" =>
       /\ Len(got) <= Limit + MaxChunk + Pending
       /\ sound = TRUE => wire = "ended" /\ Good
       /\ sound = FALSE /\ wire # "broken" => Rejected
  /\ at \notin {"read", "cancel", "done"} => wire = "ended" /\ Good
  /\ report = "unread" /\ wire # "broken" => Rejected
  /\ report \notin {"none", "killed"} => wire # "open"
  /\ Len(got) <= Limit + 2 * MaxChunk

Untouched == dir = "none" /\ file = "none"
Before == {"read", "cancel", "render", "mkdtemp"}

\* How far the export has come at each of its calls.
DiskInv ==
  /\ content # "empty" => dir = "private" /\ file = "private"
  /\ at # "done" => report = "none"
  /\ at \in Before => Untouched
  /\ at \in Before \cup {"secure_directory", "lstat", "open"} =>
       file = "none" /\ handle = FALSE
  /\ at \notin {"cancel", "close", "rm", "done"} => sound = TRUE
  /\ at \in Before \cup {"secure_directory", "lstat", "open", "stat", "secure_file", "write"} =>
       content = "empty"
  /\ at \in {"secure_file", "secure_directory"} => windows = TRUE
  /\ at = "lstat" /\ windows = TRUE => dir = "private"
  /\ at \in {"open", "stat", "secure_file", "write", "sync"} => dir = "private"
  /\ at \in {"write", "sync"} => file = "private"
  /\ at = "sync" => content = "whole"
  /\ at = "close" /\ sound = TRUE =>
       dir = "private" /\ file = "private" /\ content = "whole" /\ synced = TRUE
  /\ at = "rm" => sound = FALSE
  /\ report = "exported" =>
       dir = "private" /\ file = "private" /\ content = "whole" /\ synced = TRUE /\ handle = FALSE
  /\ report \in {"unread", "printed", "refused", "no_directory", "failed"} => Untouched

OInv == OTypeOK /\ BodyInv /\ DiskInv

-----------------------------------------------------------------------------
\* Whole characters are what the decoder accepts and what does not end inside one.
LEMMA TextDecodes ==
  ASSUME got \in Seq(Byte)
  PROVE  /\ Text(got) <=> Decodes(Len(got)) /\ Whole(Len(got))
         /\ Text(Append(got, "trail")) => Decodes(Len(got))
<1>1. Len(got) \in Nat /\ DOMAIN got = 1..Len(got) /\ (got # <<>> <=> Len(got) > 0)
      BY LenProperties, EmptySeq
<1>2. \A i \in 1..Len(got) : got[i] \in Byte BY ElementOfSeq
<1>3. Text(got) => Decodes(Len(got)) /\ Whole(Len(got))
  <2> SUFFICES ASSUME Text(got) PROVE Decodes(Len(got)) /\ Whole(Len(got))
      OBVIOUS
  <2>1. \A i \in 1..Len(got) : got[i] = "lead" <=> i < Len(got) /\ got[i + 1] = "trail"
        BY <1>1 DEF Text
  <2>2. ASSUME NEW i \in 1..Len(got), got[i] = "trail" PROVE i > 1 /\ got[i - 1] = "lead"
    <3>1. i # 1 BY <1>1, <2>2 DEF Text
    <3>2. i - 1 \in 1..Len(got) /\ i - 1 < Len(got) /\ (i - 1) + 1 = i BY <1>1, <3>1
    <3> QED BY <2>1, <2>2, <3>1, <3>2
  <2> QED BY <1>1, <2>1, <2>2 DEF Decodes, Whole
<1>4. ASSUME Decodes(Len(got)), Whole(Len(got)) PROVE Text(got)
  <2>1. got # <<>> => got[1] # "trail" BY <1>1, <1>4 DEF Decodes
  <2>2. ASSUME NEW i \in 1..Len(got)
        PROVE  got[i] = "lead" <=> i < Len(got) /\ got[i + 1] = "trail"
    <3>1. got[i] = "lead" => i < Len(got) BY <1>1, <1>4 DEF Whole
    <3>2. got[i] = "lead" => got[i + 1] = "trail" BY <1>1, <1>4, <3>1 DEF Decodes
    <3>3. ASSUME i < Len(got), got[i + 1] = "trail" PROVE got[i] = "lead"
      <4>1. i + 1 \in 1..Len(got) /\ (i + 1) - 1 = i BY <1>1, <3>3
      <4> QED BY <1>4, <3>3, <4>1 DEF Decodes
    <3> QED BY <3>1, <3>2, <3>3
  <2> QED BY <1>1, <2>1, <2>2 DEF Text
<1>5. ASSUME Text(Append(got, "trail")) PROVE Decodes(Len(got))
  <2> DEFINE b == Append(got, "trail")
  <2>1. /\ b \in Seq(Byte) /\ Len(b) = Len(got) + 1 /\ DOMAIN b = 1..(Len(got) + 1)
        /\ \A i \in 1..Len(got) : b[i] = got[i]
    <3>1. "trail" \in Byte BY DEF Byte
    <3> QED BY <1>1, <3>1
  <2>2. b # <<>> BY <1>1, <2>1
  <2> HIDE DEF b
  <2>3. \A i \in 1..Len(got) : b[i] = "lead" <=> i < Len(b) /\ b[i + 1] = "trail"
        BY <1>1, <1>5, <2>1 DEF Text, b
  <2>4. ASSUME NEW i \in 1..Len(got), got[i] = "trail" PROVE i > 1 /\ got[i - 1] = "lead"
    <3>1. i # 1 BY <1>1, <1>5, <2>1, <2>2, <2>4 DEF Text, b
    <3>2. i - 1 \in 1..Len(got) /\ i - 1 < Len(b) /\ (i - 1) + 1 = i BY <1>1, <2>1, <3>1
    <3> QED BY <2>1, <2>3, <2>4, <3>1, <3>2
  <2>5. ASSUME NEW i \in 1..Len(got), got[i] = "lead", i < Len(got)
        PROVE  got[i + 1] = "trail"
    <3>1. i + 1 \in 1..Len(got) BY <1>1, <2>5
    <3> QED BY <2>1, <2>3, <2>5, <3>1
  <2> QED BY <1>1, <2>4, <2>5 DEF Decodes
<1> QED BY <1>3, <1>4, <1>5

\* What is pulled changes nothing of what was pulled before.
LEMMA PullFacts ==
  ASSUME got \in Seq(Byte), NEW n \in 0..MaxChunk, NEW bytes \in [1..n -> Byte],
         got' = got \o bytes
  PROVE  /\ got' \in Seq(Byte) /\ Len(got') = Len(got) + n
         /\ \A k \in 0..Len(got) : Decodes(k)' <=> Decodes(k)
         /\ ~Decodes(Len(got)) => ~(Decodes(Len(got))')
<1>1. bytes \in Seq(Byte) /\ Len(bytes) = n BY OutputAssumption
<1>2. Len(got) \in Nat /\ n \in Nat BY LenProperties, OutputAssumption
<1>3. /\ got' \in Seq(Byte) /\ Len(got') = Len(got) + n
      /\ \A i \in 1..Len(got) : got'[i] = got[i]
      BY <1>1, <1>2, ConcatProperties
<1>4. ASSUME NEW k \in 0..Len(got) PROVE Decodes(k)' <=> Decodes(k)
      BY <1>2, <1>3 DEF Decodes
<1>5. Decodes(Len(got))' => Decodes(Len(got))
  <2> SUFFICES ASSUME Decodes(Len(got))', NEW i \in 1..Len(got)
               PROVE  /\ got[i] = "trail" => i > 1 /\ got[i - 1] = "lead"
                      /\ got[i] = "lead" /\ i < Len(got) => got[i + 1] = "trail"
      BY DEF Decodes
  <2>1. i \in 1..Len(got') /\ got'[i] = got[i] BY <1>2, <1>3
  <2>2. i > 1 => got'[i - 1] = got[i - 1] BY <1>2, <1>3
  <2>3. i < Len(got) => got'[i + 1] = got[i + 1] /\ i < Len(got') BY <1>2, <1>3
  <2> QED BY <2>1, <2>2, <2>3 DEF Decodes
<1> QED BY <1>2, <1>3, <1>4, <1>5

-----------------------------------------------------------------------------
LEMMA OInvInit == OInit => OInv
<1> SUFFICES ASSUME OInit PROVE OInv
    OBVIOUS
<1> USE OutputAssumption
<1>1. OTypeOK
  <2>1. got \in Seq(Byte) /\ taken \in 0..Limit BY EmptySeq DEF OInit
  <2>2. json \in BOOLEAN /\ windows \in BOOLEAN BY DEF OInit
  <2> QED BY <2>1, <2>2 DEF OInit, OTypeOK, Parts
<1>2. Len(got) = 0 /\ Pending = 0 /\ Decodes(taken)
      BY DEF OInit, Pending, Decodes
<1>3. BodyInv BY <1>2 DEF OInit, BodyInv
<1>4. DiskInv BY DEF OInit, DiskInv, Untouched, Before
<1> QED BY <1>1, <1>3, <1>4 DEF OInv

LEMMA PullKeeps ==
  ASSUME OInv, Pull PROVE OInv'
<1> USE OutputAssumption
<1>1. PICK n \in 0..MaxChunk : \E bytes \in [1..n -> Byte] :
        got' = got \o bytes /\ ahead' = <<n>>
      BY DEF Pull
<1>2. /\ got' \in Seq(Byte) /\ Len(got') = Len(got) + n
      /\ \A k \in 0..Len(got) : Decodes(k)' <=> Decodes(k)
      /\ ~Decodes(Len(got)) => ~(Decodes(Len(got))')
      BY <1>1, PullFacts DEF OInv, OTypeOK
<1>3. /\ Pending = 0 /\ Pending' = n /\ wire = "open" /\ at \in {"read", "cancel"}
      /\ UNCHANGED <<taken, wire, json, windows, at, sound, dir, file, content, handle, synced, report>>
      BY <1>1 DEF Pull, Pending, given, disk
<1>4. Len(got) \in Nat /\ n \in Nat /\ taken \in Nat
      BY LenProperties DEF OInv, OTypeOK
<1>5. OTypeOK' BY <1>1, <1>2, <1>3 DEF OInv, OTypeOK
<1>6. BodyInv'
  <2>1. CASE at = "read"
        BY <1>2, <1>3, <1>4, <2>1 DEF OInv, OTypeOK, DiskInv, BodyInv
  <2>2. CASE at = "cancel"
    <3>1. Rejected => Rejected' BY <1>2, <1>3, <1>4 DEF Rejected
    <3> QED BY <1>2, <1>3, <1>4, <2>2, <3>1 DEF OInv, OTypeOK, DiskInv, BodyInv
  <2> QED BY <1>3, <2>1, <2>2
<1>7. DiskInv' BY <1>3 DEF OInv, DiskInv, Untouched
<1> QED BY <1>5, <1>6, <1>7 DEF OInv

LEMMA ReduceKeeps ==
  ASSUME OInv, Reduce PROVE OInv'
<1> USE OutputAssumption
<1> DEFINE n == ahead[1]
<1>1. /\ at = "read" /\ ahead # <<>> /\ wire # "broken" /\ ahead' = <<>>
      /\ UNCHANGED <<got, json, windows, wire, dir, file, content, handle, synced, report>>
      BY DEF Reduce, given, disk, GoTo
<1>2. /\ Pending = n /\ Pending' = 0 /\ n \in 0..MaxChunk /\ Len(got) \in Nat /\ taken \in Nat
      /\ Len(got) = taken + n /\ taken <= Limit /\ got \in Seq(Byte)
      BY <1>1, LenProperties DEF OInv, OTypeOK, BodyInv, Pending
<1>3. CASE Accepted(n)
  <2>1. taken' = taken + n /\ at' = at /\ sound' = sound BY <1>3 DEF Reduce
  <2>2. taken' \in 0..Limit /\ Decodes(taken)'
        BY <1>1, <1>2, <1>3, <2>1 DEF Accepted, Fits, Decodes
  <2>3. OTypeOK' BY <1>1, <2>1, <2>2 DEF OInv, OTypeOK
  <2>4. BodyInv' BY <1>1, <1>2, <2>1, <2>2 DEF OInv, DiskInv, BodyInv
  <2>5. DiskInv' BY <1>1, <2>1 DEF OInv, DiskInv, Untouched
  <2> QED BY <2>3, <2>4, <2>5 DEF OInv
<1>4. CASE ~Accepted(n)
  <2>1. sound' = FALSE /\ at' = "cancel" /\ taken' = taken
        BY <1>4 DEF Reduce, GoTo
  <2>2. Rejected' BY <1>1, <1>2, <1>4 DEF Accepted, Fits, Rejected, Decodes
  <2>3. OTypeOK' BY <1>1, <2>1 DEF OInv, OTypeOK
  <2>4. BodyInv' BY <1>1, <1>2, <2>1, <2>2 DEF OInv, DiskInv, BodyInv
  <2>5. DiskInv' BY <1>1, <2>1 DEF OInv, DiskInv, Untouched, Before
  <2> QED BY <2>3, <2>4, <2>5 DEF OInv
<1> QED BY <1>3, <1>4

LEMMA WireKeeps ==
  ASSUME OInv, EndBody \/ BreakBody PROVE OInv'
<1>1. /\ at = "read" /\ wire' \in {"ended", "broken"}
      /\ UNCHANGED <<got, ahead, taken, json, windows, at, sound>>
      /\ UNCHANGED <<dir, file, content, handle, synced, report>>
      BY DEF EndBody, BreakBody, given, disk
<1>2. OTypeOK' BY <1>1 DEF OInv, OTypeOK
<1>3. BodyInv' BY <1>1 DEF OInv, DiskInv, BodyInv, Pending, Decodes
<1>4. DiskInv' BY <1>1 DEF OInv, DiskInv, Untouched
<1> QED BY <1>2, <1>3, <1>4 DEF OInv

\* A body is sound if it has ended, and all of it is text and JSON.
LEMMA ParseKeeps ==
  ASSUME OInv, Parse PROVE OInv'
<1> USE OutputAssumption
<1>1. /\ at = "read" /\ at' = "cancel"
      /\ wire = "broken" \/ (wire = "ended" /\ ahead = <<>>)
      /\ UNCHANGED <<got, ahead, taken, wire, json, windows>>
      /\ UNCHANGED <<dir, file, content, handle, synced, report>>
      BY DEF Parse, GoTo, body, given, disk
<1>2. /\ sound' \in BOOLEAN
      /\ sound' = TRUE <=> wire = "ended" /\ Whole(taken) /\ json = TRUE
  <2>1. sound' = (wire = "ended" /\ Whole(taken) /\ json) BY Zenon DEF Parse
  <2>2. json \in BOOLEAN BY DEF OInv, OTypeOK
  <2> HIDE DEF Whole
  <2> QED BY <2>1, <2>2, Zenon
<1>3. /\ got \in Seq(Byte) /\ Len(got) \in Nat /\ taken \in 0..Limit /\ Pending \in 0..MaxChunk
      /\ Len(got) = taken + Pending /\ Decodes(taken)
      BY <1>1, LenProperties DEF OInv, OTypeOK, BodyInv, Pending
<1>4. wire = "ended" => taken = Len(got) BY <1>1, <1>3 DEF Pending
<1>5. Text(got) <=> Decodes(Len(got)) /\ Whole(Len(got)) BY <1>3, TextDecodes
<1>6. sound' = TRUE => wire = "ended" /\ Good
  <2> SUFFICES ASSUME sound' = TRUE PROVE wire = "ended" /\ Good
      OBVIOUS
  <2> HIDE DEF Decodes, Whole, Text
  <2> QED BY <1>2, <1>3, <1>4, <1>5 DEF Good
<1>7. sound' = FALSE /\ wire # "broken" => Rejected
      BY <1>1, <1>2, <1>3, <1>4, <1>5 DEF Rejected
<1>8. Good' <=> Good BY <1>1 DEF Good, Text
<1>9. Rejected' <=> Rejected BY <1>1 DEF Rejected, Text, Decodes
<1>10. OTypeOK' BY <1>1, <1>2 DEF OInv, OTypeOK
<1>11. BodyInv'
  <2>1. Pending' = Pending BY <1>1 DEF Pending
  <2> QED BY <1>1, <1>3, <1>6, <1>7, <1>8, <1>9, <2>1 DEF OInv, DiskInv, BodyInv
<1>12. DiskInv' BY <1>1, <1>2 DEF OInv, DiskInv, Untouched, Before
<1> QED BY <1>10, <1>11, <1>12 DEF OInv

LEMMA CancelKeeps ==
  ASSUME OInv, Cancel \/ CancelFails PROVE OInv'
<1> USE OutputAssumption
<1>1. /\ at = "cancel" /\ wire' = IF wire = "open" THEN "cancelled" ELSE wire
      /\ UNCHANGED <<got, ahead, taken, json, windows>>
      /\ UNCHANGED <<dir, file, content, handle, synced>>
      BY DEF Cancel, CancelFails, given, disk
<1>2. \/ at' = "render" /\ report' = report /\ sound' = sound /\ sound = TRUE
      \/ at' = "done" /\ report' = "unread" /\ sound' = FALSE /\ sound = FALSE
  <2>1. sound \in BOOLEAN BY DEF OInv, OTypeOK
  <2>2. CancelFails => sound = FALSE BY <1>1, <2>1 DEF CancelFails, OInv, BodyInv
  <2>3. CASE sound = TRUE BY <2>2, <2>3 DEF Cancel
  <2>4. CASE sound = FALSE BY <2>2, <2>4 DEF Cancel, CancelFails
  <2> QED BY <2>1, <2>3, <2>4
<1>3. (Good' <=> Good) /\ (Rejected => wire' = "broken" \/ Rejected')
      BY <1>1 DEF Good, Rejected, Text, Decodes
<1>4. OTypeOK'
  <2>1. wire' \in {"ended", "broken", "cancelled"} BY <1>1 DEF OInv, OTypeOK
  <2>2. at' \in {"render", "done"} /\ report' \in {report, "unread"} /\ sound' \in BOOLEAN
        BY <1>2
  <2> HIDE DEF Good, Rejected
  <2> QED BY <1>1, <2>1, <2>2, SMTT(30) DEF OInv, OTypeOK
<1>5. BodyInv'
  <2>1. Pending \in 0..MaxChunk /\ Len(got) \in Nat
        BY LenProperties DEF OInv, OTypeOK, Pending
  <2>2. BodyInv /\ OTypeOK BY DEF OInv
  <2>3. /\ Len(got) <= Limit + 2 * MaxChunk
        /\ sound = TRUE => wire = "ended" /\ Good
        /\ sound = FALSE /\ wire # "broken" => Rejected
        BY <1>1, <2>2 DEF BodyInv
  <2>4. /\ report' # "none" => report' = "unread" \/ report' = report
        /\ wire' # "open" /\ got' = got
        BY <1>1, <1>2
  <2>5. CASE at' = "render"
    <3>1. report' = "none" BY <1>1, <1>2, <2>5 DEF OInv, DiskInv
    <3>2. sound = TRUE BY <1>2, <2>5
    <3>3. wire' = "ended" /\ Good' BY <1>1, <1>3, <2>3, <3>2
    <3>4. Len(got') <= Limit + 2 * MaxChunk BY <2>3, <2>4
    <3> QED BY <2>5, <3>1, <3>3, <3>4 DEF BodyInv
  <2>6. CASE at' = "done" /\ report' = "unread" /\ sound = FALSE
        BY <1>1, <1>3, <2>3, <2>4, <2>6 DEF BodyInv
  <2> QED BY <1>2, <2>5, <2>6
<1>6. DiskInv' BY <1>1, <1>2 DEF OInv, DiskInv, Untouched, Before
<1> QED BY <1>4, <1>5, <1>6 DEF OInv

\* Once the response has been read nothing more is asked of its body.
LEMMA BodyStays ==
  ASSUME OInv, UNCHANGED body, at \notin {"read", "cancel", "done"},
         at' \notin {"read", "cancel"}, report' # "unread"
  PROVE  BodyInv'
<1>1. /\ UNCHANGED <<got, ahead, taken, wire, json>> /\ wire = "ended"
      BY DEF body, given, OInv, BodyInv
<1>2. Good' <=> Good BY <1>1 DEF Good, Text
<1> QED BY <1>1, <1>2 DEF OInv, BodyInv

\* What gives up goes on to what is to be cleaned up.
LEMMA Throws ==
  ASSUME Throw
  PROVE  sound' = FALSE /\ at' \in {"close", "rm"} /\ report' = report
BY DEF Throw, GoTo

\* The calls of an export.
Calls == {"secure_directory", "lstat", "open", "stat", "secure_file", "write", "sync", "close", "rm"}

\* A call of an export changes what it changes to values of the same types.
LEMMA ExportTypes ==
  ASSUME OTypeOK, UNCHANGED <<got, ahead, taken, wire, json, windows, report>>, at' \in Calls,
         dir' \in Parts, file' \in Parts, content' \in {"empty", "part", "whole"},
         handle' \in BOOLEAN, synced' \in BOOLEAN, sound' \in BOOLEAN
  PROVE  OTypeOK'
<1>1. at' \in {"read", "cancel", "render", "mkdtemp", "secure_directory", "lstat", "open",
               "stat", "secure_file", "write", "sync", "close", "rm", "done"}
      BY DEF Calls
<1> QED BY <1>1 DEF OTypeOK

LEMMA ExportKeeps ==
  ASSUME OInv, Render \/ Export PROVE OInv'
<1> USE DEF GoTo, Done, Throw, disk, Parts
<1>1. /\ UNCHANGED body /\ at \notin {"read", "cancel", "done"}
      /\ at' \notin {"read", "cancel"} /\ report' # "unread"
      BY DEF Render, Export, MakeDirectory, SecureDirectory, CheckDirectory, OpenFile, CheckFile,
         SecureFile, WriteFile, Sync, CloseFile, Remove, RemoveFails, OInv, DiskInv
<1>2. BodyInv' BY <1>1, BodyStays
<1>3. UNCHANGED <<got, ahead, taken, wire, json, windows>> BY <1>1 DEF body, given
<1>4. OTypeOK /\ DiskInv BY DEF OInv
<1>5. CASE Render
      BY <1>2, <1>3, <1>4, <1>5 DEF Render, OInv, OTypeOK, DiskInv, Untouched, Before
<1>6. CASE MakeDirectory
  <2>1. /\ at = "mkdtemp" /\ UNCHANGED <<sound, file, content, handle, synced>>
        /\ \/ /\ dir' \in {"loose", "private"} /\ report' = report
              /\ windows = TRUE => at' = "secure_directory"
              /\ windows = FALSE => at' = "lstat"
           \/ at' = "done" /\ report' = "no_directory" /\ dir' = dir
        BY <1>6 DEF MakeDirectory
  <2>2. windows \in BOOLEAN BY <1>4 DEF OTypeOK
  <2>3. OTypeOK' BY <1>3, <1>4, <2>1, <2>2 DEF OTypeOK
  <2>4. DiskInv'
    <3>1. CASE at' = "secure_directory" \/ at' = "lstat"
      <4>1. /\ at' \in {"secure_directory", "lstat"} /\ dir' \in {"loose", "private"}
            /\ at' = "secure_directory" => windows' = TRUE
            /\ at' = "lstat" => windows' # TRUE
            BY <1>3, <2>1, <2>2, <3>1
      <4>2. /\ report' = report /\ file' = file /\ content' = content
            /\ handle' = handle /\ sound' = sound
            BY <2>1, <3>1
      <4>3. /\ report = "none" /\ file = "none" /\ content = "empty"
            /\ handle = FALSE /\ sound = TRUE
            BY <1>4, <2>1 DEF DiskInv, Untouched, Before
      <4> QED BY <4>1, <4>2, <4>3 DEF DiskInv, Untouched, Before
    <3>2. CASE at' = "done" BY <1>3, <1>4, <2>1, <3>2 DEF DiskInv, Untouched, Before
    <3> QED BY <2>1, <2>2, <3>1, <3>2
  <2> QED BY <1>2, <2>3, <2>4 DEF OInv
<1>7. CASE SecureDirectory
  <2>1. /\ at = "secure_directory" /\ UNCHANGED <<file, content, handle, synced>>
        /\ \/ dir' = "private" /\ at' = "lstat" /\ report' = report /\ sound' = sound
           \/ dir' \in {dir, "private"} /\ Throw
        BY <1>7 DEF SecureDirectory
  <2>2. /\ report' = report /\ at' \in Calls /\ sound' \in BOOLEAN
        /\ dir' \in Parts /\ file' \in Parts /\ content' \in {"empty", "part", "whole"}
        /\ handle' \in BOOLEAN /\ synced' \in BOOLEAN
        BY <1>4, <2>1, Throws DEF OTypeOK, Calls
  <2>3. DiskInv'
    <3>1. CASE Throw
      <4>1. sound' = FALSE /\ at' \in {"close", "rm"} BY <3>1, Throws
      <4> QED BY <1>3, <1>4, <2>1, <2>2, <4>1 DEF DiskInv, Untouched, Before
    <3>2. CASE ~Throw
      BY <1>3, <1>4, <2>1, <2>2, <3>2 DEF DiskInv, Untouched, Before
    <3> QED BY <3>1, <3>2
  <2> QED BY <1>2, <1>3, <1>4, <2>2, <2>3, ExportTypes DEF OInv
<1>8. CASE CheckDirectory
  <2>1. /\ at = "lstat" /\ UNCHANGED <<dir, file, content, handle, synced>>
        /\ \/ (windows = TRUE \/ dir = "private") /\ at' = "open" /\ report' = report /\ sound' = sound
           \/ Throw
        BY <1>8 DEF CheckDirectory
  <2>2. /\ report' = report /\ at' \in Calls /\ sound' \in BOOLEAN
        /\ dir' \in Parts /\ file' \in Parts /\ content' \in {"empty", "part", "whole"}
        /\ handle' \in BOOLEAN /\ synced' \in BOOLEAN
        BY <1>4, <2>1, Throws DEF OTypeOK, Calls
  <2>3. DiskInv'
    <3>1. CASE Throw
      <4>1. sound' = FALSE /\ at' \in {"close", "rm"} BY <3>1, Throws
      <4> QED BY <1>3, <1>4, <2>1, <2>2, <4>1 DEF DiskInv, Untouched, Before
    <3>2. CASE ~Throw
      BY <1>3, <1>4, <2>1, <2>2, <3>2 DEF DiskInv, Untouched, Before
    <3> QED BY <3>1, <3>2
  <2> QED BY <1>2, <1>3, <1>4, <2>2, <2>3, ExportTypes DEF OInv
<1>9. CASE OpenFile
  <2>1. /\ at = "open" /\ UNCHANGED <<dir, content, synced>>
        /\ \/ file' \in {"loose", "private"} /\ handle' = TRUE /\ at' = "stat" /\ report' = report /\ sound' = sound
           \/ file' \in Parts /\ handle' = handle /\ Throw
        BY <1>9 DEF OpenFile
  <2>2. /\ report' = report /\ at' \in Calls /\ sound' \in BOOLEAN
        /\ dir' \in Parts /\ file' \in Parts /\ content' \in {"empty", "part", "whole"}
        /\ handle' \in BOOLEAN /\ synced' \in BOOLEAN
        BY <1>4, <2>1, Throws DEF OTypeOK, Calls
  <2>3. DiskInv'
    <3>1. CASE Throw
      <4>1. sound' = FALSE /\ at' \in {"close", "rm"} BY <3>1, Throws
      <4> QED BY <1>3, <1>4, <2>1, <2>2, <4>1 DEF DiskInv, Untouched, Before
    <3>2. CASE ~Throw
      BY <1>3, <1>4, <2>1, <2>2, <3>2 DEF DiskInv, Untouched, Before
    <3> QED BY <3>1, <3>2
  <2> QED BY <1>2, <1>3, <1>4, <2>2, <2>3, ExportTypes DEF OInv
<1>10. CASE CheckFile
  <2>1. /\ at = "stat" /\ UNCHANGED <<dir, file, content, handle, synced>>
        /\ \/ windows = TRUE /\ at' = "secure_file" /\ report' = report /\ sound' = sound
           \/ file = "private" /\ at' = "write" /\ report' = report /\ sound' = sound
           \/ Throw
        BY <1>10 DEF CheckFile
  <2>2. /\ report' = report /\ at' \in Calls /\ sound' \in BOOLEAN
        /\ dir' \in Parts /\ file' \in Parts /\ content' \in {"empty", "part", "whole"}
        /\ handle' \in BOOLEAN /\ synced' \in BOOLEAN
        BY <1>4, <2>1, Throws DEF OTypeOK, Calls
  <2>3. DiskInv'
    <3>1. CASE Throw
      <4>1. sound' = FALSE /\ at' \in {"close", "rm"} BY <3>1, Throws
      <4> QED BY <1>3, <1>4, <2>1, <2>2, <4>1 DEF DiskInv, Untouched, Before
    <3>2. CASE ~Throw
      BY <1>3, <1>4, <2>1, <2>2, <3>2 DEF DiskInv, Untouched, Before
    <3> QED BY <3>1, <3>2
  <2> QED BY <1>2, <1>3, <1>4, <2>2, <2>3, ExportTypes DEF OInv
<1>11. CASE SecureFile
  <2>1. /\ at = "secure_file" /\ UNCHANGED <<dir, content, handle, synced>>
        /\ \/ file' = "private" /\ at' = "write" /\ report' = report /\ sound' = sound
           \/ file' \in {file, "private"} /\ Throw
        BY <1>11 DEF SecureFile
  <2>2. /\ report' = report /\ at' \in Calls /\ sound' \in BOOLEAN
        /\ dir' \in Parts /\ file' \in Parts /\ content' \in {"empty", "part", "whole"}
        /\ handle' \in BOOLEAN /\ synced' \in BOOLEAN
        BY <1>4, <2>1, Throws DEF OTypeOK, Calls
  <2>3. DiskInv'
    <3>1. CASE Throw
      <4>1. sound' = FALSE /\ at' \in {"close", "rm"} BY <3>1, Throws
      <4> QED BY <1>3, <1>4, <2>1, <2>2, <4>1 DEF DiskInv, Untouched, Before
    <3>2. CASE ~Throw
      BY <1>3, <1>4, <2>1, <2>2, <3>2 DEF DiskInv, Untouched, Before
    <3> QED BY <3>1, <3>2
  <2> QED BY <1>2, <1>3, <1>4, <2>2, <2>3, ExportTypes DEF OInv
<1>12. CASE WriteFile
  <2>1. /\ at = "write" /\ UNCHANGED <<dir, file, handle, synced>>
        /\ \/ content' = "whole" /\ at' = "sync" /\ report' = report /\ sound' = sound
           \/ content' \in {"empty", "part", "whole"} /\ Throw
        BY <1>12 DEF WriteFile
  <2>2. /\ report' = report /\ at' \in Calls /\ sound' \in BOOLEAN
        /\ dir' \in Parts /\ file' \in Parts /\ content' \in {"empty", "part", "whole"}
        /\ handle' \in BOOLEAN /\ synced' \in BOOLEAN
        BY <1>4, <2>1, Throws DEF OTypeOK, Calls
  <2>3. DiskInv'
    <3>1. CASE Throw
      <4>1. sound' = FALSE /\ at' \in {"close", "rm"} BY <3>1, Throws
      <4> QED BY <1>3, <1>4, <2>1, <2>2, <4>1 DEF DiskInv, Untouched, Before
    <3>2. CASE ~Throw
      BY <1>3, <1>4, <2>1, <2>2, <3>2 DEF DiskInv, Untouched, Before
    <3> QED BY <3>1, <3>2
  <2> QED BY <1>2, <1>3, <1>4, <2>2, <2>3, ExportTypes DEF OInv
<1>13. CASE Sync
  <2>1. /\ at = "sync" /\ UNCHANGED <<dir, file, content, handle>>
        /\ \/ synced' = TRUE /\ at' = "close" /\ report' = report /\ sound' = sound
           \/ synced' = synced /\ Throw
        BY <1>13 DEF Sync
  <2>2. /\ report' = report /\ at' \in Calls /\ sound' \in BOOLEAN
        /\ dir' \in Parts /\ file' \in Parts /\ content' \in {"empty", "part", "whole"}
        /\ handle' \in BOOLEAN /\ synced' \in BOOLEAN
        BY <1>4, <2>1, Throws DEF OTypeOK, Calls
  <2>3. DiskInv'
    <3>1. CASE Throw
      <4>1. sound' = FALSE /\ at' \in {"close", "rm"} BY <3>1, Throws
      <4> QED BY <1>3, <1>4, <2>1, <2>2, <4>1 DEF DiskInv, Untouched, Before
    <3>2. CASE ~Throw
      BY <1>3, <1>4, <2>1, <2>2, <3>2 DEF DiskInv, Untouched, Before
    <3> QED BY <3>1, <3>2
  <2> QED BY <1>2, <1>3, <1>4, <2>2, <2>3, ExportTypes DEF OInv
<1>14. CASE CloseFile
  <2>1. /\ at = "close" /\ UNCHANGED <<dir, file, content, synced>> /\ handle' \in BOOLEAN
        /\ \/ /\ sound = TRUE /\ sound' = TRUE /\ handle' = FALSE
              /\ at' = "done" /\ report' = "exported"
           \/ sound' = FALSE /\ at' = "rm" /\ report' = report
    <3>1. CASE sound = TRUE BY <1>14, <3>1 DEF CloseFile
    <3>2. CASE sound = FALSE BY <1>14, <3>2 DEF CloseFile
    <3> QED BY <1>4, <3>1, <3>2 DEF OTypeOK
  <2>2. sound' \in BOOLEAN /\ handle' \in BOOLEAN BY <2>1
  <2>3. at' \in {"done", "rm"} /\ report' \in {"exported", report} BY <2>1
  <2>4. OTypeOK' BY <1>3, <1>4, <2>1, <2>2, <2>3 DEF OTypeOK
  <2>5. DiskInv' BY <1>3, <1>4, <2>1 DEF DiskInv, Untouched, Before
  <2> QED BY <1>2, <2>4, <2>5 DEF OInv
<1>15. CASE Remove \/ RemoveFails
       BY <1>2, <1>3, <1>4, <1>15 DEF Remove, RemoveFails, OInv, OTypeOK, DiskInv, Untouched, Before
<1> QED BY <1>5, <1>6, <1>7, <1>8, <1>9, <1>10, <1>11, <1>12, <1>13, <1>14, <1>15 DEF Export

\* A process that is killed leaves what was there, and says nothing of it.
LEMMA KilledKeeps ==
  ASSUME OInv, Killed PROVE OInv'
<1> USE OutputAssumption
<1>1. /\ at' = "done" /\ report' = "killed" /\ handle' = FALSE
      /\ UNCHANGED <<got, ahead, taken, wire, json, windows, sound, dir, file, content, synced>>
      BY DEF Killed, Done, body, given
<1>2. OTypeOK' BY <1>1 DEF OInv, OTypeOK
<1>3. BodyInv' BY <1>1 DEF OInv, BodyInv
<1>4. DiskInv' BY <1>1 DEF OInv, DiskInv, Before
<1> QED BY <1>2, <1>3, <1>4 DEF OInv

\* The invariant holds throughout the reading and the export of a response.
THEOREM OutputInvariant == OSpec => []OInv
<1>1. OInv /\ [ONext]_vars => OInv'
  <2> SUFFICES ASSUME OInv, [ONext]_vars PROVE OInv'
      OBVIOUS
  <2>1. CASE UNCHANGED vars
    <3>1. /\ UNCHANGED <<got, ahead, taken, wire, json, windows, at, sound, report>>
          /\ UNCHANGED <<dir, file, content, handle, synced>>
          BY <2>1 DEF vars, body, given, disk
    <3> QED BY <3>1 DEF OInv, OTypeOK, BodyInv, DiskInv, Pending, Good, Rejected, Text,
               Decodes, Untouched
  <2> QED BY <2>1, PullKeeps, ReduceKeeps, WireKeeps, ParseKeeps, CancelKeeps,
             ExportKeeps, KilledKeeps DEF ONext, Receive
<1> QED BY <1>1, OInvInit, PTL DEF OSpec

\* A body is read exactly when it is whole, in the limit, text and JSON.
THEOREM ReadExactly == OSpec => []ReadIsExact
<1>1. OInv => ReadIsExact
  <2> SUFFICES ASSUME OInv PROVE ReadIsExact
      OBVIOUS
  <2>1. /\ Text(got) <=> Decodes(Len(got)) /\ Whole(Len(got))
        /\ Text(Append(got, "trail")) => Decodes(Len(got))
        BY TextDecodes DEF OInv, OTypeOK
  <2>2. at \notin {"read", "cancel", "done"} =>
          wire = "ended" /\ Len(got) <= Limit /\ Text(got) /\ json /\ taken = Len(got)
        BY DEF OInv, BodyInv, Good
  <2>3. report = "unread" /\ wire # "broken" =>
          \/ Len(got) > Limit
          \/ ~Text(got) /\ ~Text(Append(got, "trail"))
          \/ wire = "ended" /\ ~(Text(got) /\ json)
        BY <2>1 DEF OInv, OTypeOK, BodyInv, Rejected
  <2>4. Len(got) <= Limit + 2 * MaxChunk BY DEF OInv, BodyInv
  <2> QED BY <2>2, <2>3, <2>4 DEF ReadIsExact
<1> QED BY <1>1, OutputInvariant, PTL

\* No response data is in a file that others may read.
THEOREM ProtectedAlways == OSpec => []ProtectedFirst
<1>1. OInv => ProtectedFirst BY DEF OInv, DiskInv, ProtectedFirst
<1> QED BY <1>1, OutputInvariant, PTL

\* What the command reports of the export, and of what is left of it, is so.
THEOREM TrueReport == OSpec => []ReportIsTrue
<1>1. OInv => ReportIsTrue
      BY DEF OInv, OTypeOK, BodyInv, DiskInv, ReportIsTrue, Untouched
<1> QED BY <1>1, OutputInvariant, PTL
=============================================================================
