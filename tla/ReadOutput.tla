----------------------------- MODULE ReadOutput -----------------------------
(***************************************************************************)
(* What becomes of the response to a read command: readBoundedJson of      *)
(* bounded-json.ts takes the body in chunks under a byte limit, readOutput *)
(* of cli.ts prints a short answer, and exportReadResponse of              *)
(* read-export.ts saves any other in a new private file.  The body is cut  *)
(* into chunks anywhere, also inside a character, and may never end; every *)
(* call on the file system may fail, and the process may be killed.        *)
(***************************************************************************)
EXTENDS Naturals, Sequences

CONSTANTS
  Limit,     \* maximumBytes
  MaxChunk   \* bound: bytes in one chunk

ASSUME OutputAssumption == Limit \in Nat /\ MaxChunk \in Nat \ {0}

VARIABLES
  got,      \* the bytes pulled from the body
  ahead,    \* the size of the chunk pulled but not yet reduced
  taken,    \* bytes reduced so far
  json,     \* the body is the text of a JSON document, as far as it is text
  windows,  \* the platform is win32
  wire,     \* the response's stream
  at,       \* the call the command is in
  sound,    \* readBoundedJson, and then the export, has had no failure
  dir,      \* the export's directory
  file,     \* its file
  content,  \* what the file holds
  handle,   \* the file is open
  synced,   \* its content has been synced
  report    \* how the command ended

given == <<json, windows>>
body == <<got, ahead, taken, wire, given>>
disk == <<dir, file, content, handle, synced>>
vars == <<body, disk, at, sound, report>>

\* A byte is a character of its own, or leads or trails one of two bytes.
Byte == {"plain", "lead", "trail"}
Parts == {"none", "loose", "private"}

OInit ==
  /\ got = <<>> /\ ahead = <<>> /\ taken = 0 /\ wire = "open"
  /\ json \in BOOLEAN /\ windows \in BOOLEAN
  /\ at = "read" /\ sound = TRUE
  /\ dir = "none" /\ file = "none" /\ content = "empty"
  /\ handle = FALSE /\ synced = FALSE
  /\ report = "none"

-----------------------------------------------------------------------------
(* readBoundedJson *)

\* The fatal decoder accepts the first n bytes so far: a character may be
\* incomplete at their end only.
Decodes(n) ==
  \A i \in 1..n : /\ got[i] = "trail" => i > 1 /\ got[i - 1] = "lead"
                  /\ got[i] = "lead" /\ i < n => got[i + 1] = "trail"

\* They end between two characters.
Whole(n) == n > 0 => got[n] # "lead"

GoTo(call) == at' = call /\ UNCHANGED report

\* One chunk is pulled ahead of the one being reduced, also when that one turns
\* out to be the last.
Pull ==
  /\ at \in {"read", "cancel"} /\ wire = "open" /\ ahead = <<>>
  /\ \E n \in 0..MaxChunk : \E bytes \in [1..n -> Byte] :
       got' = got \o bytes /\ ahead' = <<n>>
  /\ UNCHANGED <<taken, given, wire, at, sound, disk, report>>

Fits(n) == taken + n <= Limit

\* Variant: each chunk is decoded on its own.
AcceptedAlone(n) == Fits(n) /\ Decodes(taken + n) /\ Whole(taken + n)

Accepted(n) == Fits(n) /\ Decodes(taken + n)

Reduce ==
  /\ at = "read" /\ ahead # <<>> /\ wire # "broken"
  /\ ahead' = <<>>
  /\ IF Accepted(ahead[1])
     THEN taken' = taken + ahead[1] /\ UNCHANGED <<at, sound, report>>
     ELSE sound' = FALSE /\ GoTo("cancel") /\ UNCHANGED taken
  /\ UNCHANGED <<got, given, wire, disk>>

\* The body ends, or fails: also at the request's deadline.
EndBody ==
  /\ at = "read" /\ wire = "open" /\ ahead = <<>>
  /\ wire' = "ended"
  /\ UNCHANGED <<got, ahead, taken, given, at, sound, disk, report>>

\* Variant: the deadline is for the first bytes only.
BreakBodyEarly ==
  /\ at = "read" /\ wire = "open" /\ got = <<>>
  /\ wire' = "broken"
  /\ UNCHANGED <<got, ahead, taken, given, at, sound, disk, report>>

BreakBody ==
  /\ at = "read" /\ wire = "open"
  /\ wire' = "broken"
  /\ UNCHANGED <<got, ahead, taken, given, at, sound, disk, report>>

\* JSON.parse of the text, or the stream's error.
Parse ==
  /\ at = "read"
  /\ wire = "broken" \/ (wire = "ended" /\ ahead = <<>>)
  /\ sound' = (wire = "ended" /\ Whole(taken) /\ json)
  /\ GoTo("cancel")
  /\ UNCHANGED <<body, disk>>

\* finally: the stream is cancelled, which cannot fail once it has ended.
Cancel ==
  /\ at = "cancel"
  /\ wire' = IF wire = "open" THEN "cancelled" ELSE wire
  /\ at' = IF sound THEN "render" ELSE "done"
  /\ report' = IF sound THEN report ELSE "unread"
  /\ UNCHANGED <<got, ahead, taken, given, sound, disk>>

CancelFails ==
  /\ at = "cancel" /\ wire # "ended"
  /\ wire' = IF wire = "open" THEN "cancelled" ELSE wire
  /\ at' = "done" /\ report' = "unread" /\ sound' = FALSE
  /\ UNCHANGED <<got, ahead, taken, given, disk>>

-----------------------------------------------------------------------------
(* readOutput and exportReadResponse *)

Done(result) == at' = "done" /\ report' = result

\* A short answer is printed whole, unless --export is given; an answer whose
\* text has grown beyond the limit of exports is not saved.
Render ==
  /\ at = "render"
  /\ Done("printed") \/ Done("refused") \/ GoTo("mkdtemp")
  /\ UNCHANGED <<body, sound, disk>>

\* The file is closed, if it is open, before the directory is removed.
Throw == sound' = FALSE /\ GoTo(IF handle THEN "close" ELSE "rm")

MakeDirectory ==
  /\ at = "mkdtemp"
  /\ \/ dir' \in {"loose", "private"} /\ GoTo(IF windows THEN "secure_directory" ELSE "lstat")
     \/ Done("no_directory") /\ UNCHANGED dir
  /\ UNCHANGED <<body, sound, file, content, handle, synced>>

SecureDirectory ==
  /\ at = "secure_directory"
  /\ \/ dir' = "private" /\ GoTo("lstat") /\ UNCHANGED sound
     \/ dir' \in {dir, "private"} /\ Throw
  /\ UNCHANGED <<body, file, content, handle, synced>>

\* Variant: the directory's protection is established, never looked at.
CheckDirectoryByName ==
  /\ at = "lstat"
  /\ \/ GoTo("open") /\ UNCHANGED sound
     \/ Throw
  /\ UNCHANGED <<body, disk>>

CheckDirectory ==
  /\ at = "lstat"
  /\ \/ /\ windows \/ dir = "private"
        /\ GoTo("open") /\ UNCHANGED sound
     \/ Throw
  /\ UNCHANGED <<body, disk>>

OpenFile ==
  /\ at = "open"
  /\ \/ /\ file' \in {"loose", "private"} /\ handle' = TRUE
        /\ GoTo("stat") /\ UNCHANGED sound
     \/ file' \in {"none", "loose", "private"} /\ Throw /\ UNCHANGED handle
  /\ UNCHANGED <<body, dir, content, synced>>

CheckFile ==
  /\ at = "stat"
  /\ \/ /\ windows \/ file = "private"
        /\ GoTo(IF windows THEN "secure_file" ELSE "write") /\ UNCHANGED sound
     \/ Throw
  /\ UNCHANGED <<body, disk>>

SecureFile ==
  /\ at = "secure_file"
  /\ \/ file' = "private" /\ GoTo("write") /\ UNCHANGED sound
     \/ file' \in {file, "private"} /\ Throw
  /\ UNCHANGED <<body, dir, content, handle, synced>>

WriteFile ==
  /\ at = "write"
  /\ \/ content' = "whole" /\ GoTo("sync") /\ UNCHANGED sound
     \/ content' \in {"empty", "part", "whole"} /\ Throw
  /\ UNCHANGED <<body, dir, file, handle, synced>>

Sync ==
  /\ at = "sync"
  /\ \/ synced' = TRUE /\ GoTo("close") /\ UNCHANGED sound
     \/ Throw /\ UNCHANGED synced
  /\ UNCHANGED <<body, dir, file, content, handle>>

\* Variant: what closing the file says is not looked at.
CloseQuietly ==
  /\ at = "close" /\ handle' \in BOOLEAN
  /\ IF sound THEN Done("exported") ELSE GoTo("rm")
  /\ UNCHANGED <<body, sound, dir, file, content, synced>>

\* finally: the file is closed; its failure fails the export.
CloseFile ==
  /\ at = "close"
  /\ \/ handle' = FALSE /\ UNCHANGED sound /\ IF sound THEN Done("exported") ELSE GoTo("rm")
     \/ handle' \in BOOLEAN /\ sound' = FALSE /\ GoTo("rm")
  /\ UNCHANGED <<body, dir, file, content, synced>>

Remove ==
  /\ at = "rm"
  /\ dir' = "none" /\ file' = "none" /\ content' = "empty"
  /\ Done("failed")
  /\ UNCHANGED <<body, sound, handle, synced>>

\* Some or all of it is left.
RemoveFails ==
  /\ at = "rm"
  /\ \/ UNCHANGED <<file, content>>
     \/ file' = "none" /\ content' = "empty"
  /\ Done("unconfirmed")
  /\ UNCHANGED <<body, sound, dir, handle, synced>>

Killed ==
  /\ at # "done" /\ Done("killed")
  /\ handle' = FALSE
  /\ UNCHANGED <<body, sound, dir, file, content, synced>>

-----------------------------------------------------------------------------
Receive == Reduce \/ Parse \/ Cancel \/ CancelFails
Export ==
  \/ MakeDirectory \/ SecureDirectory \/ CheckDirectory \/ OpenFile
  \/ CheckFile \/ SecureFile \/ WriteFile \/ Sync
  \/ CloseFile \/ Remove \/ RemoveFails

ONext == Pull \/ EndBody \/ BreakBody \/ Receive \/ Render \/ Export \/ Killed

\* A body that does not end is broken off at the deadline; every call returns.
OSpec ==
  /\ OInit /\ [][ONext]_vars
  /\ WF_vars(BreakBody) /\ WF_vars(Receive) /\ WF_vars(Render \/ Export)

-----------------------------------------------------------------------------
(* Properties *)

\* The bytes are whole characters.
Text(b) == /\ b # <<>> => b[1] # "trail"
           /\ \A i \in DOMAIN b : b[i] = "lead" <=> i < Len(b) /\ b[i + 1] = "trail"

\* Types, and a bound on what was decoded: no more than the limit is ever kept.
OTypeOK ==
  /\ got \in Seq(Byte) /\ taken \in 0..Limit
  /\ ahead \in {<<>>} \cup {<<n>> : n \in 0..MaxChunk}
  /\ wire \in {"open", "ended", "broken", "cancelled"}
  /\ json \in BOOLEAN /\ windows \in BOOLEAN
  /\ sound \in BOOLEAN /\ handle \in BOOLEAN /\ synced \in BOOLEAN
  /\ dir \in Parts /\ file \in Parts /\ content \in {"empty", "part", "whole"}
  /\ at \in {"read", "cancel", "render", "mkdtemp", "secure_directory", "lstat", "open",
            "stat", "secure_file", "write", "sync", "close", "rm", "done"}
  /\ report \in {"none", "unread", "printed", "refused", "no_directory",
                 "exported", "failed", "unconfirmed", "killed"}

\* However the body is cut into chunks, it is read exactly when it is complete,
\* within the limit, whole characters and JSON, and then all of it was taken: a
\* body that could still have become one is given up only if it broke off.  And
\* an endless one costs no more memory than the limit and two chunks.
ReadIsExact ==
  /\ at \notin {"read", "cancel", "done"} =>
       wire = "ended" /\ Len(got) <= Limit /\ Text(got) /\ json /\ taken = Len(got)
  /\ report = "unread" /\ wire # "broken" =>
       \/ Len(got) > Limit
       \/ ~Text(got) /\ ~Text(Append(got, "trail"))
       \/ wire = "ended" /\ ~(Text(got) /\ json)
  /\ Len(got) <= Limit + 2 * MaxChunk

\* Response data reaches the file only once both the directory and the file are
\* private, on every platform, whatever the file system made of their modes.
ProtectedFirst == content # "empty" => dir = "private" /\ file = "private"

\* The path of an export is reported only when the file is private, whole, synced
\* and closed; a failure that does not speak of leftovers has left nothing; and
\* whatever is reported, the response's stream is not left open.
ReportIsTrue ==
  /\ report = "exported" =>
       dir = "private" /\ file = "private" /\ content = "whole" /\ synced /\ ~handle
  /\ report \in {"unread", "printed", "refused", "no_directory", "failed"} => dir = "none" /\ file = "none"
  /\ report \notin {"none", "killed"} => wire # "open"

\* Every read ends, also one of a body that trickles on for ever.
OutputEnds == <>(at = "done")
=============================================================================
