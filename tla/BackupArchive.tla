---------------------------- MODULE BackupArchive ----------------------------
(***************************************************************************)
(* The archive of a backup: for every avatar file a header with its name   *)
(* and the size that stat found, then the bytes that are streamed from it  *)
(* afterwards, one file after the other, while uploads replace and delete  *)
(* files; and the restore, which parses records out of the chunks that     *)
(* gunzip hands it.  Compression is the identity on bytes.                 *)
(*                                                                         *)
(* A header is two units of the stream, <<"head", f, size>> and <<"tail",  *)
(* f, size>>, so that parsing can land inside of one; a byte of version v  *)
(* of file f is <<"byte", f, v>>.                                          *)
(***************************************************************************)
EXTENDS Naturals, Sequences

CONSTANTS
  Files,      \* readdir's list of avatar files, a sequence
  Size,       \* Size[v]: the bytes of version v of a file, a sequence of
              \* numbers; version 0 is no file
  MaxWrites   \* bound on what uploads and deletions change meanwhile

Versions == 0 .. Len(Size)

VARIABLES
  avatar,   \* avatar[f]: the version of file f in the directory
  writes,
  phase,    \* "stat", "stream", "failed", "restore" or "done"
  at,       \* position in Files
  size,     \* what stat found for it
  packed,   \* packed[f]: the version whose bytes are in the archive, 0 for none
  exact,    \* history: files streamed as stat found them, none before them otherwise
  archive,  \* what is still to be written or read
  buf,      \* bytes received and not yet parsed
  out       \* out[f]: what the restore has written, or <<>> before

vars == <<avatar, writes, phase, at, size, packed, exact, archive, buf, out>>

Names == {Files[k] : k \in DOMAIN Files}
Nothing == << <<"nothing">> >>

TypeOK ==
  /\ avatar \in [Names -> Versions]
  /\ writes \in 0 .. MaxWrites
  /\ phase \in {"stat", "stream", "failed", "restore", "done"}
  /\ at \in 1 .. Len(Files) + 1
  /\ size \in Nat
  /\ packed \in [Names -> Versions]
  /\ exact \subseteq Names

Init ==
  /\ avatar \in [Names -> Versions \ {0}]
  /\ writes = 0
  /\ phase = "stat"
  /\ at = 1
  /\ size = 0
  /\ packed = [f \in Names |-> 0]
  /\ exact = {}
  /\ archive = <<>>
  /\ buf = <<>>
  /\ out = [f \in Names |-> Nothing]

Bytes(f, v) == [k \in 1 .. (IF v = 0 THEN 0 ELSE Size[v]) |-> <<"byte", f, v>>]

(* An upload or a deletion while the archive is made. *)
Write(f, v) ==
  /\ phase \in {"stat", "stream"}
  /\ writes < MaxWrites
  /\ avatar[f] # v
  /\ avatar' = [avatar EXCEPT ![f] = v]
  /\ writes' = writes + 1
  /\ UNCHANGED <<phase, at, size, packed, exact, archive, buf, out>>

-----------------------------------------------------------------------------
(* createArchive. *)

(* A file that is gone is left out; the last one ends the archive. *)
Stat ==
  LET f == Files[at] IN
  /\ phase = "stat" /\ at <= Len(Files)
  /\ \/ /\ avatar[f] = 0
        /\ at' = at + 1
        /\ UNCHANGED <<phase, size, archive>>
     \/ /\ avatar[f] # 0
        /\ phase' = "stream"
        /\ size' = Size[avatar[f]]
        /\ archive' = archive \o <<<<"head", f, size'>>, <<"tail", f, size'>>>>
        /\ UNCHANGED at
  /\ UNCHANGED <<avatar, writes, packed, exact, buf, out>>

(* The stream opens whatever is there by now: a file of another size, or
   none, which fails the whole backup. *)
Stream ==
  LET f == Files[at] v == avatar[Files[at]] IN
  /\ phase = "stream"
  /\ \/ /\ v = 0
        /\ phase' = "failed"
        /\ UNCHANGED <<at, packed, exact, archive>>
     \/ /\ v # 0
        /\ archive' = archive \o Bytes(f, v)
        /\ packed' = [packed EXCEPT ![f] = v]
        /\ exact' = IF size = Size[v] /\ \A k \in 1 .. at - 1 :
                          packed[Files[k]] = 0 \/ Files[k] \in exact
                      THEN exact \cup {f} ELSE exact
        /\ at' = at + 1
        /\ phase' = "stat"
  /\ UNCHANGED <<avatar, writes, size, buf, out>>

(* The archive is complete; some time later it is restored. *)
Restore ==
  /\ phase = "stat" /\ at = Len(Files) + 1
  /\ phase' = "restore"
  /\ UNCHANGED <<avatar, writes, at, size, packed, exact, archive, buf, out>>

-----------------------------------------------------------------------------
(* extractArchive. *)

\* Mutant: a record that ends with the chunk is taken for incomplete.
HasRecordLess == Len(buf) >= 2 /\ Len(buf) > 2 + buf[1][3]

(* The buffer holds a header and as many bytes as it announces. *)
HasRecord == Len(buf) >= 2 /\ Len(buf) >= 2 + buf[1][3]

(* What the parser takes for a header is one.  If it is not, the length of
   the name and of the content are bytes of an avatar: anything may follow,
   and nothing more is said of this restore. *)
InStep == buf # <<>> => buf[1][1] = "head"

(* A chunk of any length arrives once nothing complete is left to parse. *)
Chunk(n) ==
  /\ phase = "restore"
  /\ InStep /\ ~HasRecord
  /\ n <= Len(archive)
  /\ buf' = buf \o SubSeq(archive, 1, n)
  /\ archive' = SubSeq(archive, n + 1, Len(archive))
  /\ UNCHANGED <<avatar, writes, phase, at, size, packed, exact, out>>

Record ==
  /\ phase = "restore"
  /\ InStep /\ HasRecord
  /\ out' = [out EXCEPT ![buf[1][2]] = SubSeq(buf, 3, 2 + buf[1][3])]
  /\ buf' = SubSeq(buf, 3 + buf[1][3], Len(buf))
  /\ UNCHANGED <<avatar, writes, phase, at, size, packed, exact, archive>>

(* gunzip ends, with whatever is left in the buffer; or parsing is lost. *)
Finish ==
  /\ phase = "restore"
  /\ \/ archive = <<>> /\ ~HasRecord
     \/ ~InStep
  /\ phase' = "done"
  /\ archive' = <<>>
  /\ buf' = <<>>
  /\ UNCHANGED <<avatar, writes, at, size, packed, exact, out>>

(* Nothing follows. *)
Ended == phase \in {"failed", "done"} /\ UNCHANGED vars

Next ==
  \/ \E f \in Names, v \in Versions : Write(f, v)
  \/ Stat \/ Stream \/ Restore
  \/ \E n \in 1 .. Len(archive) : Chunk(n)
  \/ Record \/ Finish \/ Ended

Spec == Init /\ [][Next]_vars

-----------------------------------------------------------------------------
(* However gunzip cuts the stream, a restore writes every file that was
   streamed with the size its header announces, exactly as it was streamed,
   up to the first file whose size an upload changed in between. *)
RestoresExact ==
  phase = "done" => \A f \in exact : out[f] = Bytes(f, packed[f])
=============================================================================
