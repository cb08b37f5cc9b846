------------------------------- MODULE FileLayer -------------------------------
(***************************************************************************)
(* The file functions that native/win0-doom.c gives to the engine:         *)
(* native_open with its search for the volume to use, native_close,        *)
(* native_read, native_write and native_seek over NT files, each open      *)
(* file with a position and a length of its own.                           *)
(*                                                                         *)
(* The engine is one thread, so one call is under way at a time; the steps *)
(* of native_open are apart because volumes may be mounted between them,   *)
(* early in the boot, and because each of them can fail.  A file is known  *)
(* by its path, a prefix of data_prefixes and a relative name, and is as   *)
(* long as the file system says; its bytes are left out.                   *)
(***************************************************************************)
EXTENDS Integers

CONSTANTS
    Files,      \* the WIN0DOOM_FILE blocks that can be allocated
    Names,      \* the names the engine opens
    Wad,        \* the one of doom1.wad, which a handle that is not open stands for
    Prefixes,   \* ARRAYSIZE(data_prefixes)
    Offsets,    \* the offsets the engine seeks by
    MaxLength   \* bound: the longest file and the furthest position

ASSUME FileAssumption ==
    /\ Prefixes \in Nat \ {0}
    /\ MaxLength \in Nat \ {0}
    /\ Wad \in Names
    /\ Offsets \subseteq Int

VARIABLES
    data_prefix_index,
    mounted,    \* the prefixes that lead to a volume by now
    disk,       \* disk[path]: the length of a file, or Missing
    opening,    \* the native_open under way, or Nothing
    allocated,  \* the blocks native_malloc has given out
    handles,    \* the blocks whose Handle is open
    file,       \* file[f]: the fields of block f, and what its Handle is open on and for
    current,    \* history: current[f]: Length was queried, and only f wrote the file since
    appending   \* history: appending[f]: f was opened to append and not sought since

blocks == <<allocated, handles>>
history == <<current, appending>>
vars == <<data_prefix_index, mounted, disk, opening, blocks, file, history>>

PrefixRange == 0..(Prefixes - 1)
Paths == PrefixRange \X Names
Modes == {"r", "r+", "w", "a"}
Nothing == [at |-> "nothing"]
NotOpen == [path |-> <<0, Wad>>, writable |-> FALSE, Position |-> 0, Length |-> 0]

Missing == -1

Size(f) == disk[file[f].path]

(* The other blocks that have the file at path open.                         *)
Sharing(f, path) == {g \in handles \ {f} : file[g].path = path}

-----------------------------------------------------------------------------
Init ==
    /\ data_prefix_index = -1
    /\ mounted = {}
    /\ disk \in [Paths -> {Missing, 1}]
    /\ opening = Nothing
    /\ allocated = {}
    /\ handles = {}
    /\ file = [f \in Files |-> NotOpen]
    /\ current = [f \in Files |-> FALSE]
    /\ appending = [f \in Files |-> FALSE]

(* The system mounts a volume.                                               *)
Mount(p) ==
    /\ p \notin mounted
    /\ mounted' = mounted \cup {p}
    /\ UNCHANGED <<data_prefix_index, disk, opening, blocks, file, history>>

-----------------------------------------------------------------------------
(* native_open.                                                            *)

FirstPrefix == IF data_prefix_index >= 0 THEN data_prefix_index ELSE 0
FinalPrefix == IF data_prefix_index >= 0 THEN data_prefix_index ELSE Prefixes - 1

OpenCall(f, name, mode) ==
    /\ opening = Nothing
    /\ f \notin allocated
    /\ allocated' = allocated \cup {f}
    /\ opening' = [at |-> "search", block |-> f, name |-> name, mode |-> mode,
                   prefix |-> FirstPrefix]
    /\ UNCHANGED <<data_prefix_index, mounted, disk, handles, file, history>>

(* What NtCreateFile leaves on the disk: FILE_OVERWRITE_IF empties a file or  *)
(* creates it, FILE_OPEN_IF creates it, FILE_OPEN needs it to exist.         *)
Opened(size, mode) ==
    IF mode = "w" \/ (mode = "a" /\ size = Missing) THEN 0 ELSE size

(* Mutant: the prefix is not remembered. *)
FoundUncached ==
    LET f == opening.block
        path == <<opening.prefix, opening.name>>
        size == Opened(disk[path], opening.mode)
    IN  /\ opening.at = "search"
        /\ opening.prefix \in mounted
        /\ size # Missing
        /\ disk' = [disk EXCEPT ![path] = size]
        /\ handles' = handles \cup {f}
        /\ file' = [file EXCEPT ![f] =
                [path |-> path, writable |-> opening.mode # "r", Position |-> 0, Length |-> 0]]
        /\ current' = [g \in Files |-> current[g] /\ g # f
                            /\ (disk'[path] # disk[path] => g \notin Sharing(f, path))]
        /\ appending' = [appending EXCEPT ![f] = opening.mode = "a"]
        /\ opening' = [opening EXCEPT !.at = "query"]
        /\ UNCHANGED <<data_prefix_index, mounted, allocated>>

(* NtCreateFile succeeds under the prefix that is tried.                     *)
Found ==
    LET f == opening.block
        path == <<opening.prefix, opening.name>>
        size == Opened(disk[path], opening.mode)
    IN  /\ opening.at = "search"
        /\ opening.prefix \in mounted
        /\ size # Missing
        /\ disk' = [disk EXCEPT ![path] = size]
        /\ handles' = handles \cup {f}
        /\ data_prefix_index' = opening.prefix
        /\ file' = [file EXCEPT ![f] =
                [path |-> path, writable |-> opening.mode # "r", Position |-> 0, Length |-> 0]]
        /\ current' = [g \in Files |-> current[g] /\ g # f
                            /\ (disk'[path] # disk[path] => g \notin Sharing(f, path))]
        /\ appending' = [appending EXCEPT ![f] = opening.mode = "a"]
        /\ opening' = [opening EXCEPT !.at = "query"]
        /\ UNCHANGED <<mounted, allocated>>

(* It fails, for want of the volume or the file or for another reason.       *)
TryNext ==
    /\ opening.at = "search"
    /\ opening.prefix < FinalPrefix
    /\ opening' = [opening EXCEPT !.prefix = @ + 1]
    /\ UNCHANGED <<data_prefix_index, mounted, disk, blocks, file, history>>

(* Mutant: the block is kept. *)
NotFoundLeaking ==
    /\ opening.at = "search"
    /\ opening.prefix = FinalPrefix
    /\ opening' = Nothing
    /\ UNCHANGED <<data_prefix_index, mounted, disk, blocks, file, history>>

NotFound ==
    /\ opening.at = "search"
    /\ opening.prefix = FinalPrefix
    /\ allocated' = allocated \ {opening.block}
    /\ opening' = Nothing
    /\ UNCHANGED <<data_prefix_index, mounted, disk, handles, file, history>>

(* Mutant: the position of a file opened for appending is left at its start. *)
QueryAtStart(known) ==
    LET f == opening.block
        length == IF known THEN Size(f) ELSE 0
    IN  /\ opening.at = "query"
        /\ file' = [file EXCEPT ![f].Length = length]
        /\ current' = [current EXCEPT ![f] = known]
        /\ opening' = Nothing
        /\ UNCHANGED <<data_prefix_index, mounted, disk, blocks, appending>>

(* NtQueryInformationFile, whose failure leaves Length at zero.              *)
Query(known) ==
    LET f == opening.block
        length == IF known THEN Size(f) ELSE 0
    IN  /\ opening.at = "query"
        /\ file' = [file EXCEPT ![f].Length = length,
                                ![f].Position = IF opening.mode = "a" THEN length ELSE 0]
        /\ current' = [current EXCEPT ![f] = known]
        /\ opening' = Nothing
        /\ UNCHANGED <<data_prefix_index, mounted, disk, blocks, appending>>

-----------------------------------------------------------------------------
(* The calls on an open file.                                              *)

Use(f) ==
    /\ opening = Nothing
    /\ f \in handles
    /\ UNCHANGED <<data_prefix_index, mounted, opening, allocated>>

(* native_close.                                                             *)
Close(f) ==
    /\ opening = Nothing
    /\ f \in handles
    /\ handles' = handles \ {f}
    /\ allocated' = allocated \ {f}
    /\ file' = [file EXCEPT ![f] = NotOpen]
    /\ current' = [current EXCEPT ![f] = FALSE]
    /\ appending' = [appending EXCEPT ![f] = FALSE]
    /\ UNCHANGED <<data_prefix_index, mounted, disk, opening>>

(* native_read takes what there is from Position on; at the end, or when     *)
(* NtReadFile fails, it takes nothing.                                       *)
Read(f, count) ==
    /\ Use(f)
    /\ file[f].Position + count <= Size(f)
    /\ file' = [file EXCEPT ![f].Position = @ + count]
    /\ UNCHANGED <<disk, handles, history>>

(* Mutant: the length is that of the last write. *)
WriteShrinking(f, count) ==
    LET end == file[f].Position + count
    IN  /\ Use(f)
        /\ file[f].writable
        /\ end <= MaxLength
        /\ disk' = [disk EXCEPT ![file[f].path] = IF end > @ THEN end ELSE @]
        /\ file' = [file EXCEPT ![f].Position = end, ![f].Length = end]
        /\ current' = [g \in Files |-> current[g] /\ g \notin Sharing(f, file[f].path)]
        /\ UNCHANGED <<handles, appending>>

(* native_write; one that fails, for want of access, say, changes nothing.    *)
Write(f, count) ==
    LET end == file[f].Position + count
    IN  /\ Use(f)
        /\ file[f].writable
        /\ end <= MaxLength
        /\ disk' = [disk EXCEPT ![file[f].path] = IF end > @ THEN end ELSE @]
        /\ file' = [file EXCEPT ![f].Position = end,
                                ![f].Length = IF end > @ THEN end ELSE @]
        /\ current' = [g \in Files |-> current[g] /\ g \notin Sharing(f, file[f].path)]
        /\ UNCHANGED <<handles, appending>>

(* Mutant: a position before the start is not refused. *)
SeekUnchecked(f, offset, origin) ==
    LET from == CASE origin = "set" -> 0
                  [] origin = "cur" -> file[f].Position
                  [] origin = "end" -> file[f].Length
    IN  /\ Use(f)
        /\ from + offset <= MaxLength
        /\ file' = [file EXCEPT ![f].Position = from + offset]
        /\ appending' = [appending EXCEPT ![f] = FALSE]
        /\ UNCHANGED <<disk, handles, current>>

(* native_seek; a position before the start of the file is refused.          *)
Seek(f, offset, origin) ==
    LET from == CASE origin = "set" -> 0
                  [] origin = "cur" -> file[f].Position
                  [] origin = "end" -> file[f].Length
    IN  /\ Use(f)
        /\ from + offset \in 0..MaxLength
        /\ file' = [file EXCEPT ![f].Position = from + offset]
        /\ appending' = [appending EXCEPT ![f] = FALSE]
        /\ UNCHANGED <<disk, handles, current>>

(* native_tell gives Position, as an int.  native_eof: *)
Eof(f) == file[f].Position >= file[f].Length

-----------------------------------------------------------------------------
OpenNext ==
    \/ \E f \in Files, name \in Names, mode \in Modes : OpenCall(f, name, mode)
    \/ Found \/ TryNext \/ NotFound
    \/ \E known \in BOOLEAN : Query(known)

UseNext ==
    \E f \in Files :
        \/ Close(f)
        \/ \E count \in 1..MaxLength : Read(f, count) \/ Write(f, count)
        \/ \E offset \in Offsets, origin \in {"set", "cur", "end"} :
                Seek(f, offset, origin)

Next == OpenNext \/ UseNext \/ \E p \in PrefixRange : Mount(p)

Spec == Init /\ [][Next]_vars

-----------------------------------------------------------------------------
(* Properties.                                                             *)

TypeOK ==
    /\ data_prefix_index \in -1..(Prefixes - 1)
    /\ mounted \subseteq PrefixRange
    /\ disk \in [Paths -> {Missing} \cup 0..MaxLength]
    /\ opening.at \in {"nothing", "search", "query"}
    /\ handles \subseteq allocated /\ allocated \subseteq Files
    /\ file \in [Files -> [path : Paths, writable : BOOLEAN, Position : 0..MaxLength,
                           Length : 0..MaxLength]]
    /\ current \in [Files -> BOOLEAN] /\ appending \in [Files -> BOOLEAN]

(* Everything that is open is on one volume, the one remembered, whatever     *)
(* else is mounted and wherever else a file of the same name lies: doom never *)
(* reads its wad from one volume and writes its settings to another.         *)
OneVolume == \A f \in handles : file[f].path[1] = data_prefix_index

(* Between calls every block belongs to an open file: a failed native_open    *)
(* gives its block back, and native_close both.                              *)
NothingLeaks == opening = Nothing => allocated = handles

(* Unless the query failed or another handle changed the file, native_eof is  *)
(* true exactly where the file ends, whatever was written and sought before. *)
EofIsTrue ==
    \A f \in handles : current[f] => (Eof(f) <=> file[f].Position >= Size(f))

(* A file opened for appending that nobody else writes and that is not        *)
(* sought is written at its end: what it held before stays.                  *)
AppendsAtEnd ==
    \A f \in handles :
        current[f] /\ appending[f] => file[f].Position = Size(f)
===============================================================================
