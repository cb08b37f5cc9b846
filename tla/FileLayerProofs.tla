---------------------------- MODULE FileLayerProofs ----------------------------
(* Proofs, for any number of blocks, names and volumes and files of any       *)
(* length, of the safety properties of FileLayer.                            *)
EXTENDS FileLayer, TLAPS

-----------------------------------------------------------------------------
(* The inductive invariant.                                                *)

Searching == [at : {"search", "query"}, block : Files, name : Names, mode : Modes,
              prefix : PrefixRange]

(* The native_open under way holds a block of its own: nothing else is        *)
(* allocated without an open handle.  Once a volume is remembered it is the   *)
(* only one that is tried.  After NtCreateFile the block describes the file   *)
(* found, whose length is not known yet.                                     *)
OpeningInv ==
    /\ opening # Nothing => opening \in Searching
    /\ opening = Nothing => allocated = handles
    /\ opening # Nothing => allocated = handles \cup {opening.block}
    /\ opening.at = "search" =>
          /\ opening.block \notin handles
          /\ opening.prefix <= FinalPrefix
          /\ data_prefix_index >= 0 => opening.prefix = data_prefix_index
    /\ opening.at = "query" =>
          /\ opening.block \in handles
          /\ ~current[opening.block]
          /\ appending[opening.block] <=> opening.mode = "a"

(* An open handle is on a file that exists, on the volume remembered.  While  *)
(* the length of its block is that of the file, one that appends is at the    *)
(* end.                                                                     *)
HandleInv ==
    \A f \in handles :
        /\ file[f].path[1] = data_prefix_index
        /\ Size(f) # Missing
        /\ current[f] => file[f].Length = Size(f)
        /\ current[f] /\ appending[f] => file[f].Position = Size(f)

IInv == TypeOK /\ OpeningInv /\ HandleInv

Block == [path : Paths, writable : BOOLEAN, Position : 0..MaxLength, Length : 0..MaxLength]

-----------------------------------------------------------------------------
(* Initially, and step by step.                                            *)

(* No block is allocated and no volume remembered.                            *)
LEMMA InitInv == Init => IInv
<1> SUFFICES ASSUME Init PROVE IInv
  OBVIOUS
<1> USE FileAssumption DEF Init, Paths, PrefixRange, Missing, Nothing
<1>1. TypeOK
  <2>1. NotOpen \in [path : Paths, writable : BOOLEAN, Position : 0..MaxLength,
                     Length : 0..MaxLength]
    BY DEF NotOpen
  <2>2. disk \in [Paths -> {Missing} \cup 0..MaxLength]
    BY MaxLength >= 1
  <2> QED
    BY <2>1, <2>2 DEF TypeOK
<1>2. OpeningInv /\ HandleInv
  BY DEF OpeningInv, HandleInv
<1> QED
  BY <1>1, <1>2 DEF IInv

(* A block keeps its type when its position and its length change.           *)
LEMMA BlockUpdate ==
    ASSUME file \in [Files -> Block], NEW f \in Files,
           NEW position \in 0..MaxLength, NEW length \in 0..MaxLength
    PROVE  /\ [file EXCEPT ![f].Position = position, ![f].Length = length]
                    \in [Files -> Block]
           /\ [file EXCEPT ![f].Length = length, ![f].Position = position]
                    \in [Files -> Block]
<1> DEFINE new == [file[f] EXCEPT !.Position = position, !.Length = length]
<1>1. /\ [file EXCEPT ![f].Position = position, ![f].Length = length]
                = [file EXCEPT ![f] = new]
      /\ [file EXCEPT ![f].Length = length, ![f].Position = position]
                = [file EXCEPT ![f] = new]
  BY DEF Block
<1>2. new \in Block
  BY FileAssumption DEF Block
<1> QED
  BY <1>1, <1>2

(* Every variable keeps its type.                                            *)
LEMMA TypeStep == IInv /\ [Next]_vars => TypeOK'
<1> SUFFICES ASSUME IInv, [Next]_vars PROVE TypeOK'
  OBVIOUS
<1> USE FileAssumption DEF TypeOK, blocks, history, Paths, PrefixRange, Missing,
        Nothing, Searching, Modes
<1>0. TypeOK /\ OpeningInv /\ HandleInv
  BY DEF IInv
<1>1. ASSUME NEW p \in PrefixRange, Mount(p) PROVE TypeOK'
  BY <1>0, <1>1 DEF Mount
<1>2. ASSUME NEW f \in Files, NEW name \in Names, NEW mode \in Modes, OpenCall(f, name, mode)
      PROVE TypeOK'
  BY <1>0, <1>2 DEF OpenCall
<1>3. CASE Found
  <2> DEFINE b == opening.block
             path == <<opening.prefix, opening.name>>
             size == Opened(disk[path], opening.mode)
             new == [path |-> path, writable |-> opening.mode # "r",
                     Position |-> 0, Length |-> 0]
  <2>1. opening \in Searching /\ b \in Files /\ path \in Paths /\ b \in allocated
    BY <1>0, <1>3 DEF Found, OpeningInv
  <2>2. size \in 0..MaxLength
    BY <1>0, <1>3, <2>1 DEF Found, Opened
  <2>3. new \in [path : Paths, writable : BOOLEAN, Position : 0..MaxLength,
                 Length : 0..MaxLength]
    BY <2>1
  <2>4. /\ disk' = [disk EXCEPT ![path] = size]
        /\ handles' = handles \cup {b}
        /\ data_prefix_index' = opening.prefix
        /\ file' = [file EXCEPT ![b] = new]
        /\ current' \in [Files -> BOOLEAN]
        /\ appending' \in [Files -> BOOLEAN]
        /\ opening'.at = "query"
        /\ UNCHANGED <<mounted, allocated>>
    BY <1>0, <1>3, <2>1 DEF Found
  <2> HIDE DEF b, path, size, new
  <2>5. opening.prefix \in -1..(Prefixes - 1)
    BY <2>1
  <2> QED
    BY <1>0, <2>1, <2>2, <2>3, <2>4, <2>5
<1>4. CASE TryNext
  BY <1>0, <1>4 DEF TryNext
<1>5. CASE NotFound
  BY <1>0, <1>5 DEF NotFound, OpeningInv
<1>6. ASSUME NEW known \in BOOLEAN, Query(known) PROVE TypeOK'
  <2> DEFINE b == opening.block
             length == IF known THEN Size(b) ELSE 0
             position == IF opening.mode = "a" THEN length ELSE 0
  <2>1. /\ b \in Files /\ length \in 0..MaxLength /\ position \in 0..MaxLength
        /\ file' = [file EXCEPT ![b].Length = length, ![b].Position = position]
        /\ current' = [current EXCEPT ![b] = known]
        /\ UNCHANGED <<data_prefix_index, mounted, disk, allocated, handles, appending>>
        /\ opening' = Nothing
    BY <1>0, <1>6 DEF Query, OpeningInv, HandleInv, Size
  <2>2. file' \in [Files -> Block]
    BY <1>0, <2>1, BlockUpdate DEF Block
  <2> HIDE DEF b, length, position
  <2> QED
    BY <1>0, <2>1, <2>2 DEF Block
<1>7. ASSUME NEW f \in Files, Close(f) PROVE TypeOK'
  <2>1. NotOpen \in [path : Paths, writable : BOOLEAN, Position : 0..MaxLength,
                     Length : 0..MaxLength]
    BY DEF NotOpen
  <2>2. handles \ {f} \subseteq allocated \ {f}
    BY <1>0
  <2> QED
    BY <1>0, <1>7, <2>1, <2>2 DEF Close
<1>8. ASSUME NEW f \in Files, NEW count \in 1..MaxLength, Read(f, count) PROVE TypeOK'
  <2>1. file[f].Position + count \in 0..MaxLength
    BY <1>0, <1>8 DEF Read, Use, Size
  <2> QED
    BY <1>0, <1>8, <2>1 DEF Read, Use
<1>9. ASSUME NEW f \in Files, NEW count \in 1..MaxLength, Write(f, count)
      PROVE TypeOK'
  <2> DEFINE end == file[f].Position + count
             path == file[f].path
             length == IF end > file[f].Length THEN end ELSE file[f].Length
  <2>1. end \in 0..MaxLength /\ path \in Paths /\ length \in 0..MaxLength
    BY <1>0, <1>9 DEF Write, Use
  <2>2. /\ disk' = [disk EXCEPT ![path] = IF end > disk[path] THEN end ELSE disk[path]]
        /\ file' = [file EXCEPT ![f].Position = end, ![f].Length = length]
        /\ current' \in [Files -> BOOLEAN]
        /\ UNCHANGED <<data_prefix_index, mounted, opening, allocated, handles, appending>>
    BY <1>0, <1>9 DEF Write, Use
  <2> HIDE DEF end, path, length
  <2>3. disk' \in [Paths -> {Missing} \cup 0..MaxLength]
    BY <1>0, <2>1, <2>2
  <2>4. file' \in [Files -> Block]
    BY <1>0, <2>1, <2>2, BlockUpdate DEF Block
  <2> QED
    BY <1>0, <2>2, <2>3, <2>4 DEF Block
<1>10. ASSUME NEW f \in Files, NEW offset \in Offsets, NEW origin \in {"set", "cur", "end"},
             Seek(f, offset, origin)
       PROVE TypeOK'
  BY <1>0, <1>10 DEF Seek, Use
<1>11. CASE UNCHANGED vars
  BY <1>0, <1>11 DEF vars
<1> QED
  BY <1>1, <1>2, <1>3, <1>4, <1>5, <1>6, <1>7, <1>8, <1>9, <1>10, <1>11 DEF
     Next, OpenNext, UseNext

(* native_open goes from the block to the file, or gives the block back.     *)
LEMMA OpeningStep == IInv /\ [Next]_vars => OpeningInv'
<1> SUFFICES ASSUME IInv, [Next]_vars PROVE OpeningInv'
  OBVIOUS
<1> USE FileAssumption DEF TypeOK, OpeningInv, blocks, history, Paths, PrefixRange,
        Missing, Nothing, Searching, FirstPrefix, FinalPrefix, Modes
<1>0. TypeOK /\ OpeningInv
  BY DEF IInv
<1>1. ASSUME NEW p \in PrefixRange, Mount(p) PROVE OpeningInv'
  BY <1>0, <1>1 DEF Mount
<1>2. ASSUME NEW f \in Files, NEW name \in Names, NEW mode \in Modes, OpenCall(f, name, mode)
      PROVE OpeningInv'
  BY <1>0, <1>2 DEF OpenCall
<1>3. CASE Found
  <2>1. /\ opening \in Searching
        /\ opening' = [opening EXCEPT !.at = "query"]
        /\ handles' = handles \cup {opening.block}
        /\ allocated' = allocated
    BY <1>0, <1>3 DEF Found
  <2>2. /\ opening'.block = opening.block /\ opening'.mode = opening.mode
        /\ opening'.at = "query" /\ opening' \in Searching
    BY <2>1
  <2>3. ~current'[opening.block] /\ (appending'[opening.block] <=> opening.mode = "a")
    BY <1>0, <1>3, <2>1 DEF Found
  <2> QED
    BY <1>0, <1>3, <2>1, <2>2, <2>3
<1>4. CASE TryNext
  BY <1>0, <1>4 DEF TryNext
<1>5. CASE NotFound
  BY <1>0, <1>5 DEF NotFound
<1>6. ASSUME NEW known \in BOOLEAN, Query(known) PROVE OpeningInv'
  BY <1>0, <1>6 DEF Query
<1>7. ASSUME NEW f \in Files, Close(f) PROVE OpeningInv'
  BY <1>0, <1>7 DEF Close
<1>8. ASSUME NEW f \in Files, NEW count \in 1..MaxLength, Read(f, count)
      PROVE OpeningInv'
  BY <1>0, <1>8 DEF Read, Use
<1>9. ASSUME NEW f \in Files, NEW count \in 1..MaxLength, Write(f, count)
      PROVE OpeningInv'
  BY <1>0, <1>9 DEF Write, Use
<1>10. ASSUME NEW f \in Files, NEW offset \in Offsets, NEW origin \in {"set", "cur", "end"},
             Seek(f, offset, origin)
       PROVE OpeningInv'
  BY <1>0, <1>10 DEF Seek, Use
<1>11. CASE UNCHANGED vars
  BY <1>0, <1>11 DEF vars
<1> QED
  BY <1>1, <1>2, <1>3, <1>4, <1>5, <1>6, <1>7, <1>8, <1>9, <1>10, <1>11 DEF
     Next, OpenNext, UseNext

(* What is known of the open files stays true.                               *)
LEMMA HandleStep == IInv /\ [Next]_vars => HandleInv'
<1> SUFFICES ASSUME IInv, [Next]_vars PROVE HandleInv'
  OBVIOUS
<1> USE FileAssumption DEF TypeOK, OpeningInv, HandleInv, blocks, history, Paths,
        PrefixRange, Missing, Nothing, Searching, Size, Sharing, Modes
<1>0. TypeOK /\ OpeningInv /\ HandleInv
  BY DEF IInv
<1>1. ASSUME NEW p \in PrefixRange, Mount(p) PROVE HandleInv'
  BY <1>0, <1>1 DEF Mount
<1>2. ASSUME NEW f \in Files, NEW name \in Names, NEW mode \in Modes, OpenCall(f, name, mode)
      PROVE HandleInv'
  BY <1>0, <1>2 DEF OpenCall
<1>3. CASE Found
  <2> DEFINE b == opening.block
             path == <<opening.prefix, opening.name>>
             size == Opened(disk[path], opening.mode)
             new == [path |-> path, writable |-> opening.mode # "r",
                     Position |-> 0, Length |-> 0]
  <2>1. b \in Files /\ b \notin handles /\ path \in Paths /\ size # Missing
    BY <1>0, <1>3 DEF Found
  <2>2. /\ disk' = [disk EXCEPT ![path] = size]
        /\ handles' = handles \cup {b}
        /\ data_prefix_index' = opening.prefix
        /\ file' = [file EXCEPT ![b] = new]
        /\ \A g \in Files : current'[g] =>
                current[g] /\ g # b /\ (disk'[path] # disk[path] => g \notin Sharing(b, path))
        /\ appending' = [appending EXCEPT ![b] = opening.mode = "a"]
    BY <1>3 DEF Found
  <2>3. new.path = path /\ path[1] = opening.prefix
    OBVIOUS
  <2>4. ASSUME NEW g \in handles PROVE file[g].path[1] = opening.prefix
    <3>1. file[g].path[1] = data_prefix_index /\ file[g].path[1] \in PrefixRange
      BY <1>0
    <3> QED
      BY <1>0, <1>3, <3>1 DEF Found
  <2> HIDE DEF b, path, size, new
  <2>5. ASSUME NEW g \in handles
        PROVE  /\ file'[g] = file[g] /\ appending'[g] = appending[g] /\ g # b
               /\ file[g].path \in Paths
               /\ disk'[file[g].path] # Missing
               /\ current'[g] => current[g] /\ disk'[file[g].path] = disk[file[g].path]
    BY <1>0, <2>1, <2>2
  <2>6. file'[b].path = path /\ disk'[path] = size /\ ~current'[b]
    BY <1>0, <2>1, <2>2, <2>3
  <2> QED
    BY <1>0, <2>1, <2>2, <2>3, <2>4, <2>5, <2>6
<1>4. CASE TryNext
  BY <1>0, <1>4 DEF TryNext
<1>5. CASE NotFound
  BY <1>0, <1>5 DEF NotFound
<1>6. ASSUME NEW known \in BOOLEAN, Query(known) PROVE HandleInv'
  <2> DEFINE b == opening.block
             length == IF known THEN Size(b) ELSE 0
             position == IF opening.mode = "a" THEN length ELSE 0
  <2>1. /\ b \in handles /\ b \in Files
        /\ file' = [file EXCEPT ![b].Length = length, ![b].Position = position]
        /\ current' = [current EXCEPT ![b] = known]
        /\ UNCHANGED <<data_prefix_index, disk, handles, appending>>
    BY <1>0, <1>6 DEF Query
  <2>2. /\ appending[b] => position = length
        /\ known => length = Size(b)
    BY <1>0, <1>6 DEF Query
  <2> HIDE DEF b, length, position
  <2>3. \A g \in handles \ {b} : file'[g] = file[g] /\ current'[g] = current[g]
    BY <1>0, <2>1
  <2>4. /\ file'[b].path = file[b].path /\ current'[b] = known
        /\ file'[b].Length = length /\ file'[b].Position = position
    BY <1>0, <2>1
  <2> QED
    BY <1>0, <2>1, <2>2, <2>3, <2>4
<1>7. ASSUME NEW f \in Files, Close(f) PROVE HandleInv'
  BY <1>0, <1>7 DEF Close
<1>8. ASSUME NEW f \in Files, NEW count \in 1..MaxLength, Read(f, count)
      PROVE HandleInv'
  BY <1>0, <1>8 DEF Read, Use
<1>9. ASSUME NEW f \in Files, NEW count \in 1..MaxLength, Write(f, count)
      PROVE HandleInv'
  BY <1>0, <1>9 DEF Write, Use
<1>10. ASSUME NEW f \in Files, NEW offset \in Offsets, NEW origin \in {"set", "cur", "end"},
             Seek(f, offset, origin)
       PROVE HandleInv'
  BY <1>0, <1>10 DEF Seek, Use
<1>11. CASE UNCHANGED vars
  BY <1>0, <1>11 DEF vars
<1> QED
  BY <1>1, <1>2, <1>3, <1>4, <1>5, <1>6, <1>7, <1>8, <1>9, <1>10, <1>11 DEF
     Next, OpenNext, UseNext

-----------------------------------------------------------------------------
(* The properties.                                                         *)

(* The inductive invariant holds in every reachable state, for any number of  *)
(* blocks, names and volumes, whatever offsets the engine seeks by.           *)
THEOREM Invariance == Spec => []IInv
<1>1. IInv /\ [Next]_vars => IInv'
  BY TypeStep, OpeningStep, HandleStep DEF IInv
<1> QED
  BY InitInv, <1>1, PTL DEF Spec

(* Every variable keeps its type: a position is never before the start of a   *)
(* file.                                                                    *)
THEOREM TypeCorrect == Spec => []TypeOK
<1>1. IInv => TypeOK
  BY DEF IInv
<1> QED
  BY <1>1, Invariance, PTL

(* All that is open is on the volume remembered, whenever others are mounted. *)
THEOREM SingleVolume == Spec => []OneVolume
<1>1. IInv => OneVolume
  BY DEF IInv, HandleInv, OneVolume
<1> QED
  BY <1>1, Invariance, PTL

(* No failure of native_open leaks a block.                                   *)
THEOREM BlocksGivenBack == Spec => []NothingLeaks
<1>1. IInv => NothingLeaks
  BY DEF IInv, OpeningInv, NothingLeaks
<1> QED
  BY <1>1, Invariance, PTL

(* native_eof tells the end of the file, unless it could not know it.         *)
THEOREM EofCorrect == Spec => []EofIsTrue
<1>1. IInv => EofIsTrue
  BY DEF IInv, HandleInv, EofIsTrue, Eof
<1> QED
  BY <1>1, Invariance, PTL

(* What is appended never overwrites what the file held.                      *)
THEOREM AppendCorrect == Spec => []AppendsAtEnd
<1>1. IInv => AppendsAtEnd
  BY DEF IInv, HandleInv, AppendsAtEnd
<1> QED
  BY <1>1, Invariance, PTL
===============================================================================
