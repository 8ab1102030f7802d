------------------------------- MODULE Import -------------------------------
(***************************************************************************)
(* The source reader of an import (vfs_reader.c) on a file object of its   *)
(* own (openpython_vfs.c), among those of Python code: one import is       *)
(* followed byte by byte, every call it makes is an operation of its file  *)
(* object, and that object may be left behind when an exception ends the   *)
(* import.  Imports before and after it are those of VfsFile.              *)
(***************************************************************************)
EXTENDS SourceReader, VfsFile

ASSUME LengthAssumption == MaxLength <= MaxPos

importVars == <<readerVars, vars>>

(* The import that is followed has its file open *)
Followed == phase \in {"opened", "lexing"}

ImportInit == ReaderInit /\ Init

-----------------------------------------------------------------------------
(* mp_reader_new_file: mp_vfs_open calls the open of the file system *)
ImportOpens ==
    /\ OpenSource
    /\ \E o \in Objects :
          IF phase' = "opened" THEN (\E f \in Files : Open(o, f)) /\ importing' = o
                               ELSE OpenFails(o)

(* mp_stream_rw, once: the bytes that the reader got came by a transfer of *)
(* its own file object; a call that failed moved nothing                   *)
ByTransfer == \/ Transfer(importing) /\ answer'.count = file'.pos - file.pos
              \/ cut' /\ file' = file /\ Fail(importing)

(* An error of the first read is raised, and the object is nobody's *)
ImportStarts ==
    FirstRead /\ IF phase' = "raised" THEN ReaderRaises
                 ELSE Transfer(importing) /\ answer'.count = file'.pos

ImportRefills == (Refill \/ EndOfFull) /\ ByTransfer

(* What the buffer holds, and what others do to the file *)
ImportGoesOn == (NextByte \/ EndOfShort \/ (Followed /\ Grow)) /\ UNCHANGED vars

(* mp_reader_vfs_close; the close of the file object may raise *)
ImportCloses == CloseSource /\ IF phase' = "closed" THEN ReaderCloses ELSE ReaderRaises

(* Python code uses files while nothing is followed; the collector runs    *)
(* at any time                                                             *)
Meanwhile == /\ UNCHANGED readerVars
             /\ IF Followed THEN \E o \in Objects : Collect(o) ELSE Next

ImportNext == ImportOpens \/ ImportStarts \/ ImportRefills \/ ImportGoesOn \/ ImportCloses \/ Meanwhile

ImportSpec == ImportInit /\ [][ImportNext]_importVars

-----------------------------------------------------------------------------
(* While a module is parsed, the object that only the reader knows stays   *)
(* on the heap, and the reader's place in its file is that of the          *)
(* descriptor which this object holds: no other object and no collection   *)
(* comes between two buffers (vfs_reader.c:58, openpython_vfs.c:63).       *)
OwnPlace == Followed => /\ importing \in Live
                        /\ fd[importing] \in InUse
                        /\ table[fd[importing]].pos = file.pos
=============================================================================
