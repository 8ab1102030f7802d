---------------------------- MODULE SourceReader ----------------------------
(***************************************************************************)
(* vfs_reader.c: the buffered reader that feeds the lexer with the source  *)
(* of an imported module, on top of a file object of openpython_vfs.c.     *)
(*                                                                         *)
(* A byte is named by its place in the file (1, 2, ...), so what the lexer *)
(* gets is right iff it is 1, 2, 3, ...  The host may answer a read with   *)
(* fewer bytes than asked, or with an error; the file may grow meanwhile.  *)
(* The lexer calls readbyte three characters ahead of what it tokenizes,   *)
(* also after the end; it frees the reader when it stops, early or not.    *)
(***************************************************************************)
EXTENDS Integers, Sequences

CONSTANTS BufSize,   \* sizeof(reader->buf): 4096
          MaxLength  \* bound: the length of the file

ASSUME BufSizeAssumption == BufSize \in Nat \ {0}
ASSUME MaxLengthAssumption == MaxLength \in Nat

VARIABLES file,    \* the host's side: length, cursor, and whether it is open
          reader,  \* mp_reader_vfs_t
          phase,   \* of the life of the reader
          got,     \* history: the bytes the lexer got
          ended,   \* history: the lexer got MP_READER_EOF
          cut,     \* history: a read failed, or fell short of the file's end
          sized    \* history: length of the file at the last read

readerVars == <<file, reader, phase, got, ended, cut, sized>>

Phases == {"start", "opened", "lexing", "closed", "raised"}

Min2(a, b) == IF a < b THEN a ELSE b
Available == file.length - file.pos

(* SYS_VFS_READ puts n bytes in the buffer, the rest of it stays *)
Filled(n) == [i \in 1 .. BufSize |-> IF i <= n THEN file.pos + i
                                     ELSE reader.buf[i]]

(* The host's side of a read that returns n bytes *)
HostReads(n) == /\ n <= Min2(BufSize, Available)
                /\ file' = [file EXCEPT !.pos = @ + n]
                /\ cut' = (cut \/ n < Min2(BufSize, Available))
                /\ sized' = file.length

HostFails == /\ cut' = TRUE
             /\ sized' = file.length
             /\ UNCHANGED file

----------------------------------------------------------------------------
ReaderInit == /\ \E n \in 0 .. MaxLength :
                    file = [length |-> n, pos |-> 0, open |-> FALSE]
              /\ reader = [len |-> 0, pos |-> 0, buf |-> [i \in 1 .. BufSize |-> 0]]
              /\ phase = "start"
              /\ got = << >>
              /\ ended = FALSE
              /\ cut = FALSE
              /\ sized = 0

(* mp_vfs_open; it raises OSError when the host cannot open the file *)
OpenSource == /\ phase = "start"
              /\ \/ file' = [file EXCEPT !.open = TRUE] /\ phase' = "opened"
                 \/ phase' = "raised" /\ UNCHANGED file
              /\ UNCHANGED <<reader, got, ended, cut, sized>>

(* The first buffer; the reader has no handler for an error, which leaves  *)
(* the file open                                                           *)
FirstRead == /\ phase = "opened"
             /\ \/ \E n \in 0 .. BufSize :
                      /\ HostReads(n)
                      /\ reader' = [len |-> n, pos |-> 0, buf |-> Filled(n)]
                      /\ phase' = "lexing"
                \/ /\ HostFails
                   /\ phase' = "raised"
                   /\ UNCHANGED reader
             /\ UNCHANGED <<got, ended>>

(* readbyte: a byte of the buffer *)
NextByte == /\ phase = "lexing" /\ reader.pos < reader.len
            /\ reader' = [reader EXCEPT !.pos = @ + 1]
            /\ got' = Append(got, reader.buf[reader.pos + 1])
            /\ UNCHANGED <<file, phase, ended, cut, sized>>

Drained == phase = "lexing" /\ reader.pos >= reader.len

(* Mutant of EndOfShort: a full buffer too is taken for the last one *)
EndOfShort_full == /\ Drained /\ reader.len <= BufSize
                   /\ ended' = TRUE
                   /\ UNCHANGED <<file, reader, phase, got, cut, sized>>

(* readbyte: the last buffer was not full, so the file is taken to end *)
EndOfShort == /\ Drained /\ reader.len < BufSize
              /\ ended' = TRUE
              /\ UNCHANGED <<file, reader, phase, got, cut, sized>>

(* Mutants of Refill: a full buffer is not told from a short one; what is  *)
(* read is not checked for emptiness                                       *)
Refill_always == /\ Drained
                 /\ \E n \in 1 .. BufSize :
                       /\ HostReads(n)
                       /\ reader' = [len |-> n, pos |-> 1, buf |-> Filled(n)]
                       /\ got' = Append(got, Filled(n)[1])
                 /\ UNCHANGED <<phase, ended>>
Refill_unchecked == /\ Drained /\ reader.len = BufSize
                    /\ \E n \in 0 .. BufSize :
                          /\ HostReads(n)
                          /\ reader' = [len |-> n, pos |-> 1, buf |-> Filled(n)]
                          /\ got' = Append(got, Filled(n)[1])
                    /\ UNCHANGED <<phase, ended>>

(* readbyte: the next buffer *)
Refill == /\ Drained /\ reader.len = BufSize
          /\ \E n \in 1 .. BufSize :
                /\ HostReads(n)
                /\ reader' = [len |-> n, pos |-> 1, buf |-> Filled(n)]
                /\ got' = Append(got, Filled(n)[1])
          /\ UNCHANGED <<phase, ended>>

(* readbyte: nothing more, or an error that is taken for the end; len      *)
(* becomes 0 and pos stays                                                 *)
EndOfFull == /\ Drained /\ reader.len = BufSize
             /\ HostReads(0) \/ HostFails
             /\ reader' = [reader EXCEPT !.len = 0]
             /\ ended' = TRUE
             /\ UNCHANGED <<phase, got>>

(* mp_reader_vfs_close, when the lexer is freed: mp_stream_close may raise *)
CloseSource == /\ phase = "lexing"
               /\ \/ file' = [file EXCEPT !.open = FALSE] /\ phase' = "closed"
                  \/ phase' = "raised" /\ UNCHANGED file
               /\ UNCHANGED <<reader, got, ended, cut, sized>>

(* Another user of the disk appends to the file *)
Grow == /\ file.length < MaxLength
        /\ file' = [file EXCEPT !.length = @ + 1]
        /\ UNCHANGED <<reader, phase, got, ended, cut, sized>>

ReadByte == NextByte \/ EndOfShort \/ Refill \/ EndOfFull

ReaderNext == OpenSource \/ FirstRead \/ ReadByte \/ CloseSource \/ Grow

ReaderSpec == ReaderInit /\ [][ReaderNext]_readerVars

----------------------------------------------------------------------------
ReaderTypeOK == /\ file \in [length : Nat, pos : Nat, open : BOOLEAN]
                /\ reader \in [len : 0 .. BufSize, pos : 0 .. BufSize,
                               buf : [1 .. BufSize -> Nat]]
                /\ phase \in Phases
                /\ got \in Seq(Nat)
                /\ ended \in BOOLEAN /\ cut \in BOOLEAN /\ sized \in Nat

(* The lexer gets the bytes of the file in order, none twice and none      *)
(* left out, through every refill of the buffer and whatever the host      *)
(* answers; stale bytes of an earlier buffer never reach it                *)
(* (vfs_reader.c:52-69).                                                   *)
InOrder == \A i \in 1 .. Len(got) : got[i] = i

(* The lexer is told that the source ends only where the file ended when   *)
(* it was last read, unless a read failed or fell short: a source whose    *)
(* length is a multiple of the buffer is not cut (vfs_reader.c:53, 63).    *)
WholeUnlessCut == ended /\ ~cut => Len(got) = sized

(* The end is final: once the lexer, which looks ahead, got it, no later   *)
(* call gives a byte again, although the file may have grown and a failed  *)
(* read may succeed now (vfs_reader.c:53-54 after 57-64).                  *)
EndIsFinal == [][ended => got' = got]_readerVars
=============================================================================
