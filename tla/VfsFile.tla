------------------------------- MODULE VfsFile -------------------------------
(***************************************************************************)
(* File objects (openpython_vfs.c): the object holds the number of a       *)
(* descriptor of the host, or -1, and every operation is one system call.  *)
(* Python code closes files, forgets them, or has them closed by import,   *)
(* whose reader (vfs_reader.c) owns one while the lexer runs.              *)
(*                                                                         *)
(* The host hands out any free number, so also that of a file just closed; *)
(* any call may fail, and one that fails leaves the descriptor as it was.  *)
(***************************************************************************)
EXTENDS Integers

CONSTANTS Objects, Files,
          Descriptors, \* the host's numbers
          None,        \* -1, or no object
          MaxPos       \* bound: the length of a file

ASSUME NoneAssumption == None \notin Descriptors \cup Objects
ASSUME PosAssumption == MaxPos \in Nat

VARIABLES table,  \* the host's: file and cursor of each descriptor in use
          fd,     \* of the objects on the heap
          held,   \* objects that Python code can reach
          importing, \* the object that import reads from, or None
          opened, \* history: the file that each object was opened for
          lost,   \* history: descriptors in use whose object was collected
          answer  \* of the last operation: the object and what it was told

vars == <<table, fd, held, importing, opened, lost, answer>>

Live == DOMAIN fd
InUse == DOMAIN table
Entry == [file : Files, pos : 0 .. MaxPos]

Answer(o, s, n) == answer' = [object |-> o, said |-> s, count |-> n]

(* Python code runs; while a module is parsed none does *)
InPython == importing = None

(* check_fd_is_open *)
IsOpen(o) == fd[o] /= None

Init == /\ table = << >> /\ fd = << >> /\ held = {} /\ importing = None
        /\ opened = << >> /\ lost = {}
        /\ \E o \in Objects : answer = [object |-> o, said |-> "error", count |-> 0]

(* mp_vfs_openpython_file_open: the host fills in o->fd.  The object goes  *)
(* to Python code, or to the reader of an import                           *)
Open(o, f) ==
    /\ InPython /\ o \notin Live
    /\ \E d \in Descriptors \ InUse :
          /\ table' = [e \in InUse \cup {d} |->
                         IF e = d THEN [file |-> f, pos |-> 0] ELSE table[e]]
          /\ fd' = [p \in Live \cup {o} |-> IF p = o THEN d ELSE fd[p]]
    /\ opened' = [p \in Live \cup {o} |-> IF p = o THEN f ELSE opened[p]]
    /\ \/ held' = held \cup {o} /\ importing' = None
       \/ held' = held /\ importing' = o
    /\ Answer(o, "done", 0)
    /\ UNCHANGED lost

(* A failure raises before anyone has the object *)
OpenFails(o) == /\ InPython /\ o \notin Live
                /\ Answer(o, "error", 0)
                /\ UNCHANGED <<table, fd, held, importing, opened, lost>>

(* Who may call an operation of o: Python code, or the reader *)
Uses(o) == IF InPython THEN o \in held ELSE o = importing

(* An operation that is told "closed" or an error; a reader takes an error *)
(* of readbyte for the end of the file and goes on to close it             *)
Refuse(o) == /\ InPython /\ o \in held /\ ~IsOpen(o)
             /\ Answer(o, "closed", 0)
             /\ UNCHANGED <<table, fd, held, importing, opened, lost>>

Fail(o) == /\ Uses(o) /\ IsOpen(o)
           /\ Answer(o, "error", 0)
           /\ UNCHANGED <<table, fd, held, importing, opened, lost>>

(* Mutant of Transfer: check_fd_is_open is missing, and the host takes the *)
(* number -1 for some descriptor in use                                    *)
Transfer_unchecked(o) ==
    /\ Uses(o)
    /\ \E d \in InUse : (IsOpen(o) => d = fd[o]) /\ \E n \in 0 .. MaxPos - table[d].pos :
          /\ table' = [table EXCEPT ![d].pos = @ + n]
          /\ Answer(o, "done", n)
    /\ UNCHANGED <<fd, held, importing, opened, lost>>

(* vfs_openpython_file_read and _write, as many bytes as the host will *)
Transfer(o) ==
    /\ Uses(o) /\ IsOpen(o)
    /\ \E n \in 0 .. MaxPos - table[fd[o]].pos :
          /\ table' = [table EXCEPT ![fd[o]].pos = @ + n]
          /\ Answer(o, "done", n)
    /\ UNCHANGED <<fd, held, importing, opened, lost>>

(* MP_STREAM_SEEK answers the new offset; tell() seeks by 0 *)
Seek(o) == /\ InPython /\ o \in held /\ IsOpen(o)
           /\ \E p \in 0 .. MaxPos :
                 /\ table' = [table EXCEPT ![fd[o]].pos = p]
                 /\ Answer(o, "done", p)
           /\ UNCHANGED <<fd, held, importing, opened, lost>>

(* MP_STREAM_FLUSH *)
Flush(o) == /\ InPython /\ o \in held /\ IsOpen(o)
            /\ Answer(o, "done", 0)
            /\ UNCHANGED <<table, fd, held, importing, opened, lost>>

(* Mutants of Closed: the number stays in the object; the object is marked *)
(* closed before the host has agreed                                       *)
Closed_kept(o) == /\ table' = [e \in InUse \ {fd[o]} |-> table[e]]
                  /\ fd' = fd
Closed_early(o) == /\ \/ table' = [e \in InUse \ {fd[o]} |-> table[e]]
                      \/ table' = table
                   /\ fd' = [fd EXCEPT ![o] = None]

(* MP_STREAM_CLOSE, when the host succeeds *)
Closed(o) == /\ table' = [e \in InUse \ {fd[o]} |-> table[e]]
             /\ fd' = [fd EXCEPT ![o] = None]

(* close() and __exit__ *)
Close(o) == /\ InPython /\ o \in held /\ IsOpen(o)
            /\ Closed(o)
            /\ Answer(o, "done", 0)
            /\ UNCHANGED <<held, importing, opened, lost>>

(* mp_reader_vfs_close: the reader is done with the object *)
ReaderCloses == /\ importing /= None
                /\ Closed(importing)
                /\ Answer(importing, "done", 0)
                /\ importing' = None
                /\ UNCHANGED <<held, opened, lost>>

(* The exception of the first read (mp_reader_new_file), of a close that   *)
(* fails, or of the parser that runs out of memory: nobody has the object, *)
(* and its file stays open                                                 *)
ReaderRaises == /\ importing /= None
                /\ importing' = None
                /\ Answer(importing, "error", 0)
                /\ UNCHANGED <<table, fd, held, opened, lost>>

(* Python code lets go of an object *)
Drop(o) == /\ InPython /\ o \in held
           /\ held' = held \ {o}
           /\ UNCHANGED <<table, fd, importing, opened, lost, answer>>

(* Mutant of Collect: what only a C frame refers to is not marked *)
Collect_unscanned(o) == /\ o \in Live \ held
                        /\ fd' = [p \in Live \ {o} |-> fd[p]]
                        /\ opened' = [p \in Live \ {o} |-> opened[p]]
                        /\ lost' = IF fd[o] = None THEN lost ELSE lost \cup {fd[o]}
                        /\ UNCHANGED <<table, held, importing, answer>>

(* The garbage collector, anywhere: file objects have no finaliser *)
Collect(o) == /\ o \in Live \ (held \cup {importing})
              /\ fd' = [p \in Live \ {o} |-> fd[p]]
              /\ opened' = [p \in Live \ {o} |-> opened[p]]
              /\ lost' = IF fd[o] = None THEN lost ELSE lost \cup {fd[o]}
              /\ UNCHANGED <<table, held, importing, answer>>

Next == \/ \E o \in Objects : \/ \E f \in Files : Open(o, f)
                              \/ OpenFails(o) \/ Refuse(o) \/ Fail(o)
                              \/ Transfer(o) \/ Seek(o) \/ Flush(o)
                              \/ Close(o) \/ Drop(o) \/ Collect(o)
        \/ ReaderCloses \/ ReaderRaises

Spec == Init /\ [][Next]_vars

----------------------------------------------------------------------------
TypeOK == /\ Live \subseteq Objects /\ fd \in [Live -> Descriptors \cup {None}]
          /\ InUse \subseteq Descriptors /\ table \in [InUse -> Entry]
          /\ held \subseteq Live /\ importing \in (Live \ held) \cup {None}
          /\ opened \in [Live -> Files]
          /\ lost \subseteq InUse
          /\ answer \in [object : Objects, said : {"done", "closed", "error"},
                         count : 0 .. MaxPos]

(* However often numbers are closed and handed out again, an open object   *)
(* has a descriptor of the file it was opened for, and none that another   *)
(* object has: an operation never reaches a stranger's file                *)
(* (openpython_vfs.c:63, 176-183).                                         *)
OwnDescriptor ==
    /\ \A o \in Live : IsOpen(o) => /\ fd[o] \in InUse \ lost
                                    /\ table[fd[o]].file = opened[o]
    /\ \A o, p \in Live : IsOpen(o) /\ fd[o] = fd[p] => o = p

(* A descriptor that is in use on the host belongs to an object that can   *)
(* still close it, unless that object was collected: failed closes lose    *)
(* nothing (openpython_vfs.c:176-183).                                     *)
OnlyCollectionLoses == InUse \ lost = {fd[o] : o \in Live} \ {None}

(* Objects behave as files of their own, whatever numbers the host uses    *)
Promise == INSTANCE OpenFiles
               WITH objects <- Live,
                    file <- [o \in {p \in Live : IsOpen(p)} |-> table[fd[o]]]

(* The operations of file objects implement the promise: an object's       *)
(* cursor is moved by its own operations only, an object that was closed   *)
(* stays closed although its number is in use again, and what failed       *)
(* changed nothing (openpython_vfs.c:62-188).                              *)
PromiseKept == Promise!Spec
=============================================================================
