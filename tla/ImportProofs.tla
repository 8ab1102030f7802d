---------------------------- MODULE ImportProofs ----------------------------
(***************************************************************************)
(* Proofs about Import and its two parts: the reader of a source, for every *)
(* size of the buffer, every length of the file and every answer of the    *)
(* host; the file objects, for any number of objects, files and            *)
(* descriptors; and the two together, which behave as they do alone, so    *)
(* that what is proved of each holds of both, and which stay in step.      *)
(***************************************************************************)
EXTENDS Import, TLAPS

-----------------------------------------------------------------------------
(* The reader of a source: SourceReader *)

(* What is in the buffer beyond the cursor is the next piece of the file,  *)
(* up to the host's cursor; an emptied buffer marks the end.               *)
InStep ==
    IF reader.pos <= reader.len
    THEN /\ file.pos = Len(got) + (reader.len - reader.pos)
         /\ \A i \in (reader.pos + 1) .. reader.len :
               reader.buf[i] = Len(got) + (i - reader.pos)
    ELSE ended /\ reader.len = 0 /\ file.pos = Len(got)

(* The inductive invariant *)
ReaderInv ==
    /\ ReaderTypeOK
    /\ InOrder
    /\ WholeUnlessCut
    /\ file.pos <= file.length
    /\ phase \in {"start", "opened"} =>
          got = << >> /\ ~ended /\ file.pos = 0
    /\ phase = "lexing" =>
          /\ InStep
          /\ ended => reader.pos >= reader.len /\ reader.len < BufSize
          /\ ~cut /\ reader.len < BufSize => file.pos = sized

LEMMA InitReaderInv == ReaderInit => ReaderInv
<1>. SUFFICES ASSUME ReaderInit PROVE ReaderInv
  OBVIOUS
<1>1. ReaderTypeOK
  <2>1. file \in [length : Nat, pos : Nat, open : BOOLEAN]
    BY MaxLengthAssumption DEF ReaderInit
  <2>2. [i \in 1 .. BufSize |-> 0] \in [1 .. BufSize -> Nat]
    OBVIOUS
  <2>3. reader \in [len : 0 .. BufSize, pos : 0 .. BufSize,
                    buf : [1 .. BufSize -> Nat]]
    BY <2>2, BufSizeAssumption DEF ReaderInit
  <2>4. << >> \in Seq(Nat)  OBVIOUS
  <2>5. phase \in Phases  BY DEF ReaderInit, Phases
  <2>6. ended \in BOOLEAN /\ cut \in BOOLEAN /\ sized \in Nat  BY DEF ReaderInit
  <2>7. got \in Seq(Nat)  BY <2>4 DEF ReaderInit
  <2>. QED  BY <2>1, <2>3, <2>5, <2>6, <2>7 DEF ReaderTypeOK
<1>. QED
  BY <1>1, MaxLengthAssumption DEF ReaderInit, ReaderInv, InOrder, WholeUnlessCut

(* The fields of the state, typed *)
LEMMA Types ==
    ASSUME ReaderTypeOK
    PROVE  /\ file.length \in Nat /\ file.pos \in Nat
           /\ reader.len \in 0 .. BufSize /\ reader.pos \in 0 .. BufSize
           /\ reader.len \in Nat /\ reader.pos \in Nat
           /\ reader.buf \in [1 .. BufSize -> Nat]
           /\ BufSize \in Nat /\ BufSize > 0
           /\ got \in Seq(Nat) /\ Len(got) \in Nat /\ sized \in Nat
BY BufSizeAssumption DEF ReaderTypeOK

(* What a read of n bytes leaves: when it is not cut, and did not fill the *)
(* buffer, it reached the end of the file                                  *)
LEMMA HostReadsFacts ==
    ASSUME ReaderTypeOK, file.pos <= file.length, NEW n \in 0 .. BufSize, HostReads(n)
    PROVE  /\ file' = [file EXCEPT !.pos = @ + n]
           /\ file'.pos = file.pos + n /\ file'.length = file.length
           /\ file'.pos <= file'.length
           /\ file' \in [length : Nat, pos : Nat, open : BOOLEAN]
           /\ cut' \in BOOLEAN /\ sized' \in Nat
           /\ ~cut' /\ n < BufSize => file'.pos = sized'
           /\ Filled(n) \in [1 .. BufSize -> Nat]
           /\ \A i \in 1 .. n : Filled(n)[i] = file.pos + i
<1>1. /\ file \in [length : Nat, pos : Nat, open : BOOLEAN]
      /\ cut \in BOOLEAN /\ n \in Nat
  BY Types DEF ReaderTypeOK
<1>2. file' = [file EXCEPT !.pos = @ + n]  BY DEF HostReads
<1>3. file.pos + n \in Nat  BY <1>1
<1>4. /\ file' \in [length : Nat, pos : Nat, open : BOOLEAN]
      /\ file'.pos = file.pos + n /\ file'.length = file.length
  BY <1>1, <1>2, <1>3
<1>5. n <= file.length - file.pos /\ sized' = file.length
  BY <1>1, Types DEF HostReads, Min2, Available
<1>6. cut' \in BOOLEAN  BY <1>1 DEF HostReads
<1>7. ASSUME ~cut', n < BufSize  PROVE n = file.length - file.pos
  <2>1. n >= Min2(BufSize, Available)
    <3>1. Min2(BufSize, Available) \in Int
      BY <1>1, Types DEF Min2, Available
    <3>2. ~(n < Min2(BufSize, Available))  BY <1>7 DEF HostReads
    <3>. QED  BY <1>1, <3>1, <3>2
  <2>2. BufSize \in Nat /\ file.length \in Nat /\ file.pos \in Nat
    BY Types
  <2>. QED  BY <1>1, <1>5, <1>7, <2>1, <2>2 DEF Min2, Available
<1>8. Filled(n) \in [1 .. BufSize -> Nat]
  BY <1>1, Types DEF Filled
<1>9. \A i \in 1 .. n : Filled(n)[i] = file.pos + i
  BY <1>1, Types DEF Filled
<1>. QED  BY <1>1, <1>2, <1>4, <1>5, <1>6, <1>7, <1>8, <1>9

(* Appending the next byte keeps the order *)
LEMMA AppendInOrder ==
    ASSUME got \in Seq(Nat), InOrder, NEW b, b = Len(got) + 1,
           got' = Append(got, b)
    PROVE  got' \in Seq(Nat) /\ Len(got') = Len(got) + 1 /\ InOrder'
BY DEF InOrder

LEMMA FirstReadKeepsInv == ReaderInv /\ FirstRead => ReaderInv'
<1>1. ASSUME ReaderInv, phase = "opened", NEW n \in 0 .. BufSize, HostReads(n),
             reader' = [len |-> n, pos |-> 0, buf |-> Filled(n)],
             phase' = "lexing", UNCHANGED <<got, ended>>
      PROVE  ReaderInv'
  <2>1. ReaderTypeOK /\ InOrder /\ got = << >> /\ ~ended /\ file.pos = 0
        /\ file.pos <= file.length
    BY <1>1 DEF ReaderInv
  <2>2. ReaderTypeOK'  BY <1>1, <2>1, HostReadsFacts, Types DEF ReaderTypeOK, Phases
  <2>3. InStep'
    BY <1>1, <2>1, HostReadsFacts, Types DEF InStep
  <2>. QED
    BY <1>1, <2>1, <2>2, <2>3, HostReadsFacts, Types
    DEF ReaderInv, InOrder, WholeUnlessCut
<1>2. ASSUME ReaderInv, phase = "opened", HostFails, phase' = "raised",
             UNCHANGED <<reader, got, ended>>
      PROVE  ReaderInv'
  BY <1>2, Types DEF ReaderInv, HostFails, ReaderTypeOK, Phases, InOrder, WholeUnlessCut
<1>. QED  BY <1>1, <1>2 DEF FirstRead

LEMMA NextByteKeepsInv == ReaderInv /\ NextByte => ReaderInv'
<1>. SUFFICES ASSUME ReaderInv, NextByte PROVE ReaderInv'
  OBVIOUS
<1>0. /\ reader.pos \in Nat /\ reader.len \in Nat /\ reader.len <= BufSize
      /\ BufSize \in Nat /\ Len(got) \in Nat /\ file.pos \in Nat
      /\ got \in Seq(Nat) /\ reader.buf \in [1 .. BufSize -> Nat]
      /\ reader \in [len : 0 .. BufSize, pos : 0 .. BufSize,
                     buf : [1 .. BufSize -> Nat]]
  BY Types DEF ReaderInv, ReaderTypeOK
<1>1. /\ ReaderTypeOK /\ InOrder /\ InStep /\ phase = "lexing"
      /\ reader.pos < reader.len
  BY DEF ReaderInv, NextByte
<1>2. /\ file.pos = Len(got) + (reader.len - reader.pos)
      /\ \A i \in (reader.pos + 1) .. reader.len :
            reader.buf[i] = Len(got) + (i - reader.pos)
  BY <1>0, <1>1 DEF InStep
<1>3. reader.buf[reader.pos + 1] = Len(got) + 1
  <2>. DEFINE next == reader.pos + 1
  <2>1. next \in (reader.pos + 1) .. reader.len /\ next - reader.pos = 1
    BY <1>0, <1>1
  <2>. HIDE DEF next
  <2>2. reader.buf[next] = Len(got) + (next - reader.pos)  BY <1>2, <2>1
  <2>. QED  BY <2>1, <2>2 DEF next
<1>4. got' \in Seq(Nat) /\ Len(got') = Len(got) + 1 /\ InOrder'
  BY <1>0, <1>1, <1>3, AppendInOrder DEF NextByte
<1>5. /\ reader' \in [len : 0 .. BufSize, pos : 0 .. BufSize,
                      buf : [1 .. BufSize -> Nat]]
      /\ reader'.len = reader.len /\ reader'.pos = reader.pos + 1
      /\ reader'.buf = reader.buf
  <2>1. reader.pos + 1 \in 0 .. BufSize  BY <1>0, <1>1
  <2>2. reader' = [reader EXCEPT !.pos = reader.pos + 1]  BY DEF NextByte
  <2>. QED  BY <1>0, <2>1, <2>2
<1>6. InStep'
  <2>1. file'.pos = Len(got') + (reader'.len - reader'.pos)
    BY <1>0, <1>2, <1>4, <1>5 DEF NextByte
  <2>2. ASSUME NEW i \in (reader.pos + 2) .. reader.len
        PROVE  reader.buf[i] = Len(got') + (i - (reader.pos + 1))
    <3>1. i \in (reader.pos + 1) .. reader.len /\ i \in Int  BY <1>0
    <3>2. reader.buf[i] = Len(got) + (i - reader.pos)  BY <1>2, <3>1
    <3>3. Len(got) + (i - reader.pos) = Len(got') + (i - (reader.pos + 1))
      <4>1. /\ Len(got) \in Nat /\ reader.pos \in Nat
            /\ Len(got') = Len(got) + 1
        BY <1>0, <1>4
      <4>. QED  BY <3>1, <4>1
    <3>. QED  BY <3>2, <3>3
  <2>3. (reader.pos + 1) + 1 = reader.pos + 2 /\ reader.pos + 1 <= reader.len
    BY <1>0, <1>1
  <2>. QED  BY <1>5, <2>1, <2>2, <2>3 DEF InStep
<1>7. ~ended'
  <2>1. ~(reader.pos >= reader.len)  BY <1>0, <1>1
  <2>. QED  BY <1>1, <2>1 DEF ReaderInv, NextByte
<1>8. ReaderTypeOK'  BY <1>1, <1>4, <1>5 DEF NextByte, ReaderTypeOK
<1>. QED
  BY <1>1, <1>4, <1>5, <1>6, <1>7, <1>8 DEF ReaderInv, NextByte, WholeUnlessCut

LEMMA RefillKeepsInv == ReaderInv /\ Refill => ReaderInv'
<1>. SUFFICES ASSUME ReaderInv, Drained, reader.len = BufSize, UNCHANGED <<phase, ended>>,
                     NEW n \in 1 .. BufSize, HostReads(n),
                     reader' = [len |-> n, pos |-> 1, buf |-> Filled(n)],
                     got' = Append(got, Filled(n)[1])
              PROVE  ReaderInv'
  BY DEF Refill
<1>1. /\ ReaderTypeOK /\ InOrder /\ InStep /\ phase = "lexing" /\ ~ended
      /\ file.pos <= file.length /\ reader.pos = reader.len
  BY Types DEF ReaderInv, Drained
<1>2. file.pos = Len(got)  BY <1>1, Types DEF InStep
<1>3. n \in 0 .. BufSize /\ n \in Nat /\ n >= 1
  BY BufSizeAssumption
<1>. DEFINE f == Filled(n)
<1>7. /\ f \in [1 .. BufSize -> Nat]
      /\ \A i \in 1 .. n : f[i] = file.pos + i
      /\ file'.pos = file.pos + n
  BY <1>1, <1>3, HostReadsFacts
<1>8. f[1] = Len(got) + 1  BY <1>2, <1>3, <1>7
<1>9. /\ reader' = [len |-> n, pos |-> 1, buf |-> f] /\ got' = Append(got, f[1])
  OBVIOUS
<1>. HIDE DEF f
<1>4. got' \in Seq(Nat) /\ Len(got') = Len(got) + 1 /\ InOrder'
  BY <1>1, <1>8, <1>9, AppendInOrder DEF ReaderTypeOK
<1>5. ReaderTypeOK'
  BY <1>1, <1>3, <1>4, <1>7, <1>9, HostReadsFacts, Types DEF ReaderTypeOK
<1>6. InStep'
  <2>1. file'.pos = Len(got') + (n - 1)  BY <1>1, <1>2, <1>3, <1>4, <1>7, Types
  <2>2. ASSUME NEW i \in 2 .. n  PROVE f[i] = Len(got') + (i - 1)
    BY <1>1, <1>2, <1>3, <1>4, <1>7, <2>2, Types
  <2>. QED  BY <1>3, <1>9, <2>1, <2>2 DEF InStep
<1>. QED
  BY <1>1, <1>3, <1>4, <1>5, <1>6, <1>9, HostReadsFacts DEF ReaderInv, WholeUnlessCut

LEMMA EndOfFullKeepsInv == ReaderInv /\ EndOfFull => ReaderInv'
<1>. SUFFICES ASSUME ReaderInv, EndOfFull PROVE ReaderInv'
  OBVIOUS
<1>1. /\ ReaderTypeOK /\ InOrder /\ InStep /\ phase = "lexing" /\ ~ended
      /\ file.pos <= file.length /\ reader.pos = reader.len
      /\ reader.len = BufSize
  BY Types DEF ReaderInv, Drained, EndOfFull
<1>2. file.pos = Len(got)  BY <1>1, Types DEF InStep
<1>3. /\ reader' \in [len : 0 .. BufSize, pos : 0 .. BufSize,
                      buf : [1 .. BufSize -> Nat]]
      /\ reader'.len = 0 /\ reader'.pos = reader.pos
  BY <1>1, Types DEF EndOfFull, ReaderTypeOK
<1>4. /\ file' \in [length : Nat, pos : Nat, open : BOOLEAN]
      /\ file'.pos = file.pos /\ file'.pos <= file'.length
      /\ cut' \in BOOLEAN /\ sized' \in Nat
      /\ ~cut' => file'.pos = sized'
  <2>1. CASE HostReads(0)  BY <1>1, <2>1, HostReadsFacts, Types
  <2>2. CASE HostFails
    BY <1>1, <2>2, Types DEF HostFails, ReaderTypeOK
  <2>. QED  BY <2>1, <2>2 DEF EndOfFull
<1>5. got' = got /\ phase' = phase /\ ended'  BY DEF EndOfFull
<1>6. ReaderTypeOK'
  BY <1>1, <1>3, <1>4, <1>5 DEF ReaderTypeOK, EndOfFull
<1>7. InStep'
  BY <1>1, <1>2, <1>3, <1>4, <1>5, Types DEF InStep
<1>8. WholeUnlessCut'
  BY <1>2, <1>4, <1>5 DEF WholeUnlessCut
<1>9. reader'.pos >= reader'.len /\ reader'.len < BufSize
  BY <1>1, <1>3, Types
<1>. QED
  BY <1>1, <1>4, <1>5, <1>6, <1>7, <1>8, <1>9 DEF ReaderInv, InOrder

LEMMA NextReaderInv == ReaderInv /\ [ReaderNext]_readerVars => ReaderInv'
<1>. SUFFICES ASSUME ReaderInv, [ReaderNext]_readerVars PROVE ReaderInv'
  OBVIOUS
<1>1. CASE OpenSource
  <2>1. file' \in [length : Nat, pos : Nat, open : BOOLEAN]
        /\ file'.pos = file.pos /\ file'.length = file.length
    BY <1>1 DEF ReaderInv, ReaderTypeOK, OpenSource
  <2>. QED
    BY <1>1, <2>1 DEF ReaderInv, ReaderTypeOK, OpenSource, Phases, InOrder, WholeUnlessCut
<1>2. CASE EndOfShort
  <2>1. reader.pos = reader.len \/ reader.pos > reader.len
    BY <1>2, Types DEF ReaderInv, EndOfShort, Drained
  <2>2. file.pos = Len(got)
    BY <1>2, <2>1, Types DEF ReaderInv, EndOfShort, Drained, InStep
  <2>. QED
    BY <1>2, <2>1, <2>2, Types
    DEF ReaderInv, ReaderTypeOK, EndOfShort, Drained, InOrder, WholeUnlessCut, InStep
<1>3. CASE CloseSource
  <2>1. file' \in [length : Nat, pos : Nat, open : BOOLEAN]
        /\ file'.pos = file.pos /\ file'.length = file.length
    BY <1>3 DEF ReaderInv, ReaderTypeOK, CloseSource
  <2>. QED
    BY <1>3, <2>1 DEF ReaderInv, ReaderTypeOK, CloseSource, Phases, InOrder, WholeUnlessCut
<1>4. CASE Grow
  <2>1. file' \in [length : Nat, pos : Nat, open : BOOLEAN]
        /\ file'.pos = file.pos /\ file'.length = file.length + 1
    <3>1. /\ file \in [length : Nat, pos : Nat, open : BOOLEAN]
          /\ file.length + 1 \in Nat
      BY Types DEF ReaderInv, ReaderTypeOK
    <3>. QED  BY <1>4, <3>1 DEF Grow
  <2>. QED
    BY <1>4, <2>1, Types
    DEF ReaderInv, ReaderTypeOK, Grow, InOrder, WholeUnlessCut, InStep
<1>5. CASE UNCHANGED readerVars
  BY <1>5 DEF readerVars, ReaderInv, ReaderTypeOK, InOrder, WholeUnlessCut, InStep
<1>. QED
  BY <1>1, <1>2, <1>3, <1>4, <1>5, FirstReadKeepsInv, NextByteKeepsInv,
     RefillKeepsInv, EndOfFullKeepsInv
  DEF ReaderNext, ReadByte

LEMMA InvariantReaderInv == ReaderSpec => []ReaderInv
BY InitReaderInv, NextReaderInv, PTL DEF ReaderSpec

----------------------------------------------------------------------------
(* The buffer's cursors stay within it, for every size of it. *)
THEOREM ReaderTypeCorrect == ReaderSpec => []ReaderTypeOK
BY InvariantReaderInv, PTL DEF ReaderInv

(* The lexer gets the file's bytes in order, none twice and none left out, *)
(* through every refill and every answer of the host.                      *)
THEOREM BytesInOrder == ReaderSpec => []InOrder
BY InvariantReaderInv, PTL DEF ReaderInv

(* The source is cut short only when a read failed or fell short. *)
THEOREM SourceWhole == ReaderSpec => []WholeUnlessCut
BY InvariantReaderInv, PTL DEF ReaderInv

(* After the end no call of readbyte gives a byte. *)
THEOREM EndSticks == ReaderSpec => EndIsFinal
<1>1. ReaderInv /\ [ReaderNext]_readerVars => [ended => got' = got]_readerVars
  <2>. SUFFICES ASSUME ReaderInv, ReaderNext, ended PROVE got' = got
    BY DEF readerVars
  <2>1. phase = "lexing" => reader.pos >= reader.len /\ reader.len < BufSize
    BY DEF ReaderInv
  <2>2. ReaderTypeOK  BY DEF ReaderInv
  <2>5. reader.pos \in Nat /\ reader.len \in Nat /\ BufSize \in Nat
    BY <2>2, Types
  <2>3. ~NextByte
    <3>1. phase = "lexing" => ~(reader.pos < reader.len)  BY <2>1, <2>5
    <3>. QED  BY <3>1 DEF NextByte
  <2>4. ~Refill
    <3>1. phase = "lexing" => reader.len /= BufSize  BY <2>1, <2>5
    <3>. QED  BY <3>1 DEF Refill, Drained
  <2>. QED
    BY <2>3, <2>4 DEF ReaderNext, ReadByte, OpenSource, FirstRead, EndOfShort, EndOfFull, CloseSource, Grow
<1>. QED  BY <1>1, InvariantReaderInv, PTL DEF ReaderSpec, EndIsFinal

-----------------------------------------------------------------------------
(* The file objects: VfsFile *)

(* Nothing less than all three parts keeps a descriptor from being shared  *)
(* when its number is handed out again                                     *)
Owned == TypeOK /\ OwnDescriptor /\ OnlyCollectionLoses

(* Nobody but its reader can close the file of an import                   *)
ReaderOpen == importing /= None => IsOpen(importing)

(* The inductive invariant *)
IInv == Owned /\ ReaderOpen

LEMMA InitOwned == Init => Owned
<1>. SUFFICES ASSUME Init  PROVE Owned  OBVIOUS
<1>. USE DEF Init, Live, InUse
<1>1. DOMAIN << >> = {} /\ \A S : << >> \in [{} -> S]  OBVIOUS
<1>2. Live = {} /\ InUse = {}  BY <1>1
<1>3. TypeOK  BY <1>1, PosAssumption DEF TypeOK
<1>4. OwnDescriptor  BY <1>2 DEF OwnDescriptor
<1>5. OnlyCollectionLoses  BY <1>2 DEF OnlyCollectionLoses
<1>. QED  BY <1>3, <1>4, <1>5 DEF Owned

(* Steps that leave descriptors alone keep the invariant if they keep types *)
LEMMA SameDescriptors ==
    ASSUME Owned, UNCHANGED <<fd, opened, lost>>, InUse' = InUse,
           \A d \in InUse : table'[d].file = table[d].file
    PROVE  OwnDescriptor' /\ OnlyCollectionLoses'
<1>1. Live' = Live  BY DEF Live
<1>2. OwnDescriptor'
  BY <1>1 DEF Owned, OwnDescriptor, IsOpen
<1>3. OnlyCollectionLoses'
  BY <1>1 DEF Owned, OnlyCollectionLoses
<1>. QED  BY <1>2, <1>3

LEMMA AnswerType ==
    ASSUME NEW o \in Objects, NEW s \in {"done", "closed", "error"},
           NEW n \in 0 .. MaxPos, Answer(o, s, n)
    PROVE  answer' \in [object : Objects, said : {"done", "closed", "error"},
                        count : 0 .. MaxPos]
BY DEF Answer

LEMMA MoveKeepsOwned ==
    ASSUME Owned, NEW o \in Live, IsOpen(o), NEW p \in 0 .. MaxPos,
           NEW n \in 0 .. MaxPos, Answer(o, "done", n),
           table' = [table EXCEPT ![fd[o]].pos = p],
           UNCHANGED <<fd, held, importing, opened, lost>>
    PROVE  Owned'
<1>1. fd[o] \in InUse /\ o \in Objects  BY DEF Owned, OwnDescriptor, TypeOK
<1>2. table \in [InUse -> Entry]  BY DEF Owned, TypeOK
<1>3. /\ table' \in [InUse -> Entry]
      /\ \A d \in InUse : table'[d].file = table[d].file
  BY <1>1, <1>2 DEF Entry
<1>4. InUse' = InUse /\ Live' = Live  BY <1>3 DEF InUse, Live
<1>5. TypeOK'  BY <1>1, <1>3, <1>4, AnswerType DEF Owned, TypeOK
<1>. QED  BY <1>3, <1>4, <1>5, SameDescriptors DEF Owned

LEMMA ClosedKeepsOwned ==
    ASSUME Owned, NEW o \in Live, IsOpen(o), Closed(o), Answer(o, "done", 0),
           UNCHANGED <<held, opened, lost>>, importing' \in {importing, None}
    PROVE  Owned'
<1>. DEFINE d == fd[o]
<1>1. /\ d \in InUse \ lost /\ o \in Objects /\ 0 \in 0 .. MaxPos
      /\ \A p \in Live : fd[p] = d => p = o
  BY PosAssumption DEF Owned, OwnDescriptor, TypeOK, IsOpen
<1>2. /\ fd \in [Live -> Descriptors \cup {None}] /\ table \in [InUse -> Entry]
      /\ lost \subseteq InUse /\ InUse \subseteq Descriptors
  BY DEF Owned, TypeOK
<1>3. /\ table' = [e \in InUse \ {d} |-> table[e]]
      /\ fd' = [fd EXCEPT ![o] = None]
  BY DEF Closed
<1>. HIDE DEF d
<1>4. InUse' = InUse \ {d} /\ Live' = Live  BY <1>2, <1>3 DEF InUse, Live
<1>5. /\ fd' \in [Live -> Descriptors \cup {None}] /\ fd'[o] = None
      /\ \A p \in Live \ {o} : fd'[p] = fd[p] /\ fd[p] /= d
      /\ table' \in [InUse' -> Entry]
      /\ \A e \in InUse' : table'[e] = table[e]
  BY <1>1, <1>2, <1>3, <1>4
<1>6. TypeOK'
  <2>1. lost' \subseteq InUse'  BY <1>1, <1>2, <1>4
  <2>2. importing' \in (Live' \ held') \cup {None}  BY <1>4 DEF Owned, TypeOK
  <2>. QED  BY <1>1, <1>4, <1>5, <2>1, <2>2, AnswerType DEF Owned, TypeOK
<1>7. OwnDescriptor'
  <2>1. ASSUME NEW p \in Live', IsOpen(p)'
        PROVE  fd'[p] \in InUse' \ lost' /\ table'[fd'[p]].file = opened'[p]
    <3>1. p \in Live \ {o} /\ IsOpen(p)  BY <1>4, <1>5, <2>1 DEF IsOpen
    <3>2. fd[p] \in InUse \ lost /\ table[fd[p]].file = opened[p]
      BY <3>1 DEF Owned, OwnDescriptor
    <3>. QED  BY <1>4, <1>5, <3>1, <3>2
  <2>2. ASSUME NEW p \in Live', NEW q \in Live', IsOpen(p)', fd'[p] = fd'[q]
        PROVE  p = q
    <3>1. p \in Live \ {o} /\ q \in Live \ {o}  BY <1>4, <1>5, <2>2 DEF IsOpen
    <3>2. IsOpen(p) /\ fd[p] = fd[q]  BY <1>5, <2>2, <3>1 DEF IsOpen
    <3>. QED  BY <3>1, <3>2 DEF Owned, OwnDescriptor
  <2>. QED  BY <2>1, <2>2 DEF OwnDescriptor
<1>8. OnlyCollectionLoses'
  <2>1. InUse \ lost = {fd[p] : p \in Live} \ {None}
    BY DEF Owned, OnlyCollectionLoses
  <2>2. {fd'[p] : p \in Live} \ {None} = ({fd[p] : p \in Live} \ {None}) \ {d}
    BY <1>5 DEF d
  <2>3. InUse' \ lost' = (InUse \ lost) \ {d}  BY <1>4
  <2>. QED  BY <1>4, <2>1, <2>2, <2>3 DEF OnlyCollectionLoses
<1>. QED  BY <1>6, <1>7, <1>8 DEF Owned

LEMMA OpenKeepsOwned ==
    ASSUME Owned, NEW o \in Objects, NEW f \in Files, Open(o, f)
    PROVE  Owned'
<1>1. PICK d \in Descriptors \ InUse :
         /\ table' = [e \in InUse \cup {d} |->
                        IF e = d THEN [file |-> f, pos |-> 0] ELSE table[e]]
         /\ fd' = [p \in Live \cup {o} |-> IF p = o THEN d ELSE fd[p]]
  BY DEF Open
<1>2. /\ o \notin Live
      /\ opened' = [p \in Live \cup {o} |-> IF p = o THEN f ELSE opened[p]]
      /\ lost' = lost /\ Answer(o, "done", 0)
      /\ importing = None
      /\ \/ held' = held \cup {o} /\ importing' = None
         \/ held' = held /\ importing' = o
  BY DEF Open, InPython
<1>3. /\ Live \subseteq Objects /\ fd \in [Live -> Descriptors \cup {None}]
      /\ InUse \subseteq Descriptors /\ table \in [InUse -> Entry]
      /\ held \subseteq Live /\ opened \in [Live -> Files] /\ lost \subseteq InUse
      /\ None \notin Descriptors /\ 0 \in 0 .. MaxPos
  BY NoneAssumption, PosAssumption DEF Owned, TypeOK
<1>4. Live' = Live \cup {o} /\ InUse' = InUse \cup {d}
  BY <1>1 DEF Live, InUse
<1>5. /\ fd'[o] = d /\ \A p \in Live : fd'[p] = fd[p]
      /\ opened'[o] = f /\ \A p \in Live : opened'[p] = opened[p]
      /\ table'[d] = [file |-> f, pos |-> 0]
      /\ \A e \in InUse : table'[e] = table[e]
  BY <1>1, <1>2, <1>3
<1>6. TypeOK'
  <2>1. fd' \in [Live' -> Descriptors \cup {None}]  BY <1>1, <1>3, <1>4
  <2>2. opened' \in [Live' -> Files]  BY <1>2, <1>3, <1>4
  <2>3. [file |-> f, pos |-> 0] \in Entry  BY <1>3 DEF Entry
  <2>4. table' \in [InUse' -> Entry]  BY <1>1, <1>3, <1>4, <2>3
  <2>5. held' \subseteq Live' /\ importing' \in (Live' \ held') \cup {None}
    BY <1>2, <1>3, <1>4
  <2>6. answer' \in [object : Objects, said : {"done", "closed", "error"},
                     count : 0 .. MaxPos]
    BY <1>2, <1>3, AnswerType
  <2>. QED  BY <1>2, <1>3, <1>4, <2>1, <2>2, <2>4, <2>5, <2>6 DEF TypeOK
<1>7. OwnDescriptor'
  <2>1. ASSUME NEW p \in Live', IsOpen(p)'
        PROVE  fd'[p] \in InUse' \ lost' /\ table'[fd'[p]].file = opened'[p]
    <3>1. CASE p = o  BY <1>2, <1>3, <1>4, <1>5, <3>1
    <3>2. CASE p \in Live
      <4>1. fd[p] \in InUse \ lost /\ table[fd[p]].file = opened[p]
        BY <1>5, <2>1, <3>2 DEF Owned, OwnDescriptor, IsOpen
      <4>. QED  BY <1>2, <1>4, <1>5, <3>2, <4>1
    <3>. QED  BY <1>4, <3>1, <3>2
  <2>2. ASSUME NEW p \in Live', NEW q \in Live', IsOpen(p)', fd'[p] = fd'[q]
        PROVE  p = q
    <3>1. \A r \in Live : fd[r] /= d
      BY <1>3 DEF Owned, OwnDescriptor, IsOpen
    <3>2. CASE p \in Live /\ q \in Live
      BY <1>5, <2>2, <3>2 DEF Owned, OwnDescriptor, IsOpen
    <3>3. CASE p = o \/ q = o  BY <1>4, <1>5, <2>2, <3>1, <3>3
    <3>. QED  BY <1>4, <3>2, <3>3
  <2>. QED  BY <2>1, <2>2 DEF OwnDescriptor
<1>8. OnlyCollectionLoses'
  <2>1. InUse \ lost = {fd[p] : p \in Live} \ {None}
    BY DEF Owned, OnlyCollectionLoses
  <2>2. {fd'[p] : p \in Live'} = {fd[p] : p \in Live} \cup {d}
    BY <1>4, <1>5
  <2>3. InUse' \ lost' = (InUse \ lost) \cup {d}  BY <1>2, <1>3, <1>4
  <2>. QED  BY <1>3, <2>1, <2>2, <2>3 DEF OnlyCollectionLoses
<1>. QED  BY <1>6, <1>7, <1>8 DEF Owned

LEMMA CollectKeepsOwned ==
    ASSUME Owned, NEW o \in Objects, Collect(o)
    PROVE  Owned'
<1>1. /\ o \in Live \ (held \cup {importing})
      /\ fd' = [p \in Live \ {o} |-> fd[p]]
      /\ opened' = [p \in Live \ {o} |-> opened[p]]
      /\ lost' = IF fd[o] = None THEN lost ELSE lost \cup {fd[o]}
      /\ UNCHANGED <<table, held, importing, answer>>
  BY DEF Collect
<1>2. Live' = Live \ {o} /\ InUse' = InUse  BY <1>1 DEF Live, InUse
<1>3. /\ fd \in [Live -> Descriptors \cup {None}] /\ opened \in [Live -> Files]
      /\ lost \subseteq InUse
  BY DEF Owned, TypeOK
<1>4. \A p \in Live \ {o} : fd'[p] = fd[p] /\ opened'[p] = opened[p]
  BY <1>1
<1>5. fd[o] /= None => fd[o] \in InUse \ lost
  BY <1>1 DEF Owned, OwnDescriptor, IsOpen
<1>6. \A p \in Live : fd[p] /= None /\ fd[p] = fd[o] => p = o
  BY <1>1 DEF Owned, OwnDescriptor, IsOpen
<1>7. TypeOK'
  <2>1. /\ fd' \in [Live' -> Descriptors \cup {None}]
        /\ opened' \in [Live' -> Files] /\ lost' \subseteq InUse'
    BY <1>1, <1>2, <1>3, <1>5
  <2>2. held' \subseteq Live' /\ importing' \in (Live' \ held') \cup {None}
    BY <1>1, <1>2 DEF Owned, TypeOK
  <2>. QED  BY <1>1, <1>2, <2>1, <2>2 DEF Owned, TypeOK
<1>8. OwnDescriptor'
  <2>1. ASSUME NEW p \in Live', IsOpen(p)'
        PROVE  fd'[p] \in InUse' \ lost' /\ table'[fd'[p]].file = opened'[p]
    <3>1. p \in Live \ {o} /\ fd[p] /= None  BY <1>2, <1>4, <2>1 DEF IsOpen
    <3>2. fd[p] \in InUse \ lost /\ table[fd[p]].file = opened[p]
      BY <3>1 DEF Owned, OwnDescriptor, IsOpen
    <3>3. fd[p] \notin lost'  BY <1>1, <1>6, <3>1, <3>2
    <3>. QED  BY <1>1, <1>2, <1>4, <3>1, <3>2, <3>3
  <2>2. ASSUME NEW p \in Live', NEW q \in Live', IsOpen(p)', fd'[p] = fd'[q]
        PROVE  p = q
    BY <1>2, <1>4, <2>2 DEF Owned, OwnDescriptor, IsOpen
  <2>. QED  BY <2>1, <2>2 DEF OwnDescriptor
<1>9. OnlyCollectionLoses'
  <2>1. InUse \ lost = {fd[p] : p \in Live} \ {None}
    BY DEF Owned, OnlyCollectionLoses
  <2>2. {fd'[p] : p \in Live'} \ {None} =
        ({fd[p] : p \in Live} \ {None}) \ {fd[o]}
    BY <1>1, <1>2, <1>4, <1>6
  <2>3. InUse' \ lost' = (InUse \ lost) \ {fd[o]}
    <3>1. CASE fd[o] = None
      <4>1. None \notin InUse  BY NoneAssumption DEF Owned, TypeOK
      <4>. QED  BY <1>1, <1>2, <3>1, <4>1
    <3>2. CASE fd[o] /= None  BY <1>1, <1>2, <3>2
    <3>. QED  BY <3>1, <3>2
  <2>. QED  BY <2>1, <2>2, <2>3 DEF OnlyCollectionLoses
<1>. QED  BY <1>7, <1>8, <1>9 DEF Owned

LEMMA NextKeepsOwned == IInv /\ [Next]_vars => Owned'
<1>. SUFFICES ASSUME Owned, ReaderOpen, [Next]_vars  PROVE Owned'
  BY DEF IInv
<1>0. 0 \in 0 .. MaxPos  BY PosAssumption
<1>1. ASSUME NEW o \in Objects, NEW f \in Files, Open(o, f)  PROVE Owned'
  BY <1>1, OpenKeepsOwned
<1>2. ASSUME NEW o \in Objects, NEW s \in {"done", "closed", "error"},
             Answer(o, s, 0), UNCHANGED <<table, fd, held, opened, lost>>,
             importing' \in {importing, None}
      PROVE  Owned'
  <2>1. InUse' = InUse /\ Live' = Live  BY <1>2 DEF InUse, Live
  <2>2. answer' \in [object : Objects, said : {"done", "closed", "error"},
                     count : 0 .. MaxPos]
    BY <1>0, <1>2, AnswerType
  <2>3. TypeOK'  BY <1>2, <2>1, <2>2 DEF Owned, TypeOK
  <2>. QED  BY <1>2, <2>1, <2>3, SameDescriptors DEF Owned
<1>3. ASSUME NEW o \in Objects,
             OpenFails(o) \/ Refuse(o) \/ Fail(o) \/ Flush(o)
      PROVE  Owned'
  BY <1>2, <1>3 DEF OpenFails, Refuse, Fail, Flush
<1>4. ASSUME NEW o \in Objects, Transfer(o)  PROVE Owned'
  <2>1. o \in Live /\ fd[o] \in InUse /\ IsOpen(o)
    BY <1>4, NoneAssumption
    DEF Transfer, Uses, InPython, Owned, TypeOK, OwnDescriptor
  <2>2. table[fd[o]] \in Entry  BY <2>1 DEF Owned, TypeOK
  <2>3. PICK n \in 0 .. MaxPos - table[fd[o]].pos :
           /\ table' = [table EXCEPT ![fd[o]].pos = @ + n]
           /\ Answer(o, "done", n)
    BY <1>4 DEF Transfer
  <2>. DEFINE p == table[fd[o]].pos + n
  <2>4. p \in 0 .. MaxPos /\ n \in 0 .. MaxPos
    BY <2>2, <2>3, PosAssumption DEF Entry
  <2>5. table' = [table EXCEPT ![fd[o]].pos = p]  BY <2>3
  <2>. HIDE DEF p
  <2>. QED  BY <1>4, <2>1, <2>3, <2>4, <2>5, MoveKeepsOwned DEF Transfer
<1>5. ASSUME NEW o \in Objects, Seek(o)  PROVE Owned'
  <2>1. o \in Live /\ IsOpen(o)  BY <1>5 DEF Seek, Owned, TypeOK
  <2>. QED  BY <1>5, <2>1, MoveKeepsOwned DEF Seek
<1>6. ASSUME NEW o \in Objects, Close(o)  PROVE Owned'
  <2>1. o \in Live /\ IsOpen(o)  BY <1>6 DEF Close, Owned, TypeOK
  <2>. QED  BY <1>6, <2>1, ClosedKeepsOwned DEF Close
<1>7. ASSUME NEW o \in Objects, Drop(o)  PROVE Owned'
  <2>1. InUse' = InUse /\ Live' = Live  BY <1>7 DEF Drop, InUse, Live
  <2>2. TypeOK'
    BY <1>7, <2>1 DEF Drop, InPython, Owned, TypeOK
  <2>. QED  BY <1>7, <2>1, <2>2, SameDescriptors DEF Drop, Owned
<1>8. ASSUME NEW o \in Objects, Collect(o)  PROVE Owned'
  BY <1>8, CollectKeepsOwned
<1>9. CASE ReaderCloses
  <2>1. importing \in Live /\ IsOpen(importing)
    BY <1>9 DEF ReaderCloses, ReaderOpen, Owned, TypeOK
  <2>. QED  BY <1>9, <2>1, ClosedKeepsOwned DEF ReaderCloses
<1>10. CASE ReaderRaises
  BY <1>2, <1>10 DEF ReaderRaises, Owned, TypeOK
<1>11. CASE UNCHANGED vars
  <2>1. InUse' = InUse /\ Live' = Live  BY <1>11 DEF vars, InUse, Live
  <2>2. TypeOK'  BY <1>11, <2>1 DEF vars, Owned, TypeOK
  <2>. QED  BY <1>11, <2>1, <2>2, SameDescriptors DEF vars, Owned
<1>. QED
  BY <1>1, <1>3, <1>4, <1>5, <1>6, <1>7, <1>8, <1>9, <1>10, <1>11 DEF Next

LEMMA ReaderStaysOpen == IInv /\ [Next]_vars => ReaderOpen'
<1>. SUFFICES ASSUME Owned, ReaderOpen, [Next]_vars, importing' /= None
              PROVE  fd'[importing'] /= None
  BY DEF IInv, ReaderOpen, IsOpen
<1>. USE DEF Owned, TypeOK, ReaderOpen, IsOpen, InPython
<1>0. /\ fd \in [Live -> Descriptors \cup {None}]
      /\ None \notin Descriptors \cup Objects
  BY NoneAssumption
<1>1. ASSUME NEW o \in Objects, NEW f \in Files, Open(o, f)
      PROVE  fd'[importing'] /= None
  BY <1>0, <1>1 DEF Open
<1>2. CASE UNCHANGED <<fd, importing>>  BY <1>2
<1>3. ASSUME NEW o \in Objects, Close(o)  PROVE FALSE  BY <1>3 DEF Close
<1>4. ASSUME NEW o \in Objects, Collect(o)  PROVE fd'[importing'] /= None
  BY <1>0, <1>4 DEF Collect
<1>5. CASE ReaderCloses \/ ReaderRaises
  BY <1>5 DEF ReaderCloses, ReaderRaises
<1>6. ASSUME NEW o \in Objects,
             \/ OpenFails(o) \/ Refuse(o) \/ Fail(o) \/ Transfer(o)
             \/ Seek(o) \/ Flush(o) \/ Drop(o)
      PROVE  UNCHANGED <<fd, importing>>
  BY <1>6 DEF OpenFails, Refuse, Fail, Transfer, Seek, Flush, Drop
<1>7. CASE UNCHANGED vars  BY <1>7 DEF vars
<1>. QED  BY <1>1, <1>2, <1>3, <1>4, <1>5, <1>6, <1>7 DEF Next

LEMMA InvariantIInv == Spec => []IInv
<1>1. Init => IInv
  <2>1. Init => ReaderOpen  BY DEF Init, ReaderOpen
  <2>. QED  BY <2>1, InitOwned DEF IInv
<1>2. IInv /\ [Next]_vars => IInv'
  BY NextKeepsOwned, ReaderStaysOpen DEF IInv
<1>. QED  BY <1>1, <1>2, PTL DEF Spec

----------------------------------------------------------------------------
(* Every variable keeps its type: what import reads from is no object that *)
(* Python code can reach, and a lost descriptor is one still in use        *)
(* (openpython_vfs.c:62-188).                                              *)
THEOREM TypeCorrect == Spec => []TypeOK
<1>1. IInv => TypeOK  BY DEF IInv, Owned
<1>. QED  BY <1>1, InvariantIInv, PTL

(* For every number of files and every way of the host to hand numbers out *)
(* again, no two objects share a descriptor, and an open object's leads to *)
(* the file it was opened for (openpython_vfs.c:63, 176-183).              *)
THEOREM NoSharing == Spec => []OwnDescriptor
<1>1. IInv => OwnDescriptor  BY DEF IInv, Owned
<1>. QED  BY <1>1, InvariantIInv, PTL

(* Failing closes lose nothing: a descriptor in use belongs to an object,  *)
(* or to one that was collected (openpython_vfs.c:176-183).                *)
THEOREM LossAccounted == Spec => []OnlyCollectionLoses
<1>1. IInv => OnlyCollectionLoses  BY DEF IInv, Owned
<1>. QED  BY <1>1, InvariantIInv, PTL

----------------------------------------------------------------------------
(* The refinement: the open objects and what their descriptors lead to     *)
Openers == {p \in Live : IsOpen(p)}
Shown == [o \in Openers |-> table[fd[o]]]

LEMMA NothingShown ==
    ASSUME UNCHANGED <<fd, table>>
    PROVE  Shown' = Shown /\ Live' = Live
BY DEF Shown, Openers, IsOpen, Live

LEMMA MoveShown ==
    ASSUME Owned, NEW o \in Live, IsOpen(o), NEW p \in 0 .. MaxPos,
           table' = [table EXCEPT ![fd[o]].pos = p], fd' = fd
    PROVE  /\ o \in DOMAIN Shown /\ Live' = Live
           /\ Shown[o] = table[fd[o]]
           /\ Shown' = [Shown EXCEPT ![o] = [file |-> Shown[o].file, pos |-> p]]
<1>1. /\ fd[o] \in InUse /\ table \in [InUse -> Entry] /\ o \in Openers
      /\ \A q \in Openers : fd[q] \in InUse
      /\ \A q \in Openers : fd[q] = fd[o] => q = o
  BY DEF Owned, TypeOK, OwnDescriptor, Openers
<1>2. Openers' = Openers /\ Live' = Live  BY DEF Openers, IsOpen, Live
<1>3. \A q \in Openers \ {o} : table'[fd[q]] = table[fd[q]]  BY <1>1
<1>4. table'[fd[o]] = [file |-> table[fd[o]].file, pos |-> p]
  BY <1>1 DEF Entry
<1>5. Shown' = [q \in Openers |-> table'[fd[q]]]  BY <1>2 DEF Shown
<1>. QED  BY <1>1, <1>2, <1>3, <1>4, <1>5 DEF Shown

LEMMA ClosedShown ==
    ASSUME Owned, NEW o \in Live, IsOpen(o), Closed(o)
    PROVE  /\ o \in DOMAIN Shown /\ Live' = Live
           /\ Shown' = [p \in DOMAIN Shown \ {o} |-> Shown[p]]
<1>1. /\ o \in Openers /\ fd \in [Live -> Descriptors \cup {None}]
      /\ \A q \in Openers : fd[q] \in InUse
      /\ \A q \in Openers : fd[q] = fd[o] => q = o
  BY DEF Owned, TypeOK, OwnDescriptor, Openers
<1>2. /\ table' = [e \in InUse \ {fd[o]} |-> table[e]]
      /\ fd' = [fd EXCEPT ![o] = None]
  BY DEF Closed
<1>3. Live' = Live  BY <1>1, <1>2 DEF Live
<1>4. Openers' = Openers \ {o}
      /\ \A q \in Openers \ {o} : fd'[q] = fd[q] /\ table'[fd[q]] = table[fd[q]]
  BY <1>1, <1>2, <1>3 DEF Openers, IsOpen
<1>5. Shown' = [q \in Openers' |-> table'[fd'[q]]]  BY DEF Shown
<1>. QED  BY <1>1, <1>3, <1>4, <1>5 DEF Shown

LEMMA OpenShown ==
    ASSUME Owned, NEW o \in Objects, NEW f \in Files, Open(o, f)
    PROVE  /\ Live' = Live \cup {o}
           /\ Shown' = [p \in DOMAIN Shown \cup {o} |->
                          IF p = o THEN [file |-> f, pos |-> 0] ELSE Shown[p]]
<1>1. PICK d \in Descriptors \ InUse :
         /\ table' = [e \in InUse \cup {d} |->
                        IF e = d THEN [file |-> f, pos |-> 0] ELSE table[e]]
         /\ fd' = [p \in Live \cup {o} |-> IF p = o THEN d ELSE fd[p]]
  BY DEF Open
<1>2. /\ o \notin Live /\ d /= None
      /\ \A q \in Openers : q \in Live /\ fd[q] \in InUse
  BY NoneAssumption DEF Open, Owned, OwnDescriptor, Openers
<1>3. Live' = Live \cup {o}  BY <1>1 DEF Live
<1>4. Openers' = Openers \cup {o}  BY <1>1, <1>2, <1>3 DEF Openers, IsOpen
<1>5. \A q \in Openers : fd'[q] = fd[q] /\ table'[fd[q]] = table[fd[q]]
  BY <1>1, <1>2
<1>6. fd'[o] = d /\ table'[d] = [file |-> f, pos |-> 0]  BY <1>1
<1>7. Shown' = [q \in Openers' |-> table'[fd'[q]]]  BY DEF Shown
<1>8. DOMAIN Shown = Openers /\ \A q \in Openers : Shown[q] = table[fd[q]]
  BY DEF Shown
<1>9. o \notin Openers  BY <1>2
<1>. QED  BY <1>3, <1>4, <1>5, <1>6, <1>7, <1>8, <1>9

LEMMA CollectShown ==
    ASSUME Owned, NEW o \in Objects, Collect(o)
    PROVE  /\ o \in Live /\ Live' = Live \ {o}
           /\ Shown' = [p \in DOMAIN Shown \ {o} |-> Shown[p]]
<1>1. o \in Live /\ fd' = [p \in Live \ {o} |-> fd[p]] /\ table' = table
  BY DEF Collect
<1>2. Live' = Live \ {o}  BY <1>1 DEF Live
<1>3. Openers' = Openers \ {o} /\ \A q \in Openers \ {o} : fd'[q] = fd[q]
  BY <1>1, <1>2 DEF Openers, IsOpen
<1>4. Shown' = [q \in Openers' |-> table'[fd'[q]]]  BY DEF Shown
<1>. QED  BY <1>1, <1>2, <1>3, <1>4 DEF Shown

(* Every step of the code is a step of the promise, or none                *)
LEMMA StepKeepsPromise ==
    IInv /\ [Next]_vars => [Promise!Next]_(Promise!vars)
<1>. SUFFICES ASSUME Owned, ReaderOpen, [Next]_vars
              PROVE  Promise!Next \/ UNCHANGED Promise!vars
  BY DEF IInv
<1>0. 0 \in 0 .. MaxPos  BY PosAssumption
<1>. USE DEF Promise!Answer, Answer, Promise!Opened, Promise!Closed
<1>1. ASSUME NEW o \in Objects, NEW f \in Files, Open(o, f)
      PROVE  Promise!Open(o, f)
  <2>1. o \notin Live /\ Answer(o, "done", 0)  BY <1>1 DEF Open
  <2>. QED  BY <1>1, <2>1, OpenShown DEF Promise!Open, Shown, Openers
<1>2. ASSUME NEW o \in Objects, OpenFails(o) \/ Fail(o)
      PROVE  Promise!Fail(o)
  <2>1. UNCHANGED <<fd, table>> /\ Answer(o, "error", 0)
    BY <1>2 DEF OpenFails, Fail
  <2>. QED  BY <2>1, NothingShown DEF Promise!Fail, Shown, Openers
<1>3. ASSUME NEW o \in Objects, Refuse(o)  PROVE Promise!Refuse(o)
  <2>1. UNCHANGED <<fd, table>> /\ Answer(o, "closed", 0)  BY <1>3 DEF Refuse
  <2>2. o \in Live \ Openers
    BY <1>3 DEF Refuse, Owned, TypeOK, Openers
  <2>. QED
    BY <2>1, <2>2, NothingShown DEF Promise!Refuse, Shown, Openers
<1>4. ASSUME NEW o \in Objects, Flush(o)  PROVE Promise!Flush(o)
  <2>1. UNCHANGED <<fd, table>> /\ Answer(o, "done", 0)  BY <1>4 DEF Flush
  <2>2. o \in Openers  BY <1>4 DEF Flush, Owned, TypeOK, Openers
  <2>. QED  BY <2>1, <2>2, NothingShown DEF Promise!Flush, Shown, Openers
<1>5. ASSUME NEW o \in Objects, Transfer(o)
      PROVE  \E n \in 0 .. MaxPos : Promise!Transfer(o, n)
  <2>1. o \in Live /\ fd[o] \in InUse /\ IsOpen(o)
    BY <1>5, NoneAssumption
    DEF Transfer, Uses, InPython, Owned, TypeOK, OwnDescriptor
  <2>2. table[fd[o]] \in Entry  BY <2>1 DEF Owned, TypeOK
  <2>3. PICK n \in 0 .. MaxPos - table[fd[o]].pos :
           /\ table' = [table EXCEPT ![fd[o]].pos = @ + n]
           /\ Answer(o, "done", n)
    BY <1>5 DEF Transfer
  <2>. DEFINE p == table[fd[o]].pos + n
  <2>4. p \in 0 .. MaxPos /\ n \in 0 .. MaxPos
    BY <2>2, <2>3, PosAssumption DEF Entry
  <2>5. p <= MaxPos  BY <2>4, PosAssumption
  <2>6. table' = [table EXCEPT ![fd[o]].pos = p] /\ fd' = fd
    BY <1>5, <2>3 DEF Transfer
  <2>. HIDE DEF p
  <2>7. /\ o \in DOMAIN Shown /\ Live' = Live
        /\ Shown[o] = table[fd[o]]
        /\ Shown' = [Shown EXCEPT ![o] = [file |-> Shown[o].file, pos |-> p]]
    BY <2>1, <2>4, <2>6, MoveShown
  <2>8. p = Shown[o].pos + n  BY <2>7 DEF p
  <2>9. Promise!Transfer(o, n)
    BY <2>3, <2>5, <2>7, <2>8
    DEF Promise!Transfer, Promise!MoveTo, Shown, Openers
  <2>. QED  BY <2>4, <2>9
<1>6. ASSUME NEW o \in Objects, Seek(o)
      PROVE  \E p \in 0 .. MaxPos : Promise!Seek(o, p)
  <2>1. o \in Live /\ IsOpen(o)  BY <1>6 DEF Seek, Owned, TypeOK
  <2>2. PICK p \in 0 .. MaxPos : /\ table' = [table EXCEPT ![fd[o]].pos = p]
                                 /\ Answer(o, "done", p) /\ fd' = fd
    BY <1>6 DEF Seek
  <2>3. Promise!Seek(o, p)
    BY <2>1, <2>2, MoveShown DEF Promise!Seek, Promise!MoveTo, Shown, Openers
  <2>. QED  BY <2>3
<1>7. ASSUME NEW o \in Objects, Close(o)  PROVE Promise!Close(o)
  <2>1. o \in Live /\ IsOpen(o) /\ Closed(o) /\ Answer(o, "done", 0)
    BY <1>7 DEF Close, Owned, TypeOK
  <2>. QED  BY <2>1, ClosedShown DEF Promise!Close, Shown, Openers
<1>8. ASSUME NEW o \in Objects, Collect(o)  PROVE Promise!Forget(o)
  <2>1. UNCHANGED answer  BY <1>8 DEF Collect
  <2>. QED  BY <1>8, <2>1, CollectShown DEF Promise!Forget, Shown, Openers
<1>9. CASE ReaderCloses
  <2>1. /\ importing \in Live /\ importing \in Objects /\ IsOpen(importing)
        /\ Closed(importing) /\ Answer(importing, "done", 0)
    BY <1>9 DEF ReaderCloses, ReaderOpen, Owned, TypeOK
  <2>2. \E o \in Objects : Promise!Close(o)
    BY <2>1, ClosedShown DEF Promise!Close, Shown, Openers
  <2>. QED  BY <2>2 DEF Promise!Next
<1>10. CASE ReaderRaises
  <2>1. importing \in Objects /\ UNCHANGED <<fd, table>> /\ Answer(importing, "error", 0)
    BY <1>10 DEF ReaderRaises, Owned, TypeOK
  <2>2. \E o \in Objects : Promise!Fail(o)
    BY <2>1, NothingShown DEF Promise!Fail, Shown, Openers
  <2>. QED  BY <2>2 DEF Promise!Next
<1>11. ASSUME UNCHANGED <<fd, table, answer>>  PROVE UNCHANGED Promise!vars
  BY <1>11, NothingShown DEF Promise!vars, Shown, Openers
<1>12. ASSUME NEW o \in Objects, Drop(o)  PROVE UNCHANGED Promise!vars
  BY <1>11, <1>12 DEF Drop
<1>13. CASE UNCHANGED vars  BY <1>11, <1>13 DEF vars
<1>. QED
  BY <1>1, <1>2, <1>3, <1>4, <1>5, <1>6, <1>7, <1>8, <1>9, <1>10, <1>12, <1>13
  DEF Next, Promise!Next

(* File objects keep their promise for every number of objects, files and  *)
(* descriptors: each is a file with a cursor of its own until it is closed *)
(* (openpython_vfs.c:62-188).                                              *)
THEOREM ImplementsPromise == Spec => PromiseKept
<1>1. Init => Promise!Init
  <2>1. SUFFICES ASSUME Init  PROVE Promise!Init  OBVIOUS
  <2>2. DOMAIN << >> = {}  OBVIOUS
  <2>3. Live = {} /\ Openers = {}  BY <2>1, <2>2 DEF Init, Live, Openers
  <2>4. Shown = << >>  BY <2>3 DEF Shown
  <2>. QED  BY <2>1, <2>3, <2>4 DEF Init, Promise!Init, Shown, Openers
<1>. QED
  BY <1>1, StepKeepsPromise, InvariantIInv, PTL
  DEF Spec, PromiseKept, Promise!Spec

-----------------------------------------------------------------------------
(* Both together: Import *)

FileType == file \in [length : Int, pos : Int, open : BOOLEAN]

(* The reader and its object belong together from the open to the close    *)
Attached ==
    /\ phase \in {"start", "opened"} => file.pos = 0
    /\ Followed => importing /= None /\ table[fd[importing]].pos = file.pos

(* The inductive invariant *)
PlaceInv == IInv /\ FileType /\ Attached

(* The object of an import is on the heap, with a descriptor in use *)
LEMMA ReaderOwns ==
    ASSUME IInv, importing /= None
    PROVE  /\ importing \in Live /\ importing \in Objects /\ IsOpen(importing)
           /\ fd[importing] \in InUse /\ table[fd[importing]] \in Entry
BY DEF IInv, Owned, ReaderOpen, TypeOK, OwnDescriptor

-----------------------------------------------------------------------------
(* Every step of both together is a step, or none, of each *)

LEMMA ReaderStep == [ImportNext]_importVars => [ReaderNext]_readerVars
BY DEF ImportNext, importVars, ImportOpens, ImportStarts, ImportRefills, ImportGoesOn, ImportCloses,
       Meanwhile, ReaderNext, ReadByte

LEMMA FilesStep == PlaceInv /\ [ImportNext]_importVars => [Next]_vars
<1>. SUFFICES ASSUME PlaceInv, [ImportNext]_importVars  PROVE [Next]_vars
  OBVIOUS
<1>1. CASE ImportOpens  BY <1>1 DEF ImportOpens, Next
<1>2. ASSUME Followed, Transfer(importing) \/ Fail(importing)  PROVE Next
  <2>1. importing \in Objects  BY <1>2, ReaderOwns DEF PlaceInv, Attached
  <2>. QED  BY <1>2, <2>1 DEF Next
<1>3. CASE ImportStarts
  <2>1. Followed  BY <1>3 DEF ImportStarts, FirstRead, Followed
  <2>. QED  BY <1>2, <1>3, <2>1 DEF ImportStarts, Next
<1>4. CASE ImportRefills
  <2>1. Followed  BY <1>4 DEF ImportRefills, Refill, EndOfFull, Drained, Followed
  <2>. QED  BY <1>2, <1>4, <2>1 DEF ImportRefills, ByTransfer
<1>5. CASE ImportGoesOn  BY <1>5 DEF ImportGoesOn
<1>6. CASE ImportCloses  BY <1>6 DEF ImportCloses, Next
<1>7. CASE Meanwhile  BY <1>7 DEF Meanwhile, Next
<1>8. CASE UNCHANGED importVars  BY <1>8 DEF importVars
<1>. QED  BY <1>1, <1>3, <1>4, <1>5, <1>6, <1>7, <1>8 DEF ImportNext

-----------------------------------------------------------------------------
(* The place in the file *)

LEMMA FileKeepsType == FileType /\ [ReaderNext]_readerVars => FileType'
<1>. SUFFICES ASSUME FileType, [ReaderNext]_readerVars  PROVE FileType'
  OBVIOUS
<1>1. ASSUME NEW n \in Int, HostReads(n)  PROVE FileType'
  BY <1>1 DEF HostReads, FileType
<1>2. CASE FirstRead
  <2>1. \A n \in 0 .. BufSize : n \in Int  BY BufSizeAssumption
  <2>. QED  BY <1>1, <1>2, <2>1 DEF FirstRead, HostFails, FileType
<1>3. CASE Refill
  <2>1. \A n \in 1 .. BufSize : n \in Int  BY BufSizeAssumption
  <2>. QED  BY <1>1, <1>3, <2>1 DEF Refill
<1>4. CASE EndOfFull  BY <1>1, <1>4 DEF EndOfFull, HostFails, FileType
<1>5. CASE NextByte \/ EndOfShort \/ UNCHANGED readerVars
  BY <1>5 DEF NextByte, EndOfShort, readerVars, FileType
<1>6. CASE OpenSource \/ CloseSource
  BY <1>6 DEF OpenSource, CloseSource, FileType
<1>7. CASE Grow
  <2>1. file.length + 1 \in Int  BY DEF FileType
  <2>. QED  BY <1>7, <2>1 DEF Grow, FileType
<1>. QED  BY <1>2, <1>3, <1>4, <1>5, <1>6, <1>7 DEF ReaderNext, ReadByte

(* A transfer of the reader's object moves its place by what was read *)
LEMMA TransferMoves ==
    ASSUME PlaceInv, Followed, FileType', Transfer(importing),
           answer'.count = file'.pos - file.pos
    PROVE  /\ importing' = importing /\ importing /= None
           /\ table'[fd'[importing']].pos = file'.pos
<1>1. importing /= None /\ table[fd[importing]].pos = file.pos
  BY DEF PlaceInv, Attached
<1>2. fd[importing] \in InUse /\ table[fd[importing]] \in Entry
  BY <1>1, ReaderOwns DEF PlaceInv
<1>3. PICK n \in 0 .. MaxPos - table[fd[importing]].pos :
         /\ table' = [table EXCEPT ![fd[importing]].pos = @ + n]
         /\ Answer(importing, "done", n)
  BY DEF Transfer
<1>4. n = file'.pos - file.pos  BY <1>3 DEF Answer
<1>5. file.pos \in Int /\ file'.pos \in Int  BY DEF PlaceInv, FileType
<1>6. table'[fd[importing]].pos = file.pos + n
  BY <1>1, <1>2, <1>3 DEF InUse, Entry
<1>7. file.pos + n = file'.pos  BY <1>4, <1>5
<1>8. importing' = importing /\ fd' = fd  BY DEF Transfer
<1>. QED  BY <1>1, <1>6, <1>7, <1>8

LEMMA PlaceKept == PlaceInv /\ [ImportNext]_importVars => PlaceInv'
<1>. SUFFICES ASSUME PlaceInv, [ImportNext]_importVars  PROVE PlaceInv'
  OBVIOUS
<1>1. IInv'
  BY FilesStep, NextKeepsOwned, ReaderStaysOpen DEF PlaceInv, IInv
<1>2. FileType'  BY ReaderStep, FileKeepsType DEF PlaceInv
<1>3. Attached'
  <2>1. CASE ImportOpens
    <3>1. /\ phase = "start" /\ file.pos = 0 /\ phase' \in {"opened", "raised"}
          /\ file'.pos = 0
      BY <2>1 DEF ImportOpens, OpenSource, PlaceInv, Attached, FileType
    <3>2. ASSUME phase' = "opened"
          PROVE  importing' /= None /\ table'[fd'[importing']].pos = 0
      <4>1. PICK o \in Objects, f \in Files : Open(o, f) /\ importing' = o
        BY <2>1, <3>2 DEF ImportOpens
      <4>2. PICK d \in Descriptors \ InUse :
               /\ table' = [e \in InUse \cup {d} |->
                              IF e = d THEN [file |-> f, pos |-> 0] ELSE table[e]]
               /\ fd' = [p \in Live \cup {o} |-> IF p = o THEN d ELSE fd[p]]
        BY <4>1 DEF Open
      <4>. QED  BY <4>1, <4>2, NoneAssumption
    <3>. QED  BY <3>1, <3>2 DEF Attached, Followed
  <2>2. CASE ImportStarts
    <3>1. /\ phase = "opened" /\ file.pos = 0 /\ Followed
          /\ phase' \in {"lexing", "raised"}
      BY <2>2 DEF ImportStarts, FirstRead, PlaceInv, Attached, Followed
    <3>2. ASSUME phase' = "lexing"
          PROVE  importing' /= None /\ table'[fd'[importing']].pos = file'.pos
      <4>1. Transfer(importing) /\ answer'.count = file'.pos
        BY <2>2, <3>2 DEF ImportStarts
      <4>2. file'.pos \in Int  BY <1>2 DEF FileType
      <4>3. answer'.count = file'.pos - file.pos  BY <3>1, <4>1, <4>2
      <4>. QED  BY <1>2, <3>1, <4>1, <4>3, TransferMoves
    <3>. QED  BY <3>1, <3>2 DEF Attached, Followed
  <2>3. CASE ImportRefills
    <3>1. Followed /\ phase' = phase /\ phase = "lexing"
      BY <2>3 DEF ImportRefills, Refill, EndOfFull, Drained, Followed
    <3>2. CASE Transfer(importing) /\ answer'.count = file'.pos - file.pos
      BY <1>2, <3>1, <3>2, TransferMoves DEF Attached, Followed
    <3>3. CASE file' = file /\ Fail(importing)
      BY <3>1, <3>3 DEF Fail, PlaceInv, Attached, Followed
    <3>. QED  BY <2>3, <3>2, <3>3 DEF ImportRefills, ByTransfer
  <2>4. CASE ImportGoesOn
    <3>1. UNCHANGED <<phase, vars>> /\ file'.pos = file.pos
      BY <2>4 DEF ImportGoesOn, NextByte, EndOfShort, Grow, PlaceInv, FileType
    <3>. QED  BY <3>1 DEF vars, PlaceInv, Attached, Followed
  <2>5. CASE ImportCloses
    BY <2>5 DEF ImportCloses, CloseSource, Attached, Followed
  <2>6. CASE Meanwhile
    <3>1. UNCHANGED <<phase, file>>  BY <2>6 DEF Meanwhile, readerVars
    <3>2. ASSUME Followed, NEW o \in Objects, Collect(o)
          PROVE  importing' /= None /\ table'[fd'[importing']].pos = file.pos
      <4>1. importing /= None /\ table[fd[importing]].pos = file.pos
        BY <3>2 DEF PlaceInv, Attached
      <4>2. importing \in Live  BY <4>1, ReaderOwns DEF PlaceInv
      <4>. QED  BY <3>2, <4>1, <4>2 DEF Collect
    <3>. QED  BY <2>6, <3>1, <3>2 DEF Meanwhile, PlaceInv, Attached, Followed
  <2>7. CASE UNCHANGED importVars
    BY <2>7 DEF importVars, readerVars, vars, PlaceInv, Attached, Followed
  <2>. QED  BY <2>1, <2>2, <2>3, <2>4, <2>5, <2>6, <2>7 DEF ImportNext
<1>. QED  BY <1>1, <1>2, <1>3 DEF PlaceInv

LEMMA InitPlace == ImportInit => PlaceInv
<1>. SUFFICES ASSUME ImportInit  PROVE PlaceInv
  OBVIOUS
<1>1. IInv  BY InitOwned DEF ImportInit, Init, IInv, ReaderOpen
<1>2. FileType /\ file.pos = 0 /\ phase = "start"
  BY MaxLengthAssumption DEF ImportInit, ReaderInit, FileType
<1>. QED  BY <1>1, <1>2 DEF PlaceInv, Attached, Followed

LEMMA InvariantPlace == ImportSpec => []PlaceInv
BY InitPlace, PlaceKept, PTL DEF ImportSpec

-----------------------------------------------------------------------------
(* Whatever Python code, other imports and the collector do with files     *)
(* before, during and after it, an import reads its own file from where it *)
(* stopped, through an object that stays (vfs_reader.c:58,                 *)
(* openpython_vfs.c:63).                                                   *)
THEOREM PlaceIsOwn == ImportSpec => []OwnPlace
<1>1. PlaceInv => OwnPlace
  BY ReaderOwns DEF PlaceInv, Attached, OwnPlace
<1>. QED  BY <1>1, InvariantPlace, PTL

(* The source reader of an import is the one of SourceReader: on file      *)
(* objects of the system too, the lexer gets what the theorems about       *)
(* SourceReader say (vfs_reader.c:44-88).                                  *)
THEOREM ImplementsReader == ImportSpec => ReaderSpec
BY ReaderStep, PTL DEF ImportSpec, ImportInit, ReaderSpec

(* The file objects are those of VfsFile: an import that is followed call  *)
(* by call does nothing that VfsFile does not foresee, so no two objects   *)
(* share a descriptor and each keeps its promise (openpython_vfs.c:62-188). *)
THEOREM ImplementsFiles == ImportSpec => Spec
BY FilesStep, InvariantPlace, PTL DEF ImportSpec, ImportInit, Spec

(* So the promise of file objects holds while an import reads one of them *)
THEOREM PromiseInImport == ImportSpec => PromiseKept
BY ImplementsFiles, ImplementsPromise, PTL
=============================================================================
