----------------------------- MODULE BootProofs -----------------------------
(* Proofs about Boot, for every set of disks, every length of the file and *)
(* however often disks, files and the EEPROM change and power fails.       *)
EXTENDS Boot, FiniteSetTheorems, TLAPS

(* A listing names exactly the disks that are there                        *)
LEMMA Listing ==
    ASSUME NEW S, IsFiniteSet(S), NEW s \in SetToSeqs(S)
    PROVE  s \in Seq(S) /\ ToSet(s) = S
<1>. DEFINE n == Cardinality(S)
<1>1. n \in Nat  BY FS_CardinalityType
<1>2. /\ s \in [1 .. n -> S]
      /\ \A i, j \in 1 .. n : i /= j => s[i] /= s[j]
  BY DEF SetToSeqs
<1>. HIDE DEF n
<1>3. s \in Seq(S) /\ DOMAIN s = 1 .. n  BY <1>1, <1>2
<1>4. ASSUME NEW d \in S, d \notin ToSet(s)  PROVE FALSE
  <2>1. s \in [1 .. n -> S \ {d}]  BY <1>2, <1>3, <1>4 DEF ToSet
  <2>2. IsFiniteSet(S \ {d}) /\ Cardinality(S \ {d}) = n - 1
    BY FS_RemoveElement DEF n
  <2>3. IsFiniteSet(1 .. n) /\ Cardinality(1 .. n) = n
    BY <1>1, FS_Interval
  <2>4. n - 1 < n  BY <1>1
  <2>5. \E i, j \in 1 .. n : i /= j /\ s[i] = s[j]
    BY <2>1, <2>2, <2>3, <2>4, FS_PigeonHole
  <2>. QED  BY <1>2, <2>5
<1>. QED  BY <1>2, <1>3, <1>4 DEF ToSet

----------------------------------------------------------------------------
(* The steps that follow the choice of the disk, and those that search     *)
Chosen == {"screen", "open", "read", "close", "run"}
Searching == {"data", "erase", "search", "store"}

(* What is loaded is the file of the disk at hand, as far as it was read   *)
Loading ==
    /\ pc \in Chosen => address \in Disks /\ stored = address
    /\ pc = "store" => address \in Disks
    /\ \A i \in 1 .. Len(content) : content[i] = address
    /\ pc \in Searching \cup {"screen", "open"} => content = << >>
    /\ pc \in {"bios", "list"} \cup Searching => handle = None
    /\ handle /= None => handle = address
    /\ pc \in {"close", "run"} => Len(content) = Pieces

(* The disks that were bootable all along are listed, and none of those    *)
(* that the search has passed is one of them                               *)
Honest ==
    /\ steady \subseteq plugged \cap scripts
    /\ pc \in Searching => steady \subseteq ToSet(listed)
    /\ pc \in {"bios", "list", "data", "erase"} => tried = 0
    /\ pc \in {"bios", "list"} => content = << >>
    /\ pc \in {"erase", "search", "store"} => stored \notin steady
    /\ pc = "search" => \A i \in 1 .. tried : listed[i] \notin steady
    /\ pc = "nomedium" => steady = {}

(* The inductive invariant *)
IInv == TypeOK /\ Loading /\ Honest

LEMMA InitIInv == Init => IInv
<1>. SUFFICES ASSUME Init  PROVE IInv  OBVIOUS
<1>1. << >> \in Seq(Disks) /\ Len(<< >>) = 0  OBVIOUS
<1>2. TypeOK  BY <1>1, BoundsAssumption DEF Init, TypeOK, Steps
<1>3. Loading  BY <1>1 DEF Init, Loading, Chosen, Searching
<1>4. Honest  BY <1>1 DEF Init, Honest, Searching
<1>. QED  BY <1>2, <1>3, <1>4 DEF IInv

(* The exception of a missing component keeps everything but pc            *)
LEMMA RaiseKeepsIInv == IInv /\ Raise /\ UNCHANGED host => IInv'
<1>. SUFFICES ASSUME IInv, Raise, UNCHANGED host  PROVE IInv'  OBVIOUS
<1>. USE DEF Raise, Goto, program, host
<1>1. TypeOK'  BY DEF IInv, TypeOK, Steps
<1>2. Loading'  BY DEF IInv, Loading, Chosen, Searching
<1>3. Honest'  BY DEF IInv, Honest, Searching
<1>. QED  BY <1>1, <1>2, <1>3 DEF IInv

LEMMA BiosKeepsIInv == IInv /\ Bios /\ UNCHANGED host => IInv'
<1>. SUFFICES ASSUME IInv, Bios, UNCHANGED host  PROVE IInv'  OBVIOUS
<1>. USE DEF Bios, Goto, program, host
<1>1. TypeOK'  BY DEF IInv, TypeOK, Steps
<1>2. Loading'  BY DEF IInv, Loading, Chosen, Searching
<1>3. Honest'  BY DEF IInv, Honest, Searching
<1>. QED  BY <1>1, <1>2, <1>3 DEF IInv

LEMMA ListKeepsIInv == IInv /\ List /\ UNCHANGED host => IInv'
<1>. SUFFICES ASSUME IInv, List, UNCHANGED host  PROVE IInv'  OBVIOUS
<1>. USE DEF List, Goto, host
<1>1. listed' \in Seq(plugged) /\ ToSet(listed') = plugged
  <2>1. plugged \in SUBSET Disks  BY DEF IInv, TypeOK
  <2>2. IsFiniteSet(plugged)  BY <2>1, DisksAssumption, FS_Subset
  <2>. QED  BY <2>2, Listing
<1>2. /\ pc' = "data" /\ steady' = plugged \cap scripts
      /\ tried' = 0 /\ content' = << >> /\ handle' = None
      /\ stored' = stored /\ address' = address
  BY DEF IInv, Loading, Honest, Searching, Bootable
<1>3. TypeOK'
  <2>1. listed' \in Seq(Disks) /\ Len(listed') \in Nat
    BY <1>1 DEF IInv, TypeOK
  <2>2. tried' \in 0 .. Len(listed')  BY <1>2, <2>1
  <2>. QED  BY <1>2, <2>1, <2>2 DEF IInv, TypeOK, Steps
<1>4. Loading'  BY <1>2 DEF IInv, Loading, Chosen, Searching
<1>5. Honest'  BY <1>1, <1>2 DEF Honest, Searching
<1>. QED  BY <1>3, <1>4, <1>5 DEF IInv

LEMMA DataKeepsIInv == IInv /\ Data /\ UNCHANGED host => IInv'
<1>. SUFFICES ASSUME IInv, Data, UNCHANGED host  PROVE IInv'  OBVIOUS
<1>. USE DEF Data, Goto, program, host, Exists
<1>1. CASE Raise  BY <1>1, RaiseKeepsIInv DEF Raise
<1>2. CASE ~Raise
  <2>1. TypeOK'  BY <1>2 DEF IInv, TypeOK, Steps
  <2>2. Loading'  BY <1>2 DEF IInv, TypeOK, Loading, Chosen, Searching
  <2>3. Honest'  BY <1>2 DEF IInv, TypeOK, Honest, Searching
  <2>. QED  BY <2>1, <2>2, <2>3 DEF IInv
<1>. QED  BY <1>1, <1>2

LEMMA EraseKeepsIInv == IInv /\ Erase /\ UNCHANGED host => IInv'
<1>. SUFFICES ASSUME IInv, Erase, UNCHANGED host  PROVE IInv'  OBVIOUS
<1>. USE DEF Erase, Goto, program, host
<1>1. CASE ~eeprom  BY <1>1, RaiseKeepsIInv
<1>2. CASE eeprom
  <2>1. TypeOK'  BY <1>2 DEF IInv, TypeOK, Steps
  <2>2. Loading'  BY <1>2 DEF IInv, TypeOK, Loading, Chosen, Searching
  <2>3. None \notin steady  BY NoneAssumption DEF IInv, TypeOK
  <2>4. tried' = 0  BY <1>2 DEF IInv, Honest
  <2>5. \A i \in 1 .. tried' : listed[i] \notin steady  BY <2>4
  <2>6. Honest'  BY <1>2, <2>3, <2>5 DEF IInv, Honest, Searching
  <2>. QED  BY <2>1, <2>2, <2>6 DEF IInv
<1>. QED  BY <1>1, <1>2

LEMMA SearchKeepsIInv == IInv /\ Search /\ UNCHANGED host => IInv'
<1>. SUFFICES ASSUME IInv, Search, UNCHANGED host  PROVE IInv'  OBVIOUS
<1>. DEFINE d == listed[tried + 1]
<1>. USE DEF Search, Goto, program, host, Exists
<1>1. /\ listed \in Seq(Disks) /\ Len(listed) \in Nat
      /\ tried \in 0 .. Len(listed) /\ tried \in Nat
  BY DEF IInv, TypeOK
<1>2. /\ steady \subseteq plugged \cap scripts /\ steady \subseteq ToSet(listed)
      /\ \A i \in 1 .. tried : listed[i] \notin steady
      /\ stored \notin steady
  BY DEF IInv, Honest, Searching
<1>3. CASE tried = Len(listed)
  <2>1. steady = {}
    <3>1. ToSet(listed) = {listed[i] : i \in 1 .. tried}  BY <1>1, <1>3 DEF ToSet
    <3>. QED  BY <1>2, <3>1
  <2>2. TypeOK'  BY <1>3 DEF IInv, TypeOK, Steps
  <2>3. Loading'  BY <1>3 DEF IInv, Loading, Chosen, Searching
  <2>4. Honest'  BY <1>3, <2>1 DEF IInv, Honest, Searching
  <2>. QED  BY <2>2, <2>3, <2>4 DEF IInv
<1>4. CASE tried /= Len(listed) /\ d \notin plugged  BY <1>4, RaiseKeepsIInv
<1>5. CASE tried /= Len(listed) /\ d \in plugged
  <2>1. d \in Disks /\ tried + 1 \in 0 .. Len(listed)  BY <1>1, <1>5
  <2>. HIDE DEF d
  <2>2. /\ address' = d /\ tried' = tried + 1 /\ steady' = steady
        /\ pc' = IF d \in scripts THEN "store" ELSE "search"
        /\ UNCHANGED <<stored, listed, handle, content>>
    BY <1>5 DEF d
  <2>3. TypeOK'  BY <2>1, <2>2 DEF IInv, TypeOK, Steps
  <2>4. Loading'  BY <2>1, <2>2 DEF IInv, Loading, Chosen, Searching
  <2>5. d \notin scripts => \A i \in 1 .. tried + 1 : listed[i] \notin steady
    <3>. SUFFICES ASSUME d \notin scripts, NEW i \in 1 .. tried + 1
                  PROVE  listed[i] \notin steady
      OBVIOUS
    <3>1. CASE i = tried + 1  BY <1>2, <3>1 DEF d
    <3>2. CASE i /= tried + 1  BY <1>1, <1>2, <3>2
    <3>. QED  BY <3>1, <3>2
  <2>6. Honest'  BY <1>2, <2>2, <2>5 DEF IInv, Honest, Searching
  <2>. QED  BY <2>3, <2>4, <2>6 DEF IInv
<1>. QED  BY <1>3, <1>4, <1>5

LEMMA StoreKeepsIInv == IInv /\ Store /\ UNCHANGED host => IInv'
<1>. SUFFICES ASSUME IInv, Store, UNCHANGED host  PROVE IInv'  OBVIOUS
<1>. USE DEF Store, Goto, program, host, Exists
<1>1. CASE Raise  BY <1>1, RaiseKeepsIInv DEF Raise
<1>2. CASE ~Raise
  <2>1. TypeOK'  BY <1>2 DEF IInv, TypeOK, Steps
  <2>2. Loading'  BY <1>2 DEF IInv, TypeOK, Loading, Chosen, Searching
  <2>3. Honest'  BY <1>2 DEF IInv, TypeOK, Honest, Searching
  <2>. QED  BY <2>1, <2>2, <2>3 DEF IInv
<1>. QED  BY <1>1, <1>2

LEMMA OpenKeepsIInv == IInv /\ Open /\ UNCHANGED host => IInv'
<1>. SUFFICES ASSUME IInv, Open, UNCHANGED host  PROVE IInv'  OBVIOUS
<1>. USE DEF Open, Goto, program, host, Exists
<1>1. CASE Raise  BY <1>1, RaiseKeepsIInv DEF Raise
<1>2. CASE ~Raise
  <2>1. TypeOK'  BY <1>2 DEF IInv, TypeOK, Steps
  <2>2. Loading'  BY <1>2 DEF IInv, TypeOK, Loading, Chosen, Searching
  <2>3. Honest'  BY <1>2 DEF IInv, TypeOK, Honest, Searching
  <2>. QED  BY <2>1, <2>2, <2>3 DEF IInv
<1>. QED  BY <1>1, <1>2

LEMMA ReadKeepsIInv == IInv /\ Read /\ UNCHANGED host => IInv'
<1>. SUFFICES ASSUME IInv, Read, UNCHANGED host  PROVE IInv'  OBVIOUS
<1>. USE DEF Read, Goto, host
<1>1. CASE handle = None  BY <1>1, RaiseKeepsIInv
<1>2. CASE handle /= None
  <2>1. /\ handle = address /\ address \in Disks /\ stored = address
        /\ content \in Seq(Disks) /\ Len(content) <= Pieces
        /\ \A i \in 1 .. Len(content) : content[i] = address
    BY <1>2 DEF IInv, TypeOK, Loading, Chosen
  <2>2. /\ UNCHANGED <<stored, listed, address, tried, handle, steady>>
        /\ pc' \in {"read", "close"}
    BY <1>2
  <2>3. /\ content' \in Seq(Disks) /\ Len(content') <= Pieces
        /\ \A i \in 1 .. Len(content') : content'[i] = address
        /\ pc' = "close" => Len(content') = Pieces
    <3>1. CASE Len(content) < Pieces
      <4>1. content' = Append(content, handle) /\ pc' = "read"  BY <1>2, <3>1
      <4>. QED  BY <2>1, <3>1, <4>1, BoundsAssumption
    <3>2. CASE ~(Len(content) < Pieces)
      <4>1. content' = content /\ pc' = "close"  BY <1>2, <3>2
      <4>2. Len(content) = Pieces  BY <2>1, <3>2, BoundsAssumption
      <4>. QED  BY <2>1, <4>1, <4>2
    <3>. QED  BY <3>1, <3>2
  <2>4. TypeOK'  BY <2>2, <2>3 DEF IInv, TypeOK, Steps
  <2>5. Loading'  BY <2>1, <2>2, <2>3 DEF Loading, Chosen, Searching
  <2>6. Honest'  BY <2>2 DEF IInv, Honest, Searching
  <2>. QED  BY <2>4, <2>5, <2>6 DEF IInv
<1>. QED  BY <1>1, <1>2

LEMMA CloseKeepsIInv == IInv /\ Close /\ UNCHANGED host => IInv'
<1>. SUFFICES ASSUME IInv, Close, UNCHANGED host  PROVE IInv'  OBVIOUS
<1>. USE DEF Close, Goto, program, host, Exists
<1>1. CASE Raise  BY <1>1, RaiseKeepsIInv DEF Raise
<1>2. CASE ~Raise
  <2>1. TypeOK'  BY <1>2 DEF IInv, TypeOK, Steps
  <2>2. Loading'  BY <1>2 DEF IInv, TypeOK, Loading, Chosen, Searching
  <2>3. Honest'  BY <1>2 DEF IInv, TypeOK, Honest, Searching
  <2>. QED  BY <2>1, <2>2, <2>3 DEF IInv
<1>. QED  BY <1>1, <1>2

LEMMA PowerOnKeepsIInv == IInv /\ PowerOn /\ UNCHANGED host => IInv'
<1>. SUFFICES ASSUME IInv, PowerOn, UNCHANGED host  PROVE IInv'  OBVIOUS
<1>. USE DEF PowerOn, Goto, host
<1>1. /\ pc' = "bios" /\ steady' = {} /\ stored' = stored
      /\ listed' = << >> /\ tried' = 0 /\ content' = << >>
      /\ address' = None /\ handle' = None
  OBVIOUS
<1>2. << >> \in Seq(Disks) /\ Len(<< >>) = 0  OBVIOUS
<1>3. TypeOK'
  <2>1. listed' \in Seq(Disks) /\ tried' \in 0 .. Len(listed')  BY <1>1, <1>2
  <2>2. content' \in Seq(Disks) /\ Len(content') <= Pieces
    BY <1>1, <1>2, BoundsAssumption
  <2>. QED  BY <1>1, <2>1, <2>2 DEF IInv, TypeOK, Steps
<1>4. Loading'  BY <1>1, <1>2 DEF Loading, Chosen, Searching
<1>5. Honest'  BY <1>1 DEF IInv, Honest, Searching
<1>. QED  BY <1>3, <1>4, <1>5 DEF IInv

LEMMA ScreenKeepsIInv == IInv /\ Screen /\ UNCHANGED host => IInv'
<1>. SUFFICES ASSUME IInv, Screen, UNCHANGED host  PROVE IInv'  OBVIOUS
<1>. USE DEF Screen, Goto, program, host
<1>1. TypeOK'  BY DEF IInv, TypeOK, Steps
<1>2. Loading'  BY DEF IInv, Loading, Chosen, Searching
<1>3. Honest'  BY DEF IInv, Honest, Searching
<1>. QED  BY <1>1, <1>2, <1>3 DEF IInv

LEMMA StopKeepsIInv == IInv /\ Stop /\ UNCHANGED host => IInv'
BY RaiseKeepsIInv DEF Stop

LEMMA PowerCutKeepsIInv == IInv /\ PowerCut => IInv'
<1>. SUFFICES ASSUME IInv, PowerCut  PROVE IInv'  OBVIOUS
<1>. USE DEF PowerCut, Goto, program, host
<1>1. TypeOK'  BY DEF IInv, TypeOK, Steps
<1>2. Loading'  BY DEF IInv, Loading, Chosen, Searching
<1>3. Honest'  BY DEF IInv, Honest, Searching
<1>. QED  BY <1>1, <1>2, <1>3 DEF IInv

(* Nothing the world does touches the programs or the EEPROM's data, but   *)
(* a handle is lost with its disk, and steady disks may stop being so      *)
WorldOnly ==
    /\ UNCHANGED <<pc, stored, listed, address, tried, content>>
    /\ steady' \subseteq steady /\ handle' \in {handle, None}
    /\ plugged' \subseteq Disks /\ scripts' \subseteq Disks
    /\ eeprom' \in BOOLEAN /\ steady' \subseteq plugged' \cap scripts'

LEMMA WorldIsWorldOnly == IInv /\ World => WorldOnly
<1>. SUFFICES ASSUME IInv, World  PROVE WorldOnly  OBVIOUS
<1>1. /\ UNCHANGED <<pc, stored, listed, address, tried, content>>
      /\ plugged \subseteq Disks /\ scripts \subseteq Disks
      /\ eeprom \in BOOLEAN /\ steady \subseteq plugged \cap scripts
  BY DEF World, Change, IInv, TypeOK
<1>2. ASSUME NEW d \in Disks, Plug(d)  PROVE WorldOnly
  BY <1>1, <1>2 DEF Plug, WorldOnly
<1>3. ASSUME NEW d \in Disks, Unplug(d)  PROVE WorldOnly
  BY <1>1, <1>3 DEF Unplug, WorldOnly
<1>4. ASSUME NEW d \in Disks, WriteScript(d)  PROVE WorldOnly
  BY <1>1, <1>4 DEF WriteScript, WorldOnly
<1>5. ASSUME NEW d \in Disks, DeleteScript(d)  PROVE WorldOnly
  BY <1>1, <1>5 DEF DeleteScript, WorldOnly
<1>6. CASE SwapEeprom  BY <1>1, <1>6 DEF SwapEeprom, WorldOnly
<1>. QED  BY <1>2, <1>3, <1>4, <1>5, <1>6 DEF World

LEMMA WorldKeepsIInv == IInv /\ World => IInv'
<1>. SUFFICES ASSUME IInv, World  PROVE IInv'  OBVIOUS
<1>1. WorldOnly  BY WorldIsWorldOnly
<1>2. TypeOK'  BY <1>1 DEF WorldOnly, IInv, TypeOK
<1>3. Loading'  BY <1>1 DEF WorldOnly, IInv, Loading
<1>4. Honest'  BY <1>1 DEF WorldOnly, IInv, Honest
<1>. QED  BY <1>2, <1>3, <1>4 DEF IInv

LEMMA NextKeepsIInv == IInv /\ [Next]_vars => IInv'
<1>. SUFFICES ASSUME IInv, [Next]_vars  PROVE IInv'  OBVIOUS
<1>1. CASE Program /\ UNCHANGED <<host, counts>>
  BY <1>1, BiosKeepsIInv, ListKeepsIInv, DataKeepsIInv, EraseKeepsIInv,
     SearchKeepsIInv, StoreKeepsIInv, OpenKeepsIInv, ReadKeepsIInv,
     CloseKeepsIInv DEF Program
<1>2. CASE (Stop \/ PowerOn) /\ UNCHANGED <<host, counts>>
  BY <1>2, StopKeepsIInv, PowerOnKeepsIInv
<1>3. CASE Screen /\ UNCHANGED <<host, cuts>>  BY <1>3, ScreenKeepsIInv
<1>4. CASE World  BY <1>4, WorldKeepsIInv
<1>5. CASE PowerCut  BY <1>5, PowerCutKeepsIInv
<1>6. CASE UNCHANGED vars
  <2>. USE DEF vars, host, program, counts
  <2>1. TypeOK'  BY <1>6 DEF IInv, TypeOK
  <2>2. Loading'  BY <1>6 DEF IInv, Loading
  <2>3. Honest'  BY <1>6 DEF IInv, Honest
  <2>. QED  BY <2>1, <2>2, <2>3 DEF IInv
<1>. QED  BY <1>1, <1>2, <1>3, <1>4, <1>5, <1>6 DEF Next

LEMMA InvariantIInv == Spec => []IInv
BY InitIInv, NextKeepsIInv, PTL DEF Spec

----------------------------------------------------------------------------
(* Every variable keeps its type: the search never counts past the list    *)
(* and the buffer never outgrows the file (eeprom.py:23-28, 44-55).        *)
THEOREM TypeCorrect == Spec => []TypeOK
<1>1. IInv => TypeOK  BY DEF IInv
<1>. QED  BY <1>1, InvariantIInv, PTL

(* Whatever is plugged in or out, and wherever power fails, the program    *)
(* that runs is the whole file of the one disk that the EEPROM remembers   *)
(* (eeprom.py:20-28, 38-57).                                               *)
THEOREM RunsWholeProgram == Spec => []RunsWhatIsStored
<1>1. ASSUME IInv, pc = "run"
      PROVE  content = [i \in 1 .. Pieces |-> address] /\ stored = address
  <2>1. /\ stored = address /\ Len(content) = Pieces /\ content \in Seq(Disks)
        /\ \A i \in 1 .. Len(content) : content[i] = address
    BY <1>1 DEF IInv, TypeOK, Loading, Chosen
  <2>2. content \in [1 .. Pieces -> Disks]  BY <2>1
  <2>3. content = [i \in 1 .. Pieces |-> content[i]]  BY <2>2
  <2>4. \A i \in 1 .. Pieces : content[i] = address  BY <2>1
  <2>. QED  BY <2>1, <2>3, <2>4
<1>2. IInv => RunsWhatIsStored  BY <1>1 DEF RunsWhatIsStored
<1>. QED  BY <1>2, InvariantIInv, PTL

(* "no bootable medium found" is said only when no disk was bootable from  *)
(* the listing to the end of the search (eeprom.py:23-28).                 *)
THEOREM AlarmIsTrue == Spec => []NoFalseAlarm
<1>1. IInv => NoFalseAlarm  BY DEF IInv, Honest, NoFalseAlarm
<1>. QED  BY <1>1, InvariantIInv, PTL

(* A remembered disk that stays in place with its file is never forgotten  *)
(* nor replaced (eeprom.py:21-25).                                         *)
THEOREM ChoiceIsKept == Spec => KeepsChoice
<1>1. ASSUME IInv, Next, stored' /= stored  PROVE stored \notin steady
  <2>1. CASE Erase  BY <1>1, <2>1 DEF Erase, IInv, Honest
  <2>2. CASE Store  BY <1>1, <2>2 DEF Store, IInv, Honest
  <2>3. CASE Next /\ ~Erase /\ ~Store
    <3>1. UNCHANGED stored
      BY <2>3 DEF Next, Program, Bios, List, Data, Search, Open, Read, Close,
                  Stop, PowerOn, Screen, World, Change, PowerCut, Raise
    <3>. QED  BY <1>1, <3>1
  <2>. QED  BY <1>1, <2>1, <2>2, <2>3
<1>2. ASSUME IInv, [Next]_vars
      PROVE  [stored' /= stored => stored \notin steady]_vars
  BY <1>1, <1>2
<1>. QED  BY <1>2, InvariantIInv, PTL DEF Spec, KeepsChoice
=============================================================================
