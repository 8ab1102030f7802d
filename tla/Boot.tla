-------------------------------- MODULE Boot --------------------------------
(***************************************************************************)
(* How the computer boots: bios.py, frozen in the firmware, runs the       *)
(* program of the EEPROM; eeprom.py looks for a disk with an /init.py,     *)
(* remembers it in the EEPROM's data, loads the file and runs it.          *)
(*                                                                         *)
(* The disks and the EEPROM are components of the host: any of them can be *)
(* plugged in or out, and files come and go, between any two calls; a call *)
(* to a component that is gone raises SystemError (syscall.c), which       *)
(* nobody catches, so main.c stops the machine.  Power may fail at any     *)
(* step; what the EEPROM holds survives.                                   *)
(***************************************************************************)
EXTENDS Integers, Sequences, FiniteSets, SequencesExt

CONSTANTS Disks,      \* addresses of filesystem components
          None,       \* the empty data, b''
          Pieces,     \* reads that a whole /init.py takes
          MaxChanges, \* bound: components and files that come or go
          MaxCuts     \* bound: power cuts

ASSUME DisksAssumption == IsFiniteSet(Disks)
ASSUME NoneAssumption == None \notin Disks
ASSUME BoundsAssumption == Pieces \in Nat /\ MaxChanges \in Nat /\ MaxCuts \in Nat

VARIABLES pc,        \* the next call of the boot programs
          plugged,   \* disks that are there
          scripts,   \* disks that hold an /init.py
          eeprom,    \* the EEPROM is there
          stored,    \* the EEPROM's data
          listed,    \* filesystems: the disks as listed at the start
          address,   \* the disk at hand
          tried,     \* how many of the listed disks the search has checked
          handle,    \* the open /init.py, or None
          content,   \* buffer: the pieces read
          changes, cuts, \* so many of MaxChanges and MaxCuts
          steady     \* history: disks bootable now and ever since the listing

host == <<plugged, scripts, eeprom>>
program == <<listed, address, tried, handle, content>>
counts == <<changes, cuts>>
vars == <<pc, host, stored, program, counts, steady>>

Steps == {"off", "bios", "list", "data", "erase", "search", "store", "screen",
          "open", "read", "close", "run", "nomedium", "crashed"}

Bootable == plugged \cap scripts

Goto(step) == pc' = step

(* A call to a component that is gone: the exception ends in __fatal_error *)
Raise == Goto("crashed") /\ UNCHANGED <<stored, program, steady>>

(* check_bootable, once the address is known to be listed; "" is an answer *)
Exists(d) == d \in scripts

Init == /\ pc = "off"
        /\ plugged \in SUBSET Disks /\ scripts \in SUBSET Disks
        /\ eeprom \in BOOLEAN
        /\ stored \in Disks \cup {None}
        /\ listed = << >> /\ address = None /\ tried = 0
        /\ handle = None /\ content = << >>
        /\ changes = 0 /\ cuts = 0 /\ steady = {}

(* Reset_Handler and main: everything but the EEPROM starts afresh *)
PowerOn == /\ pc \in {"off", "crashed", "nomedium"}
           /\ Goto("bios")
           /\ listed' = << >> /\ address' = None /\ tried' = 0
           /\ handle' = None /\ content' = << >> /\ steady' = {}
           /\ UNCHANGED stored

(* bios.py: find an EEPROM, get its program and run it *)
Bios == /\ pc = "bios"
        /\ IF eeprom THEN Goto("list") ELSE Goto("crashed")
        /\ UNCHANGED <<stored, program, steady>>

(* filesystems = get_components("filesystem"), in the host's order *)
List == /\ pc = "list"
        /\ listed' \in SetToSeqs(plugged)
        /\ steady' = Bootable
        /\ Goto("data")
        /\ UNCHANGED <<stored, address, tried, handle, content>>

(* Mutants of Data: an unlisted disk is asked all the same; only the disk  *)
(* that is stored is ever tried                                            *)
Data_unlisted == /\ pc = "data"
                 /\ IF ~eeprom \/ (stored /= None /\ stored \notin plugged)
                    THEN Raise
                    ELSE /\ address' = stored
                         /\ IF stored /= None /\ Exists(stored)
                            THEN Goto("screen") ELSE Goto("erase")
                         /\ UNCHANGED <<stored, listed, tried, handle, content, steady>>
Data_forgetful == /\ pc = "data"
                  /\ IF ~eeprom THEN Raise
                     ELSE /\ address' = stored
                          /\ Goto("erase")
                          /\ UNCHANGED <<stored, listed, tried, handle, content, steady>>

(* address = getData(); is it a listed disk that has the file? *)
Data == /\ pc = "data"
        /\ IF ~eeprom \/ (stored \in ToSet(listed) /\ stored \notin plugged)
           THEN Raise
           ELSE /\ address' = stored
                /\ IF stored \in ToSet(listed) /\ Exists(stored)
                   THEN Goto("screen") ELSE Goto("erase")
                /\ UNCHANGED <<stored, listed, tried, handle, content, steady>>

(* setData(b'') *)
Erase == /\ pc = "erase"
         /\ IF ~eeprom THEN Raise
            ELSE /\ stored' = None
                 /\ Goto("search")
                 /\ UNCHANGED <<program, steady>>

(* Mutant of Search: the last listed disk is not tried *)
Search_short ==
    /\ pc = "search"
    /\ IF tried + 1 >= Len(listed)
       THEN Goto("nomedium") /\ UNCHANGED <<stored, program, steady>>
       ELSE LET d == listed[tried + 1]
            IN  IF d \notin plugged THEN Raise
                ELSE /\ address' = d
                     /\ tried' = tried + 1
                     /\ Goto(IF Exists(d) THEN "store" ELSE "search")
                     /\ UNCHANGED <<stored, listed, handle, content, steady>>

(* One turn of "for address in filesystems", or its else *)
Search ==
    /\ pc = "search"
    /\ IF tried = Len(listed)
       THEN Goto("nomedium") /\ UNCHANGED <<stored, program, steady>>
       ELSE LET d == listed[tried + 1]
            IN  IF d \notin plugged THEN Raise
                ELSE /\ address' = d
                     /\ tried' = tried + 1
                     /\ Goto(IF Exists(d) THEN "store" ELSE "search")
                     /\ UNCHANGED <<stored, listed, handle, content, steady>>

(* Mutant of Store: the choice is not written *)
Store_dropped == /\ pc = "store"
                 /\ Goto("screen")
                 /\ UNCHANGED <<stored, program, steady>>

(* setData(address) *)
Store == /\ pc = "store"
         /\ IF ~eeprom THEN Raise
            ELSE /\ stored' = address
                 /\ Goto("screen")
                 /\ UNCHANGED <<program, steady>>

(* beep; bind the graphics card to the monitor, if both are listed: either *)
(* may be unplugged before the bind                                        *)
Screen == /\ pc = "screen"
          /\ \/ Goto("open") /\ changes' = changes
             \/ /\ changes < MaxChanges /\ changes' = changes + 1
                /\ Goto("crashed")
          /\ UNCHANGED <<stored, program, steady>>

(* load: open, read until nothing comes, close and dispose the handle *)
Open == /\ pc = "open"
        /\ IF address \in Bootable
           THEN /\ handle' = address
                /\ Goto("read")
                /\ UNCHANGED <<stored, listed, address, tried, content, steady>>
           ELSE Raise

(* A handle of a disk that was unplugged is gone for good *)
Read == /\ pc = "read"
        /\ IF handle = None THEN Raise
           ELSE /\ IF Len(content) < Pieces
                   THEN content' = Append(content, handle) /\ Goto("read")
                   ELSE content' = content /\ Goto("close")
                /\ UNCHANGED <<stored, listed, address, tried, handle, steady>>

Close == /\ pc = "close"
         /\ IF handle = None THEN Raise
            ELSE /\ handle' = None
                 /\ Goto("run")
                 /\ UNCHANGED <<stored, listed, address, tried, content, steady>>

(* The program of the disk ends with an exception *)
Stop == pc = "run" /\ Raise

----------------------------------------------------------------------------
(* The world: what changes under the programs' feet *)
Change == /\ changes < MaxChanges
          /\ changes' = changes + 1
          /\ UNCHANGED <<pc, stored, listed, address, tried, content, cuts>>

Plug(d) == /\ d \notin plugged /\ plugged' = plugged \cup {d}
           /\ UNCHANGED <<scripts, eeprom, handle, steady>>

Unplug(d) == /\ d \in plugged /\ plugged' = plugged \ {d}
             /\ steady' = steady \ {d}
             /\ handle' = IF handle = d THEN None ELSE handle
             /\ UNCHANGED <<scripts, eeprom>>

WriteScript(d) == /\ d \in plugged \ scripts /\ scripts' = scripts \cup {d}
                  /\ UNCHANGED <<plugged, eeprom, handle, steady>>

DeleteScript(d) == /\ d \in plugged \cap scripts /\ scripts' = scripts \ {d}
                   /\ steady' = steady \ {d}
                   /\ UNCHANGED <<plugged, eeprom, handle>>

SwapEeprom == /\ eeprom' = ~eeprom
              /\ UNCHANGED <<plugged, scripts, handle, steady>>

World == Change /\ \/ \E d \in Disks : Plug(d) \/ Unplug(d) \/ WriteScript(d)
                                       \/ DeleteScript(d)
                   \/ SwapEeprom

PowerCut == /\ pc /= "off" /\ cuts < MaxCuts
            /\ cuts' = cuts + 1
            /\ Goto("off")
            /\ UNCHANGED <<host, stored, program, changes, steady>>

Program == Bios \/ List \/ Data \/ Erase \/ Search \/ Store \/ Open
           \/ Read \/ Close

Next == \/ (Program \/ Stop \/ PowerOn) /\ UNCHANGED <<host, counts>>
        \/ Screen /\ UNCHANGED <<host, cuts>>
        \/ World \/ PowerCut

Spec == Init /\ [][Next]_vars

(* The machine executes its program, and is switched on again after a stop *)
Fairness == /\ WF_vars(Program /\ UNCHANGED <<host, counts>>)
            /\ WF_vars(Screen /\ UNCHANGED <<host, cuts>>)
            /\ WF_vars(PowerOn /\ UNCHANGED <<host, counts>>)

FairSpec == Spec /\ Fairness

----------------------------------------------------------------------------
TypeOK == /\ pc \in Steps
          /\ plugged \subseteq Disks /\ scripts \subseteq Disks
          /\ eeprom \in BOOLEAN
          /\ stored \in Disks \cup {None}
          /\ listed \in Seq(Disks) /\ tried \in 0 .. Len(listed)
          /\ address \in Disks \cup {None} /\ handle \in Disks \cup {None}
          /\ content \in Seq(Disks) /\ Len(content) <= Pieces
          /\ steady \subseteq plugged \cap scripts

(* The program that runs is the whole file of one disk, the one that the   *)
(* EEPROM remembers: although disks come and go while it is looked for,    *)
(* checked, remembered and read in pieces (eeprom.py:20-28, 38-57).        *)
RunsWhatIsStored ==
    pc = "run" => /\ content = [i \in 1 .. Pieces |-> address]
                  /\ stored = address

(* "no bootable medium found" is never said while a disk that could have   *)
(* been booted was there all along, whatever happened to the others and    *)
(* whatever the EEPROM remembered of an earlier boot (eeprom.py:23-28).    *)
NoFalseAlarm == pc = "nomedium" => steady = {}

(* The remembered disk is given up only after it failed: one that stays    *)
(* plugged in with its file is never replaced (eeprom.py:21-25).           *)
KeepsChoice == [][stored' /= stored => stored \notin steady]_vars

(* However the EEPROM's data were left by crashes and power cuts in the    *)
(* middle of the choice, a computer that is switched on again and has, in  *)
(* the end, an EEPROM and some bootable disk comes to run one, and does so *)
(* again whenever its program stops (eeprom.py:22-25: the data are erased  *)
(* before they are written).                                               *)
BootsInTheEnd ==
    <>[](eeprom /\ Bootable /= {}) => []<>(pc = "run")
=============================================================================
