------------------------------- MODULE Eeprom -------------------------------
(***************************************************************************)
(* What the devices keep in flash: the emulated EEPROM of                  *)
(* Drivers/drv_common.c, one page of flash that is copied to RAM, erased   *)
(* and programmed again whenever a part of it is written, and the records  *)
(* that the applications keep there, each with its CRC: the gateway's      *)
(* application id and serial number (drv_server.c, offset 0x50) and radio  *)
(* settings (app_master.c, offset 0x200); the record of a slave            *)
(* (app_slave.c) or a node (app_node.c), offset 50.                        *)
(*                                                                         *)
(* The threads of a device have the same priority and slices of 100 ms: a  *)
(* write, which takes most of that, may be interrupted by another thread.  *)
(***************************************************************************)
EXTENDS Integers, FiniteSets

CONSTANTS
    Threads,        \* threads of the device that use the EEPROM
    Records,        \* records kept there
    Reader,         \* the thread that reads a record when the device starts
    Savers,         \* pairs of thread and record: who saves what
    Restarts,       \* pairs of Savers that reset the device after the save
    Size,           \* EEPROM_SIZE, in words
    ValAt, CrcAt,   \* where a record's data and its CRC are in the page
    MaxSaves,       \* bound: records saved
    MaxResets       \* bound: resets that nobody asked for

ASSUME LayoutAssumption ==
    /\ Size \in Nat
    /\ ValAt \in [Records -> 1..Size] /\ CrcAt \in [Records -> 1..Size]
    /\ \A r, q \in Records :
          /\ ValAt[r] # CrcAt[q]
          /\ r # q => ValAt[r] # ValAt[q] /\ CrcAt[r] # CrcAt[q]

ASSUME RolesAssumption ==
    /\ Records # {} /\ Reader \in [Records -> Threads]
    /\ Savers \subseteq Threads \X Records /\ Restarts \subseteq Savers
    /\ MaxSaves \in Nat /\ MaxResets \in Nat

VARIABLES
    flash,      \* the page
    locked,     \* CR_LOCK of the flash controller
    pgerr,      \* its PGERR flag, which nothing clears but a reset
    backup,     \* g_u8BackUp, one for all threads
    ram,        \* g_sServerSave, g_sAppMasterSave, ...: data and CRC
    pc,         \* where a thread is
    rec,        \* the record it saves or reads
    i,          \* the word its loop is at
    booted,     \* records that have been read since the start
    saves,      \* records saved so far; a save's number stands for its data
    resets,     \* resets that nobody asked for
    clash,      \* history: two threads were in the EEPROM at once
    kept        \* history: what a start must find of a record, if anything

vars == <<flash, locked, pgerr, backup, ram, pc, rec, i, booted, saves,
          resets, clash, kept>>

Words   == 1..Size
Blank   == -1           \* 0xFFFF...: an erased word
Default == 0            \* the data of a record that was never saved
Data    == 0..MaxSaves
Nothing == -1           \* of kept: anything may be found

AnyRecord == CHOOSE r \in Records : TRUE

Copying == {"Copy", "ReadCopy"}
Writing == {"Sum", "Unlock", "Copy", "Replace", "Erase", "Program", "Lock"}
Busy    == Writing \cup {"ReadCopy", "Take"}

TypeOK ==
    /\ flash \in [Words -> Data \cup {Blank}]
    /\ locked \in BOOLEAN /\ pgerr \in BOOLEAN /\ clash \in BOOLEAN
    /\ backup \in [Words -> Data \cup {Blank}]
    /\ ram \in [Records -> [val : Data, crc : Data]]
    /\ pc \in [Threads -> Busy \cup {"Idle", "Restart"}]
    /\ rec \in [Threads -> Records]
    /\ i \in [Threads -> 1..(Size + 1)]
    /\ booted \subseteq Records
    /\ saves \in 0..MaxSaves /\ resets \in 0..MaxResets
    /\ kept \in [Records -> Data \cup {Nothing}]

\* The CRC fits the data; that of an erased record does not.
Whole(page, r) == page[ValAt[r]] = page[CrcAt[r]] /\ page[ValAt[r]] # Blank

\* A page as it leaves the factory, or with records that were saved whole.
Init ==
    /\ kept \in [Records -> {Nothing, Default}]
    /\ flash = [w \in Words |->
                  IF \E r \in Records : kept[r] = Default /\ w \in {ValAt[r], CrcAt[r]}
                  THEN Default ELSE Blank]
    /\ locked = TRUE /\ pgerr = FALSE
    /\ backup = [w \in Words |-> Blank]
    /\ ram = [r \in Records |-> [val |-> Default, crc |-> Default]]
    /\ pc = [t \in Threads |-> "Idle"]
    /\ rec = [t \in Threads |-> AnyRecord]
    /\ i = [t \in Threads |-> 1]
    /\ booted = {} /\ saves = 0 /\ resets = 0 /\ clash = FALSE

-----------------------------------------------------------------------------
Goto(t, l) == pc' = [pc EXCEPT ![t] = l]

Idle == \A t \in Threads : pc[t] \notin Busy

(* drv_server_read, app_master_read, app_slave_read_config,                *)
(* app_node_read_config.  The threads start 100 and 500 ms after the       *)
(* device: one after the other, and before anybody commands a save.        *)

BootRead(r) ==
    LET t == Reader[r]
    IN  /\ r \notin booted /\ Idle /\ pc[t] = "Idle"
        /\ rec' = [rec EXCEPT ![t] = r]
        /\ Goto(t, "ReadCopy")
        /\ UNCHANGED <<flash, locked, pgerr, backup, ram, i, booted, saves,
                       resets, clash, kept>>

\* Mutant: defaults are used, but not saved.
TakeNotSaved(t) ==
    /\ pc[t] = "Take"
    /\ booted' = booted \cup {rec[t]}
    /\ Goto(t, "Idle")
    /\ ram' = [ram EXCEPT ![rec[t]] =
                  IF Whole(backup, rec[t])
                  THEN [val |-> backup[ValAt[rec[t]]], crc |-> backup[CrcAt[rec[t]]]]
                  ELSE [val |-> Default, crc |-> Default]]
    /\ kept' = [kept EXCEPT ![rec[t]] =
                  IF Whole(backup, rec[t]) THEN backup[ValAt[rec[t]]] ELSE @]
    /\ UNCHANGED <<flash, locked, pgerr, backup, rec, i, saves, resets, clash>>

\* Mutant: the CRC is not looked at.
TakeUnchecked(t) ==
    LET r == rec[t]
    IN  /\ pc[t] = "Take"
        /\ booted' = booted \cup {r}
        /\ ram' = [ram EXCEPT ![r] = [val |-> backup[ValAt[r]],
                                      crc |-> backup[CrcAt[r]]]]
        /\ Goto(t, "Idle")
        /\ UNCHANGED <<flash, locked, pgerr, backup, rec, i, saves, resets,
                       clash, kept>>

\* The end of EEPROM_Read; a record with a bad CRC is made anew and saved.
Take(t) ==
    LET r == rec[t]
    IN  /\ pc[t] = "Take"
        /\ \/ /\ Whole(backup, r)
              /\ ram' = [ram EXCEPT ![r] = [val |-> backup[ValAt[r]],
                                            crc |-> backup[CrcAt[r]]]]
              /\ kept' = [kept EXCEPT ![r] = backup[ValAt[r]]]
              /\ booted' = booted \cup {r}
              /\ Goto(t, "Idle")
           \/ /\ ~Whole(backup, r)
              /\ ram' = [ram EXCEPT ![r].val = Default]
              /\ UNCHANGED <<kept, booted>>
              /\ Goto(t, "Sum")
        /\ UNCHANGED <<flash, locked, pgerr, backup, rec, i, saves, resets,
                       clash>>

-----------------------------------------------------------------------------
(* The commands of the server and of the console that change a record.     *)

Save(t, r) ==
    /\ <<t, r>> \in Savers /\ pc[t] = "Idle"
    /\ booted = Records
    /\ saves < MaxSaves
    /\ saves' = saves + 1
    /\ ram' = [ram EXCEPT ![r].val = saves + 1]
    /\ rec' = [rec EXCEPT ![t] = r]
    /\ Goto(t, "Sum")
    /\ clash' = (clash \/ ~Idle)
    /\ UNCHANGED <<flash, locked, pgerr, backup, i, booted, resets, kept>>

\* Mutant: the record keeps the CRC of its old data.
SumForgotten(t) ==
    /\ pc[t] = "Sum"
    /\ Goto(t, "Unlock")
    /\ UNCHANGED <<flash, locked, pgerr, backup, ram, rec, i, booted, saves,
                   resets, clash, kept>>

\* drv_server_write, app_master_save: crcValue.
Sum(t) ==
    /\ pc[t] = "Sum"
    /\ ram' = [ram EXCEPT ![rec[t]].crc = ram[rec[t]].val]
    /\ Goto(t, "Unlock")
    /\ UNCHANGED <<flash, locked, pgerr, backup, rec, i, booted, saves, resets,
                   clash, kept>>

-----------------------------------------------------------------------------
(* EEPROM_Write.                                                           *)

Unlock(t) ==
    /\ pc[t] = "Unlock"
    /\ locked' = FALSE
    /\ Goto(t, "Copy")
    /\ UNCHANGED <<flash, pgerr, backup, ram, rec, i, booted, saves, resets,
                   clash, kept>>

\* EEPROM_Read: the whole page, whatever is asked for.  (One step: what two
\* loops at once make of the copy matters only after a clash.)
Copy(t) ==
    /\ pc[t] \in Copying
    /\ backup' = flash
    /\ Goto(t, IF pc[t] = "Copy" THEN "Replace" ELSE "Take")
    /\ UNCHANGED <<flash, locked, pgerr, ram, rec, i, booted, saves, resets,
                   clash, kept>>

\* Mutant: what else is in the page is not kept.
ReplaceOnly(t) ==
    LET r == rec[t]
    IN  /\ pc[t] = "Replace"
        /\ backup' = [w \in Words |-> IF w = ValAt[r] THEN ram[r].val
                                      ELSE IF w = CrcAt[r] THEN ram[r].crc
                                      ELSE Blank]
        /\ Goto(t, "Erase")
        /\ UNCHANGED <<flash, locked, pgerr, ram, rec, i, booted, saves,
                       resets, clash, kept>>

Replace(t) ==
    LET r == rec[t]
    IN  /\ pc[t] = "Replace"
        /\ backup' = [backup EXCEPT ![ValAt[r]] = ram[r].val,
                                    ![CrcAt[r]] = ram[r].crc]
        /\ Goto(t, "Erase")
        /\ UNCHANGED <<flash, locked, pgerr, ram, rec, i, booted, saves,
                       resets, clash, kept>>

\* Mutant: the page is programmed as it is.
EraseForgotten(t) ==
    /\ pc[t] = "Erase"
    /\ UNCHANGED flash
    /\ Goto(t, "Program")
    /\ UNCHANGED <<locked, pgerr, backup, ram, rec, i, booted, saves, resets,
                   clash, kept>>

\* FLASH_ErasePage does nothing when the controller is locked or still shows
\* an error; nobody looks at its result.
Erase(t) ==
    /\ pc[t] = "Erase"
    /\ flash' = IF locked \/ pgerr THEN flash ELSE [w \in Words |-> Blank]
    /\ Goto(t, "Program")
    /\ UNCHANGED <<locked, pgerr, backup, ram, rec, i, booted, saves, resets,
                   clash, kept>>

\* Mutant: the loop ends a word too early.
ProgramShort(t) ==
    /\ pc[t] = "Program"
    /\ \/ /\ i[t] < Size
          /\ flash' = [flash EXCEPT ![i[t]] = backup[i[t]]]
          /\ i' = [i EXCEPT ![t] = @ + 1]
          /\ UNCHANGED <<pc, kept>>
       \/ /\ i[t] >= Size
          /\ Goto(t, "Lock")
          /\ kept' = [kept EXCEPT ![rec[t]] = backup[ValAt[rec[t]]]]
          /\ i' = [i EXCEPT ![t] = 1]
          /\ UNCHANGED flash
    /\ UNCHANGED <<locked, pgerr, backup, ram, rec, booted, saves, resets, clash>>

\* FLASH_ProgramWord: a word that is not blank is not programmed, and leaves
\* the error.
Program(t) ==
    /\ pc[t] = "Program"
    /\ \/ /\ i[t] <= Size
          /\ IF locked \/ pgerr
             THEN UNCHANGED <<flash, pgerr>>
             ELSE IF flash[i[t]] # Blank
             THEN pgerr' = TRUE /\ UNCHANGED flash
             ELSE /\ flash' = [flash EXCEPT ![i[t]] = backup[i[t]]]
                  /\ UNCHANGED pgerr
          /\ i' = [i EXCEPT ![t] = @ + 1]
          /\ UNCHANGED <<pc, kept>>
       \/ /\ i[t] > Size
          /\ Goto(t, "Lock")
          /\ kept' = [kept EXCEPT ![rec[t]] = backup[ValAt[rec[t]]]]
          /\ i' = [i EXCEPT ![t] = 1]
          /\ UNCHANGED <<flash, pgerr>>
    /\ UNCHANGED <<locked, backup, ram, rec, booted, saves, resets, clash>>

\* A record made anew at the start is there now.  A new application id or
\* serial number is followed by drv_system_reset.
Lock(t) ==
    /\ pc[t] = "Lock"
    /\ locked' = TRUE
    /\ booted' = booted \cup {rec[t]}
    /\ Goto(t, IF rec[t] \in booted /\ <<t, rec[t]>> \in Restarts
               THEN "Restart" ELSE "Idle")
    /\ UNCHANGED <<flash, pgerr, backup, ram, rec, i, saves, resets, clash,
                   kept>>

-----------------------------------------------------------------------------
\* The device starts again.  A reset between the erasure and the last word
\* loses the page; after a clash nothing is certain.
Restart ==
    /\ locked' = TRUE /\ pgerr' = FALSE /\ clash' = FALSE
    /\ backup' = [w \in Words |-> Blank]
    /\ ram' = [r \in Records |-> [val |-> Default, crc |-> Default]]
    /\ pc' = [t \in Threads |-> "Idle"]
    /\ booted' = {}
    /\ kept' = IF clash \/ \E t \in Threads : pc[t] = "Program"
               THEN [r \in Records |-> Nothing] ELSE kept
    /\ rec' = [t \in Threads |-> AnyRecord]
    /\ i' = [t \in Threads |-> 1]
    /\ UNCHANGED <<flash, saves>>

Reset ==
    /\ resets < MaxResets
    /\ resets' = resets + 1
    /\ Restart

\* drv_system_reset; other threads go on until the watchdog bites.
SystemReset ==
    /\ \E t \in Threads : pc[t] = "Restart"
    /\ Restart
    /\ UNCHANGED resets

Step(t) ==
    \/ Take(t) \/ Sum(t) \/ Unlock(t) \/ Copy(t) \/ Replace(t)
    \/ Erase(t) \/ Program(t) \/ Lock(t)

Next ==
    \/ \E r \in Records : BootRead(r)
    \/ \E t \in Threads : Step(t)
    \/ \E t \in Threads, r \in Records : Save(t, r)
    \/ Reset \/ SystemReset

Spec == Init /\ [][Next]_vars

\* Every thread is scheduled, and a watchdog that was started bites.
LiveSpec ==
    /\ Spec
    /\ \A t \in Threads : WF_vars(Step(t))
    /\ \A r \in Records : WF_vars(BootRead(r))
    /\ WF_vars(SystemReset)

-----------------------------------------------------------------------------
(* Properties.                                                             *)

\* The flash controller shows an error, so that saves fail silently until the
\* next reset, only after two threads wrote at once.
ErrorNeedsClash == pgerr => clash

\* What a device works with is what it would find after a restart, once it
\* has read a record and nobody is writing: neither the write of another
\* record nor any reset before breaks that (drv_common.c:343-387,
\* drv_server.c:38-65, app_master.c:348-376).
FlashIsRam ==
    ~clash /\ Idle =>
        \A r \in booted : /\ Whole(flash, r)
                          /\ flash[ValAt[r]] = ram[r].val

\* A start finds the data that was saved last, or that it had found before,
\* unless the reset came while the page was programmed or after a clash.
StartFindsLastSave ==
    [][\A t \in Threads :
          Take(t) /\ kept[rec[t]] # Nothing => ram'[rec[t]].val = kept[rec[t]]]_vars

\* Saved, or made anew, and not in the page yet.
Pending ==
    {rec[t] : t \in {u \in Threads : pc[u] \in Writing \ {"Lock"}}}

Store == INSTANCE RecordStore WITH
    Unknown <- Nothing,
    disk    <- kept,
    work    <- [r \in Records |-> ram[r].val],
    loaded  <- booted,
    pending <- Pending,
    storing <- \E t \in Threads : pc[t] = "Program",
    sure    <- ~clash

\* To the applications a record is stored in one step, with the data they work
\* with then, and the others stay: copying, erasing and programming the page do
\* not show, but for a reset in the middle of them and a second thread in them
\* (drv_common.c:343-387, drv_server.c:38-65).
ImplementsStore == Store!Spec

\* After the last reset every record is read or made anew, whatever the reset
\* had left of the page.
Heals == <>[](booted = Records /\ (clash \/ \A r \in Records : Whole(flash, r)))
=============================================================================
