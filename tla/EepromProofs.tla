---------------------------- MODULE EepromProofs ----------------------------
(***************************************************************************)
(* Proofs about Eeprom: for any page, records, threads, number of saves    *)
(* and of resets.                                                          *)
(***************************************************************************)
EXTENDS Eeprom, TLAPS

LEMMA AnyRecordIsOne == AnyRecord \in Records
  BY RolesAssumption DEF AnyRecord

LEMMA Layout ==
  /\ Size \in Nat /\ MaxSaves \in Nat /\ MaxResets \in Nat
  /\ ValAt \in [Records -> Words] /\ CrcAt \in [Records -> Words]
  /\ Reader \in [Records -> Threads]
  BY LayoutAssumption, RolesAssumption DEF Words

\* Every action gives its variables values of their type; an action that
\* reads a word of the page has its index in the page.
THEOREM TypeCorrect == Spec => []TypeOK
<1>1. Init => TypeOK
  <2> SUFFICES ASSUME Init PROVE TypeOK
    OBVIOUS
  <2>1. Default \in Data
    BY Layout DEF Default, Data
  <2>2. flash \in [Words -> Data \cup {Blank}]
    BY <2>1 DEF Init
  <2>3. kept \in [Records -> Data \cup {Nothing}]
    BY <2>1 DEF Init
  <2>4. rec \in [Threads -> Records]
    BY AnyRecordIsOne DEF Init
  <2>5. i \in [Threads -> 1..(Size + 1)]
    BY Layout DEF Init
  <2>6. backup \in [Words -> Data \cup {Blank}]
    BY DEF Init
  <2>7. ram \in [Records -> [val : Data, crc : Data]]
    BY <2>1 DEF Init
  <2>8. pc \in [Threads -> Busy \cup {"Idle", "Restart"}]
    BY DEF Init
  <2>9. /\ locked \in BOOLEAN /\ pgerr \in BOOLEAN /\ clash \in BOOLEAN
        /\ booted \subseteq Records
        /\ saves \in 0..MaxSaves /\ resets \in 0..MaxResets
    <3>1. /\ locked = TRUE /\ pgerr = FALSE /\ clash = FALSE
          /\ booted = {} /\ saves = 0 /\ resets = 0
      BY DEF Init
    <3>2. 0 \in 0..MaxSaves /\ 0 \in 0..MaxResets
      BY Layout
    <3> QED
      BY <3>1, <3>2
  <2> QED
    BY <2>2, <2>3, <2>4, <2>5, <2>6, <2>7, <2>8, <2>9 DEF TypeOK
<1>2. TypeOK /\ [Next]_vars => TypeOK'
  <2> SUFFICES ASSUME TypeOK, [Next]_vars PROVE TypeOK'
    OBVIOUS
  <2> USE DEF TypeOK, Goto, Busy, Writing
  <2>1. ASSUME NEW r \in Records, BootRead(r) PROVE TypeOK'
    BY <2>1 DEF BootRead
  <2>2. ASSUME NEW t \in Threads, Take(t) PROVE TypeOK'
    <3>1. rec[t] \in Records /\ ValAt[rec[t]] \in Words /\ CrcAt[rec[t]] \in Words
      BY Layout
    <3>2. Default \in Data
      BY Layout DEF Default, Data
    <3>3. CASE Whole(backup, rec[t])
      <4>1. backup[ValAt[rec[t]]] \in Data /\ backup[CrcAt[rec[t]]] \in Data
        BY <3>1, <3>3 DEF Whole
      <4>2. ram' \in [Records -> [val : Data, crc : Data]]
        <5>1. ram' = [ram EXCEPT ![rec[t]] = [val |-> backup[ValAt[rec[t]]],
                                              crc |-> backup[CrcAt[rec[t]]]]]
          BY <2>2, <3>3 DEF Take
        <5> QED
          BY <4>1, <5>1
      <4>3. kept' \in [Records -> Data \cup {Nothing}]
        BY <2>2, <3>3, <4>1 DEF Take
      <4> QED
        BY <2>2, <3>1, <3>3, <4>2, <4>3 DEF Take
    <3>4. CASE ~Whole(backup, rec[t])
      <4>1. ram' \in [Records -> [val : Data, crc : Data]]
        <5>1. ram' = [ram EXCEPT ![rec[t]].val = Default]
          BY <2>2, <3>4 DEF Take
        <5> QED
          BY <3>2, <5>1
      <4> QED
        BY <2>2, <3>1, <3>4, <4>1 DEF Take
    <3> QED
      BY <3>3, <3>4
  <2>3. ASSUME NEW t \in Threads, NEW r \in Records, Save(t, r) PROVE TypeOK'
    <3>1. saves + 1 \in 0..MaxSaves
      BY <2>3, Layout DEF Save
    <3>2. saves + 1 \in Data
      BY <3>1 DEF Data
    <3> QED
      BY <2>3, <3>1, <3>2 DEF Save
  <2>4. ASSUME NEW t \in Threads, Sum(t) PROVE TypeOK'
    BY <2>4 DEF Sum
  <2>5. ASSUME NEW t \in Threads, Unlock(t) PROVE TypeOK'
    BY <2>5 DEF Unlock
  <2>6. ASSUME NEW t \in Threads, Copy(t) PROVE TypeOK'
    BY <2>6 DEF Copy
  <2>7. ASSUME NEW t \in Threads, Replace(t) PROVE TypeOK'
    <3>1. ram[rec[t]].val \in Data /\ ram[rec[t]].crc \in Data
      OBVIOUS
    <3> QED
      BY <2>7, <3>1 DEF Replace
  <2>8. ASSUME NEW t \in Threads, Erase(t) PROVE TypeOK'
    BY <2>8 DEF Erase
  <2>9. ASSUME NEW t \in Threads, Program(t) PROVE TypeOK'
    <3>0. i[t] \in 1..(Size + 1) /\ Size \in Nat
      BY Layout
    <3>1. CASE i[t] <= Size
      <4>1. i[t] \in Words /\ i[t] + 1 \in 1..(Size + 1)
        BY <3>0, <3>1 DEF Words
      <4>2. /\ IF locked \/ pgerr
               THEN UNCHANGED <<flash, pgerr>>
               ELSE IF flash[i[t]] # Blank
               THEN pgerr' = TRUE /\ UNCHANGED flash
               ELSE /\ flash' = [flash EXCEPT ![i[t]] = backup[i[t]]]
                    /\ UNCHANGED pgerr
            /\ i' = [i EXCEPT ![t] = i[t] + 1]
            /\ UNCHANGED <<pc, kept>>
        BY <2>9, <3>0, <3>1 DEF Program
      <4>3. i' \in [Threads -> 1..(Size + 1)]
        BY <4>1, <4>2
      <4>4. flash' \in [Words -> Data \cup {Blank}] /\ pgerr' \in BOOLEAN
        BY <4>1, <4>2
      <4> QED
        BY <2>9, <4>2, <4>3, <4>4 DEF Program
    <3>2. CASE i[t] > Size
      <4>1. /\ Goto(t, "Lock")
            /\ kept' = [kept EXCEPT ![rec[t]] = backup[ValAt[rec[t]]]]
            /\ i' = [i EXCEPT ![t] = 1]
            /\ UNCHANGED <<flash, pgerr>>
        BY <2>9, <3>0, <3>2 DEF Program
      <4>2. backup[ValAt[rec[t]]] \in Data \cup {Nothing}
        BY Layout DEF Blank, Nothing
      <4>3. kept' \in [Records -> Data \cup {Nothing}]
        BY <4>1, <4>2
      <4>4. 1 \in 1..(Size + 1)
        BY <3>0
      <4>5. i' \in [Threads -> 1..(Size + 1)]
        BY <4>1, <4>4
      <4> QED
        BY <2>9, <4>1, <4>3, <4>5 DEF Program
    <3> QED
      BY <3>0, <3>1, <3>2
  <2>10. ASSUME NEW t \in Threads, Lock(t) PROVE TypeOK'
    BY <2>10 DEF Lock
  <2>11. ASSUME Restart, resets' \in 0..MaxResets PROVE TypeOK'
    <3>1. Default \in Data
      BY Layout DEF Default, Data
    <3>2. /\ ram' \in [Records -> [val : Data, crc : Data]]
          /\ rec' \in [Threads -> Records]
      BY <2>11, <3>1, AnyRecordIsOne DEF Restart
    <3>3. /\ i' \in [Threads -> 1..(Size + 1)]
          /\ backup' \in [Words -> Data \cup {Blank}]
      BY <2>11, Layout DEF Restart
    <3>4. kept' \in [Records -> Data \cup {Nothing}]
      <4>1. CASE kept' = kept
        BY <4>1
      <4>2. CASE kept' = [r \in Records |-> Nothing]
        BY <4>2
      <4> QED
        BY <2>11, <4>1, <4>2 DEF Restart
    <3> QED
      BY <2>11, <3>2, <3>3, <3>4 DEF Restart
  <2>12. CASE Reset
    <3>1. resets' \in 0..MaxResets
      BY <2>12, Layout DEF Reset
    <3> QED
      BY <2>11, <2>12, <3>1 DEF Reset
  <2>13. CASE SystemReset
    BY <2>11, <2>13 DEF SystemReset
  <2>14. CASE UNCHANGED vars
    BY <2>14 DEF vars
  <2> QED
    BY <2>1, <2>2, <2>3, <2>4, <2>5, <2>6, <2>7, <2>8, <2>9, <2>10, <2>12,
       <2>13, <2>14 DEF Next, Step
<1> QED
  BY <1>1, <1>2, PTL DEF Spec

-----------------------------------------------------------------------------
(* The strengthening.  Until two threads are in the EEPROM at once, one     *)
(* thread at a time is; what it has copied, changed and programmed so far   *)
(* is known at each of its steps.                                           *)

\* The page holds what the device works with, or what a start must find.
Fits(page, r)  == page[ValAt[r]] = ram[r].val /\ page[CrcAt[r]] = ram[r].val
Keeps(page, r) == kept[r] # Nothing =>
                     page[ValAt[r]] = kept[r] /\ page[CrcAt[r]] = kept[r]

OneAtATime == \A t, u \in Threads : pc[t] \in Busy /\ pc[u] \in Busy => t = u

Readers == \A t \in Threads : pc[t] \in {"ReadCopy", "Take"} => rec[t] \notin booted

\* Where the page is complete: whenever nobody is programming it.
PageKept ==
    (\A t \in Threads : pc[t] # "Program") =>
       /\ \A r \in Records : Keeps(flash, r)
       /\ \A r \in booted :
             (\A t \in Threads : pc[t] \in Writing \ {"Lock"} => rec[t] # r)
                => Fits(flash, r)

\* What the thread has done so far.
Progress(t) ==
    /\ pc[t] \in {"Take", "Replace"} => backup = flash
    /\ pc[t] \in Writing \ {"Sum"} => ram[rec[t]].crc = ram[rec[t]].val
    /\ pc[t] \in {"Copy", "Replace", "Erase", "Program"} => locked = FALSE
    /\ pc[t] \in {"Erase", "Program", "Lock"} =>
          /\ Fits(backup, rec[t])
          /\ \A r \in booted : Fits(backup, r)
          /\ \A r \in Records : r # rec[t] => Keeps(backup, r)
    /\ pc[t] = "Program" =>
          \A w \in Words : flash[w] = IF w < i[t] THEN backup[w] ELSE Blank
    /\ pc[t] = "Lock" => /\ flash = backup /\ Keeps(backup, rec[t])
                         /\ kept[rec[t]] = ram[rec[t]].val
    /\ pc[t] # "Program" => i[t] = 1

IInv ==
    /\ TypeOK
    /\ clash => /\ booted = Records
                /\ \A t \in Threads : pc[t] \notin {"ReadCopy", "Take"}
    /\ ~clash => /\ pgerr = FALSE
                 /\ OneAtATime
                 /\ Readers
                 /\ PageKept
                 /\ \A t \in Threads : Progress(t)

LEMMA Alone ==
  ASSUME TypeOK, OneAtATime, NEW t \in Threads, pc[t] \in Busy
  PROVE  \A u \in Threads : u # t => pc[u] \in {"Idle", "Restart"}
  BY DEF TypeOK, OneAtATime

\* The page when t is the only thread that may be programming it.
LEMMA PageOf ==
  ASSUME IInv, ~clash, NEW t \in Threads, pc[t] \in Busy, pc[t] # "Program"
  PROVE  /\ \A r \in Records : Keeps(flash, r)
         /\ \A r \in booted :
               (pc[t] \in Writing \ {"Lock"} => rec[t] # r) => Fits(flash, r)
<1>1. \A u \in Threads : u # t => pc[u] \in {"Idle", "Restart"}
  BY Alone DEF IInv
<1>2. \A u \in Threads : pc[u] # "Program"
  BY <1>1
<1>3. \A r \in Records : Keeps(flash, r)
  BY <1>2 DEF IInv, PageKept
<1>4. ASSUME NEW r \in booted, pc[t] \in Writing \ {"Lock"} => rec[t] # r
      PROVE  Fits(flash, r)
  <2>1. \A u \in Threads : pc[u] \in Writing \ {"Lock"} => rec[u] # r
    BY <1>1, <1>4 DEF Writing
  <2> QED
    BY <1>2, <2>1 DEF IInv, PageKept
<1> QED
  BY <1>3, <1>4

\* A step of a thread that leaves it at l.
LEMMA StepKeeps ==
  ASSUME IInv, ~clash, TypeOK', NEW t \in Threads, pc[t] \in Busy,
         NEW l \in Busy \cup {"Idle", "Restart"}, Goto(t, l),
         UNCHANGED <<rec, clash>>, pgerr' = FALSE,
         \A u \in Threads : u # t => i'[u] = i[u],
         l \in {"ReadCopy", "Take"} => rec[t] \notin booted',
         l # "Program" =>
            /\ \A r \in Records : Keeps(flash, r)'
            /\ \A r \in booted' :
                  (l \in Writing \ {"Lock"} => rec[t] # r) => Fits(flash, r)',
         Progress(t)'
  PROVE  IInv'
<1>1. /\ pc'[t] = l
      /\ \A u \in Threads : u # t => /\ pc'[u] = pc[u]
                                    /\ pc'[u] \in {"Idle", "Restart"}
  BY Alone DEF IInv, TypeOK, Goto
<1>2. OneAtATime'
  BY <1>1 DEF OneAtATime, Busy, Writing
<1>3. Readers'
  BY <1>1 DEF Readers
<1>4. PageKept'
  <2>1. SUFFICES ASSUME \A u \in Threads : pc'[u] # "Program"
                 PROVE  /\ \A r \in Records : Keeps(flash, r)'
                        /\ \A r \in booted' :
                             (\A u \in Threads :
                                 pc'[u] \in Writing \ {"Lock"} => rec'[u] # r)
                                => Fits(flash, r)'
    BY DEF PageKept
  <2>2. l # "Program"
    BY <1>1, <2>1
  <2>3. ASSUME NEW r \in booted',
               \A u \in Threads : pc'[u] \in Writing \ {"Lock"} => rec'[u] # r
        PROVE  Fits(flash, r)'
    <3>1. l \in Writing \ {"Lock"} => rec[t] # r
      BY <1>1, <2>3
    <3> QED
      BY <2>2, <3>1
  <2> QED
    BY <2>2, <2>3
<1>5. ASSUME NEW u \in Threads PROVE Progress(u)'
  <2>1. CASE u = t
    BY <2>1
  <2>2. CASE u # t
    <3>1. pc[u] = pc'[u] /\ pc'[u] \in {"Idle", "Restart"} /\ i'[u] = i[u]
      BY <1>1, <2>2
    <3>2. i[u] = 1
      BY <3>1 DEF IInv, Progress
    <3> QED
      BY <3>1, <3>2 DEF Progress, Writing
  <2> QED
    BY <2>1, <2>2
<1> QED
  BY <1>2, <1>3, <1>4, <1>5 DEF IInv

LEMMA TakeKeeps ==
  ASSUME IInv, ~clash, TypeOK', NEW t \in Threads, Take(t)
  PROVE  IInv'
<1> DEFINE r == rec[t]
<1>1. /\ pc[t] = "Take" /\ pc[t] \in Busy
      /\ r \in Records /\ r \notin booted /\ backup = flash /\ i[t] = 1
  BY DEF Take, Busy, IInv, TypeOK, Readers, Progress
<1>2. /\ \A q \in Records : Keeps(flash, q)
      /\ \A q \in booted : Fits(flash, q)
  BY <1>1, PageOf DEF Writing
<1>3. ram \in [Records -> [val : Data, crc : Data]] /\ booted \subseteq Records
      /\ kept \in [Records -> Data \cup {Nothing}]
  BY DEF IInv, TypeOK
<1>4. CASE Whole(backup, r)
  <2>1. /\ ram' = [ram EXCEPT ![r] = [val |-> backup[ValAt[r]],
                                      crc |-> backup[CrcAt[r]]]]
        /\ kept' = [kept EXCEPT ![r] = backup[ValAt[r]]]
        /\ booted' = booted \cup {r}
        /\ Goto(t, "Idle")
    BY <1>4 DEF Take
  <2>2. \A q \in Records : Keeps(flash, q)'
    BY <1>1, <1>2, <1>3, <1>4, <2>1 DEF Keeps, Whole, Take
  <2>3. \A q \in booted' : Fits(flash, q)'
    BY <1>1, <1>2, <1>3, <1>4, <2>1 DEF Fits, Whole, Take
  <2>4. pc'[t] = "Idle" /\ i'[t] = 1
    BY <1>1, <2>1 DEF Take, Goto, IInv, TypeOK
  <2>5. Progress(t)'
    BY <2>4 DEF Progress, Writing
  <2> QED
    BY <1>1, <2>1, <2>2, <2>3, <2>5, StepKeeps DEF Take, IInv
<1>5. CASE ~Whole(backup, r)
  <2>1. /\ ram' = [ram EXCEPT ![r].val = Default]
        /\ UNCHANGED <<kept, booted>>
        /\ Goto(t, "Sum")
    BY <1>5 DEF Take
  <2>2. \A q \in Records : Keeps(flash, q)'
    BY <1>2, <2>1 DEF Keeps, Take
  <2>3. \A q \in booted' : Fits(flash, q)'
    BY <1>1, <1>2, <1>3, <2>1 DEF Fits, Take
  <2>4. pc'[t] = "Sum" /\ i'[t] = 1
    BY <1>1, <2>1 DEF Take, Goto, IInv, TypeOK
  <2>5. Progress(t)'
    BY <2>4 DEF Progress, Writing
  <2>6. "Sum" \in Busy
    BY DEF Busy, Writing
  <2> QED
    BY <1>1, <2>1, <2>2, <2>3, <2>5, <2>6, StepKeeps DEF Take, IInv
<1> QED
  BY <1>4, <1>5

LEMMA SumKeeps ==
  ASSUME IInv, ~clash, TypeOK', NEW t \in Threads, Sum(t)
  PROVE  IInv'
<1>1. /\ pc[t] = "Sum" /\ pc[t] \in Busy /\ "Unlock" \in Busy
      /\ Goto(t, "Unlock") /\ i[t] = 1 /\ rec[t] \in Records
      /\ ram' = [ram EXCEPT ![rec[t]].crc = ram[rec[t]].val]
      /\ ram \in [Records -> [val : Data, crc : Data]] /\ booted \subseteq Records
  BY DEF Sum, Busy, Writing, IInv, TypeOK, Progress
<1>2. /\ \A q \in Records : Keeps(flash, q)
      /\ \A q \in booted : rec[t] # q => Fits(flash, q)
  BY <1>1, PageOf
<1>3. \A q \in Records : ram'[q].val = ram[q].val
  BY <1>1
<1>4. /\ \A q \in Records : Keeps(flash, q)'
      /\ \A q \in booted' : rec[t] # q => Fits(flash, q)'
  BY <1>1, <1>2, <1>3 DEF Keeps, Fits, Sum
<1>5. /\ pc'[t] = "Unlock" /\ i'[t] = 1
      /\ ram'[rec'[t]].crc = ram'[rec'[t]].val
  BY <1>1 DEF Sum, Goto, IInv, TypeOK
<1>6. Progress(t)'
  BY <1>5 DEF Progress, Writing
<1> QED
  BY <1>1, <1>4, <1>6, StepKeeps DEF Sum, IInv, Writing

LEMMA UnlockKeeps ==
  ASSUME IInv, ~clash, TypeOK', NEW t \in Threads, Unlock(t)
  PROVE  IInv'
<1>1. /\ pc[t] = "Unlock" /\ pc[t] \in Busy /\ "Copy" \in Busy
      /\ Goto(t, "Copy") /\ i[t] = 1
      /\ ram[rec[t]].crc = ram[rec[t]].val
  BY DEF Unlock, Busy, Writing, IInv, Progress
<1>2. /\ \A q \in Records : Keeps(flash, q)
      /\ \A q \in booted : rec[t] # q => Fits(flash, q)
  BY <1>1, PageOf
<1>3. /\ \A q \in Records : Keeps(flash, q)'
      /\ \A q \in booted' : rec[t] # q => Fits(flash, q)'
  BY <1>2 DEF Keeps, Fits, Unlock
<1>4. /\ pc'[t] = "Copy" /\ i'[t] = 1 /\ locked' = FALSE
      /\ ram'[rec'[t]].crc = ram'[rec'[t]].val
  BY <1>1 DEF Unlock, Goto, IInv, TypeOK
<1>5. Progress(t)'
  BY <1>4 DEF Progress, Writing
<1> QED
  BY <1>1, <1>3, <1>5, StepKeeps DEF Unlock, IInv, Writing

LEMMA CopyKeeps ==
  ASSUME IInv, ~clash, TypeOK', NEW t \in Threads, Copy(t)
  PROVE  IInv'
<1> DEFINE l == IF pc[t] = "Copy" THEN "Replace" ELSE "Take"
<1>1. /\ pc[t] \in Copying /\ pc[t] \in Busy /\ l \in Busy
      /\ Goto(t, l) /\ i[t] = 1
      /\ l # "Program" /\ (l \in Writing \ {"Lock"} => pc[t] \in Writing \ {"Lock"})
      /\ pc[t] \in Writing \ {"Lock"} => l \in Writing \ {"Lock"}
  BY DEF Copy, Copying, Busy, Writing, IInv, Progress
<1>2. /\ \A q \in Records : Keeps(flash, q)
      /\ \A q \in booted :
            (pc[t] \in Writing \ {"Lock"} => rec[t] # q) => Fits(flash, q)
  BY <1>1, PageOf DEF Copying
<1>3. /\ \A q \in Records : Keeps(flash, q)'
      /\ \A q \in booted' :
            (l \in Writing \ {"Lock"} => rec[t] # q) => Fits(flash, q)'
  BY <1>1, <1>2 DEF Keeps, Fits, Copy
<1>4. /\ pc'[t] = l /\ i'[t] = 1 /\ backup' = flash'
      /\ l = "Replace" => /\ locked' = FALSE
                          /\ ram'[rec'[t]].crc = ram'[rec'[t]].val
  BY <1>1 DEF Copy, Copying, Goto, IInv, TypeOK, Progress, Writing
<1>5. l = "Take" => rec[t] \notin booted'
  BY <1>1 DEF IInv, Readers, Copy, Copying
<1>6. l \in {"Take", "Replace"}
  OBVIOUS
<1> HIDE DEF l
<1>7. Progress(t)'
  BY <1>4, <1>6 DEF Progress, Writing
<1> QED
  BY <1>1, <1>3, <1>5, <1>6, <1>7, StepKeeps DEF Copy, IInv

\* The copy with the record put in.
LEMMA ReplaceKeeps ==
  ASSUME IInv, ~clash, TypeOK', NEW t \in Threads, Replace(t)
  PROVE  IInv'
<1> DEFINE r == rec[t]
<1>1. /\ pc[t] = "Replace" /\ pc[t] \in Busy /\ "Erase" \in Busy
      /\ Goto(t, "Erase") /\ i[t] = 1 /\ r \in Records
      /\ backup = flash /\ locked = FALSE /\ ram[r].crc = ram[r].val
      /\ backup' = [backup EXCEPT ![ValAt[r]] = ram[r].val,
                                  ![CrcAt[r]] = ram[r].crc]
      /\ booted \subseteq Records
  BY DEF Replace, Busy, Writing, IInv, TypeOK, Progress
<1>2. /\ \A q \in Records : Keeps(flash, q)
      /\ \A q \in booted : r # q => Fits(flash, q)
  BY <1>1, PageOf DEF Writing
<1>3. /\ \A q \in Records : Keeps(flash, q)'
      /\ \A q \in booted' : r # q => Fits(flash, q)'
  BY <1>2 DEF Keeps, Fits, Replace
<1>4. backup \in [Words -> Data \cup {Blank}]
  BY DEF IInv, TypeOK
<1>5. backup'[ValAt[r]] = ram[r].val /\ backup'[CrcAt[r]] = ram[r].val
  <2>1. ValAt[r] \in Words /\ CrcAt[r] \in Words /\ ValAt[r] # CrcAt[r]
    BY <1>1, Layout, LayoutAssumption
  <2> QED
    BY <1>1, <1>4, <2>1
<1>6. ASSUME NEW q \in Records, q # r
      PROVE  /\ backup'[ValAt[q]] = flash[ValAt[q]]
             /\ backup'[CrcAt[q]] = flash[CrcAt[q]]
  <2>1. /\ ValAt[q] \in Words /\ CrcAt[q] \in Words
        /\ ValAt[r] # CrcAt[q] /\ ValAt[q] # CrcAt[r]
        /\ ValAt[r] # ValAt[q] /\ CrcAt[r] # CrcAt[q]
    BY <1>1, <1>6, Layout, LayoutAssumption
  <2> QED
    BY <1>1, <1>4, <2>1
<1>7. /\ pc'[t] = "Erase" /\ i'[t] = 1 /\ locked' = FALSE
      /\ UNCHANGED <<rec, ram, kept, booted>>
  BY <1>1 DEF Replace, Goto, IInv, TypeOK
<1>8. Fits(backup, r)'
  BY <1>5, <1>7 DEF Fits
<1>9. \A q \in booted : Fits(backup, q)'
  BY <1>1, <1>2, <1>6, <1>7, <1>8 DEF Fits
<1>10. \A q \in Records : q # r => Keeps(backup, q)'
  BY <1>2, <1>6, <1>7 DEF Keeps
<1>11. ram'[rec'[t]].crc = ram'[rec'[t]].val
  BY <1>1, <1>7
<1>12. Progress(t)'
  BY <1>7, <1>8, <1>9, <1>10, <1>11 DEF Progress, Writing
<1> QED
  BY <1>1, <1>3, <1>12, StepKeeps DEF Replace, IInv, Writing

LEMMA EraseKeeps ==
  ASSUME IInv, ~clash, TypeOK', NEW t \in Threads, Erase(t)
  PROVE  IInv'
<1>1. /\ pc[t] = "Erase" /\ pc[t] \in Busy /\ "Program" \in Busy
      /\ Goto(t, "Program") /\ i[t] = 1
      /\ locked = FALSE /\ pgerr = FALSE
      /\ ram[rec[t]].crc = ram[rec[t]].val
      /\ Fits(backup, rec[t])
      /\ \A q \in booted : Fits(backup, q)
      /\ \A q \in Records : q # rec[t] => Keeps(backup, q)
  BY DEF Erase, Busy, Writing, IInv, Progress
<1>2. /\ pc'[t] = "Program" /\ i'[t] = 1
      /\ flash' = [w \in Words |-> Blank]
      /\ UNCHANGED <<rec, ram, kept, booted, backup, locked, pgerr>>
  BY <1>1 DEF Erase, Goto, IInv, TypeOK
<1>3. \A w \in Words : flash'[w] = IF w < i'[t] THEN backup'[w] ELSE Blank
  BY <1>2 DEF Words
<1>4. Progress(t)'
  BY <1>1, <1>2, <1>3 DEF Progress, Writing, Fits, Keeps
<1> QED
  BY <1>1, <1>2, <1>4, StepKeeps DEF Erase, IInv

LEMMA ProgramKeeps ==
  ASSUME IInv, ~clash, TypeOK', NEW t \in Threads, Program(t)
  PROVE  IInv'
<1> DEFINE r == rec[t]
<1>1. /\ pc[t] = "Program" /\ pc[t] \in Busy /\ "Lock" \in Busy
      /\ r \in Records /\ i[t] \in 1..(Size + 1) /\ Size \in Nat
      /\ locked = FALSE /\ pgerr = FALSE
      /\ ram[r].crc = ram[r].val
      /\ flash \in [Words -> Data \cup {Blank}]
      /\ backup \in [Words -> Data \cup {Blank}]
      /\ booted \subseteq Records
  BY Layout DEF Program, Busy, Writing, IInv, TypeOK, Progress
<1>2. /\ Fits(backup, r)
      /\ \A q \in booted : Fits(backup, q)
      /\ \A q \in Records : q # r => Keeps(backup, q)
      /\ \A w \in Words : flash[w] = IF w < i[t] THEN backup[w] ELSE Blank
  BY <1>1 DEF IInv, Progress
<1>3. UNCHANGED <<locked, backup, ram, rec, booted, saves, resets, clash>>
  BY DEF Program
<1>4. CASE i[t] <= Size
  <2>1. i[t] \in Words /\ flash[i[t]] = Blank
    BY <1>1, <1>2, <1>4 DEF Words
  <2>2. /\ flash' = [flash EXCEPT ![i[t]] = backup[i[t]]]
        /\ i' = [i EXCEPT ![t] = i[t] + 1]
        /\ UNCHANGED <<pgerr, pc, kept>>
    BY <1>1, <1>4, <2>1 DEF Program
  <2>3. i'[t] = i[t] + 1
    BY <2>2 DEF IInv, TypeOK
  <2>4. ASSUME NEW w \in Words
        PROVE  flash'[w] = IF w < i'[t] THEN backup'[w] ELSE Blank
    <3>1. CASE w = i[t]
      BY <1>1, <1>3, <2>1, <2>2, <2>3, <3>1
    <3>2. CASE w # i[t]
      <4>1. w \in Nat /\ (w < i[t] + 1 <=> w < i[t])
        BY <1>1, <3>2 DEF Words
      <4> QED
        BY <1>1, <1>2, <1>3, <2>2, <2>3, <3>2, <4>1
    <3> QED
      BY <3>1, <3>2
  <2>5. pc'[t] = "Program" /\ Goto(t, "Program") /\ \A u \in Threads : u # t => i'[u] = i[u]
    BY <1>1, <2>2 DEF Goto, IInv, TypeOK
  <2>6. Progress(t)'
    BY <1>1, <1>2, <1>3, <2>2, <2>4, <2>5 DEF Progress, Writing, Fits, Keeps
  <2> QED
    BY <1>1, <1>3, <2>2, <2>5, <2>6, StepKeeps
<1>5. CASE i[t] > Size
  <2>1. /\ Goto(t, "Lock")
        /\ kept' = [kept EXCEPT ![r] = backup[ValAt[r]]]
        /\ i' = [i EXCEPT ![t] = 1]
        /\ UNCHANGED <<flash, pgerr>>
    BY <1>1, <1>5 DEF Program
  <2>2. flash = backup
    <3>1. \A w \in Words : flash[w] = backup[w]
      BY <1>1, <1>2, <1>5 DEF Words
    <3> QED
      BY <1>1, <3>1
  <2>3. /\ pc'[t] = "Lock" /\ i'[t] = 1
        /\ \A u \in Threads : u # t => i'[u] = i[u]
    BY <2>1 DEF Goto, IInv, TypeOK
  <2>4. ASSUME NEW q \in Records PROVE Keeps(backup, q)'
    <3>1. kept \in [Records -> Data \cup {Nothing}]
      BY DEF IInv, TypeOK
    <3>2. CASE q = r
      BY <1>1, <1>2, <1>3, <2>1, <3>1, <3>2 DEF Keeps, Fits
    <3>3. CASE q # r
      BY <1>1, <1>2, <1>3, <2>1, <3>1, <3>3 DEF Keeps
    <3> QED
      BY <3>2, <3>3
  <2>5. /\ Fits(backup, r)'
        /\ \A q \in booted' : Fits(backup, q)'
    BY <1>2, <1>3 DEF Fits
  <2>6. flash' = backup'
    BY <1>3, <2>1, <2>2
  <2>7. /\ \A q \in Records : Keeps(flash, q)'
        /\ \A q \in booted' : Fits(flash, q)'
    BY <2>4, <2>5, <2>6 DEF Keeps, Fits
  <2>8. kept'[r] = ram'[r].val
    BY <1>1, <1>2, <1>3, <2>1 DEF Fits, IInv, TypeOK
  <2>9. Progress(t)'
    BY <1>1, <1>3, <2>3, <2>4, <2>5, <2>6, <2>8 DEF Progress, Writing
  <2> QED
    BY <1>1, <1>3, <2>1, <2>3, <2>7, <2>9, StepKeeps
<1> QED
  BY <1>1, <1>4, <1>5

LEMMA LockKeeps ==
  ASSUME IInv, ~clash, TypeOK', NEW t \in Threads, Lock(t)
  PROVE  IInv'
<1> DEFINE l == IF rec[t] \in booted /\ <<t, rec[t]>> \in Restarts
                THEN "Restart" ELSE "Idle"
<1>1. /\ pc[t] = "Lock" /\ pc[t] \in Busy /\ Goto(t, l) /\ i[t] = 1
      /\ l \in {"Idle", "Restart"}
      /\ booted' = booted \cup {rec[t]}
      /\ UNCHANGED <<flash, pgerr, ram, rec, i, clash, kept>>
      /\ flash = backup /\ Fits(backup, rec[t])
  BY DEF Lock, Busy, Writing, IInv, Progress
<1>2. /\ \A q \in Records : Keeps(flash, q)
      /\ \A q \in booted : Fits(flash, q)
  BY <1>1, PageOf
<1>3. /\ \A q \in Records : Keeps(flash, q)'
      /\ \A q \in booted' : Fits(flash, q)'
  BY <1>1, <1>2 DEF Keeps, Fits
<1>4. pc'[t] = l /\ i'[t] = 1
  BY <1>1 DEF Goto, IInv, TypeOK
<1> HIDE DEF l
<1>5. Progress(t)'
  BY <1>1, <1>4 DEF Progress, Writing
<1> QED
  BY <1>1, <1>3, <1>5, StepKeeps DEF IInv

\* A thread that starts to read or to save while nobody is in the EEPROM.
LEMMA EnterKeeps ==
  ASSUME IInv, ~clash, TypeOK', Idle, NEW t \in Threads,
         NEW l \in {"ReadCopy", "Sum"}, Goto(t, l),
         NEW r \in Records, rec' = [rec EXCEPT ![t] = r],
         l = "ReadCopy" => r \notin booted /\ ram' = ram,
         \A q \in Records : q # r => ram'[q] = ram[q],
         UNCHANGED <<flash, pgerr, i, booted, kept, clash>>
  PROVE  IInv'
<1>1. /\ pc'[t] = l /\ rec'[t] = r
      /\ \A u \in Threads : u # t => /\ pc'[u] = pc[u] /\ pc'[u] \notin Busy
                                    /\ pc'[u] \in {"Idle", "Restart"}
  BY DEF Idle, IInv, TypeOK, Goto
<1>2. \A u \in Threads : pc[u] \notin Busy /\ pc[u] # "Program" /\ i[u] = 1
  BY DEF Idle, IInv, Progress, Busy, Writing
<1>3. /\ \A q \in Records : Keeps(flash, q)
      /\ \A q \in booted : Fits(flash, q)
  BY <1>2 DEF IInv, PageKept, Busy
<1>4. OneAtATime'
  BY <1>1 DEF OneAtATime
<1>5. Readers'
  BY <1>1 DEF Readers
<1>6. PageKept'
  <2>1. \A q \in Records : Keeps(flash, q)'
    BY <1>3 DEF Keeps
  <2>2. ASSUME NEW q \in booted',
               \A u \in Threads : pc'[u] \in Writing \ {"Lock"} => rec'[u] # q
        PROVE  Fits(flash, q)'
    <3>1. q \in Records /\ q \in booted
      BY <2>2 DEF IInv, TypeOK
    <3>2. ram'[q] = ram[q]
      <4>1. CASE l = "ReadCopy"
        BY <4>1
      <4>2. CASE l = "Sum"
        BY <1>1, <2>2, <3>1, <4>2 DEF Writing
      <4> QED
        BY <4>1, <4>2
    <3> QED
      BY <1>3, <3>1, <3>2 DEF Fits
  <2> QED
    BY <2>1, <2>2 DEF PageKept
<1>7. ASSUME NEW u \in Threads PROVE Progress(u)'
  <2>1. pc'[u] \in {"ReadCopy", "Sum", "Idle", "Restart"} /\ i'[u] = 1
    BY <1>1, <1>2
  <2> QED
    BY <2>1 DEF Progress, Writing
<1> QED
  BY <1>4, <1>5, <1>6, <1>7 DEF IInv

LEMMA BootReadKeeps ==
  ASSUME IInv, TypeOK', NEW r \in Records, BootRead(r)
  PROVE  IInv'
<1> DEFINE t == Reader[r]
<1>1. /\ t \in Threads /\ r \notin booted /\ Idle
      /\ rec' = [rec EXCEPT ![t] = r] /\ Goto(t, "ReadCopy")
      /\ UNCHANGED <<flash, pgerr, ram, i, booted, kept, clash>>
  BY Layout DEF BootRead
<1>2. ~clash
  BY <1>1 DEF IInv
<1> HIDE DEF t
<1> QED
  BY <1>1, <1>2, EnterKeeps

LEMMA SaveKeeps ==
  ASSUME IInv, TypeOK', NEW t \in Threads, NEW r \in Records, Save(t, r)
  PROVE  IInv'
<1>1. /\ booted = Records /\ Goto(t, "Sum")
      /\ ram' = [ram EXCEPT ![r].val = saves + 1]
      /\ rec' = [rec EXCEPT ![t] = r]
      /\ clash' = (clash \/ ~Idle)
      /\ UNCHANGED <<flash, pgerr, i, booted, kept>>
  BY DEF Save
<1>2. CASE ~clash /\ Idle
  <2>1. \A q \in Records : q # r => ram'[q] = ram[q]
    BY <1>1 DEF IInv, TypeOK
  <2>2. clash' = clash
    BY <1>1, <1>2 DEF IInv, TypeOK
  <2>3. "Sum" \in {"ReadCopy", "Sum"} /\ "Sum" # "ReadCopy"
    OBVIOUS
  <2> QED
    BY <1>1, <1>2, <2>1, <2>2, <2>3, EnterKeeps
<1>3. CASE clash \/ ~Idle
  <2>1. \A u \in Threads : pc[u] \notin {"ReadCopy", "Take"}
    BY <1>1 DEF IInv, Readers, TypeOK
  <2>2. \A u \in Threads : pc'[u] \notin {"ReadCopy", "Take"}
    BY <1>1, <2>1 DEF Goto, IInv, TypeOK
  <2>3. clash' = TRUE /\ booted' = Records
    BY <1>1, <1>3 DEF IInv, TypeOK
  <2> QED
    BY <2>2, <2>3 DEF IInv
<1> QED
  BY <1>2, <1>3 DEF IInv, TypeOK

\* After two threads met, all that is known is that nobody reads.
LEMMA ClashKeeps ==
  ASSUME IInv, clash, TypeOK', NEW t \in Threads, Step(t)
  PROVE  IInv'
<1>1. booted = Records /\ \A u \in Threads : pc[u] \notin {"ReadCopy", "Take"}
  BY DEF IInv
<1>2. clash' = clash /\ booted \subseteq booted'
  BY DEF Step, Take, Sum, Unlock, Copy, Replace, Erase, Program, Lock
<1>3. booted' = Records
  BY <1>1, <1>2 DEF TypeOK
<1>4. \/ \E l \in {"Unlock", "Copy", "Replace", "Erase", "Program", "Lock",
                  "Restart", "Idle"} : pc' = [pc EXCEPT ![t] = l]
      \/ pc' = pc
  BY <1>1 DEF Step, Take, Sum, Unlock, Copy, Copying, Replace, Erase, Program,
              Lock, Goto
<1>5. \A u \in Threads : pc'[u] \notin {"ReadCopy", "Take"}
  BY <1>1, <1>4 DEF IInv, TypeOK
<1> QED
  BY <1>2, <1>3, <1>5 DEF IInv

LEMMA RestartKeeps ==
  ASSUME IInv, TypeOK', Restart
  PROVE  IInv'
<1>1. /\ pgerr' = FALSE /\ clash' = FALSE /\ booted' = {}
      /\ \A t \in Threads : pc'[t] = "Idle" /\ i'[t] = 1
      /\ UNCHANGED flash
  BY DEF Restart
<1>2. ASSUME NEW r \in Records PROVE Keeps(flash, r)'
  <2>1. CASE clash \/ \E t \in Threads : pc[t] = "Program"
    BY <2>1 DEF Restart, Keeps
  <2>2. CASE ~(clash \/ \E t \in Threads : pc[t] = "Program")
    <3>1. Keeps(flash, r)
      BY <2>2 DEF IInv, PageKept, TypeOK
    <3>2. kept' = kept
      BY <2>2 DEF Restart
    <3> QED
      BY <1>1, <3>1, <3>2 DEF Keeps
  <2> QED
    BY <2>1, <2>2
<1>3. PageKept'
  BY <1>1, <1>2 DEF PageKept
<1>4. OneAtATime' /\ Readers' /\ \A t \in Threads : Progress(t)'
  BY <1>1 DEF OneAtATime, Readers, Progress, Busy, Writing
<1> QED
  BY <1>1, <1>3, <1>4 DEF IInv

LEMMA InitInvariant ==
  ASSUME Init, TypeOK
  PROVE  IInv
<1>1. /\ pgerr = FALSE /\ clash = FALSE /\ booted = {}
      /\ \A t \in Threads : pc[t] = "Idle" /\ i[t] = 1
  BY DEF Init
<1>2. ASSUME NEW r \in Records PROVE Keeps(flash, r)
  <2>1. CASE kept[r] = Nothing
    BY <2>1 DEF Keeps
  <2>2. CASE kept[r] = Default
    <3>1. ValAt[r] \in Words /\ CrcAt[r] \in Words
      BY Layout
    <3>2. flash[ValAt[r]] = Default /\ flash[CrcAt[r]] = Default
      BY <2>2, <3>1 DEF Init
    <3> QED
      BY <2>2, <3>2 DEF Keeps
  <2> QED
    BY <2>1, <2>2 DEF Init
<1>3. PageKept
  BY <1>1, <1>2 DEF PageKept
<1>4. OneAtATime /\ Readers /\ \A t \in Threads : Progress(t)
  BY <1>1 DEF OneAtATime, Readers, Progress, Busy, Writing
<1> QED
  BY <1>1, <1>3, <1>4 DEF IInv

LEMMA StutterKeeps ==
  ASSUME IInv, UNCHANGED vars
  PROVE  IInv'
  BY DEF IInv, vars, TypeOK, OneAtATime, Readers, PageKept, Progress, Fits, Keeps

LEMMA Invariant == Spec => []IInv
<1>1. Init /\ TypeOK => IInv
  BY InitInvariant
<1>2. IInv /\ TypeOK' /\ [Next]_vars => IInv'
  <2> SUFFICES ASSUME IInv, TypeOK', [Next]_vars PROVE IInv'
    OBVIOUS
  <2>1. ASSUME NEW t \in Threads, Step(t) PROVE IInv'
    <3>1. CASE clash
      BY <2>1, <3>1, ClashKeeps
    <3>2. CASE ~clash
      BY <2>1, <3>2, TakeKeeps, SumKeeps, UnlockKeeps, CopyKeeps, ReplaceKeeps,
         EraseKeeps, ProgramKeeps, LockKeeps DEF Step
    <3> QED
      BY <3>1, <3>2 DEF IInv, TypeOK
  <2>2. ASSUME NEW r \in Records, BootRead(r) PROVE IInv'
    BY <2>2, BootReadKeeps
  <2>3. ASSUME NEW t \in Threads, NEW r \in Records, Save(t, r) PROVE IInv'
    BY <2>3, SaveKeeps
  <2>4. CASE Reset \/ SystemReset
    BY <2>4, RestartKeeps DEF Reset, SystemReset
  <2>5. CASE UNCHANGED vars
    BY <2>5, StutterKeeps
  <2> QED
    BY <2>1, <2>2, <2>3, <2>4, <2>5 DEF Next
<1> QED
  BY <1>1, <1>2, TypeCorrect, PTL DEF Spec

-----------------------------------------------------------------------------
\* The flash controller's error, after which every save fails without a word,
\* needs two threads in EEPROM_Write at once.
THEOREM ErrorOnlyByClash == Spec => []ErrorNeedsClash
<1>1. IInv => ErrorNeedsClash
  BY DEF IInv, ErrorNeedsClash, TypeOK
<1> QED
  BY <1>1, Invariant, PTL

\* What a device works with is what it would find after a restart: writing
\* one record keeps the others, and no reset leaves half of a page behind.
THEOREM PageIsRam == Spec => []FlashIsRam
<1>1. IInv => FlashIsRam
  <2> SUFFICES ASSUME IInv, ~clash, Idle, NEW r \in booted
               PROVE  Whole(flash, r) /\ flash[ValAt[r]] = ram[r].val
    BY DEF FlashIsRam
  <2>1. Fits(flash, r)
    BY DEF Idle, IInv, PageKept, Busy, Writing
  <2>2. ram[r].val \in Data /\ r \in Records
    BY DEF IInv, TypeOK
  <2>3. ram[r].val # Blank
    BY <2>2, Layout DEF Data, Blank
  <2> QED
    BY <2>1, <2>3 DEF Fits, Whole
<1> QED
  BY <1>1, Invariant, PTL

\* A start finds what was saved last, wherever the reset came but while the
\* page was programmed.
THEOREM LastSaveFound == Spec => StartFindsLastSave
<1>1. ASSUME IInv, NEW t \in Threads, Take(t), kept[rec[t]] # Nothing
      PROVE  ram'[rec[t]].val = kept[rec[t]]
  <2> DEFINE r == rec[t]
  <2>1. /\ pc[t] = "Take" /\ pc[t] \in Busy /\ r \in Records
        /\ ram \in [Records -> [val : Data, crc : Data]]
        /\ kept[r] \in Data \cup {Nothing}
    BY <1>1 DEF Take, Busy, IInv, TypeOK
  <2>2. ~clash
    BY <1>1, <2>1 DEF IInv
  <2>3. backup = flash
    BY <1>1, <2>1, <2>2 DEF IInv, Progress
  <2>4. backup[ValAt[r]] = kept[r] /\ backup[CrcAt[r]] = kept[r]
    BY <1>1, <2>1, <2>2, <2>3, PageOf DEF Keeps
  <2>5. kept[r] # Blank
    BY <1>1 DEF Blank, Nothing
  <2>6. Whole(backup, r)
    BY <2>4, <2>5 DEF Whole
  <2>7. ram' = [ram EXCEPT ![r] = [val |-> backup[ValAt[r]],
                                   crc |-> backup[CrcAt[r]]]]
    BY <1>1, <2>6 DEF Take
  <2> QED
    BY <2>1, <2>4, <2>7
<1>2. IInv => [\A t \in Threads :
                 Take(t) /\ kept[rec[t]] # Nothing
                    => ram'[rec[t]].val = kept[rec[t]]]_vars
  BY <1>1
<1> QED
  BY <1>2, Invariant, PTL DEF StartFindsLastSave

-----------------------------------------------------------------------------
(* RecordStore.                                                            *)

Data0 == [r \in Records |-> ram[r].val]

\* What the applications see of a thread in the EEPROM.
LEMMA SeenOf ==
  ASSUME IInv, ~clash, NEW t \in Threads, pc[t] \in Busy
  PROVE  /\ Pending = IF pc[t] \in Writing \ {"Lock"} THEN {rec[t]} ELSE {}
         /\ (\E u \in Threads : pc[u] = "Program") <=> pc[t] = "Program"
<1>1. \A u \in Threads : u # t => pc[u] \in {"Idle", "Restart"}
  BY Alone DEF IInv
<1> QED
  BY <1>1 DEF Pending, Writing

LEMMA SeenAfter ==
  ASSUME IInv, ~clash, NEW t \in Threads, pc[t] \in Busy,
         NEW l \in Busy \cup {"Idle", "Restart"}, Goto(t, l), rec' = rec
  PROVE  /\ Pending' = IF l \in Writing \ {"Lock"} THEN {rec[t]} ELSE {}
         /\ (\E u \in Threads : pc'[u] = "Program") <=> l = "Program"
<1>1. /\ pc'[t] = l
      /\ \A u \in Threads : u # t => pc'[u] \in {"Idle", "Restart"}
  BY Alone DEF IInv, TypeOK, Goto
<1> QED
  BY <1>1 DEF Pending, Writing

\* Steps that do not show.
LEMMA Unseen ==
  ASSUME IInv, ~clash, NEW t \in Threads, pc[t] \in Busy,
         NEW l \in Busy \cup {"Idle", "Restart"}, Goto(t, l),
         UNCHANGED <<rec, booted, kept, clash>>, Data0' = Data0,
         pc[t] \in Writing \ {"Lock"} <=> l \in Writing \ {"Lock"},
         pc[t] = "Program" <=> l = "Program"
  PROVE  UNCHANGED Store!svars
<1>1. Pending' = Pending
  BY SeenOf, SeenAfter
<1>2. (\E u \in Threads : pc[u] = "Program")'
        = (\E u \in Threads : pc[u] = "Program")
  BY SeenOf, SeenAfter
<1> QED
  BY <1>1, <1>2 DEF Store!svars, Data0


LEMMA TakeSeen ==
  ASSUME IInv, ~clash, NEW t \in Threads, NEW r \in Records, rec[t] = r,
         Take(t)
  PROVE  Store!Load(r) \/ Store!Find(r) \/ Store!Renew(r)
<1>1. /\ pc[t] = "Take" /\ pc[t] \in Busy
      /\ r \in Records /\ r \notin booted /\ backup = flash
      /\ UNCHANGED <<rec, clash>>
  BY DEF Take, Busy, IInv, TypeOK, Readers, Progress
<1>2. Keeps(flash, r)
  BY <1>1, PageOf
<1>3. /\ ram \in [Records -> [val : Data, crc : Data]]
      /\ kept \in [Records -> Data \cup {Nothing}]
      /\ backup \in [Words -> Data \cup {Blank}]
      /\ ValAt[r] \in Words
  BY <1>1, Layout DEF IInv, TypeOK
<1>4. Pending = {} /\ ~(\E u \in Threads : pc[u] = "Program")
  BY <1>1, SeenOf DEF Writing
<1>5. Store!Fresh(r)
  BY <1>1, <1>4 DEF Store!Fresh
<1>6. CASE Whole(backup, r)
  <2> DEFINE d == backup[ValAt[r]]
  <2>1. /\ ram' = [ram EXCEPT ![r] = [val |-> d, crc |-> backup[CrcAt[r]]]]
        /\ kept' = [kept EXCEPT ![r] = d]
        /\ booted' = booted \cup {r}
        /\ Goto(t, "Idle")
    BY <1>6 DEF Take
  <2>2. d \in Data
    BY <1>3, <1>6 DEF Whole
  <2> HIDE DEF d
  <2>3. Data0' = [Data0 EXCEPT ![r] = d]
    BY <1>1, <1>3, <2>1 DEF Data0
  <2>4. Pending' = {} /\ ~(\E u \in Threads : pc'[u] = "Program")
    BY <1>1, <2>1, SeenAfter DEF Writing
  <2>5. UNCHANGED <<Pending, \E u \in Threads : pc[u] = "Program", ~clash>>
    BY <1>1, <1>4, <2>4
  <2>6. CASE kept[r] = Nothing
    BY <1>5, <2>1, <2>2, <2>3, <2>5, <2>6 DEF Store!Find, Data0
  <2>7. CASE kept[r] # Nothing
    <3>1. kept[r] = d
      BY <1>1, <1>2, <2>7 DEF Keeps, d
    <3>2. kept' = kept
      BY <1>3, <2>1, <3>1
    <3> QED
      BY <1>5, <2>1, <2>3, <2>5, <2>7, <3>1, <3>2 DEF Store!Load, Data0
  <2> QED
    BY <2>6, <2>7
<1>7. CASE ~Whole(backup, r)
  <2>1. /\ ram' = [ram EXCEPT ![r].val = Default]
        /\ UNCHANGED <<kept, booted>>
        /\ Goto(t, "Sum")
    BY <1>7 DEF Take
  <2>2. kept[r] = Nothing
    <3> SUFFICES ASSUME kept[r] # Nothing PROVE FALSE
      OBVIOUS
    <3>1. backup[ValAt[r]] = kept[r] /\ backup[CrcAt[r]] = kept[r]
      BY <1>1, <1>2 DEF Keeps
    <3>2. kept[r] # Blank
      BY DEF Blank, Nothing
    <3> QED
      BY <1>7, <3>1, <3>2 DEF Whole
  <2>3. Default \in Data
    BY Layout DEF Default, Data
  <2>4. Data0' = [Data0 EXCEPT ![r] = Default]
    BY <1>1, <1>3, <2>1 DEF Data0
  <2>5. Pending' = {r} /\ ~(\E u \in Threads : pc'[u] = "Program")
    BY <1>1, <2>1, SeenAfter DEF Writing, Busy
  <2>6. UNCHANGED <<\E u \in Threads : pc[u] = "Program", ~clash>>
    BY <1>1, <1>4, <2>5
  <2> QED
    BY <1>5, <2>1, <2>2, <2>3, <2>4, <2>5, <2>6 DEF Store!Renew, Data0
<1> QED
  BY <1>6, <1>7

LEMMA EraseSeen ==
  ASSUME IInv, ~clash, NEW t \in Threads, Erase(t)
  PROVE  Store!Begin
<1>1. /\ pc[t] = "Erase" /\ pc[t] \in Busy /\ Goto(t, "Program")
      /\ "Program" \in Busy
      /\ UNCHANGED <<ram, rec, booted, kept, clash>>
  BY DEF Erase, Busy, Writing
<1>2. Pending = {rec[t]} /\ ~(\E u \in Threads : pc[u] = "Program")
  BY <1>1, SeenOf DEF Writing
<1>3. Pending' = {rec[t]} /\ \E u \in Threads : pc'[u] = "Program"
  BY <1>1, SeenAfter DEF Writing
<1>4. (\E u \in Threads : pc[u] = "Program")' = TRUE
  BY <1>3
<1> QED
  BY <1>1, <1>2, <1>3, <1>4 DEF Store!Begin

LEMMA ProgramSeen ==
  ASSUME IInv, ~clash, NEW t \in Threads, NEW r \in Records, rec[t] = r,
         Program(t)
  PROVE  Store!Store(r) \/ UNCHANGED Store!svars
<1>1. /\ pc[t] = "Program" /\ pc[t] \in Busy /\ "Lock" \in Busy
      /\ rec[t] \in Records /\ Size \in Nat /\ i[t] \in 1..(Size + 1)
      /\ UNCHANGED <<ram, rec, booted, clash>>
      /\ Fits(backup, rec[t])
  BY Layout DEF Program, Busy, Writing, IInv, TypeOK, Progress
<1>2. CASE i[t] <= Size
  <2>1. UNCHANGED <<pc, kept>>
    BY <1>1, <1>2 DEF Program
  <2> QED
    BY <1>1, <2>1 DEF Store!svars, Pending
<1>3. CASE i[t] > Size
  <2>1. Goto(t, "Lock") /\ kept' = [kept EXCEPT ![rec[t]] = Data0[rec[t]]]
    BY <1>1, <1>3 DEF Program, Fits, Data0
  <2>2. Pending = {rec[t]} /\ \E u \in Threads : pc[u] = "Program"
    BY <1>1, SeenOf DEF Writing
  <2>3. Pending' = {} /\ ~(\E u \in Threads : pc'[u] = "Program")
    BY <1>1, <2>1, SeenAfter DEF Writing
  <2>4. Data0' = Data0 /\ Pending' = Pending \ {rec[t]}
    BY <1>1, <2>2, <2>3 DEF Data0
  <2>5. (\E u \in Threads : pc[u] = "Program")' = FALSE
    BY <2>3
  <2> QED
    BY <1>1, <2>1, <2>2, <2>4, <2>5 DEF Store!Store, Data0
<1> QED
  BY <1>1, <1>2, <1>3

LEMMA LockSeen ==
  ASSUME IInv, ~clash, NEW t \in Threads, NEW r \in Records, rec[t] = r,
         Lock(t)
  PROVE  Store!Load(r) \/ UNCHANGED Store!svars
<1> DEFINE l == IF rec[t] \in booted /\ <<t, rec[t]>> \in Restarts
                THEN "Restart" ELSE "Idle"
<1>1. /\ pc[t] = "Lock" /\ pc[t] \in Busy /\ Goto(t, l)
      /\ l \in {"Idle", "Restart"}
      /\ booted' = booted \cup {rec[t]}
      /\ UNCHANGED <<ram, rec, kept, clash>>
      /\ kept[rec[t]] = ram[rec[t]].val /\ rec[t] \in Records
      /\ ram \in [Records -> [val : Data, crc : Data]]
  BY DEF Lock, Busy, Writing, IInv, Progress, TypeOK
<1> HIDE DEF l
<1>2. Pending = {} /\ ~(\E u \in Threads : pc[u] = "Program")
  BY <1>1, SeenOf DEF Writing
<1>3. Pending' = {} /\ ~(\E u \in Threads : pc'[u] = "Program")
  BY <1>1, SeenAfter DEF Writing
<1>4. UNCHANGED <<Pending, \E u \in Threads : pc[u] = "Program", ~clash>>
      /\ Data0' = Data0
  BY <1>1, <1>2, <1>3 DEF Data0
<1>5. CASE rec[t] \in booted
  BY <1>1, <1>4, <1>5 DEF Store!svars, Data0
<1>6. CASE rec[t] \notin booted
  <2>1. kept[rec[t]] # Nothing
    <3>1. ram[rec[t]].val \in Data
      BY <1>1
    <3> QED
      BY <1>1, <3>1, Layout DEF Data, Nothing
  <2>2. Data0 = [Data0 EXCEPT ![rec[t]] = kept[rec[t]]]
    BY <1>1 DEF Data0
  <2> QED
    BY <1>1, <1>2, <1>4, <1>6, <2>1, <2>2
    DEF Store!Load, Store!Fresh, Data0
<1> QED
  BY <1>5, <1>6

\* What a step may do to the store of records.
StoreStep == [Store!Next]_(Store!svars)

LEMMA Stutters == ASSUME UNCHANGED Store!svars PROVE StoreStep
  BY DEF StoreStep

LEMMA RecordMoves ==
  ASSUME NEW r \in Records,
         \/ Store!Load(r) \/ Store!Find(r) \/ Store!Renew(r)
         \/ Store!Change(r) \/ Store!Store(r)
  PROVE  StoreStep
  BY DEF StoreStep, Store!Next

LEMMA StepSeen ==
  ASSUME IInv, ~clash, NEW t \in Threads, Step(t)
  PROVE  StoreStep
<1>0. PICK r \in Records : rec[t] = r
  BY DEF IInv, TypeOK
<1>1. CASE Take(t)
  BY <1>0, <1>1, TakeSeen, Stutters, RecordMoves
<1>2. CASE Sum(t)
  <2>1. /\ pc[t] = "Sum" /\ pc[t] \in Busy /\ "Unlock" \in Busy
        /\ Goto(t, "Unlock") /\ UNCHANGED <<rec, booted, kept, clash>>
        /\ ram' = [ram EXCEPT ![rec[t]].crc = ram[rec[t]].val]
        /\ ram \in [Records -> [val : Data, crc : Data]]
    BY <1>2 DEF Sum, Busy, Writing, IInv, TypeOK
  <2>2. Data0' = Data0
    BY <2>1 DEF Data0
  <2> QED
    BY <2>1, <2>2, Unseen, Stutters DEF Writing
<1>3. CASE Unlock(t) \/ Copy(t) \/ Replace(t)
  <2>1. /\ pc[t] \in {"Unlock", "Copy", "ReadCopy", "Replace"}
        /\ Goto(t, IF pc[t] = "Unlock" THEN "Copy" ELSE
                   IF pc[t] = "Copy" THEN "Replace" ELSE
                   IF pc[t] = "ReadCopy" THEN "Take" ELSE "Erase")
        /\ UNCHANGED <<ram, rec, booted, kept, clash>>
    BY <1>3 DEF Unlock, Copy, Copying, Replace
  <2>2. Data0' = Data0
    BY <2>1 DEF Data0
  <2> QED
    BY <2>1, <2>2, Unseen, Stutters DEF Writing, Busy
<1>4. CASE Erase(t)
  BY <1>4, EraseSeen DEF StoreStep, Store!Next
<1>5. CASE Program(t)
  BY <1>0, <1>5, ProgramSeen, Stutters, RecordMoves
<1>6. CASE Lock(t)
  BY <1>0, <1>6, LockSeen, Stutters, RecordMoves
<1> QED
  BY <1>1, <1>2, <1>3, <1>4, <1>5, <1>6 DEF Step

LEMMA BootReadSeen ==
  ASSUME IInv, NEW r \in Records, BootRead(r)
  PROVE  UNCHANGED Store!svars
<1>1. /\ Idle /\ Reader[r] \in Threads /\ Goto(Reader[r], "ReadCopy")
      /\ rec' = [rec EXCEPT ![Reader[r]] = r]
      /\ UNCHANGED <<ram, booted, kept, clash>>
  BY Layout DEF BootRead
<1>2. \A u \in Threads : /\ pc[u] \notin Writing /\ pc[u] # "Program"
                         /\ pc'[u] \notin Writing /\ pc'[u] # "Program"
  BY <1>1 DEF Idle, Goto, Busy, Writing, IInv, TypeOK
<1>3. Pending = {} /\ Pending' = {}
  BY <1>2 DEF Pending
<1>4. /\ (\E u \in Threads : pc[u] = "Program")' = FALSE
      /\ (\E u \in Threads : pc[u] = "Program") = FALSE
  BY <1>2
<1> QED
  BY <1>1, <1>3, <1>4 DEF Store!svars

LEMMA SaveSeen ==
  ASSUME IInv, TypeOK', NEW t \in Threads, NEW r \in Records, Save(t, r), ~clash'
  PROVE  Store!Change(r)
<1>1. /\ booted = Records /\ Goto(t, "Sum") /\ saves < MaxSaves
      /\ ram' = [ram EXCEPT ![r].val = saves + 1]
      /\ rec' = [rec EXCEPT ![t] = r]
      /\ ~clash /\ Idle
      /\ UNCHANGED <<booted, kept, clash>>
  BY DEF Save, IInv, TypeOK
<1>2. \A u \in Threads : pc[u] \notin Writing /\ pc[u] # "Program"
  BY <1>1 DEF Idle, Busy, Writing
<1>3. /\ pc'[t] = "Sum" /\ rec'[t] = r
      /\ \A u \in Threads : u # t => pc'[u] = pc[u]
  BY <1>1 DEF Goto, IInv, TypeOK
<1>4. Pending = {} /\ Pending' = {r}
  BY <1>2, <1>3 DEF Pending, Writing
<1>5. /\ (\E u \in Threads : pc[u] = "Program")' = FALSE
      /\ (\E u \in Threads : pc[u] = "Program") = FALSE
  BY <1>2, <1>3
<1>6. saves + 1 \in Data
  BY <1>1, Layout DEF Data, IInv, TypeOK
<1>7. Data0' = [Data0 EXCEPT ![r] = saves + 1]
  BY <1>1 DEF Data0, IInv, TypeOK
<1> QED
  BY <1>1, <1>4, <1>5, <1>6, <1>7 DEF Store!Change, Data0

LEMMA RestartSeen ==
  ASSUME IInv, TypeOK', Restart
  PROVE  Store!Crash
<1>1. /\ kept' = IF clash \/ \E t \in Threads : pc[t] = "Program"
                 THEN [r \in Records |-> Nothing] ELSE kept
      /\ ram' \in [Records -> [val : Data, crc : Data]]
      /\ booted' = {} /\ clash' = FALSE
      /\ \A u \in Threads : pc'[u] = "Idle"
  BY DEF Restart, TypeOK
<1>2. Pending' = {}
  BY <1>1 DEF Pending, Writing
<1>3. (\E u \in Threads : pc[u] = "Program")' = FALSE
  BY <1>1
<1>4. Data0' \in [Records -> Data]
  BY <1>1 DEF Data0
<1> QED
  BY <1>1, <1>2, <1>3, <1>4 DEF Store!Crash, Data0

\* To the applications a record is stored in one step, with the data they work
\* with then, and the others stay; a start reads what was stored last. It
\* takes a reset while the page is programmed, or a second thread in it, for
\* any of that to be otherwise.
THEOREM Implements == Spec => ImplementsStore
<1>1. ASSUME Init, TypeOK PROVE Store!Init
  <2>1. /\ kept \in [Records -> Data \cup {Nothing}]
        /\ ram \in [Records -> [val : Data, crc : Data]]
        /\ \A t \in Threads : pc[t] = "Idle"
        /\ booted = {} /\ clash = FALSE
    BY <1>1 DEF Init, TypeOK
  <2>2. Pending = {} /\ (\E t \in Threads : pc[t] = "Program") = FALSE
    BY <2>1 DEF Pending, Writing
  <2>3. Data0 \in [Records -> Data]
    BY <2>1 DEF Data0
  <2> QED
    BY <2>1, <2>2, <2>3 DEF Store!Init, Data0
<1>2. ASSUME IInv, TypeOK', [Next]_vars PROVE StoreStep
  <2>1. CASE clash'
    BY <2>1 DEF StoreStep, Store!Next, Store!Overlap
  <2>2. ASSUME ~clash', NEW t \in Threads, Step(t)
        PROVE  StoreStep
    <3>1. clash' = clash
      BY <2>2 DEF Step, Take, Sum, Unlock, Copy, Replace, Erase, Program, Lock
    <3> QED
      BY <1>2, <2>2, <3>1, StepSeen
  <2>3. ASSUME NEW r \in Records, BootRead(r)
        PROVE  StoreStep
    BY <1>2, <2>3, BootReadSeen, Stutters
  <2>4. ASSUME ~clash', NEW t \in Threads, NEW r \in Records, Save(t, r)
        PROVE  StoreStep
    BY <1>2, <2>4, SaveSeen, RecordMoves
  <2>5. CASE Reset \/ SystemReset
    BY <1>2, <2>5, RestartSeen DEF StoreStep, Reset, SystemReset, Store!Next
  <2>6. CASE UNCHANGED vars
    <3>1. UNCHANGED Store!svars
      BY <2>6 DEF vars, Store!svars, Pending
    <3> QED
      BY <3>1, Stutters
  <2> QED
    BY <1>2, <2>1, <2>2, <2>3, <2>4, <2>5, <2>6 DEF Next
<1> QED
  BY <1>1, <1>2, TypeCorrect, Invariant, PTL
     DEF Spec, ImplementsStore, Store!Spec, StoreStep
=============================================================================
