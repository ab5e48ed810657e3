------------------------------ MODULE AtaProofs ------------------------------
(***************************************************************************)
(* Proofs about Ata: for every disk size, sector count, number of polls    *)
(* and of retries, and for drives that answer late, never or in error.     *)
(***************************************************************************)
EXTENDS Ata, TLAPS

Words == Values \cup {0}
Cmds == {"none", "identify", "read", "write", "flush"}
Device == [busy : BOOLEAN, drq : BOOLEAN, err : BOOLEAN, cmd : Cmds,
           lba : Nat, left : Nat, word : Words]
Record == [op : Ops, drive : Drives, lba : Nat, buf : Seq(Words), count : Nat, at : Stages,
           s : Nat, polls : 0 .. (POLLS - 1), tries : 0 .. RETRIES, late : BOOLEAN]

(***************************************************************************)
(* The inductive invariant.  A drive never has data and work at once, and  *)
(* never works past its last sector.  A call whose registers were all      *)
(* taken is in step with its drive: the drive is free until the command is *)
(* given, and then at the sector the driver's loop is at or, while it has  *)
(* a word to store, at the one before.                                     *)
(***************************************************************************)
Sound(d) ==
  /\ d \in Device
  /\ d.lba + d.left <= SECTORS
  /\ d.busy => ~d.drq /\ ~d.err
  /\ d.drq => ~d.err /\ d.left > 0 /\ d.word = 0
  /\ d.busy /\ d.word # 0 => d.left > 0
  /\ d.word # 0 => d.cmd = "write"

Types ==
  /\ call \in Record /\ ret \in BOOLEAN /\ selected \in Drives
  /\ dev \in [Drives -> Device] /\ \A i \in Drives : Sound(dev[i])
  /\ sector \in [Drives -> [Lba -> Words]]

\* Which stages a call goes through, and what its loop variables are there.
Shape ==
  /\ found \in {<<>>, <<0>>, <<1>>, <<0, 1>>}
  /\ call.op \in {"boot", "identify"} => ~ret
  /\ call.op = "boot" => call.buf = <<>> /\ found = <<>>
  /\ call.op = "identify" =>
       /\ call.at \in {"select", "registers", "command", "present", "bsy", "drq", "data"}
       /\ call.buf = <<>> /\ call.s = 0 /\ call.count = 1 /\ call.lba = 0
       /\ found = <<>> \/ (found = <<0>> /\ call.drive = 1)
  /\ call.op \in {"read", "write"} =>
       /\ call.drive = drive_bit
       /\ call.s < call.count /\ call.lba + call.count <= SECTORS
       /\ call.at \in {"select", "registers", "bsy", "command"} => call.s = 0
       /\ call.s > 0 => selected \in Present
  /\ call.op = "read" =>
       /\ call.at \in {"select", "registers", "bsy", "command", "drq", "data"}
       /\ Len(call.buf) = call.s
  /\ call.op = "write" =>
       /\ call.at \in {"select", "registers", "bsy", "command", "drq", "data", "flush", "flushed"}
       /\ Len(call.buf) = call.count
       /\ call.at \in {"flush", "flushed"} => call.s + 1 = call.count /\ selected \in Present
       /\ \A k \in 1 .. call.count : call.buf[k] \in Values
  /\ call.op \in {"boot", "none"} => call.s <= call.count

\* A read or a write that is not late has its drive from the registers on.
OnTime == call.op \in {"read", "write"} /\ ~call.late

\* What the drive of a call is doing at its stages.
InStep ==
  /\ \A i \in Drives \ Present : dev[i] = Idle
  /\ InCall("data") => My.drq
  /\ OnTime /\ call.at # "select" => selected = call.drive
  /\ OnTime /\ call.at \in {"bsy", "command"} => ~Occupied(My)
  /\ OnTime /\ call.at \in {"drq", "data"} /\ selected \in Present =>
       /\ My.cmd = call.op
       /\ call.op = "read" => My.word = 0
       /\ ~My.err => IF My.word = 0
                     THEN My.lba = call.lba + call.s /\ My.left = call.count - call.s
                     ELSE /\ call.s > 0 /\ My.word = call.buf[call.s]
                          /\ My.lba = call.lba + call.s - 1 /\ My.left = call.count - call.s + 1
  /\ OnTime /\ call.at \in {"flush", "flushed"} =>
       /\ ~My.drq
       /\ My.busy => IF My.word = 0 THEN My.left = 0
                     ELSE My.lba = call.lba + call.s /\ My.left = 1
  /\ call.op \in {"none", "read"} /\ call.buf # <<>> /\ ~call.late =>
       selected = call.drive /\ My.cmd = "read"
  /\ call.op = "none" /\ ret /\ ~call.late => selected = drive_bit /\ ~Occupied(My)

\* What a write has stored so far.
Written ==
  call.op = "write" /\ ~call.late =>
    \A k \in 1 .. call.s :
      (k < call.s \/ call.at # "drq" \/ (My.word = 0 /\ ~My.err)) =>
        sector[call.drive][call.lba + k - 1] = call.buf[k]

Read ==
  call.op # "write" /\ ~call.late =>
    \A k \in 1 .. Len(call.buf) : call.buf[k] = sector[call.drive][call.lba + k - 1]

IInv == Types /\ Shape /\ InStep /\ Written /\ Read

-----------------------------------------------------------------------------
(***************************************************************************)
(* The drive.                                                              *)
(***************************************************************************)
\* A drive that answers offers or takes data if sectors are left.
LEMMA RequestSound ==
  ASSUME NEW d \in Device, d.lba + d.left <= SECTORS, ~d.err, d.word = 0
  PROVE  /\ Sound(Request(d)) /\ Request(d) \in Device /\ ~Request(d).busy
         /\ Request(d).cmd = d.cmd /\ Request(d).lba = d.lba /\ Request(d).word = 0
         /\ Request(d).err = d.err /\ Request(d).left = d.left
<1>1. PICK more \in BOOLEAN : more = (d.left > 0) /\ (more => d.left > 0)
  <2>1. (d.left > 0) \in BOOLEAN
    OBVIOUS
  <2> QED
    BY <2>1, Zenon
<1>2. PICK e \in Device : e = [d EXCEPT !.busy = FALSE, !.drq = more]
  BY DEF Device
<1>3. Request(d) = e
  BY <1>1, <1>2 DEF Request
<1>4. /\ e.busy = FALSE /\ e.drq = more /\ e.err = d.err /\ e.cmd = d.cmd
      /\ e.lba = d.lba /\ e.left = d.left /\ e.word = d.word
  BY <1>2 DEF Device
<1>5. Sound(e)
  BY <1>1, <1>4 DEF Sound
<1> QED
  BY <1>3, <1>4, <1>5

\* A drive that stores a word goes on with the next sector.
LEMMA StoredSound ==
  ASSUME NEW d, Sound(d), d.busy, d.word # 0
  PROVE  /\ Sound(Stored(d)) /\ ~Stored(d).busy /\ ~Stored(d).err
         /\ Stored(d).cmd = d.cmd /\ Stored(d).lba = d.lba + 1 /\ Stored(d).word = 0
         /\ Stored(d).left = d.left - 1
<1>1. d \in Device /\ d.left > 0 /\ d.lba + d.left <= SECTORS /\ ~d.err
  BY DEF Sound
<1>2. d.left - 1 \in Nat /\ d.lba + 1 \in Nat /\ (d.lba + 1) + (d.left - 1) <= SECTORS
  BY <1>1, SectorsAssumption DEF Device
<1>3. PICK e \in Device : e = [d EXCEPT !.left = @ - 1, !.lba = @ + 1, !.word = 0]
  BY <1>1, <1>2 DEF Device, Words
<1>4. /\ e.err = d.err /\ e.word = 0 /\ e.cmd = d.cmd /\ e.left = d.left - 1
      /\ e.lba = d.lba + 1
  BY <1>1, <1>3 DEF Device
<1>5. Stored(d) = Request(e)
  BY <1>3 DEF Stored
<1>6. /\ Sound(Request(e)) /\ ~Request(e).busy
      /\ Request(e).cmd = e.cmd /\ Request(e).lba = e.lba /\ Request(e).word = 0
      /\ Request(e).err = e.err /\ Request(e).left = e.left
  BY <1>1, <1>2, <1>4, RequestSound
<1> QED
  BY <1>1, <1>4, <1>5, <1>6

\* A command that ends in error leaves nothing to do.
LEMMA FailedSound ==
  ASSUME NEW d, Sound(d), d.busy
  PROVE  /\ Sound(Failed(d)) /\ ~Failed(d).busy /\ Failed(d).err /\ Failed(d).cmd = d.cmd
         /\ Failed(d).word = d.word
<1>1. d \in Device /\ ~d.drq /\ d.lba <= SECTORS /\ d.lba \in Nat
  BY SectorsAssumption DEF Sound, Device
<1>2. PICK e \in Device : e = [d EXCEPT !.busy = FALSE, !.err = TRUE, !.left = 0]
  BY <1>1 DEF Device
<1>3. /\ ~e.busy /\ ~e.drq /\ e.err /\ e.left = 0 /\ e.lba = d.lba /\ e.word = d.word
      /\ e.cmd = d.cmd
  BY <1>1, <1>2 DEF Device
<1>4. Sound(e) /\ Failed(d) = e
  BY <1>1, <1>2, <1>3 DEF Sound, Failed
<1> QED
  BY <1>3, <1>4

\* A sector of a write waits to be stored, any other one is done.
LEMMA MovedSound ==
  ASSUME NEW d, Sound(d), d.drq, NEW v \in Words
  PROVE  /\ Sound(Moved(d, v)) /\ Moved(d, v).cmd = d.cmd /\ ~Moved(d, v).err
         /\ ~Moved(d, v).drq
         /\ d.cmd = "write" =>
              Moved(d, v).lba = d.lba /\ Moved(d, v).word = v /\ Moved(d, v).left = d.left
         /\ d.cmd # "write" =>
              /\ Moved(d, v).lba = d.lba + 1 /\ Moved(d, v).word = 0
              /\ Moved(d, v).left = d.left - 1 /\ (d.left = 1 => ~Moved(d, v).busy)
<1>1. d \in Device /\ d.left > 0 /\ d.lba + d.left <= SECTORS /\ ~d.err /\ d.word = 0
  BY DEF Sound
<1>2. d.left - 1 \in Nat /\ d.lba + 1 \in Nat /\ (d.lba + 1) + (d.left - 1) <= SECTORS
  BY <1>1, SectorsAssumption DEF Device
<1>3. PICK more \in BOOLEAN : more = (d.left > 1 \/ d.cmd = "write")
  OBVIOUS
<1>4. CASE d.cmd = "write"
  <2>1. PICK e \in Device : e = [d EXCEPT !.drq = FALSE, !.busy = more, !.word = v]
    BY <1>1, <1>3 DEF Device
  <2>2. /\ e.busy = more /\ ~e.drq /\ e.err = d.err /\ e.left = d.left /\ e.lba = d.lba
        /\ e.word = v /\ e.cmd = d.cmd
    BY <1>1, <2>1 DEF Device
  <2>3. Sound(e) /\ Moved(d, v) = e
    <3>1. Moved(d, v) = e
      BY <1>3, <1>4, <2>1 DEF Moved
    <3> QED
      BY <3>1, <1>1, <1>4, <2>2 DEF Sound
  <2> QED
    BY <1>1, <1>4, <2>2, <2>3
<1>5. CASE d.cmd # "write"
  <2>1. PICK e \in Device : e = [d EXCEPT !.drq = FALSE, !.busy = more, !.left = @ - 1, !.lba = @ + 1]
    BY <1>1, <1>2, <1>3 DEF Device
  <2>2. /\ e.busy = more /\ ~e.drq /\ e.err = d.err /\ e.left = d.left - 1 /\ e.lba = d.lba + 1
        /\ e.word = 0 /\ e.cmd = d.cmd
    BY <1>1, <2>1 DEF Device
  <2>3. Sound(e) /\ Moved(d, v) = e
    <3>1. Moved(d, v) = e
      BY <1>3, <1>5, <2>1 DEF Moved
    <3> QED
      BY <3>1, <1>1, <1>2, <2>2 DEF Sound
  <2>4. d.left = 1 => ~e.busy
    <3>1. more => d.left > 1
      BY <1>3, <1>5, Zenon
    <3>2. more => ~(d.left = 1)
      BY <3>1
    <3> QED
      BY <2>2, <3>2, Zenon
  <2> QED
    BY <1>1, <1>5, <2>2, <2>3, <2>4
<1> QED
  BY <1>4, <1>5

\* A drive that is free starts on the command; another one may go on with
\* its own.
LEMMA CommandedSound ==
  ASSUME NEW d, Sound(d), NEW c \in Cmds, NEW l \in Nat, NEW n \in Nat, l + n <= SECTORS,
         NEW e \in Commanded(d, c, l, n)
  PROVE  /\ Sound(e)
         /\ \/ e = d /\ Occupied(d)
            \/ ~d.busy /\ e.busy /\ ~e.err /\ e.cmd = c /\ e.lba = l /\ e.left = n /\ e.word = 0
<1>1. PICK f \in Device : f = [Idle EXCEPT !.busy = TRUE, !.cmd = c, !.lba = l, !.left = n]
  BY DEF Device, Idle, Cmds, Words
<1>2. f.busy /\ ~f.drq /\ ~f.err /\ f.cmd = c /\ f.lba = l /\ f.left = n /\ f.word = 0
  BY <1>1 DEF Idle
<1>3. Sound(f)
  BY <1>2 DEF Sound
<1>4. (e = d /\ Occupied(d)) \/ (e = f /\ ~d.busy)
  BY <1>1 DEF Commanded, Occupied
<1> QED
  BY <1>2, <1>3, <1>4

LEMMA IdleSound == Sound(Idle) /\ ~Idle.busy /\ ~Idle.drq /\ ~Idle.err /\ Idle.word = 0
<1>1. Idle \in Device
  BY DEF Idle, Device, Cmds, Words
<1> QED
  BY <1>1, SectorsAssumption DEF Idle, Sound

-----------------------------------------------------------------------------
(***************************************************************************)
(* The calls.                                                              *)
(***************************************************************************)
\* The empty call, between two calls; it remembers whether the last was late.
LEMMA NoCallFields ==
  ASSUME NEW l \in BOOLEAN
  PROVE  LET c == [NoCall EXCEPT !.late = l]
         IN  /\ c \in Record /\ c.op = "none" /\ c.buf = <<>> /\ Len(c.buf) = 0
             /\ c.s = 0 /\ c.count = 0 /\ c.late = l
<1>1. <<>> \in Seq(Words) /\ "none" \in Ops /\ 0 \in Drives /\ "select" \in Stages /\ 0 \in Nat
  BY DEF Ops, Drives, Stages
<1>2. Len(<<>>) = 0
  OBVIOUS
<1>3. PICK c \in Record : c = [NoCall EXCEPT !.late = l]
  <2>1. NoCall \in Record
    BY <1>1, LoopsAssumption DEF NoCall, Call, Record
  <2> QED
    BY <2>1 DEF Record
<1>4. c.op = "none" /\ c.buf = <<>> /\ c.s = 0 /\ c.count = 0 /\ c.late = l
  BY <1>3 DEF NoCall, Call
<1> QED
  BY <1>2, <1>3, <1>4

LEMMA NoCallLate == NoCall = [NoCall EXCEPT !.late = FALSE]
<1>1. NoCall.late = FALSE
  BY DEF NoCall, Call
<1> QED
  BY <1>1 DEF NoCall, Call

\* A call that returns without having touched the drive: in failure, or with
\* the drive free.
LEMMA NoCallKeeps ==
  ASSUME IInv, NEW l \in BOOLEAN, call' = [NoCall EXCEPT !.late = l], ret' \in BOOLEAN,
         ret' /\ ~l => selected = drive_bit /\ ~Occupied(My),
         UNCHANGED <<found, selected, dev, sector>>
  PROVE  IInv'
<1>1. /\ call' \in Record /\ call'.op = "none" /\ call'.buf = <<>> /\ Len(call'.buf) = 0
      /\ call'.s = 0 /\ call'.count = 0 /\ call'.late = l
  BY NoCallFields
<1>2. Types'
  BY <1>1 DEF IInv, Types
<1>3. Shape'
  BY <1>1 DEF IInv, Shape
<1>4. InStep'
  <2>1. My' = My /\ drive_bit' = drive_bit
    BY DEF My, drive_bit
  <2> QED
    BY <1>1, <2>1 DEF IInv, InStep, InCall, OnTime
<1>5. Written' /\ Read'
  BY <1>1 DEF Written, Read
<1> QED
  BY <1>2, <1>3, <1>4, <1>5 DEF IInv

\* The false returns of reads and writes.
LEMMA ReturnFalseKeeps ==
  ASSUME IInv, Return(FALSE), UNCHANGED <<found, selected, dev, sector>>
  PROVE  IInv'
<1>1. call.late \in BOOLEAN /\ call' = [NoCall EXCEPT !.late = call.late] /\ ret' = FALSE
  BY DEF Return, IInv, Types, Record
<1> QED
  BY <1>1, NoCallKeeps

\* The fields of an ATA IDENTIFY call.
LEMMA IdentifyFields ==
  ASSUME NEW i \in Drives
  PROVE  /\ Identify(i) \in Record /\ Identify(i).op = "identify" /\ Identify(i).drive = i
         /\ Identify(i).buf = <<>> /\ Len(Identify(i).buf) = 0
         /\ Identify(i).s = 0 /\ Identify(i).count = 1
         /\ Identify(i).lba = 0 /\ Identify(i).at = "select"
<1>1. <<>> \in Seq(Words) /\ "identify" \in Ops /\ "select" \in Stages /\ 0 \in Nat /\ 1 \in Nat
  BY DEF Ops, Stages
<1>2. Len(<<>>) = 0
  OBVIOUS
<1>3. /\ Identify(i) \in Record /\ Identify(i).op = "identify" /\ Identify(i).drive = i
      /\ Identify(i).buf = <<>> /\ Identify(i).s = 0 /\ Identify(i).count = 1
      /\ Identify(i).lba = 0 /\ Identify(i).at = "select"
  BY <1>1, LoopsAssumption DEF Identify, Call, Record
<1> QED
  BY <1>2, <1>3

\* Identifying a drive, after the other one or at boot; whatever the drives
\* are at.
LEMMA IdentifyKeeps ==
  ASSUME IInv, NEW i \in Drives, call' = Identify(i), UNCHANGED <<selected, ret, sector>>, ~ret,
         dev' \in [Drives -> Device], \A j \in Drives : Sound(dev'[j]),
         \A j \in Drives \ Present : dev'[j] = Idle,
         found' = <<>> \/ (found' = << 0 >> /\ i = 1)
  PROVE  IInv'
<1>1. Types'
  BY IdentifyFields DEF IInv, Types
<1>2. Shape'
  BY IdentifyFields DEF IInv, Shape
<1>3. InStep'
  BY IdentifyFields DEF InStep, InCall, OnTime
<1>4. Written' /\ Read'
  BY IdentifyFields DEF Written, Read
<1> QED
  BY <1>1, <1>2, <1>3, <1>4 DEF IInv

\* The counters of the waits are nobody else's concern.
LEMMA CountersKeep ==
  ASSUME IInv, NEW p \in 0 .. (POLLS - 1), NEW t \in 0 .. RETRIES,
         call' = [call EXCEPT !.polls = p, !.tries = t],
         UNCHANGED <<found, selected, ret, dev, sector>>
  PROVE  IInv'
<1>1. call \in Record /\ call' \in Record
  BY DEF IInv, Types, Record
<1>2. /\ call'.op = call.op /\ call'.drive = call.drive /\ call'.lba = call.lba
      /\ call'.buf = call.buf /\ call'.count = call.count /\ call'.at = call.at
      /\ call'.s = call.s /\ call'.late = call.late
  BY <1>1 DEF Record
<1>3. My' = My /\ drive_bit' = drive_bit
  BY DEF My, drive_bit
<1>4. Types'
  BY <1>1 DEF IInv, Types
<1>5. Shape'
  BY <1>2, <1>3 DEF IInv, Shape
<1>6. InStep'
  BY <1>2, <1>3 DEF IInv, InStep, InCall, OnTime
<1>7. Written' /\ Read'
  BY <1>2, <1>3 DEF IInv, Written, Read
<1> QED
  BY <1>4, <1>5, <1>6, <1>7 DEF IInv

\* A call moves to another stage without a word to or from the drive.
LEMMA StageKeeps ==
  ASSUME IInv, NEW stage \in {"bsy", "command", "drq", "data"}, Goto(stage),
         UNCHANGED <<found, selected, ret, dev, sector>>,
         call.op \in {"identify", "read", "write"},
         call.op # "identify" => \/ call.at = "bsy" /\ stage = "command"
                                 \/ call.at = "drq" /\ stage = "data",
         stage = "data" => My.drq
  PROVE  IInv'
<1>1. call \in Record /\ call' \in Record
  <2>1. 0 \in 0 .. (POLLS - 1) /\ 0 \in 0 .. RETRIES
    BY LoopsAssumption
  <2>2. stage \in Stages /\ call \in Record
    BY DEF Stages, IInv, Types
  <2> QED
    BY <2>1, <2>2 DEF Record, Goto
<1>2. /\ call'.op = call.op /\ call'.drive = call.drive /\ call'.lba = call.lba
      /\ call'.buf = call.buf /\ call'.count = call.count /\ call'.at = stage
      /\ call'.s = call.s /\ call'.late = call.late
  BY <1>1 DEF Record, Goto
<1>3. My' = My /\ drive_bit' = drive_bit
  BY DEF My, drive_bit
<1>4. Types'
  BY <1>1 DEF IInv, Types
<1>5. Shape'
  BY <1>2, <1>3 DEF IInv, Shape
<1>6. InStep'
  BY <1>2, <1>3 DEF IInv, InStep, InCall, OnTime
<1>7. Written'
  <2>1. My.drq => My.word = 0 /\ ~My.err
    BY <1>1 DEF IInv, Types, Sound, My
  <2> QED
    BY <2>1, <1>2, <1>3 DEF IInv, Written, Shape
<1>8. Read'
  BY <1>2 DEF IInv, Read
<1> QED
  BY <1>4, <1>5, <1>6, <1>7, <1>8 DEF IInv

\* The drive is selected, or an occupied one keeps the bus.
LEMMA SelectKeeps ==
  ASSUME IInv, Select
  PROVE  IInv'
<1>1. /\ call \in Record /\ call.op \in {"identify", "read", "write"} /\ call.at = "select"
      /\ UNCHANGED <<found, ret, dev, sector>> /\ call.drive \in Drives /\ selected \in Drives
  BY DEF Select, InCall, IInv, Types, Record
<1>2. PICK l \in BOOLEAN : /\ l = Occupied(My) /\ (~l => selected' = call.drive)
                           /\ selected' \in Drives
                           /\ call' = [call EXCEPT !.at = "registers", !.late = l]
  <2>1. Sound(My)
    BY <1>1 DEF IInv, Types, My
  <2>2. Occupied(My) \in BOOLEAN
    BY <2>1 DEF Sound, Device, Occupied
  <2> QED
    BY <1>1, <2>2 DEF Select, DevSel
<1>3. call' \in Record
  BY <1>1, <1>2 DEF Record, Stages
<1>4. /\ call'.op = call.op /\ call'.drive = call.drive /\ call'.lba = call.lba
      /\ call'.buf = call.buf /\ call'.count = call.count /\ call'.at = "registers"
      /\ call'.s = call.s /\ call'.late = l
  BY <1>1, <1>2 DEF Record
<1>5. Types'
  BY <1>1, <1>2, <1>3 DEF IInv, Types
<1>6. drive_bit' = drive_bit /\ call.s = 0 /\ (call.op = "read" => call.buf = <<>>)
  BY <1>1 DEF drive_bit, IInv, Shape, Record
<1>7. Shape'
  BY <1>1, <1>4, <1>6 DEF IInv, Shape
<1>8. InStep'
  BY <1>1, <1>2, <1>4, <1>6 DEF IInv, InStep, InCall, OnTime
<1>9. Written' /\ Read'
  <2>1. call.op \in {"identify", "read"} => Len(call.buf) = 0
    BY <1>1, <1>6 DEF IInv, Shape
  <2> QED
    BY <2>1, <1>1, <1>4, <1>6 DEF Written, Read
<1> QED
  BY <1>5, <1>7, <1>8, <1>9 DEF IInv

\* The registers are taken by a drive that is free.
LEMMA RegistersKeep ==
  ASSUME IInv, Registers
  PROVE  IInv'
<1>1. /\ call \in Record /\ call.op \in {"identify", "read", "write"} /\ call.at = "registers"
      /\ UNCHANGED <<found, selected, ret, dev, sector>> /\ Sound(My)
  BY DEF Registers, InCall, IInv, Types, Record, My
<1>2. PICK l \in BOOLEAN : l = (call.late \/ Occupied(My))
  BY <1>1 DEF Sound, Device, Occupied, Record
<1>3. PICK stage \in {"command", "bsy"} :
        /\ stage = IF call.op = "identify" THEN "command" ELSE "bsy"
        /\ call' = [call EXCEPT !.at = stage, !.late = l]
  BY <1>1, <1>2 DEF Registers
<1>4. call' \in Record
  BY <1>1, <1>2, <1>3 DEF Record, Stages
<1>5. /\ call'.op = call.op /\ call'.drive = call.drive /\ call'.lba = call.lba
      /\ call'.buf = call.buf /\ call'.count = call.count /\ call'.at = stage
      /\ call'.s = call.s /\ call'.late = l
  BY <1>1, <1>2, <1>3 DEF Record
<1>6. My' = My /\ drive_bit' = drive_bit /\ call.s = 0 /\ (call.op = "read" => call.buf = <<>>)
  BY <1>1 DEF My, drive_bit, IInv, Shape, Record
<1>7. Types'
  BY <1>1, <1>4 DEF IInv, Types
<1>8. Shape'
  BY <1>1, <1>3, <1>5, <1>6 DEF IInv, Shape
<1>9. InStep'
  BY <1>1, <1>2, <1>3, <1>5, <1>6 DEF IInv, InStep, InCall, OnTime
<1>10. Written' /\ Read'
  <2>1. call.op \in {"identify", "read"} => Len(call.buf) = 0
    BY <1>1, <1>6 DEF IInv, Shape
  <2> QED
    BY <2>1, <1>1, <1>5, <1>6 DEF Written, Read
<1> QED
  BY <1>7, <1>8, <1>9, <1>10 DEF IInv

\* The false returns of the waits; of ata_identify() they lead to the slave.
LEMMA FailKeeps ==
  ASSUME IInv, call.op \in {"identify", "read", "write"},
         Fail \/ (call.op = "identify" /\ IdentifyReturns /\ UNCHANGED ret),
         UNCHANGED <<found, selected, dev, sector>>
  PROVE  IInv'
<1>1. /\ ret \in BOOLEAN /\ call.drive \in {0, 1} /\ dev \in [Drives -> Device]
      /\ \A j \in Drives : Sound(dev[j])
  BY DEF IInv, Types, Record, Drives
<1>2. CASE call.op = "identify" /\ call.drive = 0
  <2>1. call' = Identify(1) /\ ret' = ret /\ ~ret
    BY <1>2 DEF Fail, IdentifyReturns, IInv, Shape
  <2>2. found = <<>> /\ 1 \in Drives /\ \A j \in Drives \ Present : dev[j] = Idle
    BY <1>2 DEF IInv, InStep, Shape, Drives
  <2> QED
    BY <1>1, <2>1, <2>2, IdentifyKeeps
<1>3. CASE call.op = "identify" /\ call.drive # 0
  <2>1. call' = NoCall /\ ret' = ret /\ ~ret
    BY <1>3 DEF Fail, IdentifyReturns, IInv, Shape
  <2>2. NoCall = [NoCall EXCEPT !.late = FALSE]
    BY NoCallLate
  <2> QED
    BY <1>1, <2>1, <2>2, NoCallKeeps
<1>4. CASE call.op # "identify"
  BY <1>4, ReturnFalseKeeps DEF Fail
<1> QED
  BY <1>2, <1>3, <1>4

LEMMA AtaInitKeeps ==
  ASSUME IInv, ata_init
  PROVE  IInv'
<1>1. /\ call' = Identify(0) /\ UNCHANGED <<found, selected, ret, dev, sector>>
      /\ found = <<>> /\ 0 \in Drives /\ ~ret
      /\ dev \in [Drives -> Device] /\ \A j \in Drives : Sound(dev[j])
      /\ \A j \in Drives \ Present : dev[j] = Idle
  BY DEF ata_init, IInv, Types, Shape, InStep, Drives
<1> QED
  BY <1>1, IdentifyKeeps

LEMMA ReadCallKeeps ==
  ASSUME IInv, NEW lba \in Lba, NEW n \in Counts, lba + n <= SECTORS,
         ata_read_sectors_lba28(lba, n)
  PROVE  IInv'
<1>1. CASE n = 0 \/ found = <<>>
  BY <1>1, ReturnFalseKeeps DEF ata_read_sectors_lba28
<1>2. CASE ~(n = 0 \/ found = <<>>)
  <2>1. lba \in Nat /\ n \in Nat /\ n > 0
    BY <1>2, SectorsAssumption DEF Lba
  <2>2. PICK i \in Drives : i = drive_bit
    BY DEF drive_bit, Drives
  <2>3. /\ call' = Call("read", i, lba, <<>>, n) /\ UNCHANGED <<ret, found, selected, dev, sector>>
        /\ drive_bit' = i
    BY <1>2, <2>2 DEF ata_read_sectors_lba28, drive_bit
  <2>4. "read" \in Ops /\ "select" \in Stages /\ <<>> \in Seq(Words)
    BY DEF Ops, Stages
  <2>5. /\ call' \in Record /\ call'.op = "read" /\ call'.drive = i /\ call'.lba = lba
        /\ call'.buf = <<>> /\ call'.count = n /\ call'.at = "select" /\ call'.s = 0
    BY <2>1, <2>3, <2>4, LoopsAssumption DEF Call, Record
  <2>6. Len(call'.buf) = 0
    BY <2>5
  <2>7. Types'
    BY <2>3, <2>5 DEF IInv, Types
  <2>8. Shape'
    BY <2>1, <2>3, <2>5, <2>6 DEF IInv, Shape
  <2>9. InStep'
    BY <2>3, <2>5 DEF IInv, InStep, InCall, OnTime
  <2>10. Written' /\ Read'
    BY <2>5, <2>6 DEF Written, Read
  <2> QED
    BY <2>7, <2>8, <2>9, <2>10 DEF IInv
<1> QED
  BY <1>1, <1>2

LEMMA WriteCallKeeps ==
  ASSUME IInv, NEW lba \in Lba, NEW n \in Counts, NEW buf \in [1 .. n -> Values],
         lba + n <= SECTORS, ata_write_sectors_lba28(lba, buf)
  PROVE  IInv'
<1>1. CASE buf = <<>> \/ found = <<>>
  BY <1>1, ReturnFalseKeeps DEF ata_write_sectors_lba28
<1>2. CASE ~(buf = <<>> \/ found = <<>>)
  <2>1. lba \in Nat /\ n \in Nat
    BY SectorsAssumption DEF Lba
  <2>2. buf \in Seq(Words) /\ Len(buf) = n /\ \A k \in 1 .. n : buf[k] \in Values
    BY <2>1 DEF Words
  <2>3. n > 0
    BY <1>2, <2>1, <2>2
  <2>4. PICK i \in Drives : i = drive_bit
    BY DEF drive_bit, Drives
  <2>5. /\ call' = Call("write", i, lba, buf, n) /\ UNCHANGED <<ret, found, selected, dev, sector>>
        /\ drive_bit' = i
    BY <1>2, <2>2, <2>4 DEF ata_write_sectors_lba28, drive_bit
  <2>6. "write" \in Ops /\ "select" \in Stages
    BY DEF Ops, Stages
  <2>7. /\ call' \in Record /\ call'.op = "write" /\ call'.drive = i /\ call'.lba = lba
        /\ call'.buf = buf /\ call'.count = n /\ call'.at = "select" /\ call'.s = 0
    BY <2>1, <2>2, <2>5, <2>6, LoopsAssumption DEF Call, Record
  <2>8. Types'
    BY <2>5, <2>7 DEF IInv, Types
  <2>9. Shape'
    BY <2>1, <2>2, <2>3, <2>5, <2>7 DEF IInv, Shape
  <2>10. InStep'
    BY <2>5, <2>7 DEF IInv, InStep, InCall, OnTime
  <2>11. Written' /\ Read'
    BY <2>7 DEF Written, Read
  <2> QED
    BY <2>8, <2>9, <2>10, <2>11 DEF IInv
<1> QED
  BY <1>1, <1>2

\* One more poll of a wait that has not ended.
LEMMA PollKeeps ==
  ASSUME IInv, ~TimedOut(call), call' = PollAgain(call),
         UNCHANGED <<found, selected, ret, dev, sector>>
  PROVE  IInv'
<1>1. call \in Record
  BY DEF IInv, Types
<1>2. call.polls + 1 \in 0 .. (POLLS - 1) /\ call.tries \in 0 .. RETRIES
  BY <1>1, LoopsAssumption DEF TimedOut, Record
<1>3. call' = [call EXCEPT !.polls = call.polls + 1, !.tries = call.tries]
  BY <1>1 DEF PollAgain, Record
<1> QED
  BY <1>2, <1>3, CountersKeep

LEMMA WaitBsyKeeps ==
  ASSUME IInv, ata_wait_bsy_clear
  PROVE  IInv'
<1>1. UNCHANGED <<found, selected, dev, sector>> /\ call.op \in {"identify", "read", "write"}
  BY DEF ata_wait_bsy_clear, InCall
<1>2. CASE /\ ~My.busy /\ call.at = "bsy"
           /\ Goto(IF call.op = "identify" THEN "drq" ELSE "command") /\ UNCHANGED ret
  <2>1. CASE call.op = "identify"
    BY <1>1, <1>2, <2>1, StageKeeps
  <2>2. CASE call.op # "identify"
    BY <1>1, <1>2, <2>2, StageKeeps
  <2> QED
    BY <2>1, <2>2
<1>3. CASE ~My.busy /\ call.at = "flushed" /\ Return(~ErrorSeen(My))
  <2>1. call \in Record /\ Sound(My) /\ call.op = "write" /\ call.drive = drive_bit
    BY <1>1, <1>3 DEF IInv, Types, Shape, My
  <2>2. /\ call.late \in BOOLEAN /\ call' = [NoCall EXCEPT !.late = call.late]
        /\ ret' \in BOOLEAN
    BY <1>3, <2>1 DEF Return, ErrorSeen, Sound, Device, Record
  <2>3. ~call.late => selected = drive_bit /\ ~Occupied(My)
    BY <1>3, <2>1 DEF IInv, InStep, OnTime, Occupied
  <2> QED
    BY <1>1, <2>2, <2>3, NoCallKeeps
<1>4. CASE My.busy /\ ~TimedOut(call) /\ call' = PollAgain(call) /\ UNCHANGED ret
  BY <1>1, <1>4, PollKeeps
<1>5. CASE My.busy /\ TimedOut(call) /\ Fail
  BY <1>1, <1>5, FailKeeps
<1> QED
  BY <1>2, <1>3, <1>4, <1>5 DEF ata_wait_bsy_clear

LEMMA WaitDrqKeeps ==
  ASSUME IInv, ata_wait_drq
  PROVE  IInv'
<1>1. /\ UNCHANGED <<found, selected, dev, sector>> /\ call.op \in {"identify", "read", "write"}
      /\ call.at = "drq"
  BY DEF ata_wait_drq, InCall
<1>2. CASE My.drq /\ ~ErrorSeen(My) /\ Goto("data") /\ UNCHANGED ret
  BY <1>1, <1>2, StageKeeps
<1>3. CASE ~My.drq /\ ~ErrorSeen(My) /\ ~TimedOut(call) /\ call' = PollAgain(call) /\ UNCHANGED ret
  BY <1>1, <1>3, PollKeeps
<1>4. CASE GivesUp(call) /\ Fail
  BY <1>1, <1>4, FailKeeps
<1>5. CASE /\ ~GivesUp(call) /\ call' = [call EXCEPT !.polls = 0, !.tries = @ + 1]
           /\ UNCHANGED ret
  <2>1. call \in Record
    BY DEF IInv, Types
  <2>2. 0 \in 0 .. (POLLS - 1) /\ call.tries + 1 \in 0 .. RETRIES
    BY <1>5, <2>1, LoopsAssumption DEF GivesUp, Record
  <2>3. call' = [call EXCEPT !.polls = 0, !.tries = call.tries + 1]
    BY <1>5
  <2> QED
    BY <1>1, <1>5, <2>2, <2>3, CountersKeep
<1> QED
  BY <1>2, <1>3, <1>4, <1>5 DEF ata_wait_drq

LEMMA TestPresentKeeps ==
  ASSUME IInv, TestPresent
  PROVE  IInv'
<1>1. /\ call.op \in {"identify", "read", "write"} /\ call.at = "present"
      /\ UNCHANGED <<found, selected, ret, dev, sector>>
  BY DEF TestPresent, InCall
<1>2. call.op = "identify"
  BY <1>1 DEF IInv, Shape
<1>3. CASE selected \in Present
  BY <1>1, <1>2, <1>3, StageKeeps DEF TestPresent
<1>4. CASE selected \notin Present
  BY <1>1, <1>2, <1>4, FailKeeps DEF TestPresent
<1> QED
  BY <1>3, <1>4

-----------------------------------------------------------------------------
(***************************************************************************)
(* The steps that a drive takes part in.                                   *)
(***************************************************************************)
\* One drive's registers change, to a sound state.
LEMMA OneDrive ==
  ASSUME IInv, NEW i \in Drives, NEW e, Sound(e), dev' = [dev EXCEPT ![i] = e]
  PROVE  /\ dev' \in [Drives -> Device] /\ \A j \in Drives : Sound(dev'[j])
         /\ dev'[i] = e /\ \A j \in Drives : j # i => dev'[j] = dev[j]
<1>1. e \in Device
  BY DEF Sound
<1> QED
  BY <1>1 DEF IInv, Types

\* The selected drive's registers change, if there is one.
LEMMA MyDrive ==
  ASSUME IInv, NEW e, Sound(e), dev' = [dev EXCEPT ![selected] = e], selected' = selected,
         selected \notin Present => e = Idle
  PROVE  /\ dev' \in [Drives -> Device] /\ \A j \in Drives : Sound(dev'[j]) /\ My' = e
         /\ \A j \in Drives \ Present : dev'[j] = Idle
<1>1. selected \in Drives
  BY DEF IInv, Types
<1>2. /\ dev' \in [Drives -> Device] /\ \A j \in Drives : Sound(dev'[j])
      /\ dev'[selected] = e /\ \A j \in Drives : j # selected => dev'[j] = dev[j]
  BY <1>1, OneDrive
<1> QED
  BY <1>1, <1>2 DEF My, IInv, InStep

LEMMA CommandKeeps ==
  ASSUME IInv, Command
  PROVE  IInv'
<1>1. /\ call.op \in {"identify", "read", "write"} /\ call.at = "command"
      /\ UNCHANGED <<found, selected, ret, sector>> /\ call \in Record /\ selected \in Drives
      /\ Sound(My) /\ dev \in [Drives -> Device]
  BY DEF Command, InCall, IInv, Types, Record, My
<1>2. PICK stage \in {"present", "drq"} :
        stage = (IF call.op = "identify" THEN "present" ELSE "drq") /\ Goto(stage)
  BY DEF Command
<1>3. call' \in Record
  <2>1. 0 \in 0 .. (POLLS - 1) /\ 0 \in 0 .. RETRIES
    BY LoopsAssumption
  <2> QED
    BY <2>1, <1>1, <1>2 DEF Record, Goto, Stages
<1>4. /\ call'.op = call.op /\ call'.drive = call.drive /\ call'.lba = call.lba
      /\ call'.buf = call.buf /\ call'.count = call.count /\ call'.at = stage
      /\ call'.s = call.s /\ call'.late = call.late
  BY <1>1, <1>2 DEF Record, Goto
<1>5. call.s = 0 /\ drive_bit' = drive_bit
  BY <1>1 DEF drive_bit, IInv, Shape
<1>6. PICK e : /\ Sound(e) /\ dev' = [dev EXCEPT ![selected] = e]
               /\ selected \notin Present => e = Idle
               /\ OnTime /\ selected \in Present =>
                    ~e.err /\ e.cmd = call.op /\ e.lba = call.lba /\ e.left = call.count /\ e.word = 0
  <2>1. PICK l \in Lba, n \in 1 .. SECTORS :
          /\ l + n <= SECTORS
          /\ ~call.late \/ call.op = "identify" => l = call.lba /\ n = call.count
          /\ \E d \in Commanded(My, call.op, l, n) :
               dev' = IF selected \in Present THEN [dev EXCEPT ![selected] = d] ELSE dev
    BY DEF Command
  <2>2. PICK d \in Commanded(My, call.op, l, n) :
          dev' = IF selected \in Present THEN [dev EXCEPT ![selected] = d] ELSE dev
    BY <2>1
  <2>3. CASE selected \in Present
    <3>1. l \in Nat /\ n \in Nat /\ call.op \in Cmds
      BY <1>1, SectorsAssumption DEF Lba, Cmds
    <3>2. /\ Sound(d)
          /\ \/ d = My /\ Occupied(My)
             \/ ~d.err /\ d.cmd = call.op /\ d.lba = l /\ d.left = n /\ d.word = 0
      BY <1>1, <2>1, <3>1, CommandedSound
    <3>3. OnTime => ~Occupied(My) /\ l = call.lba /\ n = call.count
      BY <1>1, <2>1 DEF IInv, InStep, OnTime
    <3> QED
      BY <2>2, <2>3, <3>2, <3>3
  <2>4. CASE selected \notin Present
    <3>1. My = Idle /\ dev' = [dev EXCEPT ![selected] = My]
      BY <1>1, <2>2, <2>4 DEF IInv, InStep, My
    <3> QED
      BY <3>1, <2>4, <1>1
  <2> QED
    BY <2>3, <2>4
<1>7. /\ dev' \in [Drives -> Device] /\ \A j \in Drives : Sound(dev'[j]) /\ My' = e
      /\ \A j \in Drives \ Present : dev'[j] = Idle
  BY <1>1, <1>6, MyDrive
<1>8. Types'
  BY <1>1, <1>3, <1>7 DEF IInv, Types
<1>9. Shape'
  BY <1>1, <1>2, <1>4, <1>5 DEF IInv, Shape
<1>10. InStep'
  <2>1. call.op = "read" => call.buf = <<>>
    BY <1>1, <1>5 DEF IInv, Shape, Record
  <2>2. call.count - call.s = call.count /\ call.lba + call.s = call.lba
    BY <1>1, <1>5 DEF Record
  <2>3. OnTime => selected = call.drive
    BY <1>1 DEF IInv, InStep
  <2> QED
    BY <2>1, <2>2, <2>3, <1>1, <1>2, <1>4, <1>5, <1>6, <1>7 DEF InStep, InCall, OnTime
<1>11. Written' /\ Read'
  BY <1>1, <1>4, <1>5 DEF IInv, Written, Read
<1> QED
  BY <1>8, <1>9, <1>10, <1>11 DEF IInv

LEMMA IdentifyDataKeeps ==
  ASSUME IInv, identify_data
  PROVE  IInv'
<1>1. /\ call.op = "identify" /\ call.at = "data" /\ call.drive \in {0, 1} /\ selected \in Drives
      /\ UNCHANGED <<selected, ret, sector>> /\ Sound(My) /\ My.drq /\ ret = FALSE
  BY DEF identify_data, InCall, IInv, Types, Record, InStep, Shape, Drives, My
<1>2. PICK e : e = Moved(My, 0) /\ Sound(e)
  BY <1>1, MovedSound DEF Words
<1>3. dev' = [dev EXCEPT ![selected] = e]
  BY <1>2 DEF identify_data, My
<1>4. selected \in Present
  BY <1>1, IdleSound DEF IInv, InStep, My
<1>5. /\ dev' \in [Drives -> Device] /\ \A j \in Drives : Sound(dev'[j]) /\ My' = e
      /\ \A j \in Drives \ Present : dev'[j] = Idle
  BY <1>1, <1>2, <1>3, <1>4, MyDrive
<1>6. CASE call.drive = 0
  <2>1. call' = Identify(1) /\ found' = << 0 >> /\ 1 \in Drives
    BY <1>1, <1>6 DEF identify_data, IdentifyReturns, IInv, Shape, Drives
  <2> QED
    BY <1>1, <1>5, <2>1, IdentifyKeeps
<1>7. CASE call.drive # 0
  <2>1. call.drive = 1
    BY <1>1, <1>7
  <2>2. call' = NoCall /\ found' \in {<<1>>, <<0, 1>>}
    <3>1. found = <<>> \/ found = <<0>>
      BY <1>1 DEF IInv, Shape
    <3>2. found' = Append(found, 1) /\ call' = NoCall
      BY <1>7, <2>1 DEF identify_data, IdentifyReturns
    <3>3. Append(<<>>, 1) = <<1>> /\ Append(<<0>>, 1) = <<0, 1>>
      <4>1. <<>> \in Seq({0, 1}) /\ Len(<<>>) = 0 /\ <<0>> \in Seq({0, 1}) /\ Len(<<0>>) = 1
        OBVIOUS
      <4>2. /\ Append(<<>>, 1) \in Seq({0, 1}) /\ Len(Append(<<>>, 1)) = 1
            /\ Append(<<>>, 1)[1] = 1
        BY <4>1
      <4>3. /\ Append(<<0>>, 1) \in Seq({0, 1}) /\ Len(Append(<<0>>, 1)) = 2
            /\ Append(<<0>>, 1)[1] = 0 /\ Append(<<0>>, 1)[2] = 1
        BY <4>1
      <4>4. /\ \A q \in Seq({0, 1}) : Len(q) = 1 => q = <<q[1]>>
            /\ \A q \in Seq({0, 1}) : Len(q) = 2 => q = <<q[1], q[2]>>
        OBVIOUS
      <4> QED
        BY <4>2, <4>3, <4>4
    <3> QED
      BY <3>1, <3>2, <3>3
  <2>3. /\ call' \in Record /\ call'.op = "none" /\ call'.buf = <<>> /\ Len(call'.buf) = 0
        /\ call'.s = 0 /\ call'.count = 0
    BY <2>2, NoCallFields, NoCallLate
  <2>4. Types'
    BY <1>1, <1>5, <2>3 DEF IInv, Types
  <2>5. Shape'
    BY <2>2, <2>3 DEF Shape
  <2>6. InStep'
    BY <1>1, <1>5, <2>3 DEF InStep, InCall, OnTime
  <2>7. Written' /\ Read'
    BY <2>3 DEF Written, Read
  <2> QED
    BY <2>4, <2>5, <2>6, <2>7 DEF IInv
<1> QED
  BY <1>6, <1>7

\* A sequence with one more element.
LEMMA Appended ==
  ASSUME NEW S, NEW q \in Seq(S), NEW x \in S
  PROVE  /\ Append(q, x) \in Seq(S) /\ Len(Append(q, x)) = Len(q) + 1
         /\ Append(q, x) # <<>> /\ Append(q, x)[Len(q) + 1] = x
         /\ \A k \in 1 .. Len(q) : Append(q, x)[k] = q[k]
OBVIOUS

LEMMA ReadDataKeeps ==
  ASSUME IInv, read_data
  PROVE  IInv'
<1>1. /\ call.op = "read" /\ call.at = "data" /\ call \in Record /\ selected \in Drives
      /\ UNCHANGED <<found, selected, sector>> /\ Sound(My) /\ My.drq /\ ret \in BOOLEAN
  BY DEF read_data, InCall, IInv, Types, Record, InStep, My
<1>2. selected \in Present
  BY <1>1, IdleSound DEF IInv, InStep, My
<1>3. /\ call.s < call.count /\ call.lba + call.count <= SECTORS /\ Len(call.buf) = call.s
      /\ call.s \in Nat /\ call.lba \in Nat /\ call.count \in Nat /\ call.buf \in Seq(Words)
      /\ call.drive = drive_bit /\ drive_bit' = drive_bit
  BY <1>1 DEF IInv, Shape, Record, drive_bit
<1>4. ~call.late => /\ My.cmd = "read" /\ My.word = 0 /\ ~My.err /\ My.lba = call.lba + call.s
                    /\ My.left = call.count - call.s /\ selected = call.drive
  BY <1>1, <1>2 DEF IInv, InStep, OnTime, Sound
<1>5. PICK e : /\ e = Moved(My, 0) /\ Sound(e) /\ ~e.drq /\ ~e.err
               /\ ~call.late => /\ e.cmd = "read" /\ e.word = 0 /\ e.lba = call.lba + call.s + 1
                                /\ e.left = call.count - call.s - 1
                                /\ (call.s + 1 = call.count => ~e.busy)
  <2>1. /\ Sound(Moved(My, 0)) /\ Moved(My, 0).cmd = My.cmd /\ ~Moved(My, 0).err
        /\ ~Moved(My, 0).drq
        /\ My.cmd # "write" =>
             /\ Moved(My, 0).lba = My.lba + 1 /\ Moved(My, 0).word = 0
             /\ Moved(My, 0).left = My.left - 1 /\ (My.left = 1 => ~Moved(My, 0).busy)
    BY <1>1, MovedSound DEF Words
  <2>2. call.s + 1 = call.count => call.count - call.s = 1
    BY <1>3
  <2> QED
    BY <1>3, <1>4, <2>1, <2>2
<1>6. dev' = [dev EXCEPT ![selected] = e]
  BY <1>5 DEF read_data, My
<1>7. /\ dev' \in [Drives -> Device] /\ \A j \in Drives : Sound(dev'[j]) /\ My' = e
      /\ \A j \in Drives \ Present : dev'[j] = Idle
  BY <1>1, <1>2, <1>5, <1>6, MyDrive
<1>8. PICK v \in Words : v = sector[selected][My.lba]
  <2>1. My.lba \in Nat /\ My.left \in Nat /\ My.left > 0 /\ My.lba + My.left <= SECTORS
    BY <1>1 DEF Sound, Device
  <2>2. My.lba \in Lba
    BY <2>1, SectorsAssumption DEF Lba
  <2> QED
    BY <2>2, <1>1 DEF IInv, Types
<1>9. PICK b \in Seq(Words) : /\ b = Append(call.buf, v) /\ Len(b) = call.s + 1 /\ b # <<>>
                              /\ b[call.s + 1] = v
                              /\ \A k \in 1 .. call.s : b[k] = call.buf[k]
  <2>1. /\ Append(call.buf, v) \in Seq(Words) /\ Len(Append(call.buf, v)) = Len(call.buf) + 1
        /\ Append(call.buf, v) # <<>> /\ Append(call.buf, v)[Len(call.buf) + 1] = v
        /\ \A k \in 1 .. Len(call.buf) : Append(call.buf, v)[k] = call.buf[k]
    BY <1>3, <1>8, Appended
  <2> QED
    BY <2>1, <1>3
<1>10. call' \in Record /\ ret' \in BOOLEAN
  <2>1. "none" \in Ops /\ "drq" \in Stages
    BY DEF Ops, Stages
  <2>2. [[call EXCEPT !.s = @ + 1, !.at = "drq"] EXCEPT !.buf = b] \in Record
    <3>1. call.s + 1 \in Nat
      BY <1>3
    <3>2. [call EXCEPT !.s = @ + 1, !.at = "drq"] \in Record
      BY <3>1, <1>1, <2>1 DEF Record
    <3> QED
      BY <3>2 DEF Record
  <2>3. [[[call EXCEPT !.s = @ + 1, !.at = "drq"] EXCEPT !.buf = b] EXCEPT !.op = "none"] \in Record
    BY <2>1, <2>2 DEF Record
  <2> QED
    BY <2>2, <2>3, <1>1, <1>8, <1>9 DEF read_data, NextSector, Record
<1>11. /\ call'.op = IF call.s + 1 = call.count THEN "none" ELSE "read"
       /\ call'.drive = call.drive /\ call'.lba = call.lba /\ call'.buf = b
       /\ call'.count = call.count /\ call'.at = "drq" /\ call'.s = call.s + 1
       /\ call'.late = call.late
  BY <1>1, <1>8, <1>9 DEF read_data, NextSector, LastSector, Record
<1>12. Types'
  BY <1>1, <1>7, <1>10 DEF IInv, Types
<1>13. Shape'
  BY <1>1, <1>2, <1>3, <1>9, <1>11 DEF IInv, Shape
<1>14. InStep'
  <2>1. call'.op = "none" => call.s + 1 = call.count
    BY <1>11
  <2>2. ~call.late => e.lba = call.lba + (call.s + 1) /\ e.left = call.count - (call.s + 1)
    BY <1>3, <1>5
  <2> QED
    BY <2>1, <2>2, <1>1, <1>3, <1>4, <1>5, <1>7, <1>11 DEF InStep, InCall, OnTime, Occupied
<1>15. Written'
  BY <1>11 DEF Written
<1>16. Read'
  <2> SUFFICES ASSUME ~call.late PROVE Read'
    BY <1>11 DEF Read
  <2>1. \A k \in 1 .. call.s : call.buf[k] = sector[call.drive][call.lba + k - 1]
    BY <1>1, <1>3 DEF IInv, Read
  <2>2. \A k \in 1 .. (call.s + 1) : b[k] = sector[call.drive][call.lba + k - 1]
    <3> SUFFICES ASSUME NEW k \in 1 .. (call.s + 1)
                 PROVE  b[k] = sector[call.drive][call.lba + k - 1]
      OBVIOUS
    <3>1. CASE k = call.s + 1
      <4>1. call.lba + k - 1 = My.lba
        BY <3>1, <1>3, <1>4
      <4> QED
        BY <4>1, <3>1, <1>4, <1>8, <1>9
    <3>2. CASE k # call.s + 1
      BY <3>2, <2>1, <1>3, <1>9
    <3> QED
      BY <3>1, <3>2
  <2> QED
    BY <2>2, <1>1, <1>9, <1>11 DEF Read
<1> QED
  BY <1>12, <1>13, <1>14, <1>15, <1>16 DEF IInv

LEMMA WriteDataKeeps ==
  ASSUME IInv, write_data
  PROVE  IInv'
<1>1. /\ call.op = "write" /\ call.at = "data" /\ call \in Record /\ selected \in Drives
      /\ UNCHANGED <<found, selected, ret, sector>> /\ Sound(My) /\ My.drq
  BY DEF write_data, InCall, IInv, Types, Record, InStep, My
<1>2. selected \in Present
  BY <1>1, IdleSound DEF IInv, InStep, My
<1>3. /\ call.s < call.count /\ call.lba + call.count <= SECTORS /\ Len(call.buf) = call.count
      /\ call.s \in Nat /\ call.lba \in Nat /\ call.count \in Nat /\ call.buf \in Seq(Words)
      /\ call.s + 1 \in 1 .. call.count /\ call.drive = drive_bit /\ drive_bit' = drive_bit
  BY <1>1 DEF IInv, Shape, Record, drive_bit
<1>4. ~call.late => /\ My.cmd = "write" /\ My.word = 0 /\ ~My.err /\ My.lba = call.lba + call.s
                    /\ My.left = call.count - call.s /\ selected = call.drive
  BY <1>1, <1>2 DEF IInv, InStep, OnTime, Sound
<1>5. PICK v \in Values : v = call.buf[call.s + 1] /\ v # 0
  BY <1>1, <1>3, ValuesAssumption DEF IInv, Shape
<1>6. PICK e : /\ e = Moved(My, v) /\ Sound(e) /\ ~e.drq /\ ~e.err
               /\ ~call.late => /\ e.cmd = "write" /\ e.lba = call.lba + call.s /\ e.word = v
                                /\ e.left = call.count - call.s
  BY <1>1, <1>4, MovedSound DEF Words
<1>7. dev' = [dev EXCEPT ![selected] = e]
  BY <1>5, <1>6 DEF write_data, My
<1>8. /\ dev' \in [Drives -> Device] /\ \A j \in Drives : Sound(dev'[j]) /\ My' = e
      /\ \A j \in Drives \ Present : dev'[j] = Idle
  BY <1>1, <1>2, <1>6, <1>7, MyDrive
<1>9. call' \in Record
  <2>1. "flush" \in Stages /\ "drq" \in Stages
    BY DEF Stages
  <2>2. call.s + 1 \in Nat
    BY <1>3
  <2>3. [call EXCEPT !.s = @ + 1, !.at = "drq"] \in Record /\ [call EXCEPT !.at = "flush"] \in Record
    BY <2>1, <2>2, <1>1 DEF Record
  <2> QED
    BY <2>3 DEF write_data, NextSector
<1>10. /\ call'.op = "write" /\ call'.drive = call.drive /\ call'.lba = call.lba
       /\ call'.buf = call.buf /\ call'.count = call.count /\ call'.late = call.late
  BY <1>1 DEF write_data, NextSector, Record
<1>11. IF call.s + 1 = call.count THEN call'.at = "flush" /\ call'.s = call.s
       ELSE call'.at = "drq" /\ call'.s = call.s + 1
  BY <1>1 DEF write_data, NextSector, LastSector, Record
<1>12. Types'
  BY <1>1, <1>8, <1>9 DEF IInv, Types
<1>13. Shape'
  BY <1>1, <1>2, <1>3, <1>10, <1>11 DEF IInv, Shape
<1>14. InStep'
  <2>1. CASE call.s + 1 = call.count
    <3>1. call.count - call.s = 1
      BY <2>1, <1>3
    <3> QED
      BY <3>1, <2>1, <1>1, <1>4, <1>5, <1>6, <1>8, <1>10, <1>11 DEF InStep, InCall, OnTime
  <2>2. CASE call.s + 1 # call.count
    <3>1. ~call.late => /\ e.word # 0 /\ call'.s > 0 /\ e.word = call'.buf[call'.s]
                        /\ e.lba = call'.lba + call'.s - 1
                        /\ e.left = call'.count - call'.s + 1
      BY <2>2, <1>3, <1>5, <1>6, <1>10, <1>11
    <3> QED
      BY <3>1, <2>2, <1>1, <1>4, <1>6, <1>8, <1>10, <1>11 DEF InStep, InCall, OnTime
  <2> QED
    BY <2>1, <2>2
<1>15. Written'
  <2>1. ~call.late => \A k \in 1 .. call.s : sector[call.drive][call.lba + k - 1] = call.buf[k]
    BY <1>1 DEF IInv, Written
  <2> QED
    BY <2>1, <1>1, <1>3, <1>5, <1>6, <1>8, <1>10, <1>11 DEF Written
<1>16. Read'
  BY <1>10 DEF Read
<1> QED
  BY <1>12, <1>13, <1>14, <1>15, <1>16 DEF IInv

LEMMA FlushKeeps ==
  ASSUME IInv, flush_cache
  PROVE  IInv'
<1>1. /\ call.op \in {"identify", "read", "write"} /\ call.at = "flush" /\ selected \in Drives
      /\ call \in Record /\ UNCHANGED <<found, selected, ret, sector>> /\ Sound(My)
  BY DEF flush_cache, InCall, IInv, Types, Record, My
<1>2. /\ call.op = "write" /\ call.s + 1 = call.count /\ selected \in Present
      /\ drive_bit' = drive_bit
  BY <1>1 DEF IInv, Shape, drive_bit
<1>3. PICK e \in Commanded(My, "flush", 0, 0) : dev' = [dev EXCEPT ![selected] = e]
  BY DEF flush_cache
<1>4. /\ Sound(e)
      /\ (e = My \/ (e.busy /\ e.word = 0 /\ e.left = 0))
  <2>1. "flush" \in Cmds /\ 0 + 0 <= SECTORS
    BY SectorsAssumption DEF Cmds
  <2> QED
    BY <2>1, <1>1, <1>3, CommandedSound
<1>5. /\ dev' \in [Drives -> Device] /\ \A j \in Drives : Sound(dev'[j]) /\ My' = e
      /\ \A j \in Drives \ Present : dev'[j] = Idle
  BY <1>1, <1>2, <1>3, <1>4, MyDrive
<1>6. call' \in Record
  <2>1. 0 \in 0 .. (POLLS - 1) /\ 0 \in 0 .. RETRIES /\ "flushed" \in Stages
    BY LoopsAssumption DEF Stages
  <2> QED
    BY <2>1, <1>1 DEF Record, flush_cache, Goto
<1>7. /\ call'.op = "write" /\ call'.drive = call.drive /\ call'.lba = call.lba
      /\ call'.buf = call.buf /\ call'.count = call.count /\ call'.at = "flushed"
      /\ call'.s = call.s /\ call'.late = call.late
  BY <1>1, <1>2 DEF Record, flush_cache, Goto
<1>8. Types'
  BY <1>1, <1>5, <1>6 DEF IInv, Types
<1>9. Shape'
  BY <1>1, <1>2, <1>7 DEF IInv, Shape
<1>10. InStep'
  <2>1. e.busy => ~e.drq
    BY <1>4 DEF Sound
  <2> QED
    BY <2>1, <1>1, <1>2, <1>4, <1>5, <1>7 DEF IInv, InStep, InCall, OnTime
<1>11. Written' /\ Read'
  BY <1>1, <1>2, <1>7 DEF IInv, Written, Read
<1> QED
  BY <1>8, <1>9, <1>10, <1>11 DEF IInv

\* A drive that stores no word answers, or fails.
LEMMA QuietDriveKeeps ==
  ASSUME IInv, NEW i \in Present, dev[i].busy, NEW e, Sound(e), ~e.busy,
         e.cmd = dev[i].cmd, e.word = dev[i].word,
         e.err \/ (e.lba = dev[i].lba /\ e.left = dev[i].left /\ ~dev[i].err),
         e.drq => e.left = dev[i].left /\ e.word = 0,
         dev' = [dev EXCEPT ![i] = e], UNCHANGED <<found, call, selected, ret, sector>>
  PROVE  IInv'
<1>1. i \in Drives /\ ~dev[i].drq /\ ~dev[i].err
  BY DrivesAssumption DEF Drives, IInv, Types, Sound
<1>2. /\ dev' \in [Drives -> Device] /\ \A j \in Drives : Sound(dev'[j])
      /\ dev'[i] = e /\ \A j \in Drives : j # i => dev'[j] = dev[j]
  BY <1>1, OneDrive
<1>3. drive_bit' = drive_bit
  BY DEF drive_bit
<1>4. Types' /\ Shape' /\ Read'
  BY <1>2, <1>3 DEF IInv, Types, Shape, Read
<1>5. selected \in Drives /\ \A j \in Drives \ Present : dev'[j] = Idle
  BY <1>2 DEF IInv, Types, InStep
<1>6. CASE selected = i
  <2>1. My = dev[i] /\ My' = e /\ My.busy
    BY <1>2, <1>6 DEF My
  <2>2. e.drq => e.left # 0
    BY DEF Sound, Device
  <2>3. InStep'
    BY <1>1, <1>3, <1>5, <2>1, <2>2 DEF IInv, InStep, InCall, OnTime, Occupied
  <2>4. Written'
    BY <1>1, <2>1 DEF IInv, Written
  <2> QED
    BY <1>4, <2>3, <2>4 DEF IInv
<1>7. CASE selected # i
  <2>1. My' = My
    BY <1>2, <1>5, <1>7 DEF My
  <2>2. InStep'
    BY <1>3, <1>5, <2>1 DEF IInv, InStep, InCall, OnTime
  <2>3. Written'
    BY <2>1 DEF IInv, Written
  <2> QED
    BY <1>4, <2>2, <2>3 DEF IInv
<1> QED
  BY <1>6, <1>7

LEMMA DriveFailsKeeps ==
  ASSUME IInv, NEW i \in Present, DriveFails(i)
  PROVE  IInv'
<1>1. i \in Drives /\ Sound(dev[i]) /\ dev[i].busy
  BY DrivesAssumption DEF Drives, IInv, Types, DriveFails
<1>2. PICK e : /\ e = Failed(dev[i]) /\ Sound(e) /\ ~e.busy /\ e.err /\ e.cmd = dev[i].cmd
               /\ e.word = dev[i].word
  BY <1>1, FailedSound
<1>3. dev' = [dev EXCEPT ![i] = e] /\ UNCHANGED <<found, call, selected, ret, sector>>
  BY <1>2 DEF DriveFails
<1>4. ~e.drq
  BY <1>2 DEF Sound
<1> QED
  BY <1>1, <1>2, <1>3, <1>4, QuietDriveKeeps

\* A word is stored: it is the call's last one sent, or one of an earlier
\* call that gave up.
LEMMA StoreKeeps ==
  ASSUME IInv, NEW i \in Present, DriveAnswers(i), Stores(dev[i])
  PROVE  IInv'
<1>1. i \in Drives /\ Sound(dev[i]) /\ dev[i].busy /\ dev[i].cmd = "write" /\ dev[i].word # 0
  BY DrivesAssumption DEF Drives, IInv, Types, DriveAnswers, Stores
<1>2. PICK d \in Device : d = dev[i] /\ d.left > 0 /\ d.lba + d.left <= SECTORS /\ ~d.drq /\ ~d.err
  BY <1>1 DEF Sound
<1>3. d.lba \in Lba /\ d.lba \in Nat /\ d.left \in Nat
  BY <1>2, SectorsAssumption DEF Lba, Device
<1>4. PICK e : /\ e = Stored(d) /\ Sound(e) /\ ~e.busy /\ ~e.err /\ e.cmd = "write"
               /\ e.lba = d.lba + 1 /\ e.word = 0 /\ e.left = d.left - 1
  BY <1>1, <1>2, StoredSound
<1>5. /\ dev' = [dev EXCEPT ![i] = e] /\ UNCHANGED <<found, call, selected, ret>>
      /\ sector' = [sector EXCEPT ![i][d.lba] = d.word]
  BY <1>2, <1>4 DEF DriveAnswers
<1>6. /\ dev' \in [Drives -> Device] /\ \A j \in Drives : Sound(dev'[j])
      /\ dev'[i] = e /\ \A j \in Drives : j # i => dev'[j] = dev[j]
  BY <1>1, <1>4, <1>5, OneDrive
<1>7. /\ sector' \in [Drives -> [Lba -> Words]]
      /\ \A j \in Drives : j # i => sector'[j] = sector[j]
      /\ sector'[i] \in [Lba -> Words] /\ sector'[i][d.lba] = d.word
      /\ \A l \in Lba : l # d.lba => sector'[i][l] = sector[i][l]
  <2>1. d.word \in Words /\ sector \in [Drives -> [Lba -> Words]]
    BY <1>2 DEF Device, IInv, Types
  <2> QED
    BY <2>1, <1>1, <1>3, <1>5
<1>8. drive_bit' = drive_bit
  BY <1>5 DEF drive_bit
<1>9. Types' /\ Shape'
  BY <1>5, <1>6, <1>7, <1>8 DEF IInv, Types, Shape
<1>10. call \in Record /\ call.drive \in Drives /\ selected \in Drives
  BY DEF IInv, Types, Record
<1>11. \A j \in Drives \ Present : dev'[j] = Idle
  BY <1>6 DEF IInv, InStep
<1>12. e.drq => e.left # 0
  BY <1>4 DEF Sound, Device
<1>13. CASE selected # i
  <2>1. My' = My
    BY <1>5, <1>6, <1>10, <1>13 DEF My
  <2>2. InStep'
    BY <2>1, <1>5, <1>8, <1>11 DEF IInv, InStep, InCall, OnTime
  <2>3. OnTime /\ call.s > 0 => selected = call.drive
    BY DEF OnTime, IInv, InStep, Shape
  <2>4. Written'
    <3> SUFFICES ASSUME call.op = "write", ~call.late, NEW k \in 1 .. call.s,
                        k < call.s \/ call.at # "drq" \/ (My.word = 0 /\ ~My.err)
                 PROVE  sector'[call.drive][call.lba + k - 1] = call.buf[k]
      BY <1>5, <2>1 DEF Written
    <3>1. selected = call.drive
      BY <2>3, <1>10 DEF OnTime, Record
    <3>2. sector[call.drive][call.lba + k - 1] = call.buf[k]
      BY DEF IInv, Written
    <3> QED
      BY <3>1, <3>2, <1>7, <1>10, <1>13
  <2>5. Read'
    <3> SUFFICES ASSUME call.op # "write", ~call.late, NEW k \in 1 .. Len(call.buf)
                 PROVE  call.buf[k] = sector'[call.drive][call.lba + k - 1]
      BY <1>5 DEF Read
    <3>1. call.buf # <<>>
      BY <1>10 DEF Record
    <3>2. call.op \in {"none", "read"}
      BY <3>1, <1>10 DEF IInv, Shape, Record, Ops
    <3>3. selected = call.drive
      BY <3>1, <3>2 DEF IInv, InStep
    <3>4. call.buf[k] = sector[call.drive][call.lba + k - 1]
      BY DEF IInv, Read
    <3> QED
      BY <3>3, <3>4, <1>7, <1>10, <1>13
  <2> QED
    BY <2>2, <2>4, <2>5, <1>9 DEF IInv
<1>14. CASE selected = i
  <2>1. My = d /\ My' = e /\ Occupied(d) /\ My.busy /\ ~My.drq /\ My.word # 0 /\ My.cmd = "write"
    BY <1>1, <1>2, <1>5, <1>6, <1>14 DEF My, Occupied
  <2>2. ~InCall("data")
    BY <2>1 DEF IInv, InStep
  <2>3. call.op \in {"none", "read"} /\ ~call.late => call.buf = <<>>
    BY <2>1 DEF IInv, InStep
  <2>4. OnTime => call.at \in {"select", "registers", "drq", "flush", "flushed"}
    BY <2>1, <2>2 DEF IInv, InStep, Shape, InCall, OnTime
  <2>5. OnTime /\ call.at = "drq" =>
          /\ call.op = "write" /\ call.s > 0 /\ d.word = call.buf[call.s]
          /\ d.lba = call.lba + call.s - 1 /\ d.left = call.count - call.s + 1
    BY <2>1, <1>1, <1>2, <1>14 DEF IInv, InStep, OnTime
  <2>6. OnTime /\ call.at \in {"flush", "flushed"} => d.lba = call.lba + call.s /\ d.left = 1
    BY <2>1 DEF IInv, InStep
  <2>7. call.s \in Nat /\ call.lba \in Nat /\ call.count \in Nat
    BY <1>10 DEF Record
  <2>8. InStep'
    <3>1. OnTime /\ call.at = "drq" =>
            e.lba = call.lba + call.s /\ e.left = call.count - call.s
      BY <2>5, <2>7, <1>3, <1>4
    <3>2. OnTime /\ call.at \in {"flush", "flushed"} => ~e.drq
      BY <2>6, <1>4, <1>12
    <3>3. call.op = "none" /\ ret /\ ~call.late => FALSE
      BY <2>1 DEF IInv, InStep
    <3>4. OnTime /\ call.at # "select" => selected = call.drive
      BY DEF IInv, InStep
    <3>5. OnTime' <=> OnTime
      BY <1>5 DEF OnTime
    <3> QED
      BY <3>1, <3>2, <3>3, <3>4, <3>5, <2>1, <2>2, <2>3, <2>4, <2>5, <1>4, <1>5, <1>11
      DEF InStep, InCall, OnTime
  <2>9. Written'
    <3> SUFFICES ASSUME call.op = "write", ~call.late, NEW k \in 1 .. call.s
                 PROVE  sector'[call.drive][call.lba + k - 1] = call.buf[k]
      BY <1>5 DEF Written
    <3>1. /\ call.lba + k - 1 \in Lba /\ OnTime
          /\ call.at \in {"drq", "flush", "flushed"} /\ call.drive = i
      <4>1. OnTime /\ call.s > 0
        BY <2>7 DEF OnTime
      <4>2. call.at \in {"drq", "flush", "flushed"}
        BY <4>1, <2>4 DEF IInv, Shape
      <4>3. call.drive = i
        BY <4>1, <4>2, <1>14 DEF IInv, InStep
      <4> QED
        BY <4>1, <4>2, <4>3, <2>7, SectorsAssumption DEF Lba, IInv, Shape
    <3>2. CASE call.at = "drq" /\ k = call.s
      BY <3>1, <3>2, <2>5, <1>7
    <3>3. CASE ~(call.at = "drq" /\ k = call.s)
      <4>1. call.lba + k - 1 # d.lba
        <5>1. CASE call.at = "drq"
          BY <5>1, <3>1, <3>3, <2>5, <2>7
        <5>2. CASE call.at \in {"flush", "flushed"}
          BY <5>2, <3>1, <2>6, <2>7
        <5> QED
          BY <5>1, <5>2, <3>1
      <4>2. sector[i][call.lba + k - 1] = call.buf[k]
        <5>1. k < call.s \/ call.at # "drq"
          BY <3>3, <2>7
        <5> QED
          BY <5>1, <3>1 DEF IInv, Written
      <4> QED
        BY <4>1, <4>2, <3>1, <1>7
    <3> QED
      BY <3>2, <3>3
  <2>10. Read'
    <3>1. call.op # "write" /\ ~call.late => Len(call.buf) = 0
      BY <2>3, <1>10 DEF IInv, Shape, Record, Ops
    <3> QED
      BY <3>1, <1>5 DEF Read
  <2> QED
    BY <2>8, <2>9, <2>10, <1>9 DEF IInv
<1> QED
  BY <1>13, <1>14

LEMMA DriveAnswersKeeps ==
  ASSUME IInv, NEW i \in Present, DriveAnswers(i)
  PROVE  IInv'
<1>1. CASE Stores(dev[i])
  BY <1>1, StoreKeeps
<1>2. CASE ~Stores(dev[i])
  <2>1. /\ i \in Drives /\ Sound(dev[i]) /\ dev[i].busy
        /\ dev' = [dev EXCEPT ![i] = Request(@)] /\ UNCHANGED <<found, call, selected, ret, sector>>
    BY <1>2, DrivesAssumption DEF Drives, IInv, Types, DriveAnswers
  <2>2. dev[i] \in Device /\ dev[i].lba + dev[i].left <= SECTORS /\ ~dev[i].err /\ dev[i].word = 0
    BY <2>1, <1>2 DEF Sound, Stores
  <2>3. PICK e : /\ e = Request(dev[i]) /\ Sound(e) /\ ~e.busy /\ e.cmd = dev[i].cmd
                 /\ e.lba = dev[i].lba /\ e.word = 0 /\ e.err = dev[i].err /\ e.left = dev[i].left
    BY <2>2, RequestSound
  <2>4. dev' = [dev EXCEPT ![i] = e]
    BY <2>1, <2>3
  <2> QED
    BY <2>1, <2>2, <2>3, <2>4, QuietDriveKeeps
<1> QED
  BY <1>1, <1>2

-----------------------------------------------------------------------------
(***************************************************************************)
(* The theorems.                                                           *)
(***************************************************************************)
LEMMA InitIInv == Init => IInv
<1> SUFFICES ASSUME Init PROVE IInv
  OBVIOUS
<1>1. <<>> \in Seq(Words) /\ "boot" \in Ops /\ 0 \in Drives /\ "select" \in Stages /\ Len(<<>>) = 0
  BY DEF Ops, Drives, Stages
<1>2. /\ call \in Record /\ call.op = "boot" /\ call.buf = <<>> /\ call.drive = 0
      /\ call.s = 0 /\ call.count = 0
  BY <1>1, LoopsAssumption DEF Init, Call, Record
<1>3. /\ dev \in [Drives -> Device] /\ \A i \in Drives : dev[i] = Idle /\ Sound(dev[i])
  BY IdleSound DEF Init, Sound
<1>4. /\ sector \in [Drives -> [Lba -> Words]] /\ ret = FALSE /\ found = <<>> /\ selected \in Drives
  BY DEF Init, Words
<1>5. Types
  BY <1>2, <1>3, <1>4 DEF Types
<1>6. Shape
  BY <1>2, <1>4 DEF Shape
<1>7. InStep
  BY <1>2, <1>3 DEF InStep, InCall, OnTime
<1>8. Written /\ Read
  BY <1>1, <1>2 DEF Written, Read
<1> QED
  BY <1>5, <1>6, <1>7, <1>8 DEF IInv

LEMMA NextIInv ==
  ASSUME IInv, [Next]_vars
  PROVE  IInv'
<1>1. CASE \E lba \in Lba, n \in Counts : lba + n <= SECTORS /\ ata_read_sectors_lba28(lba, n)
  BY <1>1, ReadCallKeeps
<1>2. CASE \E lba \in Lba, n \in Counts : \E buf \in [1 .. n -> Values] :
             lba + n <= SECTORS /\ ata_write_sectors_lba28(lba, buf)
  BY <1>2, WriteCallKeeps
<1>3. CASE Driver
  BY <1>3, AtaInitKeeps, SelectKeeps, RegistersKeep, WaitBsyKeeps, CommandKeeps, TestPresentKeeps,
     WaitDrqKeeps, IdentifyDataKeeps, ReadDataKeeps, WriteDataKeeps, FlushKeeps DEF Driver
<1>4. CASE \E i \in Present : DriveAnswers(i) \/ DriveFails(i)
  BY <1>4, DriveAnswersKeeps, DriveFailsKeeps
<1>5. CASE UNCHANGED vars
  <2>1. UNCHANGED <<found, call, selected, ret, dev, sector>> /\ UNCHANGED <<My, drive_bit>>
    BY <1>5 DEF vars, My, drive_bit
  <2> QED
    BY <2>1 DEF IInv, Types, Shape, InStep, Written, Read, InCall, OnTime
<1> QED
  BY <1>1, <1>2, <1>3, <1>4, <1>5 DEF Next

\* A call whose registers the drive took stays in step with it through every
\* wait, retry, error and late answer; the other calls keep the drives sound.
THEOREM Inductive == Spec => []IInv
<1>1. IInv /\ [Next]_vars => IInv'
  BY NextIInv
<1> QED
  BY <1>1, InitIInv, PTL DEF Spec

\* Sector numbers never leave the disk, loop counters never pass their bound.
THEOREM TypesHold == Spec => []TypeOK
<1>1. IInv => TypeOK
  <2> SUFFICES ASSUME IInv PROVE TypeOK
    OBVIOUS
  <2>1. call \in Record /\ dev \in [Drives -> Device] /\ \A i \in Drives : Sound(dev[i])
    BY DEF IInv, Types
  <2>2. call.s \in 0 .. call.count
    <3>1. call.s \in Nat /\ call.count \in Nat
      BY <2>1 DEF Record
    <3> QED
      BY <3>1, <2>1 DEF IInv, Shape, Record, Ops
  <2>3. \A i \in Drives : dev[i].left \in 0 .. SECTORS /\ dev[i].lba \in 0 .. SECTORS
    BY <2>1, SectorsAssumption DEF Sound, Device
  <2>4. /\ call.op \in Ops /\ call.at \in Stages /\ call.drive \in Drives
        /\ call.polls \in 0 .. (POLLS - 1) /\ call.tries \in 0 .. RETRIES /\ call.late \in BOOLEAN
    BY <2>1 DEF Record
  <2> QED
    BY <2>2, <2>3, <2>4 DEF TypeOK, IInv, Types, Shape, Words
<1> QED
  BY <1>1, Inductive, PTL

\* A read gives the sectors it was asked for, if the drive was free when its
\* registers were written.
THEOREM ReadsHold == Spec => []ReadGivesSector
<1>1. IInv => ReadGivesSector
  <2> SUFFICES ASSUME IInv PROVE ReadGivesSector
    OBVIOUS
  <2>1. call.buf \in Seq(Words)
    BY DEF IInv, Types, Record
  <2>2. DOMAIN call.buf = 1 .. Len(call.buf)
    BY <2>1
  <2> QED
    BY <2>2 DEF IInv, Read, ReadGivesSector
<1> QED
  BY <1>1, Inductive, PTL

\* A call that succeeds leaves the drive free for the next one: calls are
\* late only after a call that failed or was late itself.
THEOREM ReadyHolds == Spec => []ReadyAfterSuccess
<1>1. IInv => ReadyAfterSuccess
  BY DEF IInv, InStep, My, ReadyAfterSuccess
<1> QED
  BY <1>1, Inductive, PTL

\* A write that reports success has stored all sectors but, perhaps, the
\* last, whose fate the driver does not look at; if the drive was free when
\* its registers were written.
THEOREM WritesHold == Spec => EarlierSectorsStored
<1> DEFINE Step == call.op = "write" /\ ~call.late /\ call'.op = "none" /\ ret' =>
                     \A k \in 1 .. (call.count - 1) :
                       sector[call.drive][call.lba + k - 1] = call.buf[k]
<1>1. IInv /\ [Next]_vars => [Step]_vars
  <2> SUFFICES ASSUME IInv, Next, call.op = "write", ~call.late, call'.op = "none", ret',
                      NEW k \in 1 .. (call.count - 1)
               PROVE  sector[call.drive][call.lba + k - 1] = call.buf[k]
    OBVIOUS
  <2>1. call \in Record
    BY DEF IInv, Types
  <2>2. call.at = "flushed"
    <3>1. CASE ata_wait_bsy_clear
      <4>1. call.at = "bsy" => ~ret' \/ call'.op = "write"
        BY <3>1, <2>1 DEF ata_wait_bsy_clear, Fail, Return, Goto, PollAgain, Record
      <4> QED
        BY <4>1, <3>1 DEF ata_wait_bsy_clear, InCall
    <3>2. CASE ata_wait_drq
      <4>1. ~ret' \/ call'.op = "write"
        BY <3>2, <2>1 DEF ata_wait_drq, Fail, Return, Goto, PollAgain, Record
      <4> QED
        BY <4>1
    <3>3. CASE Select \/ Registers \/ Command \/ write_data \/ flush_cache
      BY <3>3, <2>1 DEF Select, Registers, Command, write_data, flush_cache, Goto, NextSector, Record
    <3>4. CASE TestPresent
      BY <3>4 DEF TestPresent, InCall, IInv, Shape
    <3>5. CASE ata_init \/ identify_data \/ read_data
      BY <3>5 DEF ata_init, identify_data, read_data
    <3>6. CASE \E i \in Present : DriveAnswers(i) \/ DriveFails(i)
      BY <3>6 DEF DriveAnswers, DriveFails
    <3>7. CASE \E lba \in Lba, n \in Counts : ata_read_sectors_lba28(lba, n)
      BY <3>7 DEF ata_read_sectors_lba28
    <3>8. CASE \E lba \in Lba, n \in Counts : \E buf \in [1 .. n -> Values] :
                 ata_write_sectors_lba28(lba, buf)
      BY <3>8 DEF ata_write_sectors_lba28
    <3> QED
      BY <3>1, <3>2, <3>3, <3>4, <3>5, <3>6, <3>7, <3>8 DEF Next, Driver
  <2>3. k \in 1 .. call.s
    BY <2>1, <2>2 DEF IInv, Shape, Record
  <2> QED
    BY <2>2, <2>3 DEF IInv, Written
<1> QED
  BY <1>1, Inductive, PTL DEF Spec, EarlierSectorsStored

=============================================================================
