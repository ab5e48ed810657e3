-------------------------------- MODULE Ata --------------------------------
(***************************************************************************)
(* The ATA driver (driver/ata.c) and the drives it polls.  A call is a     *)
(* record that walks through the driver's loops; one step is one poll of   *)
(* the status register, one write of registers, or one sector through the  *)
(* data port.                                                              *)
(*                                                                         *)
(* The drives are external: they answer when they like or never, may end a *)
(* command in error, and ignore registers written while they are busy or   *)
(* in the middle of a transfer.  A sector is a value.                      *)
(***************************************************************************)
EXTENDS Integers, Sequences

CONSTANTS
  Present,     \* the drives on the primary channel: 0 is master, 1 slave
  SECTORS,     \* sectors of a drive
  Counts,      \* sector counts callers ask for
  Values,      \* sector contents callers write; 0 is there before
  Faults,      \* commands a drive may end in error
  POLLS,       \* the 100000 polls of a wait
  RETRIES      \* the 5 more waits of a write

ASSUME DrivesAssumption == Present \subseteq {0, 1}
ASSUME SectorsAssumption == SECTORS \in Nat \ {0} /\ Counts \subseteq Nat
ASSUME ValuesAssumption == Values \subseteq Nat \ {0}
ASSUME FaultsAssumption == Faults \subseteq {"identify", "read", "write", "flush"}
ASSUME LoopsAssumption == POLLS \in Nat \ {0} /\ RETRIES \in Nat

VARIABLES
  found,       \* ata_devices: the drives identified, ata_device_count of them
  call,        \* the call in progress
  selected,    \* the drive that ATA_REG_HDDEVSEL selects
  ret,         \* what the last call returned
  dev,         \* the drives' status and the command they work on
  sector       \* what a read of the drive would give

vars == <<found, call, selected, ret, dev, sector>>

Drives == {0, 1}
Lba == 0 .. (SECTORS - 1)
Stages == {"select", "registers", "bsy", "command", "present", "drq", "data", "flush", "flushed"}
Ops == {"boot", "none", "identify", "read", "write"}

Idle == [busy |-> FALSE, drq |-> FALSE, err |-> FALSE, cmd |-> "none",
         lba |-> 0, left |-> 0, word |-> 0]

\* The driver's locals: drive wanted, sectors to do, buffer, loop counters;
\* and what the driver does not look at: the drive was still at an earlier
\* command when its registers were written, and has not taken them all.
Call(op, drive, lba, buf, count) ==
  [op |-> op, drive |-> drive, lba |-> lba, buf |-> buf, count |-> count,
   at |-> "select", s |-> 0, polls |-> 0, tries |-> 0, late |-> FALSE]
NoCall == Call("none", 0, 0, <<>>, 0)

-----------------------------------------------------------------------------
(***************************************************************************)
(* The drive.                                                              *)
(***************************************************************************)
\* At an earlier command: registers written now are ignored.
Occupied(d) == d.busy \/ d.drq

\* outb(ATA_REG_COMMAND): what the drive may work on afterwards.  In the
\* middle of a transfer it goes on with it or drops it.
Commanded(d, c, lba, count) ==
  LET begun == [Idle EXCEPT !.busy = TRUE, !.cmd = c, !.lba = lba, !.left = count]
  IN  IF d.busy THEN {d} ELSE IF d.drq THEN {d, begun} ELSE {begun}

\* The drive has data for the host, or room for the host's.
Request(d) == [d EXCEPT !.busy = FALSE, !.drq = d.left > 0]
Failed(d) == [d EXCEPT !.busy = FALSE, !.err = TRUE, !.left = 0]

\* One sector through the data port; the drive goes on if more is to come,
\* and has the last sector of a write to store.
Moved(d, v) ==
  LET more == d.left > 1 \/ d.cmd = "write"
  IN  IF d.cmd = "write" THEN [d EXCEPT !.drq = FALSE, !.busy = more, !.word = v]
      ELSE [d EXCEPT !.drq = FALSE, !.busy = more, !.left = @ - 1, !.lba = @ + 1]

\* A write without a word yet asks for one; with one it stores it.
Stores(d) == d.cmd = "write" /\ d.word # 0
Stored(d) == Request([d EXCEPT !.left = @ - 1, !.lba = @ + 1, !.word = 0])

DriveAnswers(i) ==
  /\ dev[i].busy
  /\ IF Stores(dev[i])
     THEN /\ sector' = [sector EXCEPT ![i][dev[i].lba] = dev[i].word]
          /\ dev' = [dev EXCEPT ![i] = Stored(@)]
     ELSE dev' = [dev EXCEPT ![i] = Request(@)] /\ UNCHANGED sector
  /\ UNCHANGED <<found, call, selected, ret>>

DriveFails(i) ==
  /\ dev[i].busy /\ dev[i].cmd \in Faults
  /\ dev' = [dev EXCEPT ![i] = Failed(@)]
  /\ UNCHANGED <<found, call, selected, ret, sector>>

-----------------------------------------------------------------------------
(***************************************************************************)
(* Plausible mistakes, used only to check that the properties notice them. *)
(***************************************************************************)
NoDriveBit(c) == 0
OneSectorShort(c) == c.s + 2 = c.count
PollUncounted(c) == c
RetryOnceMore(c) == c.op # "write" \/ c.tries = RETRIES + 1

-----------------------------------------------------------------------------
(***************************************************************************)
(* The driver.                                                             *)
(***************************************************************************)
My == dev[selected]
Goto(stage) == call' = [call EXCEPT !.at = stage, !.polls = 0, !.tries = 0]
Return(r) == call' = [NoCall EXCEPT !.late = call.late] /\ ret' = r

\* The loops of the waits: another poll, a wait that ends without an answer,
\* and a write that has no wait left.
PollAgain(c) == [c EXCEPT !.polls = @ + 1]
TimedOut(c) == c.polls + 1 = POLLS
GivesUp(c) == c.op # "write" \/ c.tries = RETRIES
ErrorSeen(d) == d.err

\* The drive both calls work on; the byte for ATA_REG_HDDEVSEL names it.
drive_bit == IF Len(found) > 1 THEN 1 ELSE 0
DevSel(c) == c.drive

Init ==
  /\ found = <<>>
  /\ call = Call("boot", 0, 0, <<>>, 0)
  /\ selected \in Drives
  /\ ret = FALSE
  /\ dev = [i \in Drives |-> Idle]
  /\ sector = [i \in Drives |-> [l \in Lba |-> 0]]

Identify(i) == Call("identify", i, 0, <<>>, 1)

\* kmain() calls it once, before any other call.
ata_init ==
  /\ call.op = "boot"
  /\ call' = Identify(0)
  /\ UNCHANGED <<found, selected, ret, dev, sector>>

\* ata_identify(0) is followed by ata_identify(1).
IdentifyReturns == call' = IF call.drive = 0 THEN Identify(1) ELSE NoCall

ata_read_sectors_lba28(lba, count) ==
  /\ call.op = "none"
  /\ IF count = 0 \/ found = <<>> THEN Return(FALSE)
     ELSE call' = Call("read", drive_bit, lba, <<>>, count) /\ UNCHANGED ret
  /\ UNCHANGED <<found, selected, dev, sector>>

ata_write_sectors_lba28(lba, buf) ==
  /\ call.op = "none"
  /\ IF buf = <<>> \/ found = <<>> THEN Return(FALSE)
     ELSE call' = Call("write", drive_bit, lba, buf, Len(buf)) /\ UNCHANGED ret
  /\ UNCHANGED <<found, selected, dev, sector>>

InCall(stage) == call.op \in {"identify", "read", "write"} /\ call.at = stage

\* outb(ATA_REG_HDDEVSEL), before any wait: selects the drive, if the one
\* selected so far is free to take it.
Select ==
  /\ InCall("select")
  /\ selected' \in {DevSel(call)} \cup (IF Occupied(My) THEN {selected} ELSE {})
  /\ call' = [call EXCEPT !.at = "registers", !.late = Occupied(My)]
  /\ UNCHANGED <<found, ret, dev, sector>>

\* Sector count and LBA, still before the wait.  ata_identify() does not
\* wait before its command at all.
Registers ==
  /\ InCall("registers")
  /\ call' = [call EXCEPT !.at = IF call.op = "identify" THEN "command" ELSE "bsy",
                          !.late = @ \/ Occupied(My)]
  /\ UNCHANGED <<found, selected, ret, dev, sector>>

\* The false returns of the waits, for each caller of theirs.
Fail == IF call.op = "identify" THEN IdentifyReturns /\ UNCHANGED ret ELSE Return(FALSE)

ata_wait_bsy_clear ==
  /\ InCall("bsy") \/ InCall("flushed")
  /\ \/ ~My.busy /\ call.at = "bsy"
          /\ Goto(IF call.op = "identify" THEN "drq" ELSE "command") /\ UNCHANGED ret
     \/ ~My.busy /\ call.at = "flushed" /\ Return(~ErrorSeen(My))
     \/ My.busy /\ ~TimedOut(call) /\ call' = PollAgain(call) /\ UNCHANGED ret
     \/ My.busy /\ TimedOut(call) /\ Fail
  /\ UNCHANGED <<found, selected, dev, sector>>

\* The command goes to the drive selected, which does what its registers
\* say: what this call wrote, or after a late one what they held before,
\* all of it or in part.
Command ==
  /\ InCall("command")
  /\ \E lba \in Lba, count \in 1 .. SECTORS :
       /\ lba + count <= SECTORS
       /\ ~call.late \/ call.op = "identify" => lba = call.lba /\ count = call.count
       /\ \E d \in Commanded(My, call.op, lba, count) :
            dev' = IF selected \in Present THEN [dev EXCEPT ![selected] = d] ELSE dev
  /\ Goto(IF call.op = "identify" THEN "present" ELSE "drq")
  /\ UNCHANGED <<found, selected, ret, sector>>

\* A status of 0: nobody there.
TestPresent ==
  /\ InCall("present")
  /\ IF selected \in Present THEN Goto("bsy") ELSE IdentifyReturns
  /\ UNCHANGED <<found, selected, ret, dev, sector>>

ata_wait_drq ==
  /\ InCall("drq")
  /\ \/ My.drq /\ ~ErrorSeen(My) /\ Goto("data") /\ UNCHANGED ret
     \/ /\ ~My.drq /\ ~ErrorSeen(My) /\ ~TimedOut(call)
        /\ call' = PollAgain(call) /\ UNCHANGED ret
     \/ /\ ErrorSeen(My) \/ (~My.drq /\ TimedOut(call))
        /\ IF GivesUp(call) THEN Fail
           ELSE call' = [call EXCEPT !.polls = 0, !.tries = @ + 1] /\ UNCHANGED ret
  /\ UNCHANGED <<found, selected, dev, sector>>

NextSector(c) == [c EXCEPT !.s = @ + 1, !.at = "drq"]
LastSector(c) == c.s + 1 = c.count

identify_data ==
  /\ InCall("data") /\ call.op = "identify"
  /\ dev' = [dev EXCEPT ![selected] = Moved(@, 0)]
  /\ found' = Append(found, call.drive)
  /\ IdentifyReturns
  /\ UNCHANGED <<selected, ret, sector>>

read_data ==
  /\ InCall("data") /\ call.op = "read"
  /\ dev' = [dev EXCEPT ![selected] = Moved(@, 0)]
  /\ LET c == [NextSector(call) EXCEPT !.buf = Append(@, sector[selected][My.lba])]
     IN  IF LastSector(call) THEN call' = [c EXCEPT !.op = "none"] /\ ret' = TRUE
         ELSE call' = c /\ UNCHANGED ret
  /\ UNCHANGED <<found, selected, sector>>

write_data ==
  /\ InCall("data") /\ call.op = "write"
  /\ dev' = [dev EXCEPT ![selected] = Moved(@, call.buf[call.s + 1])]
  /\ call' = IF LastSector(call) THEN [call EXCEPT !.at = "flush"] ELSE NextSector(call)
  /\ UNCHANGED <<found, selected, ret, sector>>

flush_cache ==
  /\ InCall("flush")
  /\ \E d \in Commanded(My, "flush", 0, 0) : dev' = [dev EXCEPT ![selected] = d]
  /\ Goto("flushed")
  /\ UNCHANGED <<found, selected, ret, sector>>

Driver ==
  \/ ata_init \/ Select \/ Registers \/ ata_wait_bsy_clear \/ Command \/ TestPresent \/ ata_wait_drq
  \/ identify_data \/ read_data \/ write_data \/ flush_cache

\* Callers stay on the disk.
Next ==
  \/ \E lba \in Lba, n \in Counts : lba + n <= SECTORS /\ ata_read_sectors_lba28(lba, n)
  \/ \E lba \in Lba, n \in Counts : \E buf \in [1 .. n -> Values] :
       lba + n <= SECTORS /\ ata_write_sectors_lba28(lba, buf)
  \/ Driver
  \/ \E i \in Present : DriveAnswers(i) \/ DriveFails(i)

\* Nothing preempts the driver; of the drives nothing is assumed.
Spec == Init /\ [][Next]_vars /\ WF_vars(Driver)

-----------------------------------------------------------------------------
(***************************************************************************)
(* Properties.                                                             *)
(***************************************************************************)
\* Drives, sectors and loop counters stay in their ranges.
TypeOK ==
  /\ found \in {<<>>, <<0>>, <<1>>, <<0, 1>>}
  /\ call.op \in Ops /\ call.at \in Stages /\ call.drive \in Drives
  /\ call.polls \in 0 .. (POLLS - 1) /\ call.tries \in 0 .. RETRIES /\ call.s \in 0 .. call.count
  /\ call.late \in BOOLEAN /\ selected \in Drives /\ ret \in BOOLEAN
  /\ \A i \in Drives : dev[i].left \in 0 .. SECTORS /\ dev[i].lba \in 0 .. SECTORS
  /\ sector \in [Drives -> [Lba -> Values \cup {0}]]

\* What a read has in its buffer is what the sectors asked for hold, through
\* every wait, error and drive that is not the one used before.  A call is
\* excepted whose registers were written while the drive was still at a
\* command that an earlier call gave up (ata.c:178-186): it reads the sectors
\* they held before and returns true.
ReadGivesSector ==
  call.op # "write" /\ ~call.late =>
    \A k \in DOMAIN call.buf : call.buf[k] = sector[call.drive][call.lba + k - 1]

\* A write that reports success has stored every sector whose wait it was
\* still to make, that is all but the last one; the same calls excepted.
EarlierSectorsStored ==
  [][call.op = "write" /\ ~call.late /\ call'.op = "none" /\ ret' =>
       \A k \in 1 .. (call.count - 1) :
         sector[call.drive][call.lba + k - 1] = call.buf[k]]_vars

\* A call that succeeds leaves the drive at no command, so that the next one
\* is not late: only after a call that failed, or was late itself, may one be.
ReadyAfterSuccess ==
  call.op = "none" /\ ret /\ ~call.late => ~Occupied(dev[drive_bit])

\* Every call comes back, also from a drive that never answers.
CallReturns == call.op \in {"boot", "identify", "read", "write"} ~> call.op = "none"

=============================================================================
