--------------------------- MODULE RealTimeClock ---------------------------
(***************************************************************************)
(* Reading the CMOS clock (rtc.rs).  The clock is the second actor: once a *)
(* second it raises the update flag and then moves its registers, one by   *)
(* one as far as a reader can tell.  now() reads flag and registers one    *)
(* port access at a time.  Of the six registers two are kept: the seconds, *)
(* in a small radix, for those that roll over into the next, and the       *)
(* hours, for the one whose coding depends on the mode of the clock.       *)
(***************************************************************************)
EXTENDS Naturals, Sequences

CONSTANTS SecondRadix,  \* how many values the register below the hours takes
          StartHours,   \* hours at which the clock may stand at first
          MaxTicks      \* bound: updates during the call

ASSUME ClockAssumption ==
  SecondRadix \in 1..9 /\ StartHours \subseteq 0..23 /\ MaxTicks \in Nat

VARIABLES
  time,      \* the time the clock counts: <<second, hour>>
  registers, \* the two registers
  updating,  \* 0: no update; 1: the flag is up; 2: the first register has moved
  ticks,     \* updates so far, for the bound
  isBcd, is12h,  \* the mode, bits of status register B
  reader,    \* where now() is: "idle", "waiting", "reading", "done"
  readNow,   \* the registers read in this pass
  readLast,  \* those of the pass before, <<>> in the first pass
  returned,  \* what now() has returned
  shown      \* history: the times the clock has counted since now() was called

clockVars == <<time, registers, updating, ticks, isBcd, is12h, reader, readNow, readLast,
               returned, shown>>

----------------------------------------------------------------------------
(* The clock (external, as rtc.rs reads it).                               *)

Bcd(n) == ((n \div 10) * 16) + (n % 10)

Hour12(h) == IF h % 12 = 0 THEN 12 ELSE h % 12

\* The hour register: bit 7 is the PM flag in 12-hour mode.
HourRegister(h) ==
  LET shownHour == IF is12h THEN Hour12(h) ELSE h
  IN (IF isBcd THEN Bcd(shownHour) ELSE shownHour) + (IF is12h /\ h >= 12 THEN 128 ELSE 0)

RegistersOf(t) == <<t[1], HourRegister(t[2])>>

ClockInit ==
  /\ isBcd \in BOOLEAN /\ is12h \in BOOLEAN
  /\ \E s \in 0..SecondRadix - 1, h \in StartHours : time = <<s, h>>
  /\ registers = RegistersOf(time)
  /\ updating = 0 /\ ticks = 0
  /\ reader = "idle" /\ readNow = <<>> /\ readLast = <<>> /\ returned = <<>> /\ shown = {}

ClockUnread == UNCHANGED <<isBcd, is12h, reader, readNow, readLast, returned>>

RaiseFlag ==
  /\ updating = 0 /\ ticks < MaxTicks
  /\ updating' = 1 /\ ticks' = ticks + 1
  /\ UNCHANGED <<time, registers, shown>> /\ ClockUnread

MoveFirst ==
  /\ updating = 1 /\ updating' = 2
  /\ time' = <<(time[1] + 1) % SecondRadix,
               IF time[1] = SecondRadix - 1 THEN (time[2] + 1) % 24 ELSE time[2]>>
  /\ registers' = [registers EXCEPT ![1] = time'[1]]
  /\ shown' = IF reader \in {"waiting", "reading"} THEN shown \cup {time'} ELSE shown
  /\ UNCHANGED ticks /\ ClockUnread

MoveRest ==
  /\ updating = 2 /\ updating' = 0
  /\ registers' = RegistersOf(time)
  /\ UNCHANGED <<time, ticks, shown>> /\ ClockUnread

----------------------------------------------------------------------------
(* now().                                                                  *)

ReaderStep == UNCHANGED <<time, registers, updating, ticks, isBcd, is12h>>

CallNow ==
  /\ reader = "idle" /\ reader' = "waiting"
  /\ shown' = {time}
  /\ ReaderStep /\ UNCHANGED <<readNow, readLast, returned>>

\* update_in_progress() is false.
ClearToRead == updating = 0

SeeFlagDown ==
  /\ reader = "waiting" /\ ClearToRead
  /\ reader' = "reading"
  /\ ReaderStep /\ UNCHANGED <<readNow, readLast, returned, shown>>

ReadFirst ==
  /\ reader = "reading" /\ readNow = <<>>
  /\ readNow' = <<registers[1]>>
  /\ ReaderStep /\ UNCHANGED <<reader, readLast, returned, shown>>

BinaryOf(v) == (v % 16) + ((v \div 16) * 10)   \* bcd_to_bin

\* The hour as now() decodes it: in BCD mode the PM flag is masked off before it is looked at.
DecodedHour(v) ==
  LET plain == IF isBcd THEN BinaryOf(v % 128) ELSE v
  IN IF is12h /\ plain >= 128 THEN ((plain % 128) % 12) + 12 ELSE plain

Decoded(values) == <<IF isBcd THEN BinaryOf(values[1]) ELSE values[1], DecodedHour(values[2])>>

\* Mutant: the first pass is believed.
PassesAgreeAlways(pass) == TRUE

\* This pass has read what the pass before it read.
PassesAgree(pass) == readLast = pass

\* The last register of a pass, and the comparison with the pass before.
ReadRest ==
  /\ reader = "reading" /\ Len(readNow) = 1
  /\ LET pass == <<readNow[1], registers[2]>>
     IN IF PassesAgree(pass)
        THEN reader' = "done" /\ returned' = Decoded(pass) /\ readLast' = <<>>
        ELSE reader' = "waiting" /\ readLast' = pass /\ UNCHANGED returned
  /\ readNow' = <<>>
  /\ ReaderStep /\ UNCHANGED shown

ClockDone == reader = "done" /\ UNCHANGED clockVars

ClockNext ==
  \/ RaiseFlag \/ MoveFirst \/ MoveRest
  \/ CallNow \/ SeeFlagDown \/ ReadFirst \/ ReadRest \/ ClockDone

ClockSpec == ClockInit /\ [][ClockNext]_clockVars

----------------------------------------------------------------------------
ClockTypeOK ==
  /\ time \in (0..SecondRadix - 1) \X (0..23)
  /\ registers \in Seq(0..255) /\ Len(registers) = 2
  /\ updating \in 0..2 /\ ticks \in 0..MaxTicks /\ {isBcd, is12h} \subseteq BOOLEAN
  /\ reader \in {"idle", "waiting", "reading", "done"}
  /\ Len(readNow) <= 1 /\ Len(readLast) \in {0, 2}

\* The hour now() reports at hour h: in 12-hour mode midnight comes out as 12 and, in BCD, an hour
\* of the afternoon after noon as one of the morning; every other hour is right in every mode.
ReportedHour(h) ==
  CASE is12h /\ h = 0 -> 12
    [] is12h /\ isBcd /\ h > 12 -> h - 12
    [] OTHER -> h

\* "re-reading until two consecutive reads agree" (rtc.rs:37-40) never returns a torn time: what
\* now() returns is a time the clock counted between the call and the return, with the hour it
\* reports in that mode, however the updates fall between the port accesses.
NowIsNeverTorn ==
  reader = "done" => \E t \in shown : returned = <<t[1], ReportedHour(t[2])>>
=============================================================================
