-------------------------------- MODULE Log --------------------------------
(***************************************************************************)
(* Logger::Write (Base/Log.h) over a FileWriter: threads that write lines  *)
(* through one Logger into a file a day, or into a file an hour in a       *)
(* folder a day.                                                           *)
(*                                                                         *)
(* A line is its writer and the time in it; what it says is left out.      *)
(***************************************************************************)
EXTENDS Integers, Sequences

CONSTANTS Writers,     \* threads
          Nobody,      \* no thread
          Cycles,      \* the FileCreateCycle to try: "DAILY", "HOURLY", "MAX"
          HoursPerDay, MinutesPerHour,   \* the minute is the unit of time
          MaxMinutes,  \* BOUND: how long the run lasts
          MaxLines     \* BOUND: lines written in all

VARIABLES cycle,   \* _filecycle
          now,     \* system clock
          holder,  \* owner of _mutex
          at,      \* per writer: "idle", "locked", "named" or "opened"
          dt,      \* per writer: the time it has read
          stream,  \* the file _fw has open, or Closed
          files,   \* the lines of every file there is
          console  \* lines written to cout

vars == <<cycle, now, holder, at, dt, stream, files, console>>

Day(t) == t \div (HoursPerDay * MinutesPerHour)
Hour(t) == (t \div MinutesPerHour) % HoursPerDay

Closed == << >>

\* YYYY-MM-DD.log, or <hour>h.log in the folder YYYY-MM-DD.
FileName(t) == IF cycle = "DAILY" THEN <<Day(t)>> ELSE <<Day(t), Hour(t)>>

Init == /\ cycle \in Cycles /\ now = 0 /\ holder = Nobody
        /\ at = [w \in Writers |-> "idle"] /\ dt = [w \in Writers |-> 0]
        /\ stream = Closed /\ files = << >> /\ console = << >>

Goes(w, to) == at' = [at EXCEPT ![w] = to]

\* Mutant: the time is read before the lock.
LockReadsFirst(w) ==
  \/ /\ at[w] = "idle" /\ dt[w] # now
     /\ dt' = [dt EXCEPT ![w] = now]
     /\ UNCHANGED <<cycle, now, holder, at, stream, files, console>>
  \/ /\ at[w] = "idle" /\ holder = Nobody
     /\ Len(console) < MaxLines   \* BOUND
     /\ holder' = w /\ Goes(w, "named")
     /\ UNCHANGED <<cycle, now, dt, stream, files, console>>

\* lock_guard and the formatting of the message.
Lock(w) ==
  /\ at[w] = "idle" /\ holder = Nobody
  /\ Len(console) < MaxLines   \* BOUND
  /\ holder' = w /\ Goes(w, "locked")
  /\ UNCHANGED <<cycle, now, dt, stream, files, console>>

\* DateTime::SetNow; a cycle that is neither daily nor hourly writes nothing.
SetNow(w) ==
  /\ at[w] = "locked"
  /\ dt' = [dt EXCEPT ![w] = now]
  /\ IF cycle = "MAX"
     THEN Goes(w, "idle") /\ holder' = Nobody
     ELSE Goes(w, "named") /\ UNCHANGED holder
  /\ UNCHANGED <<cycle, now, stream, files, console>>

\* CreateFolder and FileWriter::Open with ios::app: what is open is closed,
\* and the open may fail; nobody looks at its result.
Open(w) ==
  /\ at[w] = "named"
  /\ \/ /\ stream' = FileName(dt[w])
        /\ files' = IF stream' \in DOMAIN files THEN files
                    ELSE [f \in DOMAIN files \cup {stream'} |->
                            IF f \in DOMAIN files THEN files[f] ELSE << >>]
     \/ stream' = Closed /\ UNCHANGED files
  /\ Goes(w, "opened")
  /\ UNCHANGED <<cycle, now, holder, dt, console>>

\* The line goes to the file, which is closed, and to cout; a stream that is
\* not open drops it.  The mutex is released.
Put(w) ==
  LET line == [writer |-> w, time |-> dt[w]]
  IN  /\ at[w] = "opened"
      /\ files' = IF stream = Closed THEN files
                  ELSE [files EXCEPT ![stream] = Append(@, line)]
      /\ console' = Append(console, line)
      /\ stream' = Closed
      /\ holder' = Nobody /\ Goes(w, "idle")
      /\ UNCHANGED <<cycle, now, dt>>

Write(w) == Lock(w) \/ SetNow(w) \/ Open(w) \/ Put(w)

Tick == /\ now < MaxMinutes   \* BOUND
        /\ now' = now + 1
        /\ UNCHANGED <<cycle, holder, at, dt, stream, files, console>>

Next == Tick \/ \E w \in Writers : Write(w)

Spec == Init /\ [][Next]_vars

-----------------------------------------------------------------------------
InOrder(lines) == \A i, j \in 1..Len(lines) : i < j => lines[i].time <= lines[j].time

(***************************************************************************)
(* Every file holds lines of its own day, or hour of a day, and they and   *)
(* the lines on the console come in the order of their times, whoever      *)
(* wrote them and wherever midnight falls between two steps of a Write     *)
(* (Log.h:67-103).                                                         *)
(***************************************************************************)
LinesInOrder ==
  /\ InOrder(console)
  /\ \A f \in DOMAIN files :
       /\ InOrder(files[f])
       /\ \A i \in 1..Len(files[f]) : FileName(files[f][i].time) = f
=============================================================================
