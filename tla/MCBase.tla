------------------------------- MODULE MCBase -------------------------------
(***************************************************************************)
(* The components that one thread at a time can use, in one run: the       *)
(* object pools, the buffers, the packets, the dates and times, the timer, *)
(* the blocking sockets, the addresses and the reader of files.  They      *)
(* share nothing, so a behaviour uses one of them, the subject, and the    *)
(* others stay as they were created.                                       *)
(***************************************************************************)
EXTENDS ObjectPool

CONSTANTS Bytes, Zero, Capacities, MaxWrite,      \* of the ring and the stream buffer
          Buffers, Arrays, NoArray, MaxSize,      \* objects of class Buffer, addresses
          ArrayCapacities, ArrayBytes,
          Groups, Elements,                       \* of the manual pools
          SocketObjects, Handles, Invalid,        \* of the sockets
          SecondsPerMinute, MinutesPerHour, HoursPerDay,
          Second, CHECK_INTERVAL, RECALC_INTERVAL,   \* of the timer: ticks, and passes
          FlatCalls, NormalCalls, InstantCalls, MaxTimers, MaxLate,
          TimeTick, TimeMicro, TimeMilli, TimeSecond,     \* of the time points
          TimeAmounts, TimeCalls,
          BUFFER_SIZE, Ints, Strings, Protocols,          \* of the packets
          Numbers, Ports, Names, Hosts,                   \* of the addresses
          Files, MaxBuffer                                \* of the file reader

\* No address and no handle is the one that stands for none, and a ring or
\* stream buffer has room for a byte.
ASSUME BuffersAssumption == Capacities \subseteq Nat \ {0} /\ Zero \in Bytes
ASSUME ArraysAssumption == /\ ArrayCapacities \subseteq Nat /\ ArrayBytes # {}
                           /\ NoArray \notin Arrays
ASSUME SocketsAssumption == Invalid \notin Handles

\* A clock has time on it; a timer is registered for a number of seconds.
ASSUME TimerAssumption ==
  /\ {SecondsPerMinute, MinutesPerHour, HoursPerDay, Second} \subseteq Nat \ {0}
  /\ {CHECK_INTERVAL, MaxTimers, MaxLate} \subseteq Nat
  /\ FlatCalls \cup NormalCalls \cup InstantCalls \subseteq BOOLEAN \X Nat

\* A microsecond and a second are so many ticks.
ASSUME TimesAssumption ==
  /\ {TimeTick, TimeMicro, TimeSecond} \subseteq Nat \ {0} /\ TimeMilli \in Nat
  /\ \E k \in 1..TimeMicro : TimeMicro = k * TimeTick
  /\ \E k \in 1..TimeSecond : TimeSecond = k * TimeTick
  /\ TimeAmounts \subseteq Nat

\* A packet has room for its header, and a string ends at its first zero.
ASSUME PacketAssumption == /\ BUFFER_SIZE \in Nat /\ BUFFER_SIZE >= 2
                           /\ Ints \cup Protocols \subseteq Int
                           /\ Strings \subseteq Seq(Int \ {0})

\* A host that is known has an address.
ASSUME AddressAssumption == /\ Numbers \cup Ports \subseteq Seq(Nat)
                            /\ "no name" \notin Names
                            /\ \A name \in DOMAIN Hosts : Hosts[name] \in Seq(Seq(Nat)) \ {<< >>}

VARIABLES subject,
          mem, capacity, head, tail, data_size, ring_passed,
          buffer, stream_passed,
          date, call, calls,
          timerlist, clock, watch, recalc, pc, since, pos, lapsed,
          begin, b_capacity, filled, exists, heap,
          s1, s2, s3, s4, s5, s6, s7   \* the state of a subject with invariants only

ringVars == <<mem, capacity, head, tail, data_size, ring_passed>>
streamVars == <<buffer, stream_passed>>
dateVars == <<date, call, calls>>
timerVars == <<timerlist, clock, watch, recalc, pc, since, pos, lapsed>>
bufferVars == <<begin, b_capacity, filled, exists, heap>>
slots == <<s1, s2, s3, s4, s5, s6, s7>>
baseVars == <<vars, subject, ringVars, streamVars, dateVars, timerVars, bufferVars, slots>>

Ring == INSTANCE RingBuffer WITH passed <- ring_passed
Stream == INSTANCE StreamQueue WITH passed <- stream_passed

\* Dates around the ends of months, years and Februaries of every kind, one
\* that no calendar has and one that is refused.
Date(y, m, d) == [year |-> y, month |-> m, day |-> d, hour |-> 0, min |-> 0, sec |-> 0]
EndOf(y, m, d) == [year |-> y, month |-> m, day |-> d, hour |-> 1, min |-> 1, sec |-> 1]
Dates == INSTANCE DateTime
           WITH Inputs <- {Date(1900, 2, 28), EndOf(1903, 12, 31), Date(1904, 1, 31),
                           EndOf(1904, 2, 28), Date(1904, 2, 29), Date(1904, 3, 1),
                           EndOf(1904, 12, 31), Date(1905, 2, 31), EndOf(1999, 12, 31),
                           Date(2000, 2, 29), Date(1900, 13, 1)},
                Amounts <- {0, 1, 2, 11, 31, 400},
                MaxCalls <- 2, FarYear <- 1905, Stray <- {0, 31}

Timers == INSTANCE Timer

Owned == INSTANCE Buffer
           WITH Objects <- Buffers, Bytes <- ArrayBytes, Capacities <- ArrayCapacities,
                capacity <- b_capacity

\* Both kinds of manual pool: of arrays, and of single objects.
ManualArrays == INSTANCE ManualObjectPool
                  WITH ArrayAlloc <- TRUE, Arrays <- Groups,
                       pool <- s1, array_ptrs <- s2, given <- s3, lent <- s4, deleted <- s5, alive <- s6
ManualSingles == INSTANCE ManualObjectPool
                   WITH ArrayAlloc <- FALSE, Arrays <- Groups,
                        pool <- s1, array_ptrs <- s2, given <- s3, lent <- s4, deleted <- s5, alive <- s6

Times == INSTANCE TimePoint
           WITH Tick <- TimeTick, Micro <- TimeMicro, Milli <- TimeMilli, Second <- TimeSecond,
                Amounts <- TimeAmounts, MaxCalls <- TimeCalls,
                now <- s1, tp <- s2, stamp <- s3, ts <- s4, meant <- s5, spans <- s6, times <- s7

Blocking == INSTANCE Sockets
              WITH Sockets <- SocketObjects, Sizes <- {1},
                   alive <- s1, socket <- s2, state <- s3, returned <- s4, sndbuf <- s5, result <- s6

Packet == INSTANCE MyPacket
            WITH Zero <- 0, stream_buffer <- s1, items <- s2, taken <- s3, got <- s4

Address == INSTANCE NetAddress WITH addr <- s1, port <- s2, given <- s3, named <- s4

Reader == INSTANCE FileReader
            WITH file <- s1, pos <- s2, eof <- s3, failed <- s4, out <- s5

None == s1 = 0 /\ s2 = 0 /\ s3 = 0 /\ s4 = 0 /\ s5 = 0 /\ s6 = 0 /\ s7 = 0

BaseInit ==
  /\ Init /\ Ring!Init /\ Stream!Init /\ Dates!Init /\ Timers!Init /\ Owned!Init
  /\ \/ subject \in {"pool", "ring", "stream", "date", "timer", "buffer"} /\ None
     \/ subject = "arrays" /\ ManualArrays!Init /\ s7 = 0
     \/ subject = "singles" /\ ManualSingles!Init /\ s7 = 0
     \/ subject = "time" /\ Times!Init
     \/ subject = "sockets" /\ Blocking!Init /\ s7 = 0
     \/ subject = "packet" /\ Packet!Init /\ s5 = 0 /\ s6 = 0 /\ s7 = 0
     \/ subject = "address" /\ Address!Init /\ s5 = 0 /\ s6 = 0 /\ s7 = 0
     \/ subject = "file" /\ Reader!Init /\ s6 = 0 /\ s7 = 0
  /\ subject # "ring" => \A c \in Capacities : capacity <= c
  /\ subject # "stream" => \A c \in Capacities : buffer.capacity <= c
  /\ subject # "timer" => clock = 0

UsePool == subject = "pool" /\ Next /\ UNCHANGED <<ringVars, streamVars, dateVars, timerVars, bufferVars, slots>>
UseRing == subject = "ring" /\ Ring!Next /\ UNCHANGED <<vars, streamVars, dateVars, timerVars, bufferVars, slots>>
UseStream == subject = "stream" /\ Stream!Next /\ UNCHANGED <<vars, ringVars, dateVars, timerVars, bufferVars, slots>>
UseDate == subject = "date" /\ Dates!Next /\ UNCHANGED <<vars, ringVars, streamVars, timerVars, bufferVars, slots>>
UseTimer == subject = "timer" /\ Timers!Next /\ UNCHANGED <<vars, ringVars, streamVars, dateVars, bufferVars, slots>>
UseBuffer == subject = "buffer" /\ Owned!Next /\ UNCHANGED <<vars, ringVars, streamVars, dateVars, timerVars, slots>>
UseSlots == /\ \/ subject = "arrays" /\ ManualArrays!Next /\ UNCHANGED s7
               \/ subject = "singles" /\ ManualSingles!Next /\ UNCHANGED s7
               \/ subject = "time" /\ Times!Next
               \/ subject = "sockets" /\ Blocking!Next /\ UNCHANGED s7
               \/ subject = "packet" /\ Packet!Next /\ UNCHANGED <<s5, s6, s7>>
               \/ subject = "address" /\ Address!Next /\ UNCHANGED <<s5, s6, s7>>
               \/ subject = "file" /\ Reader!Next /\ UNCHANGED <<s6, s7>>
            /\ UNCHANGED <<vars, ringVars, streamVars, dateVars, timerVars, bufferVars>>

BaseNext == /\ \/ UsePool \/ UseRing \/ UseStream \/ UseDate \/ UseTimer \/ UseBuffer \/ UseSlots
            /\ UNCHANGED subject

BaseSpec == BaseInit /\ [][BaseNext]_baseVars

-----------------------------------------------------------------------------
\* The ring buffer and the stream buffer implement a queue of bytes
\* (RingBuffer.cpp:19-96, StreamBuffer.cpp:60-139).
BuffersAreByteQueues == Ring!ImplementsByteQueue /\ Stream!ImplementsByteQueue

\* What is added to or subtracted from a date is added or subtracted exactly
\* (DateTime.cpp:222-335).
ElapsedIsExact == Dates!AddIsExact /\ Dates!SubtractIsExact /\ Dates!MonthsAreCounted

\* The weekday follows the days, and a date that was written in a format reads
\* back (DateTime.cpp:82-192, BasicFormat.h).
TimeIsTold == subject = "date" => Dates!DayofWeekFollows /\ Dates!DateReadsBack

\* A time point stays where its calls should have brought it
\* (TimePoint.cpp:49-73).
TimePointsStay == subject = "time" => Times!DriftIsBounded

\* What a packet was given comes out of it, in its order, for as long as it
\* had room (MyPacket.cpp:3-29).
PacketCarriesItems == subject = "packet" => Packet!PacketCarriesItems

\* An address is the one that was given (SocketAddress.cpp, DNS.hpp), and a
\* file is read whole (FileReader.cpp:44-84).
TakenAsGiven == /\ subject = "address" => Address!AddressIsAsGiven
                /\ subject = "file" => Reader!ReadIsWhole

\* What packets, addresses and files were given, they give back.
GivesWhatWasGiven == PacketCarriesItems /\ TakenAsGiven

\* The difference of two dates is what lies between them (DateTime.h:139).
DifferenceIsElapsed == Dates!DifferenceIsElapsed

\* An instant timer runs once and in time (Timer.cpp:96-178).
InstantRunsInTime == Timers!InstantRunsInTime

\* Flat timers aim at round times, and a cycle timer goes on (Timer.cpp:22-178).
TimersKeepTime == subject = "timer" => Timers!FlatAimsAtRoundTime /\ Timers!CyclesGoOn

\* Neither timers nor time points lose the time.
TimeIsKept == TimersKeepTime /\ TimePointsStay

\* Nothing that is owned is released twice or used after its release: the
\* objects of a manual pool (ObjectPool.hpp:203-276), the arrays of buffers
\* (Buffer.cpp:15-138) and the handles of sockets (Socket.cpp:6-77).
OwnedOnce == /\ subject = "arrays" => ManualArrays!DeletedOnce
             /\ subject = "singles" => ManualSingles!DeletedOnce
             /\ subject = "buffer" => Owned!ArraysHaveOneOwner
             /\ subject = "sockets" => Blocking!HandlesHaveOneOwner

\* A buffer is a value: what is done to one changes no other (Buffer.cpp:15-118).
ObjectsAreValues == [][subject = "buffer" => Owned!ValueStep]_bufferVars

\* Ring and stream buffers of 2 or 3 bytes, written up to 3 bytes at a time;
\* two Buffers, and an array more than they need at a time, because every
\* array that is lost to a move makes one less; pools of two arrays of two
\* objects, or of four objects; days of 2 hours of 2 minutes of 2 seconds of
\* 2 ticks, with a pass of the timer every half second as in the code.  No
\* flat time lasts 3 seconds.  Instant timers call a functor, the others a
\* function.
MCSizes == {1, 2}
MCBytes == {"zero", "a", "b"}
MCZero == "zero"
MCCapacities == {2, 3}
MCArrayBytes == {"zero", "a"}
MCFlatCalls == {<<FALSE, 2>>, <<FALSE, 8>>}
MCNormalCalls == {<<FALSE, 3>>}
MCInstantCalls == {<<TRUE, 3>>}

\* Packets of 6 cells, 2 of them the header; addresses at both ends of the
\* private ranges; files without and with a carriage return, and an empty
\* one; a second of two milliseconds of two microseconds of two ticks.
MCStrings == {<< >>, <<7>>, <<7, 8>>}
MCNumbers == {<<127, 0, 0, 1>>, <<10, 1, 2, 3>>, <<172, 31, 0, 1>>, <<172, 32, 0, 1>>,
              <<192, 168, 0, 9>>, <<255, 255, 255, 255>>}
MCPorts == {<<0, 80>>, <<200, 1>>}
MCHosts == [a |-> <<<<93, 184, 216, 34>>, <<1, 2, 3, 4>>>>]
MCFiles == {[text |-> <<"a", "b">>, crs |-> 0], [text |-> <<"a", "n", "b">>, crs |-> 1],
            [text |-> << >>, crs |-> 0]}
=============================================================================
