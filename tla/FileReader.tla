----------------------------- MODULE FileReader -----------------------------
(***************************************************************************)
(* Base/src/FileReader.cpp over std::ifstream: opening, measuring and      *)
(* reading a file, as the server reads its configuration.                  *)
(*                                                                         *)
(* The stream is modelled as far as the class depends on it: a position,   *)
(* the end-of-file and the failure flag, and seekg and tellg, which do     *)
(* nothing but report -1 once the stream has failed.                       *)
(***************************************************************************)
EXTENDS Integers, Sequences

CONSTANTS Files,      \* the files there are: [text, crs], the carriage returns
                      \*   that a text stream leaves out of the text
          MaxBuffer   \* BOUND: size of a buffer

VARIABLES file,       \* the open file, or Closed
          pos, eof, failed,
          out         \* the last call, whether it succeeded and what it gave

vars == <<file, pos, eof, failed, out>>

Closed == [text |-> << >>, crs |-> -1]
Open == file # Closed
Gave(call, ok, bytes) == out' = [call |-> call, ok |-> ok, bytes |-> bytes]

Init == /\ file = Closed
        /\ pos = 0 /\ eof = FALSE /\ failed = FALSE
        /\ out = [call |-> "none", ok |-> FALSE, bytes |-> << >>]

\* Open closes what is open; a file that is not there leaves the reader closed.
OpenFile(f) ==
  /\ file' = f
  /\ pos' = 0 /\ eof' = FALSE /\ failed' = FALSE
  /\ Gave("open", f # Closed, << >>)

Close == OpenFile(Closed)

\* seekg(0): the end of the file is forgotten, a failure is not.
Rewound == IF failed THEN UNCHANGED pos ELSE pos' = 0

\* GetFileSize also leaves the position at the beginning.  The difference of
\* two failed tellg is 0.
FileSize == IF ~Open THEN -1 ELSE IF failed THEN 0 ELSE Len(file.text) + file.crs

GetFileSize ==
  /\ Gave("size", Open, <<FileSize>>)
  /\ IF Open THEN eof' = FALSE /\ Rewound ELSE UNCHANGED <<pos, eof>>
  /\ UNCHANGED <<file, failed>>

\* Read: the whole file, from the beginning, into a buffer that must be large
\* enough.  One larger than the text makes the stream fail at its end.
Read(size) ==
  /\ IF ~Open \/ size < FileSize
     THEN /\ Gave("read", FALSE, << >>)
          /\ UNCHANGED failed
          /\ IF Open THEN eof' = FALSE /\ Rewound ELSE UNCHANGED <<pos, eof>>
     ELSE IF failed
     THEN Gave("read", TRUE, << >>) /\ eof' = FALSE /\ UNCHANGED <<pos, failed>>
     ELSE /\ Gave("read", TRUE, file.text)
          /\ pos' = Len(file.text)
          /\ eof' = (size > Len(file.text)) /\ failed' = (size > Len(file.text))
  /\ UNCHANGED file

\* ReadChar: past the last character it still succeeds, once, with what get
\* returns at the end.
EndOfFile == "eof"

ReadChar ==
  /\ IF ~Open \/ eof
     THEN Gave("char", FALSE, << >>) /\ UNCHANGED <<pos, eof, failed>>
     ELSE IF failed \/ pos = Len(file.text)
     THEN /\ Gave("char", TRUE, <<EndOfFile>>)
          /\ eof' = ~failed /\ failed' = TRUE
          /\ UNCHANGED pos
     ELSE /\ Gave("char", TRUE, <<file.text[pos + 1]>>)
          /\ pos' = pos + 1
          /\ UNCHANGED <<eof, failed>>
  /\ UNCHANGED file

Next == \/ \E f \in Files \cup {Closed} : OpenFile(f)
        \/ Close \/ GetFileSize \/ ReadChar
        \/ \E size \in 0..MaxBuffer : Read(size)

Spec == Init /\ [][Next]_vars

-----------------------------------------------------------------------------
(***************************************************************************)
(* Read never gives a piece: it gives the whole text or nothing, wherever  *)
(* the calls before it left the position.  Nothing is also what it gives,  *)
(* and calls a success, once a call met the end of the text - a Read of a  *)
(* file with carriage returns does, into a buffer of its size - until the  *)
(* file is opened again (FileReader.cpp:44-84).                            *)
(***************************************************************************)
ReadIsWhole ==
  out.call = "read" => /\ out.bytes \in {<< >>, file.text}
                       /\ out.ok /\ ~failed => out.bytes = file.text
=============================================================================
