-------------------------------- MODULE Logger --------------------------------
(***************************************************************************)
(* logger.c with what it prints through: serial_vprintf, serial_put and    *)
(* serial_write_str of drivers/serial.c for the serial port, vprintf of    *)
(* libc's stdio.c for the screen.                                          *)
(*                                                                         *)
(* A format is a sequence of words and options; a word, a string or a      *)
(* number is printed as one unit.  What becomes of the units on the screen *)
(* is in module Vga, what becomes of the digits of a number in Numbers.    *)
(* The FIFO of the serial port is a register of one unit.                  *)
(***************************************************************************)
EXTENDS Integers, Sequences, SequencesExt

Levels  == 0 .. 4                    \* LOG_DEBUG to LOG_CRITICAL
Outputs == {"serial", "screen"}      \* LOG_SERIAL, LOG_GRAPHIC

(* The call of ide_read_sector has the option %03x (ata.c:141).            *)
ReadError == [lvl |-> 3, fmt |-> <<"Error", "%0", "%s", "%d">>, args |-> <<"bus", "drive", "lba">>]

(* The calls of the macro LOG that are compiled, by their formats.  Nothing *)
(* calls device_add and ide_read_sector yet (device.c:13, ata.c:223).      *)
Sites ==
  [welcome |-> [lvl |-> 1, fmt |-> <<"Welcome">>, args |-> <<>>],
   device  |-> [lvl |-> 1, fmt |-> <<"Adding", "%s", "%d">>, args |-> <<"name", "id">>],
   ata     |-> [lvl |-> 1, fmt |-> <<"Flags", "%x", "%s">>, args |-> <<"flags", "serial">>],
   readerror |-> ReadError,
   panic   |-> [lvl |-> 4, fmt |-> <<"Panic", "%s">>, args |-> <<"exception">>],
   abort   |-> [lvl |-> 4, fmt |-> <<"Aborted", "%s", "%d">>, args |-> <<"expression", "line">>],
   ubsan   |-> [lvl |-> 4, fmt |-> <<"Undefined", "%s", "%s", "%d", "%d">>,
                args |-> <<"kind", "file", "line", "col">>]]

Fatal == {"panic", "abort", "ubsan"}
None  == "none"
Garbage == "garbage"                 \* what lies behind the arguments

VARIABLES
  level, output,     \* g_klogger
  site,              \* the last call of LOG since the logger was changed
  todo,              \* what it still has to print, <<>> when it has returned:
                     \* a header and a message for each output
  item, ap,          \* where it is in the format and in the arguments
  flush,             \* serial_write_str waits for the end of the transmission
  thr,               \* the register of the serial port, "empty" or "full"
  text,              \* what the outputs have got since the kernel's last call
  cause              \* why the kernel stopped, None while it runs

logger == <<level, output>>
call   == <<site, todo, item, ap, flush>>
vars   == <<logger, call, thr, text, cause>>

Init ==
  /\ level \in {0, 1}                \* LOG_DEBUG or LOG_INFO, by the build
  /\ output = {"serial"}
  /\ site = None
  /\ todo = <<>> /\ item = 1 /\ ap = 1
  /\ flush = FALSE
  /\ thr = "empty"
  /\ text = [o \in Outputs |-> <<>>]
  /\ cause = None

(* The parts that a call prints, in their order.                           *)
IfOn(p, o, out) == IF o \in out THEN << <<p, o>> >> ELSE <<>>
Parts(out) == IfOn("header", "serial", out) \o IfOn("header", "screen", out)
              \o IfOn("message", "serial", out) \o IfOn("message", "screen", out)

Format(part)    == IF part = "header" THEN <<"[", "%d", "%s">> ELSE Sites[site].fmt
Arguments(part) == IF part = "header" THEN <<"date", "level">> ELSE Sites[site].args

-------------------------------------------------------------------------------
(***************************************************************************)
(* The kernel: it logs, changes the logger, or fails at any moment.        *)
(***************************************************************************)
Calling(s, printed) ==
  /\ site' = s
  /\ todo' = IF printed THEN Parts(output) ELSE <<>>
  /\ item' = 1 /\ ap' = 1 /\ flush' = FALSE
  /\ UNCHANGED <<logger, thr>>

Idle == todo = <<>> /\ cause = None

kernel_logger_log(s) ==
  /\ Idle
  /\ Calling(s, Sites[s].lvl >= level)
  /\ text' = [o \in Outputs |-> <<>>]
  /\ UNCHANGED cause

Setting ==
  /\ Idle
  /\ site' = None
  /\ UNCHANGED <<todo, item, ap, flush, thr, text, cause>>

kernel_logger_set_level  == Setting /\ level' \in Levels /\ UNCHANGED output
kernel_logger_set_output == Setting /\ output' \in SUBSET Outputs /\ UNCHANGED level

(* panic and abort_handler: the call in progress is never gone on with.    *)
Stop(s, why) ==
  /\ Calling(s, Sites[s].lvl >= level)
  /\ cause' = why
  /\ UNCHANGED text

Fail == cause = None /\ \E s \in {"panic", "abort"} : Stop(s, "failure")

(* In a build with -fsanitize=undefined (Makefile:11) every handler of     *)
(* UBSan.c logs the place, and panics when that has been printed.          *)
__ubsan_handle == cause = None /\ Stop("ubsan", "undefined")

ubsan_panic == site = "ubsan" /\ todo = <<>> /\ Stop("panic", "undefined")

-------------------------------------------------------------------------------
(***************************************************************************)
(* The part being printed, item by item.                                   *)
(***************************************************************************)
part   == todo[1][1]
dest   == todo[1][2]
Busy   == todo # <<>> /\ ~flush
Unsupported == {"%0"}
Option == {"%s", "%d", "%u", "%x"} \union Unsupported
AnItem == item \in DOMAIN Format(part)
Argument == IF ap \in DOMAIN Arguments(part) THEN Arguments(part)[ap] ELSE Garbage

(* serial_put waits for the register; what is written to a full register   *)
(* is lost.                                                                *)
serial_put(unit) ==
  /\ dest = "serial" => thr = "empty"
  /\ thr' = IF dest = "serial" THEN "full" ELSE thr
  /\ text' = [text EXCEPT ![dest] = IF dest = "serial" /\ thr = "full" THEN @ ELSE Append(@, unit)]

put_char ==
  /\ Busy /\ AnItem /\ Format(part)[item] \notin Option
  /\ serial_put(Format(part)[item])
  /\ item' = item + 1
  /\ UNCHANGED <<logger, site, todo, ap, flush, cause>>

PrintOption ==
  /\ serial_put(Argument)
  /\ item' = item + 1 /\ ap' = ap + 1
  /\ flush' = (dest = "serial" /\ Format(part)[item] = "%s")
  /\ UNCHANGED <<logger, site, todo, cause>>

put_option_NoAssert ==               \* fault: the assertion is compiled out
  /\ Busy /\ AnItem /\ Format(part)[item] \in Option
  /\ IF Format(part)[item] \in Unsupported
     THEN item' = item + 1 /\ UNCHANGED <<logger, site, todo, ap, flush, thr, text, cause>>
     ELSE PrintOption

(* An option that the loop does not know fails its assertion.              *)
put_option ==
  /\ Busy /\ AnItem /\ Format(part)[item] \in Option
  /\ IF Format(part)[item] \in Unsupported
     THEN Stop("abort", "format")
     ELSE PrintOption

Flushed(when) ==
  /\ flush /\ when
  /\ flush' = FALSE
  /\ UNCHANGED <<logger, site, todo, item, ap, thr, text, cause>>

serial_write_str_Inverted == Flushed(thr = "full")    \* fault: no ! in the loop's test
serial_write_str == Flushed(thr = "empty")

(* va_list is passed by value: the next output starts over with the first  *)
(* argument.                                                               *)
Returned(first) ==
  /\ Busy /\ ~AnItem
  /\ todo' = Tail(todo)
  /\ item' = 1 /\ ap' = first
  /\ UNCHANGED <<logger, site, flush, thr, text, cause>>

vprintf_returns_Shared ==            \* fault: one va_list for both outputs
  Returned(IF Len(todo) > 1 /\ todo[2][1] = part THEN ap ELSE 1)
vprintf_returns == Returned(1)

(* The serial port (external) sends what its register holds.               *)
Transmit ==
  /\ thr = "full" /\ thr' = "empty"
  /\ UNCHANGED <<logger, call, text, cause>>

hlt == cause # None /\ site # "ubsan" /\ todo = <<>> /\ thr = "empty" /\ UNCHANGED vars

Printing == put_char \/ put_option \/ serial_write_str \/ vprintf_returns \/ ubsan_panic

Next ==
  \/ \E s \in DOMAIN Sites \ Fatal : kernel_logger_log(s)
  \/ kernel_logger_set_level
  \/ kernel_logger_set_output
  \/ Fail
  \/ __ubsan_handle
  \/ Printing
  \/ Transmit
  \/ hlt

Spec == Init /\ [][Next]_vars

(* Printing goes on, and the port sends what it was given.                 *)
FairSpec == Spec /\ WF_vars(Printing) /\ WF_vars(Transmit)

-------------------------------------------------------------------------------
(***************************************************************************)
(* Properties.                                                             *)
(***************************************************************************)
(* What a call of LOG says: the header, then the message, each option with *)
(* the argument that it stands for.  A panic over undefined behaviour says *)
(* its place first.                                                        *)
Header   == <<"[", "date", "level">>
Location == Header \o <<"Undefined", "kind", "file", "line", "col">>
Meant ==
  CASE site = "welcome" -> Header \o <<"Welcome">>
    [] site = "device"  -> Header \o <<"Adding", "name", "id">>
    [] site = "ata"     -> Header \o <<"Flags", "flags", "serial">>
    [] site = "readerror" -> Header \o <<"Error", "bus", "drive", "lba">>
    [] site = "panic"   -> (IF cause = "undefined" THEN Location ELSE <<>>)
                           \o Header \o <<"Panic", "exception">>
    [] site = "abort"   -> Header \o <<"Aborted", "expression", "line">>
    [] site = "ubsan"   -> Location

(* When a call has returned, every output that is on has got all that the  *)
(* call says, in order, and the others nothing; below the level nobody has *)
(* got anything.  The last words of a kernel that stops amid a message     *)
(* follow what was printed of it (logger.c:35, 66-98, serial.c:109-149).   *)
LoggedInFull ==
  (todo = <<>> /\ site # None) =>
    \A o \in Outputs :
      IF o \in output /\ Sites[site].lvl >= level
      THEN IF cause = None THEN text[o] = Meant ELSE IsSuffix(Meant, text[o])
      ELSE cause = None => text[o] = <<>>

(* A call of LOG ends, the last one of a stopping kernel as well, as the   *)
(* serial port never keeps its register full (serial.c:45, 87); and after  *)
(* undefined behaviour the kernel comes to its panic (UBSan.c:84-86).      *)
CallEnds == (todo # <<>> \/ site = "ubsan") ~> (todo = <<>> /\ site # "ubsan")

(* The one format with an option that the loops do not know, "%03x" of     *)
(* ata.c:141: a read error that is to be logged never returns to the       *)
(* caller.  The first output that is on breaks off at the bus, the other   *)
(* after its header, and the words of the failed assertion follow on both  *)
(* (serial.c:137-139, stdio.c:33-35).                                      *)
First == IF "serial" \in output THEN "serial" ELSE "screen"
BrokenOff(o) == Header \o (IF o = First THEN <<"Error">> ELSE <<>>)

ReadErrorStops ==
  /\ site = "readerror" /\ todo = <<>> => Sites[site].lvl < level \/ output = {}
  /\ cause = "format" /\ todo = <<>> => \A o \in output : text[o] = BrokenOff(o) \o Meant
===============================================================================
