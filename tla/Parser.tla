-------------------------------- MODULE Parser --------------------------------
(***************************************************************************)
(* The parser of the CLI's output (internal/claudecode/parser.go): lines   *)
(* accumulate in a buffer until the buffer is a JSON object.               *)
(*                                                                         *)
(* A line is abstracted to its kind:                                       *)
(*   "whole"  a message on one line                                        *)
(*   "head"   the first line of a message printed on two                   *)
(*   "tail"   its second line                                              *)
(*   "quiet"  a control message or a stream event, which is not passed on  *)
(*   "odd"    an object that is no message: parseMessage returns an error  *)
(*   "noise"  a line that is part of no object, a warning say              *)
(*   "blank"  white space                                                  *)
(*   "huge"   a line above the scanner's limit, which never gets here      *)
(* and the size of the buffer is counted in lines.                         *)
(***************************************************************************)
EXTENDS Naturals, Sequences

CONSTANT BufferLimit       \* maxBufferSize

ASSUME ParserAssumption == BufferLimit \in Nat \ {0, 1}

Kinds == {"whole", "head", "tail", "quiet", "odd", "noise", "blank", "huge"}

\* json.Unmarshal succeeds on these buffers.
IsObject(b) ==
    \/ \E k \in {"whole", "quiet", "odd"} : b = <<k>>
    \/ b = <<"head", "tail">>

\* What parseMessage makes of an object that ends with this line.
Parsed(k) == CASE k \in {"whole", "tail"} -> "msg"
               [] k = "quiet"             -> "none"
               [] k = "odd"               -> "err"

\* Mutant: a parsed object stays in the buffer.
ProcessLine_NoReset(b, k) ==
    LET acc == Append(b, k)
    IN  IF k = "blank" THEN [buffer |-> b, out |-> "none"]
        ELSE IF Len(acc) > BufferLimit THEN [buffer |-> <<>>, out |-> "err"]
        ELSE IF IsObject(acc) THEN [buffer |-> acc, out |-> Parsed(k)]
        ELSE [buffer |-> acc, out |-> "none"]

\* Mutant: the buffer has no limit.
ProcessLine_NoLimit(b, k) ==
    LET acc == Append(b, k)
    IN  IF k = "blank" THEN [buffer |-> b, out |-> "none"]
        ELSE IF IsObject(acc) THEN [buffer |-> <<>>, out |-> Parsed(k)]
        ELSE [buffer |-> acc, out |-> "none"]

\* processLine: the buffer after line k, and what comes out of it.
ProcessLine(b, k) ==
    LET acc == Append(b, k)
    IN  IF k = "blank" THEN [buffer |-> b, out |-> "none"]
        ELSE IF Len(acc) > BufferLimit THEN [buffer |-> <<>>, out |-> "err"]
        ELSE IF IsObject(acc) THEN [buffer |-> <<>>, out |-> Parsed(k)]
        ELSE [buffer |-> acc, out |-> "none"]
=============================================================================
