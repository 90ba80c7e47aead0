----------------------------- MODULE BoundedLog -----------------------------
(* What the log of a game promises: the newest lines in their order, no     *)
(* more than fit; or, if it stops when it is full, the first ones and, as   *)
(* the last, the message that says so.                                      *)
EXTENDS Sequences, Naturals

CONSTANTS Entries,        \* a level and a text each
          Overflow,       \* the entry that says that no more are kept
          MaxLines

VARIABLES lines, stops

Init == lines = <<>> /\ stops \in BOOLEAN

KeepNewest(entry) ==
    lines' = Append(IF Len(lines) < MaxLines THEN lines ELSE Tail(lines), entry)

KeepFirst(entry) ==
    /\ Len(lines) < MaxLines
    /\ lines' = Append(lines, IF Len(lines) = MaxLines - 1 THEN Overflow ELSE entry)

Next ==
    /\ UNCHANGED stops
    /\ \/ lines' = <<>>
       \/ \E entry \in Entries : IF stops THEN KeepFirst(entry) ELSE KeepNewest(entry)

Spec == Init /\ [][Next]_<<lines, stops>>
=============================================================================
