------------------------------ MODULE LogModel ------------------------------
(* The log of a launch: a ring buffer that the game's output is appended to *)
(* and hosts read from (LogModel, LaunchTask::onLogLine).                   *)
EXTENDS Integers, Sequences

CONSTANTS Lines, Levels,   \* texts, and the levels that they tell
          MaxLines         \* m_maxLines: the setting ConsoleMaxLines

\* A log for no lines at all would divide by zero.
ASSUME LogAssumption == MaxLines \in Nat \ {0}

VARIABLES
    content,        \* m_content: MaxLines entries, from 0
    firstLine,      \* m_firstLine
    numLines,       \* m_numLines
    suspended,      \* m_suspended
    stopOnOverflow  \* m_stopOnOverflow: the setting ConsoleOverflowStop

logVars == <<content, firstLine, numLines, suspended, stopOnOverflow>>

Empty == [level |-> "Unknown", line |-> ""]
Overflow == [level |-> "Fatal", line |-> "Stopped watching the game log"]

LogInit ==
    /\ content = [i \in 0..(MaxLines - 1) |-> Empty]
    /\ firstLine = 0 /\ numLines = 0
    /\ suspended = FALSE /\ stopOnOverflow \in BOOLEAN

Place(row) == (firstLine + row) % MaxLines
Full == numLines = MaxLines

(* Mutated form of AppendEntry: the place is computed after the oldest line *)
(* has made room.                                                           *)
AppendEntryLate(entry) ==
    /\ ~suspended
    /\ ~(Full /\ stopOnOverflow)
    /\ IF Full THEN firstLine' = (firstLine + 1) % MaxLines /\ UNCHANGED numLines
               ELSE numLines' = numLines + 1 /\ UNCHANGED firstLine
    /\ content' = [content EXCEPT ![(firstLine' + numLines) % MaxLines] =
                      IF stopOnOverflow /\ numLines = MaxLines - 1 THEN Overflow ELSE entry]
    /\ UNCHANGED <<suspended, stopOnOverflow>>

(* The oldest line makes room, unless the log stops when it is full.        *)
AppendEntry(entry) ==
    /\ ~suspended
    /\ ~(Full /\ stopOnOverflow)
    /\ content' = [content EXCEPT ![Place(numLines)] =
                      IF stopOnOverflow /\ numLines = MaxLines - 1 THEN Overflow ELSE entry]
    /\ IF Full THEN firstLine' = (firstLine + 1) % MaxLines /\ UNCHANGED numLines
               ELSE numLines' = numLines + 1 /\ UNCHANGED firstLine
    /\ UNCHANGED <<suspended, stopOnOverflow>>

(* A line that does not tell its level takes that of the previous one.      *)
PreviousLevel == IF numLines > 0 THEN content[numLines - 1].level ELSE "Unknown"

OnLogLine ==
    \E line \in Lines, level \in Levels \cup {PreviousLevel} :
        AppendEntry([level |-> level, line |-> line])

Clear ==
    /\ firstLine' = 0 /\ numLines' = 0
    /\ UNCHANGED <<content, suspended, stopOnOverflow>>

Suspend ==
    /\ suspended' \in BOOLEAN
    /\ UNCHANGED <<content, firstLine, numLines, stopOnOverflow>>

LogNext == OnLogLine \/ Clear \/ Suspend

LogSpec == LogInit /\ [][LogNext]_logVars

(* What a host is shown: the rows from the oldest kept to the newest.       *)
Row(i) == content[Place(i - 1)]
Shown == [i \in 1..numLines |-> Row(i)]

-----------------------------------------------------------------------------
(* What is shown is a bounded log: across every wrap of the ring the lines  *)
(* are the newest ones, in the order in which they came.                    *)
Log == INSTANCE BoundedLog WITH
    lines <- Shown, stops <- stopOnOverflow,
    Entries <- [level : Levels \cup {"Unknown", "Fatal"}, line : Lines]

KeepsLog == Log!Spec
=============================================================================
