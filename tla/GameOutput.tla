----------------------------- MODULE GameOutput -----------------------------
(* What a process writes becomes lines of the log: LoggedProcess cuts the   *)
(* two streams into lines, LogParser finds the log4j events among them and  *)
(* LaunchTask appends what it found.  A stream is a sequence of pieces: of  *)
(* plain text, the parts of an event, and ends of lines.  The parsers are   *)
(* the launch's and survive the process; the unfinished line is the         *)
(* process's and is shared by both of its streams.                          *)
EXTENDS Integers, FiniteSets, SequencesExt

CONSTANTS Messages,   \* what is written at once, up to the end of a line
          MaxMessages \* bound: messages written

ASSUME OutputAssumption ==
    Messages \subseteq Seq(STRING) /\ <<>> \notin Messages /\ MaxMessages \in Nat

VARIABLES
    writing,   \* the rest of the message each stream is in the middle of
    leftover,  \* m_leftover_line, with the stream of each piece
    buffer,    \* m_buffer of m_stdoutParser and m_stderrParser
    partial,   \* m_partialData of each
    shown,     \* what was appended to the log, piece by piece, for each stream
    written,   \* history: what was written to each stream, without ends of lines
    lost,      \* history: streams with an event that cannot be read or was cut off
    mixed,     \* history: both streams had a part in a line
    messages

outputVars == <<writing, leftover, buffer, partial, shown, written, lost, mixed, messages>>

Streams == {"StdOut", "StdErr"}
EndOfLine == "end of line"

(* The elements of a sequence that are in S, in their order: SelectSeq, as  *)
(* a function that is defined by recursion.                                 *)
Kept(q, S) ==
    LET kept[n \in 0..Len(q)] ==
            IF n = 0 THEN <<>> ELSE IF q[n] \in S THEN Append(kept[n - 1], q[n]) ELSE kept[n - 1]
    IN  kept[Len(q)]

Text(q) == Kept(q, STRING \ {EndOfLine})

OutputInit ==
    /\ writing = [s \in Streams |-> <<>>] /\ leftover = <<>>
    /\ buffer = [s \in Streams |-> <<>>] /\ partial = [s \in Streams |-> <<>>]
    /\ shown = [s \in Streams |-> <<>>] /\ written = [s \in Streams |-> <<>>]
    /\ lost = {} /\ mixed = FALSE /\ messages = 0

-----------------------------------------------------------------------------
(* LogParser *)

Begins(p) == p \in {"event", "nameless"}

(* The place of the end of the event that a buffer begins with, or 0: XML   *)
(* that breaks off, or is broken, has none.                                 *)
EndOfEvent(b) ==
    LET Depth(i) == Cardinality({j \in 1..i : Begins(b[j])}) - Cardinality({j \in 1..i : b[j] = "end"})
        ends == {i \in DOMAIN b : Depth(i) = 0 /\ \A j \in 1..i : b[j] # "broken"}
    IN  IF b # <<>> /\ Begins(Head(b)) /\ ends # {} THEN Min(ends) ELSE 0

(* parseNext: an event, the text before the next one, or the beginning of   *)
(* an event.  An event without its logger is an error, which stays in the   *)
(* buffer, and what was found before it is dropped.                         *)
ParseNext(p) ==
    LET b == p.buffer
        last == EndOfEvent(b)
        begins == {i \in DOMAIN b : Begins(b[i])}
        Take(n) == [p EXCEPT !.items = @ \o SubSeq(b, 1, n), !.buffer = SubSeq(b, n + 1, Len(b))]
    IN  CASE last > 0 /\ Head(b) = "nameless" -> [p EXCEPT !.items = <<>>, !.error = TRUE]
          [] last > 0 /\ Head(b) # "nameless" -> Take(last)
          [] last = 0 /\ begins = {} -> Take(Len(b))
          [] last = 0 /\ 1 \in begins -> [p EXCEPT !.partial = b]
          [] last = 0 /\ begins # {} /\ 1 \notin begins -> Take(Min(begins) - 1)

(* parseAvailable: until the buffer is empty or begins with an event that   *)
(* is not over.                                                             *)
HasNext(p) == p.buffer # <<>> /\ p.partial = <<>> /\ ~p.error
ParseAvailable(b) ==
    LET after[n \in 0..Len(b)] ==
            IF n = 0 THEN [items |-> <<>>, buffer |-> b, partial |-> <<>>, error |-> FALSE]
            ELSE LET p == after[n - 1] IN IF HasNext(p) THEN ParseNext(p) ELSE p
    IN  after[Len(b)]

(* Mutated form of AppendLine: the partial event joins the buffer it is in. *)
AppendLineTwice(s, line) ==
    IF partial[s] # <<>> THEN buffer[s] \o partial[s] \o <<EndOfLine>> \o line ELSE buffer[s] \o line

(* appendLine: a partial event is continued on a new line.                  *)
AppendLine(s, line) ==
    IF partial[s] # <<>> THEN partial[s] \o <<EndOfLine>> \o line ELSE buffer[s] \o line

(* LaunchTask::onLogLine and parseXmlLogs: a line that leads to an error is *)
(* shown as it is.                                                          *)
ParseXmlLogs(s, line) ==
    LET found == ParseAvailable(AppendLine(s, line))
    IN  /\ buffer' = [buffer EXCEPT ![s] = found.buffer]
        /\ partial' = [partial EXCEPT ![s] = found.partial]
        /\ shown' = [shown EXCEPT ![s] = @ \o
                        Text(IF found.error THEN line ELSE found.items)]

-----------------------------------------------------------------------------
(* LoggedProcess *)

(* reprocess: what follows the last end of a line is left over.             *)
Pieces(line) == [i \in DOMAIN line |-> line[i].piece]
Own(s) == Kept(leftover, [from : {s}, piece : STRING])

Reprocess(s, piece) ==
    IF piece = EndOfLine
    THEN /\ ParseXmlLogs(s, Pieces(leftover))
         /\ leftover' = <<>>
         /\ mixed' = (mixed \/ \E i \in DOMAIN leftover : leftover[i].from # s)
    ELSE /\ leftover' = Append(leftover, [from |-> s, piece |-> piece])
         /\ UNCHANGED <<buffer, partial, shown, mixed>>

(* A stream is read piece by piece, wherever it was cut.                    *)
ReadyRead(s) ==
    /\ IF writing[s] # <<>>
       THEN writing' = [writing EXCEPT ![s] = Tail(@)] /\ UNCHANGED <<lost, messages>>
            /\ Reprocess(s, Head(writing[s]))
            /\ written' = [written EXCEPT ![s] = @ \o Text(<<Head(writing[s])>>)]
       ELSE \E m \in Messages :
            /\ messages < MaxMessages /\ messages' = messages + 1
            /\ writing' = [writing EXCEPT ![s] = Tail(m)]
            /\ lost' = IF ToSet(m) \cap {"nameless", "broken"} # {} THEN lost \cup {s} ELSE lost
            /\ Reprocess(s, Head(m))
            /\ written' = [written EXCEPT ![s] = @ \o Text(<<Head(m)>>)]

(* The process ends, maybe in the middle of a message, and the next step    *)
(* starts another: the line it left over goes with it.                      *)
ProcessEnds ==
    /\ writing' = [s \in Streams |-> <<>>] /\ leftover' = <<>>
    /\ lost' = lost \cup {s \in Streams : partial[s] # <<>>}
    /\ written' = [s \in Streams |-> SubSeq(written[s], 1, Len(written[s]) - Len(Own(s)))]
    /\ leftover # <<>> \/ \E s \in Streams : partial[s] # <<>>
    /\ UNCHANGED <<buffer, partial, shown, mixed, messages>>

OutputNext == ProcessEnds \/ \E s \in Streams : ReadyRead(s)

OutputSpec == OutputInit /\ [][OutputNext]_outputVars

-----------------------------------------------------------------------------
(* Everything that was written to a stream is shown, once and in its order, *)
(* or is the unfinished line or event, wherever lines and events were cut:  *)
(* unless an event cannot be read or was cut off, or the streams came to    *)
(* have a line in common.                                                   *)
OutputIsShown ==
    ~mixed => \A s \in Streams \ lost : shown[s] \o Text(partial[s]) \o Pieces(Own(s)) = written[s]
=============================================================================
