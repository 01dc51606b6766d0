------------------------------- MODULE Stream -------------------------------
(***************************************************************************)
(* The output of one turn: an agent's process writes lines of JSON, its    *)
(* runtime adapter cuts the bytes it reads into lines and turns them into  *)
(* events, and the turn runner records the events and learns from them how *)
(* the turn ended (runtimes/claude.ts, runtimes/sapling.ts,                *)
(* agents/turn-runner.ts).  A chunk may end anywhere; a line is three      *)
(* parts here: half of its text, the other half, and the newline.          *)
(***************************************************************************)
EXTENDS Naturals, Sequences
LOCAL INSTANCE SequencesExt

CONSTANTS Lines,    \* what a line may say
          MaxLines, \* bound: lines of one turn
          Cap,      \* flushSizeBytes, in the unit of a fragment's size
          Prior     \* the session the turn asks to resume, or ""

VARIABLES runtime,  \* "claude" or "sapling"
          out,      \* the lines the process has begun to write
          parts,    \* parts of them it wrote
          taken,    \* parts the parser has read
          child,    \* "runs" or "gone"
          turn      \* what parser and runner know, see Fresh

streamVars == <<runtime, out, parts, taken, child, turn>>

\* The parser's batch of text, the rows recorded so far, the session that was pinned,
\* the runner's cleanResult, and whether the parser runs, ended or threw.
Fresh == [batch |-> <<>>, rows |-> <<>>, sid |-> "", clean |-> FALSE, phase |-> "reads"]

StreamInit ==
  /\ runtime \in {"claude", "sapling"}
  /\ out = <<>> /\ parts = 0 /\ taken = 0 /\ child = "runs"
  /\ turn = Fresh

-----------------------------------------------------------------------------
\* What the runner does with one event: pin the session, judge a result, warn, record.
Pin(t, line) ==
  IF runtime = "sapling" \/ t.sid # "" \/ line.sid = "" THEN t
  ELSE [t EXCEPT !.sid = line.sid,
                 !.rows = IF Prior \notin {"", line.sid} THEN Append(@, <<"mismatch">>) ELSE @]

\* normalizeResultEvent fails closed; Claude's is_error is taken as it is.
IsError(line) == IF runtime = "sapling" THEN line.says # "clean" ELSE line.says = "failed"

Record(t, row) == [t EXCEPT !.rows = Append(@, row)]

\* A poll for mail in a Bash call is warned of before the call.
RecordTool(t, block, at) ==
  Record(IF block = "poll" THEN Record(t, <<"warned">>) ELSE t, <<"event", at>>)

-----------------------------------------------------------------------------
\* The batch of text leaves as one event.
FlushText(t) ==
  IF t.batch = <<>> THEN t
  ELSE [t EXCEPT !.rows = Append(@, <<"text", t.batch>>), !.batch = <<>>]

SizeOf(frag) == frag[3]
Bytes(frags) == FoldLeft(LAMBDA n, f : n + SizeOf(f), 0, frags)

\* A fragment that would burst the batch sends it first; a full batch leaves at once.
AddText(t, frag) ==
  LET roomy == IF Bytes(t.batch) > 0 /\ Bytes(t.batch) + SizeOf(frag) > Cap
               THEN FlushText(t) ELSE t
      added == [roomy EXCEPT !.batch = Append(@, frag)]
  IN IF Bytes(added.batch) >= Cap THEN FlushText(added) ELSE added

Size == [text |-> 1, long |-> 2]

\* Seeded bug for the runs: a tool call does not flush the text before it.
ToolOvertakes(t, block, at) == RecordTool(t, block, at)

ToolUse(t, block, at) == RecordTool(FlushText(t), block, at)

\* Block b of an assistant message: text is batched, a tool call is an event, and
\* anything else (thinking) is passed over.
Block(t, line, i, b) ==
  LET block == line.blocks[b] IN
  IF block \in DOMAIN Size THEN AddText(t, <<i, b, Size[block]>>)
  ELSE IF block \in {"tool", "poll"} THEN ToolUse(t, block, <<i, b>>)
  ELSE t

\* Line i of Claude's stream.  A line that is no object at all throws out of the parser.
ClaudeLine(t, i) ==
  LET line == out[i] IN
  CASE line.type = "junk" -> t
    [] line.type = "null" -> [t EXCEPT !.phase = "threw"]
    [] line.type = "assistant" ->
         FoldLeft(LAMBDA s, b : Block(s, line, i, b), t, [b \in DOMAIN line.blocks |-> b])
    [] line.type = "user" -> Record(FlushText(t), <<"event", <<i, 1>>>>)
    [] line.type = "system" -> Record(Pin(FlushText(t), line), <<"event", <<i, 1>>>>)
    [] line.type = "result" ->
         LET pinned == Pin(FlushText(t), line)
         IN Record([pinned EXCEPT !.clean = ~IsError(line)], <<"event", <<i, 1>>>>)

\* Line i of sapling's stream: every object is an event as it stands.
SaplingLine(t, i) ==
  LET line == out[i] IN
  IF line.type \in {"junk", "null"} THEN t
  ELSE Record(IF line.type = "result" THEN [t EXCEPT !.clean = ~IsError(line)] ELSE t,
              <<"event", <<i, 1>>>>)

\* After a throw nothing more is parsed.
ProcessLine(t, i) ==
  IF t.phase # "reads" THEN t
  ELSE IF runtime = "claude" THEN ClaudeLine(t, i) ELSE SaplingLine(t, i)

\* The lines whose newline lies among the parts a + 1 .. b.
Ended(a, b) == SetToSortSeq({i \in 1 .. MaxLines : a < 3 * i /\ 3 * i <= b}, <)

-----------------------------------------------------------------------------
\* The process writes a line, or dies and leaves the last one cut off.
Write ==
  /\ child = "runs" /\ Len(out) < MaxLines
  /\ \E l \in Lines : out' = Append(out, l)
  /\ parts' = parts + 3
  /\ UNCHANGED <<runtime, taken, child, turn>>

Leave ==
  /\ child = "runs"
  /\ child' = "gone"
  /\ \/ UNCHANGED <<out, parts>>
     \/ /\ Len(out) < MaxLines
        /\ \E l \in Lines, n \in 1 .. 2 : out' = Append(out, l) /\ parts' = parts + n
  /\ UNCHANGED <<runtime, taken, turn>>

\* A chunk arrives: its whole lines are parsed, the rest stays in the buffer.
Chunk ==
  /\ turn.phase = "reads"
  /\ \E to \in taken + 1 .. parts :
       /\ taken' = to
       /\ turn' = FoldLeft(ProcessLine, turn, Ended(taken, to))
  /\ child' = IF turn'.phase = "threw" THEN "gone" ELSE child
  /\ UNCHANGED <<runtime, out, parts>>

\* No chunk came within flushIntervalMs of the first fragment.
FlushTimer ==
  /\ turn.phase = "reads" /\ turn.batch # <<>>
  /\ turn' = FlushText(turn)
  /\ UNCHANGED <<runtime, out, parts, taken, child>>

\* The stream ends: a last line without its newline is parsed too, if it is whole.
End ==
  /\ turn.phase = "reads" /\ child = "gone" /\ taken = parts
  /\ LET rest == IF taken % 3 = 2 THEN ProcessLine(turn, taken \div 3 + 1) ELSE turn
     IN turn' = IF rest.phase = "reads" THEN [FlushText(rest) EXCEPT !.phase = "done"] ELSE rest
  /\ UNCHANGED <<runtime, out, parts, taken, child>>

StreamNext == Write \/ Leave \/ Chunk \/ FlushTimer \/ End

-----------------------------------------------------------------------------
\* The lines the parser has seen whole.
Seen == SubSeq(out, 1, IF turn.phase # "reads" /\ taken % 3 = 2 THEN taken \div 3 + 1 ELSE taken \div 3)

\* What each line has to say, in the order it was written: <<line, block>> pairs.
Said(i) ==
  LET line == Seen[i] IN
  IF line.type \in {"junk", "null"} THEN <<>>
  ELSE IF runtime = "claude" /\ line.type = "assistant"
       THEN LET heard == {b \in DOMAIN line.blocks : line.blocks[b] # "think"}
            IN [n \in DOMAIN SetToSortSeq(heard, <) |-> <<i, SetToSortSeq(heard, <)[n]>>]
       ELSE << <<i, 1>> >>

\* Where a throw stops the parser.
Upto == LET nulls == {i \in DOMAIN Seen : Seen[i].type = "null"}
        IN IF runtime = "sapling" \/ nulls = {} THEN Len(Seen)
           ELSE CHOOSE i \in nulls : \A j \in nulls : i <= j

AllSaid == FoldLeft(LAMBDA s, i : s \o Said(i), <<>>, [i \in 1 .. Upto |-> i])

\* What was recorded, text fragment by text fragment.
Told(row) == CASE row[1] = "text" -> [n \in DOMAIN row[2] |-> <<row[2][n][1], row[2][n][2]>>]
               [] row[1] = "event" -> << row[2] >>
               [] OTHER -> <<>>
AllTold == FoldLeft(LAMBDA s, r : s \o Told(r), <<>>, turn.rows)
Held == [n \in DOMAIN turn.batch |-> <<turn.batch[n][1], turn.batch[n][2]>>]

\* However the bytes are cut and whenever the flush timer fires, every fragment and every
\* event is recorded once and in the order it was written, nothing stays in the batch when
\* the stream ends, and a line the process died in the middle of is not taken for an event.
EventsInOrder ==
  /\ AllTold \o Held = AllSaid
  /\ turn.phase = "done" => Held = <<>> /\ taken = parts

\* A turn counts as clean only if the last result it wrote whole says so: for sapling, in
\* so many words; for Claude, by not saying that it failed.
CleanIsEarned ==
  turn.clean =>
    \E i \in 1 .. Upto :
      /\ Seen[i].type = "result"
      /\ Seen[i].says \in (IF runtime = "sapling" THEN {"clean"} ELSE {"clean", "nothing"})
      /\ \A j \in i + 1 .. Upto : Seen[j].type # "result"

\* The session a later turn resumes is the first one the stream named, and a turn that
\* resumed another one is warned of exactly once.
OneSession ==
  LET ids == {i \in 1 .. Upto : Seen[i].type \in {"system", "result"} /\ Seen[i].sid # ""}
  IN runtime = "claude" =>
       /\ turn.sid = (IF ids = {} THEN "" ELSE Seen[CHOOSE i \in ids : \A j \in ids : i <= j].sid)
       /\ Len(SelectSeq(turn.rows, LAMBDA r : r[1] = "mismatch"))
            = (IF Prior # "" /\ turn.sid \notin {"", Prior} THEN 1 ELSE 0)
=============================================================================
