----------------------------- MODULE EventParser -----------------------------
(***************************************************************************)
(* The parser of trace_pipe lines, src/tracing/event_parser.cc.  A line is *)
(* a sequence of tokens, as fine as the parser can tell them apart: a      *)
(* blank, a punctuation mark, a number, a part of a name.  "softirq_entry" *)
(* is soft followed by irq_entry, so that one name can be found inside     *)
(* another.  <<>> is the empty line.                                       *)
(***************************************************************************)
EXTENDS Integers, SequencesExt

CONSTANTS
  Written,   \* what the kernel may report, as records of the type below
  Others,    \* other lines: comments, the empty line, lines cut short
  Numeral,   \* the value of each token that is a number
  Chars,     \* how many characters each token has
  MaxWritten   \* bound on the lines written

VARIABLES
  written,     \* history: what the kernel wrote, a record or another line
  events     \* the result of ParseFtraceOutput so far

parserVars == <<written, events>>

Blank == " "   \* compared, never taken apart

-----------------------------------------------------------------------------
(* What the kernel prints of w, a record of the task interrupted (comm,    *)
(* pid), the cpu, the time, the event's name and the tasks it is about.    *)

SwitchText(prev, next) ==
  <<"prev_comm", "=">> \o prev.comm \o <<Blank, "prev_pid", "=", prev.pid, Blank,
    "prev_prio", "=", prev.prio, Blank, "prev_state", "=", "S", Blank, "==>", Blank,
    "next_comm", "=">> \o next.comm \o <<Blank, "next_pid", "=", next.pid, Blank,
    "next_prio", "=", next.prio>>

DetailText(w) == IF w.name = <<"sched_switch">> THEN SwitchText(w.prev, w.next)
                 ELSE <<"vec", "=", "1">>

Text(w) ==
  <<Blank>> \o w.prev.comm \o <<"-", w.prev.pid, Blank, "[", w.cpu, "]", Blank, "d..1",
    Blank, w.seconds, ".", w.fraction, ":", Blank>>
  \o w.name \o <<":", Blank>> \o DetailText(w)

Time(w) == Numeral[w.seconds] * 10 ^ 9
             + Numeral[w.fraction] * 10 ^ (9 - Chars[w.fraction])

(* The lines taken for written.  A task's name has no blank, no bracket    *)
(* and nothing that reads as another part of the line; the event has one   *)
(* of the names the parser knows or one that reads as none of them; micro- *)
(* or nanoseconds follow the seconds, and the trace does not begin at time *)
(* 0.  A line is no event if it is a comment or has no time stamp, not     *)
(* even one whose seconds or fraction is missing.                          *)
Token == STRING
Marks == {Blank, "[", "]", "-", ":", "=", "."}
Labels == {"prev_comm", "prev_pid", "prev_prio", "next_comm", "next_pid", "next_prio"}
Single == {"sched_switch", "sched_wakeup", "irq_handler_entry", "irq_handler_exit",
           "funcgraph_entry", "funcgraph_exit"}
Softirqs == {"irq_entry", "irq_exit"}
Rest == {"d..1", "prev_state", "S", "==>", "vec", "1"}
Keys == Single \cup Softirqs \cup {"soft"}

IsTask(task) ==
  /\ task.comm \in Seq(Token) /\ task.comm # <<>>
  /\ \A i \in DOMAIN task.comm :
       task.comm[i] \notin {Blank, "[", "]"} \cup Labels \cup Keys
  /\ {task.pid, task.prio} \subseteq DOMAIN Numeral
IsName(name) ==
  \/ name \in {<<key>> : key \in Single} \cup {<<"soft", key>> : key \in Softirqs}
  \/ /\ name \in Seq(Token) /\ Len(name) = 1
     /\ Head(name) \notin Marks \cup Labels \cup Keys
IsReport(w) ==
  /\ IsTask(w.prev) /\ IsTask(w.next) /\ IsName(w.name)
  /\ {w.cpu, w.seconds, w.fraction} \subseteq DOMAIN Numeral
  /\ Chars[w.fraction] \in 0 .. 9 /\ Time(w) \in Nat \ {0}
Digital == DOMAIN Numeral \cup {"."}
IsRemark(line) ==
  /\ line \in Seq(Token)
  /\ \/ line = <<>> \/ Head(line) = "#"
     \/ \A i, j \in 1 .. Len(line) :
          i < j /\ line[i] = "." /\ line[j] = ":" =>
            \E k \in i .. j - 1 : line[k] \notin Digital

ASSUME ParserAssumption ==
  /\ Marks \cup Labels \cup Keys \cup Rest \subseteq Token   \* all are strings
  /\ Numeral \in [DOMAIN Numeral -> Nat]
  /\ DOMAIN Numeral \subseteq Token \ (Marks \cup Labels \cup Keys)
  /\ \A w \in Written : IsReport(w)
  /\ \A line \in Others : IsRemark(line)
  /\ MaxWritten \in Nat

-----------------------------------------------------------------------------
(* std::string: positions are indexes, 0 is npos.                          *)

At(line, needle, i) ==
  /\ i + Len(needle) - 1 <= Len(line)
  /\ SubSeq(line, i, i + Len(needle) - 1) = needle
First(S) == IF S = {} THEN 0 ELSE Min(S)
Find(line, needle, from) ==
  First({i \in from .. Len(line) : At(line, needle, i)})
Upto(line, from, stop) ==   \* the tokens before the next stop, or the rest
  LET end == Find(line, <<stop>>, from)
  IN SubSeq(line, from, IF end = 0 THEN Len(line) ELSE end - 1)
Includes(line, needle) == Find(line, needle, 1) # 0
Trim(tokens) ==
  LET solid == {i \in 1 .. Len(tokens) : tokens[i] # Blank}
  IN IF solid = {} THEN <<>> ELSE SubSeq(tokens, Min(solid), Max(solid))
Atoi(tokens) == IF tokens # <<>> /\ Head(tokens) \in DOMAIN Numeral
                THEN Numeral[Head(tokens)] ELSE 0
OrZero(n) == IF n >= 0 THEN n ELSE 0   \* a cpu not found stays 0

(* strncpy: the first n characters, as the tokens of which any is left and *)
(* the number of characters the last of them has lost.                     *)
Cut(tokens, n) ==
  LET size[k \in 0 .. Len(tokens)] ==
        IF k = 0 THEN 0 ELSE size[k - 1] + Chars[tokens[k]]
      last == Min({k \in 1 .. Len(tokens) : size[k] >= n})
  IN IF size[Len(tokens)] <= n THEN [tokens |-> tokens, lost |-> 0]
     ELSE [tokens |-> SubSeq(tokens, 1, last), lost |-> size[last] - n]
CommChars == 15      \* sizeof(comm) - 1
DetailChars == 127   \* sizeof(details) - 1

Names == <<
  <<"kSchedSwitch",   <<"sched_switch", ":">>>>,
  <<"kSchedWakeup",   <<"sched_wakeup", ":">>>>,
  <<"kIrqEntry",      <<"irq_handler_entry", ":">>>>,
  <<"kIrqEntry",      <<"irq_entry", ":">>>>,
  <<"kIrqExit",       <<"irq_handler_exit", ":">>>>,
  <<"kIrqExit",       <<"irq_exit", ":">>>>,
  <<"kSoftirqEntry",  <<"soft", "irq_entry", ":">>>>,
  <<"kSoftirqExit",   <<"soft", "irq_exit", ":">>>>,
  <<"kFunctionEntry", <<"funcgraph_entry", ":">>>>,
  <<"kFunctionExit",  <<"funcgraph_exit", ":">>>> >>

ClassifyEvent(line) ==
  LET at == {k \in DOMAIN Names : Includes(line, Names[k][2])}
  IN IF at = {} THEN "kUnknown" ELSE Names[Min(at)][1]

ExtractCPU(line) ==   \* -1 if there is none
  LET open == Find(line, <<"[">>, 1)
  IN IF open = 0 \/ Find(line, <<"]">>, open) = 0 THEN -1
     ELSE Atoi(Trim(Upto(line, open + 1, "]")))

NanosUnpadded(fraction) == Atoi(fraction)

(* What follows the dot, padded or cut to 9 digits; a second dot ends it.  *)
Nanos(fraction) ==
  LET d == Chars[Head(fraction)]
  IN IF fraction = <<>> \/ Head(fraction) = "." THEN 0
     ELSE IF d > 9 THEN Atoi(fraction) \div 10 ^ (d - 9)
     ELSE IF Len(fraction) > 1 THEN Atoi(fraction)
     ELSE Atoi(fraction) * 10 ^ (9 - d)

(* The digits and dots that end at the first colon after the bracket: the  *)
(* first dot is the point, seconds and fraction may be empty.              *)
ExtractTimestamp(line) ==
  LET bracket == Find(line, <<"]">>, 1)
      colon == IF bracket = 0 THEN 0 ELSE Find(line, <<":">>, bracket)
      start == Min({i \in 1 .. colon : \A j \in i .. colon - 1 : line[j] \in Digital})
      ts == SubSeq(line, start, colon - 1)
      dot == Find(ts, <<".">>, 1)
  IN IF colon = 0 \/ dot = 0 THEN 0
     ELSE Atoi(SubSeq(ts, 1, dot - 1)) * 10 ^ 9
            + Nanos(SubSeq(ts, dot + 1, Len(ts)))

(* The last dash before the bracket ends comm; a line that begins with a   *)
(* dash has none.                                                          *)
ExtractCommPid(line) ==
  LET bracket == Find(line, <<"[">>, 1)
      dashes == {i \in 1 .. IF bracket = 0 THEN Len(line) ELSE bracket :
                   line[i] = "-"}
  IN IF dashes = {} \/ Head(line) = "-" THEN [comm |-> Cut(<<>>, CommChars), pid |-> 0]
     ELSE [comm |-> Cut(Trim(SubSeq(line, 1, Max(dashes) - 1)), CommChars),
           pid |-> Atoi(Upto(line, Max(dashes) + 1, Blank))]

(* What follows the second colon with a blank.                             *)
Details(line) ==
  LET bracket == Find(line, <<"]">>, 1)
      one == IF bracket = 0 THEN 0 ELSE Find(line, <<":", Blank>>, bracket)
      two == IF one = 0 THEN 0 ELSE Find(line, <<":", Blank>>, one + 2)
  IN Cut(IF two = 0 THEN <<>> ELSE SubSeq(line, two + 2, Len(line)), DetailChars)

(* priority keeps the 0 of the constructor.                                *)
ParseFtraceLine(line) ==
  LET task == ExtractCommPid(line)
  IN [ts |-> ExtractTimestamp(line), cpu |-> OrZero(ExtractCPU(line)),
      pid |-> task.pid, tid |-> task.pid, priority |-> 0, comm |-> task.comm,
      type |-> ClassifyEvent(line), details |-> Details(line)]

Field(line, name) ==
  LET at == Find(line, <<name, "=">>, 1)
  IN IF at = 0 THEN <<>> ELSE Upto(line, at + 2, Blank)

ParseSchedSwitch(line) ==
  [ts |-> ExtractTimestamp(line), cpu |-> OrZero(ExtractCPU(line)),
   prev_comm |-> Cut(Field(line, "prev_comm"), CommChars),
   next_comm |-> Cut(Field(line, "next_comm"), CommChars),
   prev_pid |-> Atoi(Field(line, "prev_pid")),
   next_pid |-> Atoi(Field(line, "next_pid")),
   prev_prio |-> Atoi(Field(line, "prev_prio")),
   next_prio |-> Atoi(Field(line, "next_prio"))]

IsEvent(line) ==
  /\ line # <<>> /\ Head(line) # "#"
  /\ ParseFtraceLine(line).ts > 0

-----------------------------------------------------------------------------
ParserInit == written = <<>> /\ events = <<>>

(* One turn of the loop of ParseFtraceOutput, or of ReaderLoop.            *)
Take(line) ==
  events' = IF IsEvent(line) THEN Append(events, ParseFtraceLine(line)) ELSE events

ParseWritten(w) ==
  /\ Len(written) < MaxWritten
  /\ Take(Text(w))
  /\ written' = Append(written, w)

ParseOther(line) == Take(line) /\ UNCHANGED written

ParserNext ==
  \/ \E w \in Written : ParseWritten(w)
  \/ \E line \in Others : ParseOther(line)

ParserSpec == ParserInit /\ [][ParserNext]_parserVars

-----------------------------------------------------------------------------
(* What the kernel meant.                                                  *)

TypeOf(name) ==
  CASE name = <<"sched_switch">> -> "kSchedSwitch"
    [] name = <<"sched_wakeup">> -> "kSchedWakeup"
    [] name = <<"irq_handler_entry">> -> "kIrqEntry"
    [] name = <<"irq_handler_exit">> -> "kIrqExit"
    [] name = <<"soft", "irq_entry">> -> "kSoftirqEntry"
    [] name = <<"soft", "irq_exit">> -> "kSoftirqExit"
    [] name = <<"funcgraph_entry">> -> "kFunctionEntry"
    [] name = <<"funcgraph_exit">> -> "kFunctionExit"
    [] OTHER -> "kUnknown"
IsSoftirq(w) == Head(w.name) = "soft"

ParserTypeOK == /\ written \in Seq(Written)
          /\ \A k \in 1 .. Len(events) : events[k].ts \in Nat \ {0}

(* Each line the kernel writes becomes one event, in order, with the time, *)
(* cpu, task, type (softirqs apart) and details it was written with, names *)
(* and details as far as they fit, and no other line becomes one;          *)
(* ParseSchedSwitch finds both tasks.                                      *)
EventsAsWritten ==
  /\ Len(events) = Len(written)
  /\ \A k \in 1 .. Len(written) :
       LET w == written[k]
           e == events[k]
       IN /\ e.ts = Time(w) /\ e.cpu = Numeral[w.cpu]
          /\ e.comm = Cut(w.prev.comm, CommChars) /\ e.pid = Numeral[w.prev.pid]
          /\ e.details = Cut(DetailText(w), DetailChars)
          /\ IsSoftirq(w) \/ e.type = TypeOf(w.name)
          /\ e.type = "kSchedSwitch" =>
               ParseSchedSwitch(Text(w)) =
                 [ts |-> e.ts, cpu |-> e.cpu,
                  prev_comm |-> Cut(w.prev.comm, CommChars),
                  next_comm |-> Cut(w.next.comm, CommChars),
                  prev_pid |-> e.pid, next_pid |-> Numeral[w.next.pid],
                  prev_prio |-> Numeral[w.prev.prio],
                  next_prio |-> Numeral[w.next.prio]]

(* "EXPECT_EQ(ClassifyEvent(line), EventType::kSoftirqEntry)": the type of *)
(* a softirq is a softirq's too.                                           *)
SoftirqsClassified ==
  \A k \in 1 .. Len(written) : events[k].type = TypeOf(written[k].name)

(* What happens to it instead: softirqs pass for plain interrupts.         *)
SoftirqsPassForIrqs ==
  \A k \in 1 .. Len(written) :
    IsSoftirq(written[k]) =>
      \/ TypeOf(written[k].name) = "kSoftirqEntry" /\ events[k].type = "kIrqEntry"
      \/ TypeOf(written[k].name) = "kSoftirqExit" /\ events[k].type = "kIrqExit"
=============================================================================
