------------------------------- MODULE Pipeline -------------------------------
(***************************************************************************)
(* The program: run_cli of pipeline.cpp with read_file, run_pipeline and   *)
(* write_output, as a process that may meet a missing file, a file that    *)
(* shrinks while it is read, too large an input, a directory it may not    *)
(* write to and a full disk.                                               *)
(*                                                                         *)
(* The two tasks are what their own modules show them to do: task 1 hands  *)
(* over the tally of the words in any order (ParallelTask1!ResultExact),   *)
(* task 2 takes the steps of GreedyBPE (BpeRefinement!ImplementsGreedyBPE) *)
(* and reports its result.  A line of output.txt is a record [text, count] *)
(* and the unit in which the stream buffer and the disk are measured.      *)
(***************************************************************************)
EXTENDS WordText, BpeText

CONSTANTS
    Files,          \* the contents an input file may have
    Rooms,          \* the lines the disk may have room for
    SlotLimit,      \* no_position: inputs with that many slots are refused
    StreamBuffer    \* lines the buffer of an ofstream holds

VARIABLES
    stage,
    code,           \* the exit code, -1 while the program runs
    file,           \* the input file when it is opened
    got,            \* how much of it read() delivers
    input,
    splits, cuts, halted,      \* task 2 (GreedyBPE)
    room,           \* what is left of the disk
    sent,           \* the lines given to the stream
    buffered,       \* those of them that are still in its buffer
    bad,            \* the stream's badbit
    output          \* output.txt

reading == <<file, got, input>>
bpe     == <<splits, cuts, halted>>
writing == <<room, sent, buffered, bad, output>>
vars    == <<stage, code, reading, bpe, writing>>

Greedy == INSTANCE GreedyBPE WITH Corpora <- {}

Init ==
    /\ stage = "start" /\ code = -1
    /\ file \in Files /\ got = 0 /\ input = << >>
    /\ splits = << >> /\ cuts = << >> /\ halted = FALSE
    /\ room \in Rooms /\ sent = 0 /\ buffered = << >> /\ bad = FALSE /\ output = << >>

-----------------------------------------------------------------------------
Exit(c) == stage' = "exit" /\ code' = c

Goto(s) == stage' = s /\ UNCHANGED code

\* A step that throws, which run_cli turns into exit code 1, or goes on.
OrThrow(s) == Exit(1) \/ Goto(s)

Start ==
    /\ stage = "start"
    /\ Exit(2) \/ Goto("open")        \* argc may be anything
    /\ UNCHANGED <<reading, bpe, writing>>

\* Mutant: what read() did not deliver is left uninitialised.
ShortRead_Garbage(k) == [i \in DOMAIN file |-> IF i <= k THEN file[i] ELSE 1]

\* The buffer of the size tellg() gave is zeroed; read() fills the first k bytes.
ShortRead(k) == [i \in DOMAIN file |-> IF i <= k THEN file[i] ELSE 0]

\* read_file: the file may have shrunk since it was opened.
ReadInput ==
    /\ stage = "open"
    /\ OrThrow("task1")
    /\ \E k \in 0..Len(file) : got' = k /\ input' = ShortRead(k)
    /\ UNCHANGED <<file, bpe, writing>>

\* parallel_task1, then the input is freed.
Task1 ==
    /\ stage = "task1"
    /\ \E order \in SetToSeqs(Distinct(Buffer(input))) :
         splits' = [k \in DOMAIN order |->
                      [chars |-> order[k], count |-> Occurrences(Buffer(input), order[k])]]
    /\ input' = << >>
    /\ Goto("task2")
    /\ UNCHANGED <<file, got, cuts, halted, writing>>

slot_count == FoldSeq(LAMBDA split, sum : sum + Len(split.chars) + 1, 0, splits)

\* build_state refuses inputs whose slots do not fit a u32.
StartTask2 ==
    /\ stage = "task2"
    /\ IF slot_count >= SlotLimit THEN Exit(1) ELSE Goto("merge")
    /\ cuts' = [w \in DOMAIN splits |-> DOMAIN splits[w].chars]
    /\ UNCHANGED <<reading, splits, halted, writing>>

MergeRound ==
    /\ stage = "merge"
    /\ Greedy!Merge
    /\ UNCHANGED <<stage, code, reading, writing>>

MergeEnd ==
    /\ stage = "merge"
    /\ Greedy!Halt
    /\ Goto("create")
    /\ UNCHANGED <<reading, writing>>

-----------------------------------------------------------------------------
(* write_output.                                                           *)

tokens ==
    SetToSortSeq(Greedy!Counted,
                 LAMBDA a, b : \/ a.count > b.count
                               \/ a.count = b.count /\ strcmp_less(a.text, b.text))

CreateOutput ==
    /\ stage = "create"
    /\ OrThrow("write")
    /\ UNCHANGED <<reading, bpe, writing>>

\* What the disk takes of the lines, and what becomes of the stream.
Flush(lines) ==
    LET fits == IF Len(lines) < room THEN Len(lines) ELSE room
    IN  /\ output' = output \o SubSeq(lines, 1, fits)
        /\ room' = room - fits
        /\ bad' = (fits < Len(lines))
        /\ buffered' = << >>

\* out.write and out <<: a full buffer goes to the disk; a bad stream takes nothing.
WriteToken ==
    /\ stage = "write"
    /\ sent < Len(tokens)
    /\ sent' = sent + 1
    /\ LET lines == Append(buffered, tokens[sent + 1])
       IN  IF bad THEN UNCHANGED <<output, room, bad, buffered>>
           ELSE IF Len(lines) > StreamBuffer THEN Flush(lines)
           ELSE buffered' = lines /\ UNCHANGED <<output, room, bad>>
    /\ UNCHANGED <<stage, code, reading, bpe>>

\* Mutant: the stream is not tested.
CheckStream_Never ==
    /\ stage = "write"
    /\ sent = Len(tokens)
    /\ Goto("close")
    /\ UNCHANGED <<reading, bpe, writing>>

\* if (!out) throw: before the buffer is flushed.
CheckStream ==
    /\ stage = "write"
    /\ sent = Len(tokens)
    /\ IF bad THEN Exit(1) ELSE Goto("close")
    /\ UNCHANGED <<reading, bpe, writing>>

\* The destructor of the ofstream flushes; nobody looks at the stream again.
CloseOutput ==
    /\ stage = "close"
    /\ Flush(buffered)
    /\ Goto("digest")
    /\ UNCHANGED <<reading, bpe, sent>>

\* output.txt is read again for the md5 of the log line, which may fail.
Digest ==
    /\ stage = "digest"
    /\ Exit(0) \/ Exit(1)
    /\ UNCHANGED <<reading, bpe, writing>>

Terminated == stage = "exit" /\ UNCHANGED vars

Step ==
    \/ Start \/ ReadInput \/ Task1 \/ StartTask2 \/ MergeRound \/ MergeEnd
    \/ CreateOutput \/ WriteToken \/ CheckStream \/ CloseOutput \/ Digest

Next == Step \/ Terminated

\* One thread of control that never waits.
Spec == Init /\ [][Next]_vars /\ WF_vars(Step)

-----------------------------------------------------------------------------
(* Reference: the result for some bytes, with the words in text order.     *)

ReferenceSplits(bytes) ==
    LET texts == SetToSortSeq(Distinct(Buffer(bytes)), strcmp_less)
    IN  [k \in DOMAIN texts |->
           [chars |-> texts[k], count |-> Occurrences(Buffer(bytes), texts[k])]]

Run(sp, c) == INSTANCE GreedyBPE WITH Corpora <- {}, splits <- sp, cuts <- c, halted <- FALSE

ReferenceCuts(sp) ==
    LET round[i \in 0..Len(file)] ==
          IF i = 0 THEN [w \in DOMAIN sp |-> DOMAIN sp[w].chars]
          ELSE LET before == round[i - 1]
                   chosen == Run(sp, before)!Chosen
               IN  IF chosen = {} THEN before
                   ELSE [w \in DOMAIN sp |->
                           MergeWord(sp[w].chars, before[w], CHOOSE pair \in chosen : TRUE)]
    IN  round[Len(file)]

\* output.txt is, from its creation on, a beginning of the result for the part of the
\* file that was read, whatever the order in which task 1's hash table was gone
\* through; after exit code 0 on a disk that was large enough, it is all of it.
OutputIsPrefix ==
    halted /\ stage # "create" =>
        LET sp == ReferenceSplits(SubSeq(file, 1, got))
        IN  /\ Run(sp, ReferenceCuts(sp))!IsResult(tokens)
            /\ IsPrefix(output, tokens)
            /\ code = 0 /\ room > 0 => output = tokens

\* The program ends, and exit code 0 hides no more than the last bufferful of lines:
\* an error that shows earlier is reported.
EndsReported ==
    <>(stage = "exit" /\ (code = 0 => Len(tokens) - Len(output) \in 0..StreamBuffer))

\* Exit code 0 means that output.txt holds a line for every token.
SuccessMeansWhole == code = 0 => output = tokens
=============================================================================
