-------------------------- MODULE ObservationFrames --------------------------
(***************************************************************************)
(* The export of observation arenas over a guest's console: dump_observation *)
(* of guest/legofs_io500_init.sh prints each arena as a frame of numbered  *)
(* chunks, every chunk twice, and parse_observation_frames of              *)
(* scripts/legofs_io500.py reassembles what has arrived.  The console is   *)
(* shared with the kernel and with QEMU, whose diagnostics may interrupt   *)
(* any line.                                                               *)
(*                                                                         *)
(* A diagnostic that continues the line spoils it.  One that begins with a *)
(* line break leaves a shorter line behind, and the beginning of a chunk   *)
(* line has the form of a chunk line.                                      *)
(***************************************************************************)
EXTENDS Naturals, Sequences, Functions

CONSTANTS
    Arenas,          \* bound: arenas a guest exports
    Chunks,          \* number of chunks of each
    MaxInterrupts    \* bound: interrupted lines

Seqs == 0 .. Chunks - 1
Data(a, s) == a * Chunks + s  \* the data of chunk s of arena a
Missing == 0                  \* no data yet
Cut == 1                      \* data of a chunk line that was broken off

VARIABLES
    printed,    \* number of lines the guest has printed
    current,    \* the frame the parser is in: <<>> or a record
    frames,     \* payloads accepted
    error,      \* parse_observation_frames has raised
    struck,     \* struck[<<a, s>>]: interrupted copies of chunk s of arena a
    broken,     \* an interruption broke a chunk line off
    marker,     \* an interruption hit a BEGIN or END line
    files       \* number of arenas the guest exports

vars == <<printed, current, frames, error, struck, broken, marker, files>>

-----------------------------------------------------------------------------
Begin(a) == [kind |-> "begin", arena |-> a, seq |-> 0]
End(a) == [kind |-> "end", arena |-> a, seq |-> 0]
Chunk(a, s) == [kind |-> "chunk", arena |-> a, seq |-> s]

(* Mutant: one copy of each chunk.                                          *)
dump_once(a) == <<Begin(a)>> \o [i \in 1 .. Chunks |-> Chunk(a, i - 1)] \o <<End(a)>>
dump_observation(a) ==
    <<Begin(a)>> \o [i \in 1 .. 2 * Chunks |-> Chunk(a, (i - 1) \div 2)] \o <<End(a)>>

FrameLength == Len(dump_observation(1))

Payload(a) == [s \in Seqs |-> Data(a, s)]

Init ==
    /\ printed = 0
    /\ current = <<>> /\ frames = <<>> /\ error = FALSE
    /\ struck = [c \in (1 .. Arenas) \X Seqs |-> 0]
    /\ broken = FALSE /\ marker = FALSE
    /\ files \in 0 .. Arenas

-----------------------------------------------------------------------------
(* parse_observation_frames on one line.                                    *)

Raise == error' = TRUE /\ UNCHANGED <<current, frames>>

ParseBegin(l) ==
    IF current # <<>> THEN Raise
    ELSE /\ current' = [arena |-> l.arena, data |-> [s \in Seqs |-> Missing], copies |-> [s \in Seqs |-> 0]]
         /\ UNCHANGED <<frames, error>>

ParseChunk(l, data) ==
    IF current = <<>> THEN UNCHANGED <<current, frames, error>>
    ELSE IF current.data[l.seq] \notin {Missing, data} THEN Raise
    ELSE /\ current' = [current EXCEPT !.data[l.seq] = data, !.copies[l.seq] = @ + 1]
         /\ UNCHANGED <<frames, error>>

(* Every chunk, at most twice, and the lengths and digests BEGIN announced.  *)
Complete(f) ==
    /\ \A s \in Seqs : f.data[s] # Missing /\ f.copies[s] <= 2
    /\ f.data = Payload(f.arena)

ParseEnd(l) ==
    IF current = <<>> THEN Raise
    ELSE IF current.arena = l.arena /\ Complete(current)
    THEN frames' = Append(frames, current) /\ current' = <<>> /\ UNCHANGED error
    ELSE Raise

Parse(l) ==
    IF error THEN UNCHANGED <<current, frames, error>>
    ELSE CASE l.kind = "begin" -> ParseBegin(l)
           [] l.kind = "chunk" -> ParseChunk(l, Data(l.arena, l.seq))
           [] l.kind = "end" -> ParseEnd(l)

-----------------------------------------------------------------------------
More == printed < files * FrameLength
NextLine == dump_observation((printed \div FrameLength) + 1)[(printed % FrameLength) + 1]
Interrupts == FoldFunction(+, 0, struck) + (IF marker THEN 1 ELSE 0)

Arrives ==
    /\ More
    /\ printed' = printed + 1
    /\ Parse(NextLine)
    /\ UNCHANGED <<struck, broken, marker, files>>

Strike(l) ==
    /\ Interrupts < MaxInterrupts
    /\ struck' = IF l.kind = "chunk" THEN [struck EXCEPT ![<<l.arena, l.seq>>] = @ + 1] ELSE struck
    /\ marker' = (marker \/ l.kind # "chunk")

(* The diagnostic continues the line, which then has no known form.         *)
Spoiled ==
    /\ More
    /\ printed' = printed + 1
    /\ Strike(NextLine)
    /\ UNCHANGED <<current, frames, error, broken, files>>

(* The diagnostic begins with a line break.                                 *)
BrokenOff ==
    /\ More /\ NextLine.kind = "chunk"
    /\ printed' = printed + 1
    /\ Strike(NextLine)
    /\ broken' = TRUE
    /\ IF error THEN UNCHANGED <<current, frames, error>> ELSE ParseChunk(NextLine, Cut)
    /\ UNCHANGED files

Finished == ~More /\ UNCHANGED vars

Next == Arrives \/ Spoiled \/ BrokenOff \/ Finished

Spec == Init /\ [][Next]_vars

-----------------------------------------------------------------------------
(* parse_observation_frames returns: no frame is left open ("truncated       *)
(* observation frame").                                                     *)
Parsed == ~More /\ ~error /\ current = <<>>

(* dump_observations: a guest that observes has exactly one arena.           *)
expected_files == 1
Accepted == Parsed /\ Len(frames) = expected_files

(* One spoiled copy of each chunk costs nothing: the parser returns every    *)
(* arena as it was, and the observation is accepted if and only if the guest had *)
(* the one arena expected of it.  Whatever the console did, an accepted      *)
(* observation is the payload of an arena, and of the only one unless a      *)
(* BEGIN or an END line was hit.                                            *)
OneCopyIsEnough ==
    /\ (~More /\ ~marker /\ ~broken /\ \A c \in DOMAIN struck : struck[c] <= 1) =>
        /\ Parsed /\ [i \in DOMAIN frames |-> frames[i].arena] = [i \in 1 .. files |-> i]
        /\ Accepted <=> files = expected_files
    /\ Accepted => \A i \in DOMAIN frames : frames[i].data = Payload(frames[i].arena)
    /\ Accepted /\ ~marker => files = expected_files
==============================================================================
