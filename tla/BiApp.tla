------------------------------- MODULE BiApp -------------------------------
(***************************************************************************)
(* The two guests of the CXL back-invalidation application                 *)
(* (guest/cxl_bi_app_init.c): a reader and a writer that share one DAX     *)
(* mapping and talk only through it.  Each role is a straight line of      *)
(* stores, fences, polls and checked loads, so each role is a sequence of  *)
(* instructions here, assembled from the same helpers the C code calls,    *)
(* and the actions execute them.                                           *)
(*                                                                         *)
(* Memory.  The guests are RISC-V harts: a store sits in its hart's store  *)
(* buffer and buffered stores reach memory in any order; "fence rw,rw"     *)
(* waits for the buffer to drain.  All loads that matter are separated by  *)
(* fences, so a load reads its own buffer or memory when it executes.      *)
(* Coherence of the memory itself is the CXL model's job (external).       *)
(***************************************************************************)
EXTENDS Rounds, Sequences, SequencesExt

CONSTANTS
    PayloadWords,   \* words of the payload line (8 in the code)
    StreamWords     \* words of the stream (stream_bytes / 8 in the code)

ASSUME BiAppAssumption ==
    /\ PayloadWords \in Nat \ {0}
    /\ StreamWords \in Nat \ {0}

VARIABLES
    mem,      \* the shared mapping: one value per word
    buffer,   \* per node: the stores not yet in memory, a set of <<word, value>>
    pc,       \* per node: index of the next instruction of its program
    errors,   \* per node: the errors counter its summary reports
    fate      \* per node: "running", "summary" (printed), or the fatal() it hit

vars == <<mem, buffer, pc, errors, fate>>

Nodes == {"reader", "writer"}

Other(n) == IF n = "reader" THEN "writer" ELSE "reader"

-----------------------------------------------------------------------------
(* struct shared_area: one cache line per signal, word 0 the value and     *)
(* word 1 its checksum; a payload line; the stream behind the area.        *)

SignalLines == << "bootstrap", "reader_ready", "writer_ready", "litmus_go",
                  "litmus_generation", "ping_request", "ping_ack",
                  "stream_generation", "stream_done", "final_signal" >>

ValueWord(line) == <<line, 0>>
ChecksumWord(line) == <<line, 1>>

ValueWords == { ValueWord(line) : line \in Range(SignalLines) }
AreaWords == [ i \in 1 .. 2 * Len(SignalLines) + PayloadWords |->
                 IF i <= Len(SignalLines) THEN ValueWord(SignalLines[i])
                 ELSE IF i <= 2 * Len(SignalLines)
                      THEN ChecksumWord(SignalLines[i - Len(SignalLines)])
                      ELSE <<"payload", i - 2 * Len(SignalLines)>> ]
StreamAt(i) == <<"stream", i>>
Words == Range(AreaWords) \cup { StreamAt(i) : i \in 1 .. StreamWords }

(* The word a zeroed mapping holds: the number 0 in a value word, and in a  *)
(* hashed word a value that no hash takes.                                  *)
Zero(word) == IF word \in ValueWords THEN 0 ELSE <<>>

(* BOOT_MAGIC is far above every number the other signals carry.            *)
BootMagic == Iterations + 100

(* mix64 is a bijection of 64-bit words, so a hash tells its arguments      *)
(* apart; it is kept as the tuple of what is hashed.                        *)
signal_checksum(value, line) == <<line, value>>
payload_value(generation, i) == <<"PAYLOAD", generation, i>>
stream_value(generation, i) == <<"STREAM", generation, i>>

-----------------------------------------------------------------------------
(* The instructions, and the helpers of the C code as sequences of them.   *)

Store(word, value) == <<[op |-> "store", word |-> word, value |-> value]>>
Fence == <<[op |-> "fence"]>>
Poll(line, expected) == <<[op |-> "poll", word |-> ValueWord(line), value |-> expected]>>
CheckedLoad(word, expected) == <<[op |-> "load", word |-> word, value |-> expected]>>

(* A helper's loop over the words 1 .. count.                               *)
ForWords(count, Body(_)) == FlattenSeq([ i \in 1 .. count |-> Body(i) ])

(* Mutant: the fence between the checksum and the value is missing.         *)
PublishUnfenced(line, value) ==
    Store(ChecksumWord(line), signal_checksum(value, line))
        \o Store(ValueWord(line), value) \o Fence

publish_signal(line, value) ==
    Store(ChecksumWord(line), signal_checksum(value, line)) \o Fence
        \o Store(ValueWord(line), value) \o Fence

wait_signal(line, expected) ==
    Poll(line, expected) \o Fence
        \o CheckedLoad(ChecksumWord(line), signal_checksum(expected, line)) \o Fence

write_payload(generation) ==
    ForWords(PayloadWords, LAMBDA i :
        Store(<<"payload", i>>, payload_value(generation, i))) \o Fence

verify_payload(generation) ==
    Fence \o ForWords(PayloadWords, LAMBDA i :
        CheckedLoad(<<"payload", i>>, payload_value(generation, i))) \o Fence

write_stream(generation) ==
    ForWords(StreamWords, LAMBDA i :
        Store(StreamAt(i), stream_value(generation, i))) \o Fence

verify_stream(generation) ==
    Fence \o ForWords(StreamWords, LAMBDA i :
        CheckedLoad(StreamAt(i), stream_value(generation, i))) \o Fence

ZeroArea == ForWords(Len(AreaWords), LAMBDA i :
                Store(AreaWords[i], Zero(AreaWords[i]))) \o Fence

(* One round of the ping-pong, as each side runs it.                        *)
ReaderPing(i) == publish_signal("ping_request", i) \o wait_signal("ping_ack", i)

(* Mutant: the writer acknowledges a request before it has seen it.         *)
WriterPingEager(i) == publish_signal("ping_ack", i) \o wait_signal("ping_request", i)

WriterPing(i) == wait_signal("ping_request", i) \o publish_signal("ping_ack", i)

(* run_reader and run_writer: bootstrap and litmus, ping-pong, streams.     *)
ReaderLitmus ==
    ZeroArea
    \o write_payload(0)
    \o publish_signal("bootstrap", BootMagic)
    \o publish_signal("reader_ready", 1)
    \o wait_signal("writer_ready", 1)
    \o verify_payload(0)
    \o publish_signal("litmus_go", 1)
    \o wait_signal("litmus_generation", 1)
    \o verify_payload(1)

(* Mutant: the reader hands the stream back before it has written it.       *)
ReaderStreamEarly ==
    wait_signal("stream_generation", 1)
    \o verify_stream(1)
    \o publish_signal("stream_done", 1)
    \o publish_signal("stream_generation", 2)
    \o write_stream(2)
    \o wait_signal("stream_done", 2)
    \o publish_signal("final_signal", 1)
    \o wait_signal("final_signal", 2)
    \o publish_signal("final_signal", 3)

(* Mutant: the reader leaves without the last publication.                  *)
ReaderStreamNoFarewell ==
    wait_signal("stream_generation", 1)
    \o verify_stream(1)
    \o publish_signal("stream_done", 1)
    \o write_stream(2)
    \o publish_signal("stream_generation", 2)
    \o wait_signal("stream_done", 2)
    \o publish_signal("final_signal", 1)
    \o wait_signal("final_signal", 2)

ReaderStream ==
    wait_signal("stream_generation", 1)
    \o verify_stream(1)
    \o publish_signal("stream_done", 1)
    \o write_stream(2)
    \o publish_signal("stream_generation", 2)
    \o wait_signal("stream_done", 2)
    \o publish_signal("final_signal", 1)
    \o wait_signal("final_signal", 2)
    \o publish_signal("final_signal", 3)

run_reader == ReaderLitmus \o ForWords(Iterations, ReaderPing) \o ReaderStream

WriterLitmus ==
    wait_signal("bootstrap", BootMagic)
    \o wait_signal("reader_ready", 1)
    \o verify_payload(0)
    \o publish_signal("writer_ready", 1)
    \o wait_signal("litmus_go", 1)
    \o write_payload(1)
    \o publish_signal("litmus_generation", 1)

WriterStream ==
    write_stream(1)
    \o publish_signal("stream_generation", 1)
    \o wait_signal("stream_done", 1)
    \o wait_signal("stream_generation", 2)
    \o verify_stream(2)
    \o publish_signal("stream_done", 2)
    \o wait_signal("final_signal", 1)
    \o publish_signal("final_signal", 2)
    \o wait_signal("final_signal", 3)

run_writer == WriterLitmus \o ForWords(Iterations, WriterPing) \o WriterStream

Program == [ n \in Nodes |-> IF n = "reader" THEN run_reader ELSE run_writer ]

-----------------------------------------------------------------------------
(* Execution.                                                               *)

Init ==
    /\ mem = [ w \in Words |-> Zero(w) ]
    /\ buffer = [ n \in Nodes |-> {} ]
    /\ pc = [ n \in Nodes |-> 1 ]
    /\ errors = [ n \in Nodes |-> 0 ]
    /\ fate = [ n \in Nodes |-> "running" ]

Running(n) == fate[n] = "running" /\ pc[n] <= Len(Program[n])
Instruction(n) == Program[n][pc[n]]
At(n, op) == Running(n) /\ Instruction(n).op = op
Advance(n) == pc' = [pc EXCEPT ![n] = @ + 1]

Buffered(n, word) == { store \in buffer[n] : store[1] = word }

(* What a load of the node returns: its own buffered store, else memory.    *)
Loaded(n, word) ==
    IF Buffered(n, word) = {} THEN mem[word]
    ELSE (CHOOSE store \in Buffered(n, word) : TRUE)[2]

(* A store enters the buffer.  A store of what memory already holds, to a   *)
(* word nobody has a store pending for, changes nothing and is not queued.  *)
ExecuteStore(n) ==
    /\ At(n, "store")
    /\ LET word == Instruction(n).word
           value == Instruction(n).value
           silent == mem[word] = value /\ \A m \in Nodes : Buffered(m, word) = {}
       IN buffer' = [buffer EXCEPT ![n] =
              IF silent THEN @ ELSE (@ \ Buffered(n, word)) \cup {<<word, value>>}]
    /\ Advance(n)
    /\ UNCHANGED <<mem, errors, fate>>

(* A buffered store reaches memory, in no particular order.                 *)
Drain(n) ==
    \E store \in buffer[n] :
        /\ mem' = [mem EXCEPT ![store[1]] = store[2]]
        /\ buffer' = [buffer EXCEPT ![n] = @ \ {store}]
        /\ UNCHANGED <<pc, errors, fate>>

full_fence(n) ==
    /\ At(n, "fence")
    /\ buffer[n] = {}
    /\ Advance(n)
    /\ UNCHANGED <<mem, buffer, errors, fate>>

(* wait_signal's loop: the poll that sees the expected value leaves it.     *)
PollSucceeds(n) ==
    /\ At(n, "poll")
    /\ Loaded(n, Instruction(n).word) = Instruction(n).value
    /\ Advance(n)
    /\ UNCHANGED <<mem, buffer, errors, fate>>

(* A poll that sees another value: fatal(phase, EPROTO) when the signal has *)
(* gone past the expected value, fatal(phase, ETIMEDOUT) once the deadline  *)
(* has passed.                                                              *)
PollFails(n) ==
    /\ At(n, "poll")
    /\ LET value == Loaded(n, Instruction(n).word)
           expected == Instruction(n).value
       IN /\ value # expected
          /\ fate' = [fate EXCEPT ![n] =
                 IF value > expected /\ expected < BootMagic
                 THEN "EPROTO" ELSE "ETIMEDOUT"]
    /\ UNCHANGED <<mem, buffer, pc, errors>>

(* A load whose result is compared: a mismatch counts as one error.         *)
ExecuteLoad(n) ==
    /\ At(n, "load")
    /\ errors' = [errors EXCEPT ![n] =
           IF Loaded(n, Instruction(n).word) = Instruction(n).value THEN @ ELSE @ + 1]
    /\ Advance(n)
    /\ UNCHANGED <<mem, buffer, fate>>

(* The summary line, after which main() pauses for the host to stop it.     *)
Summarise(n) ==
    /\ fate[n] = "running"
    /\ pc[n] > Len(Program[n])
    /\ fate' = [fate EXCEPT ![n] = "summary"]
    /\ UNCHANGED <<mem, buffer, pc, errors>>

Step(n) ==
    \/ ExecuteStore(n)
    \/ full_fence(n)
    \/ PollSucceeds(n)
    \/ ExecuteLoad(n)
    \/ Summarise(n)

Next == \E n \in Nodes : Step(n) \/ Drain(n) \/ PollFails(n)

(* A hart keeps executing and its buffer keeps draining.                    *)
Fairness == \A n \in Nodes : WF_vars(Step(n)) /\ WF_vars(Drain(n))

Spec == Init /\ [][Next]_vars /\ Fairness

-----------------------------------------------------------------------------
(* Properties.                                                              *)

(* No checked load ever fails on either side, timeouts or not: a signal's   *)
(* value is never visible before its checksum, nor its payload or stream    *)
(* generation after it, so both summaries report errors = 0.                *)
NoErrors == \A n \in Nodes : errors[n] = 0

(* A hash or payload word one node is about to load has no store of the     *)
(* other node on its way: the protocol hands every such word over.          *)
NoRacingLoad ==
    \A n \in Nodes :
        At(n, "load") => Buffered(Other(n), Instruction(n).word) = {}

(* A run in which no deadline passes ends with both summaries: nobody       *)
(* waits for a signal that is never published.                              *)
SummariesUnlessTimeout ==
    (\A n \in Nodes : [](fate[n] # "ETIMEDOUT"))
        => <>(\A n \in Nodes : fate[n] = "summary")

-----------------------------------------------------------------------------
(* The ping-pong part of the programs implements PingPong.                  *)

(* A loop body has eight instructions; these are the steps of PingPong they *)
(* stand for (the fences around the checksum load are not steps there).     *)
PingLabels(n) ==
    IF n = "reader"
    THEN <<"sum", "sumFence", "value", "valueFence", "poll", "check", "check", "sum">>
    ELSE <<"poll", "check", "check", "sum", "sum", "sumFence", "value", "valueFence">>

PingOffset(n) ==
    pc[n] - 1 - Len(IF n = "reader" THEN ReaderLitmus ELSE WriterLitmus)
InPing(n) == PingOffset(n) \in 0 .. 8 * Iterations - 1

PingRound(n) ==
    IF InPing(n)
    THEN ((PingOffset(n) + (IF n = "reader" THEN 1 ELSE 0)) \div 8) + 1
    ELSE IF PingOffset(n) < 0 THEN 1 ELSE Iterations + 1
PingLine(n) == IF n = "reader" THEN "ping_request" ELSE "ping_ack"

Ping == INSTANCE PingPong WITH
    value <- [ n \in Nodes |-> mem[ValueWord(PingLine(n))] ],
    sum <- [ n \in Nodes |->
               LET word == mem[ChecksumWord(PingLine(n))]
               IN IF word = <<>> THEN 0 ELSE word[2] ],
    pending <- [ n \in Nodes |->
               { kind \in {"sum", "value"} :
                   Buffered(n, IF kind = "sum" THEN ChecksumWord(PingLine(n))
                               ELSE ValueWord(PingLine(n))) # {} } ],
    round <- [ n \in Nodes |-> PingRound(n) ],
    pc <- [ n \in Nodes |->
              IF InPing(n) THEN PingLabels(n)[(PingOffset(n) % 8) + 1]
              ELSE IF n = "reader" THEN "sum" ELSE "poll" ],
    fate <- [ n \in Nodes |->
              IF InPing(n) /\ fate[n] # "summary" THEN fate[n] ELSE "running" ]

(* The ping-pong phase of the whole application takes only steps of the     *)
(* PingPong loop, so what is proved of that loop for every number of        *)
(* iterations is about these programs.                                      *)
ImplementsPingPong == Ping!Spec
=============================================================================
