------------------------------- MODULE MmapBench -------------------------------
(***************************************************************************)
(* The memory benchmark of the single-guest workload,                      *)
(* guest/cxl_mmap_bench.c: it parses its arguments, maps the device, times *)
(* three passes of stores and three of loads and a run of random loads,    *)
(* stores a last pattern, reads it back, and prints the medians.  The      *)
(* clock may fail (it then reads 0) or stand still, and a store of the     *)
(* last pattern may be lost by the simulated device.                       *)
(***************************************************************************)
EXTENDS Naturals, Sequences, SequencesExt, FiniteSetsExt

CONSTANTS
    Words,         \* word indices of the mapping, 0..N-1
    MaxU,          \* the largest unsigned value (2^64 - 1 in the code)
    PageSize,      \* mapping granularity
    Digits,        \* digit values a character of an argument may have
    MaxText,       \* bound on the length of an argument
    Now,           \* what the clock reads when a pass begins
    Elapsed        \* how long a pass may take; 0 is a clock that stands still

VARIABLES
    pc,            \* where the program is
    arg,           \* the BYTES argument: its base and its digits
    bytes,         \* the parsed argument
    held,          \* resources held: subset of {"fd", "mapping"}
    memory,        \* memory[w]: number of the pattern word w holds
    writes, reads, \* nanoseconds of the passes so far
    took,          \* how long the passes really took
    status         \* "running", "pass" or "fail"

vars == <<pc, arg, bytes, held, memory, writes, reads, took, status>>

BENCH_ITERATIONS == 3
N == Cardinality(Words)
Texts == UNION {[1..n -> Digits] : n \in 0..MaxText}
NoValue == MaxU + 1

Init == /\ pc = "start"
        /\ arg \in [base : {10, 16}, digits : Texts]
        /\ bytes = NoValue
        /\ held = {}
        /\ memory = [w \in Words |-> NoValue]
        /\ writes = <<>> /\ reads = <<>> /\ took = <<>>
        /\ status = "running"

\* One turn of the loop of parse_u64.
NextDigit(acc, base, digit) ==
    IF acc = NoValue \/ digit >= base \/ acc > (MaxU - digit) \div base THEN NoValue
    ELSE acc * base + digit

\* parse_u64: NoValue where the function returns -1.
parse_u64(a) ==
    IF a.digits = <<>> THEN NoValue
    ELSE FoldLeft(LAMBDA acc, d : NextDigit(acc, a.base, d), 0, a.digits)

\* Mutant: median3 without its third exchange.
median3TwoExchanges(s) ==
    LET second == IF s[1] > s[2] THEN s[1] ELSE s[2]
    IN  IF second > s[3] THEN s[3] ELSE second

\* median3: two exchanges, and the third only where it changes the middle.
median3(s) ==
    LET first  == IF s[1] > s[2] THEN s[2] ELSE s[1]
        second == IF s[1] > s[2] THEN s[1] ELSE s[2]
        middle == IF second > s[3] THEN s[3] ELSE second
    IN  IF first > middle THEN first ELSE middle

\* Number of the pattern that word w gets in pass i.
pattern(w, i) == w + i * N

-----------------------------------------------------------------------------
Fail(to) == pc' = to /\ status' = "fail"

\* The arguments are checked and the device is opened.
ParseAndOpen(opened) ==
    /\ pc = "start"
    /\ bytes' = parse_u64(arg)
    /\ LET good == bytes' # NoValue /\ bytes' # 0 /\ bytes' % PageSize = 0
       IN  IF good /\ opened
           THEN pc' = "map" /\ held' = {"fd"} /\ UNCHANGED status
           ELSE Fail("done") /\ UNCHANGED held
    /\ UNCHANGED <<arg, memory, writes, reads, took>>

Map(mapped) ==
    /\ pc = "map"
    /\ IF mapped THEN pc' = "write" /\ held' = held \cup {"mapping"} /\ UNCHANGED status
       ELSE Fail("out_close") /\ UNCHANGED held
    /\ UNCHANGED <<arg, bytes, memory, writes, reads, took>>

\* Two readings of the clock make an interval.
IntervalGood(start, end) == start # 0 /\ end > start

\* One timed pass of stores.
WritePass(start, end) ==
    /\ pc = "write"
    /\ memory' = [w \in Words |-> pattern(w, Len(writes))]
    /\ took' = Append(took, IF end > Now THEN end - Now ELSE 0)
    /\ IF IntervalGood(start, end)
       THEN /\ writes' = Append(writes, end - start)
            /\ pc' = IF Len(writes') = BENCH_ITERATIONS THEN "read" ELSE "write"
            /\ UNCHANGED status
       ELSE Fail("out_unmap") /\ UNCHANGED writes
    /\ UNCHANGED <<arg, bytes, held, reads>>

\* One timed pass of loads; the last of them is the run of random loads.
ReadPass(start, end) ==
    /\ pc = "read"
    /\ took' = Append(took, IF end > Now THEN end - Now ELSE 0)
    /\ IF IntervalGood(start, end)
       THEN /\ reads' = Append(reads, end - start)
            /\ pc' = IF Len(reads') > BENCH_ITERATIONS THEN "verify" ELSE "read"
            /\ UNCHANGED status
       ELSE Fail("out_unmap") /\ UNCHANGED reads
    /\ UNCHANGED <<arg, bytes, held, memory, writes>>

\* The last pattern, that of the first pass, is stored and read back; the stores
\* to the words in lost do not arrive.
Verify(lost) ==
    /\ pc = "verify"
    /\ memory' = [w \in Words |-> IF w \in lost THEN memory[w] ELSE pattern(w, 0)]
    /\ IF \A w \in Words : memory'[w] = pattern(w, 0)
       THEN pc' = "print" /\ UNCHANGED status
       ELSE Fail("out_unmap")
    /\ UNCHANGED <<arg, bytes, held, writes, reads, took>>

PrintResult ==
    /\ pc = "print"
    /\ status' = "pass"
    /\ pc' = "out_unmap"
    /\ UNCHANGED <<arg, bytes, held, memory, writes, reads, took>>

Unmap == /\ pc = "out_unmap"
         /\ held' = held \ {"mapping"}
         /\ pc' = "out_close"
         /\ UNCHANGED <<arg, bytes, memory, writes, reads, took, status>>

Close == /\ pc = "out_close"
         /\ held' = held \ {"fd"}
         /\ pc' = "done"
         /\ UNCHANGED <<arg, bytes, memory, writes, reads, took, status>>

Exited == pc = "done" /\ UNCHANGED vars

Starts == {0, Now}
Ends == {0} \cup {Now + d : d \in Elapsed}

Next == \/ \E ok \in BOOLEAN : ParseAndOpen(ok) \/ Map(ok)
        \/ \E start \in Starts, end \in Ends : WritePass(start, end) \/ ReadPass(start, end)
        \/ \E lost \in SUBSET Words : Verify(lost)
        \/ PrintResult \/ Unmap \/ Close \/ Exited

Spec == Init /\ [][Next]_vars

-----------------------------------------------------------------------------
\* Every time in a printed result is the time the pass took, even when the clock
\* failed in between, and none is zero, so that no rate is divided by zero; the
\* median is the middle of three of them.
PrintedTimesAreReal ==
    status = "pass" =>
        /\ writes \o reads = took
        /\ \A i \in DOMAIN took : took[i] > 0
        /\ \A s \in {writes, SubSeq(reads, 1, BENCH_ITERATIONS)} :
            /\ Cardinality({i \in 1..3 : s[i] < median3(s)}) <= 1
            /\ Cardinality({i \in 1..3 : s[i] > median3(s)}) <= 1
=============================================================================
