----------------------------- MODULE RequestLedger -----------------------------
(***************************************************************************)
(* Client processes send requests to the authority over shared queues.     *)
(* Every process counts the requests it sees at the edges it owns (submit  *)
(* and consume at a client, observe and publish at the server) and times   *)
(* some of them, the same at both ends, in its own arena, where a request  *)
(* is also divided into the stages it went through, each recorded when it  *)
(* ends.  The arenas are copied out one at a time, while                   *)
(* the other processes may still be working, and transport_ledger of       *)
(* scripts/legofs_observe.py decides from the copies alone whether they    *)
(* describe one set of requests, and how much of the wait was transport.   *)
(***************************************************************************)
EXTENDS ObserveMetrics

CONSTANTS
    Clients,       \* client processes
    Requests,      \* requests that may be sent
    Owner,         \* Owner[r]: the client that sends r
    HashBits,      \* HashBits[r]: the bits set in the hash of r
    Width,         \* width of a digest word (64 in the code)
    MaxTime,       \* bound on the clock
    MaxRepeats     \* bound: requests the server handles a second time

VARIABLES
    now,           \* the clock both sides read
    stage,         \* stage[r]: how far request r has come
    at,            \* at[r][s]: when r last came to stage s
    arena,         \* arena[p]: what process p has recorded
    copy,          \* copy[p]: the arena of p as copied out, or Missing
    repeats,       \* requests the server has handled again
    timed,         \* the requests whose durations are sampled
    verdict        \* what the analysis says, or NoVerdict

vars == <<now, stage, at, arena, copy, repeats, timed, verdict>>

Server == "server"
Processes == Clients \cup {Server}
Edges == {"submit", "observe", "publish", "consume"}
Stages == {"new", "submitted", "observed", "routed", "published", "consumed"}

HashValue(r) == MapThenSumSet(LAMBDA b : 2^b, HashBits[r])
Xor(a, b) == (a \cup b) \ (a \cap b)

NoDigest == [count |-> 0, xor |-> {}, sum |-> 0]
\* seen is not part of an arena: it remembers which requests the digests stand for.
BlankArena == [digest |-> [e \in Edges |-> NoDigest],
               seen |-> [e \in Edges |-> [r \in Requests |-> 0]],
               wait |-> BlankSlot, service |-> BlankSlot,
               stages |-> 0,    \* the sampled durations of the stages in all
               active |-> 0]
Missing == [BlankArena EXCEPT !.active = 99]
NoVerdict == [valid |-> FALSE, reached |-> FALSE, match |-> FALSE, handoff |-> 0]

Init == /\ now = 0
        /\ stage = [r \in Requests |-> "new"]
        /\ at = [r \in Requests |-> [s \in Stages |-> 0]]
        /\ arena = [p \in Processes |-> BlankArena]
        /\ copy = [p \in Processes |-> Missing]
        /\ repeats = 0
        /\ timed \in SUBSET Requests
        /\ verdict = NoVerdict

Tick == /\ now < MaxTime
        /\ now' = now + 1
        /\ UNCHANGED <<stage, at, arena, copy, repeats, timed, verdict>>

\* The digest of an edge after request r passed it: wrapping u64 addition.
Digested(g, r) == [count |-> g.count + 1,
                   xor |-> Xor(g.xor, HashBits[r]),
                   sum |-> (g.sum + HashValue(r)) % 2^Width]

\* Process p sees r at edge e; the scope it opens or closes is counted active.
Passed(a, r, e, delta) ==
    [a EXCEPT !.digest[e] = Digested(@, r), !.seen[e][r] = @ + 1, !.active = @ + delta]

Submit(r) ==
    /\ stage[r] = "new"
    /\ stage' = [stage EXCEPT ![r] = "submitted"]
    /\ at' = [at EXCEPT ![r]["submitted"] = now]
    /\ arena' = [arena EXCEPT ![Owner[r]] = Passed(@, r, "submit", 1)]
    /\ UNCHANGED <<now, copy, repeats, timed, verdict>>

ServerObserves(r) ==
    /\ stage[r] = "submitted"
    /\ stage' = [stage EXCEPT ![r] = "observed"]
    /\ at' = [at EXCEPT ![r]["observed"] = now]
    /\ arena' = [arena EXCEPT ![Server] = Passed(@, r, "observe", 1)]
    /\ UNCHANGED <<now, copy, repeats, timed, verdict>>

\* A stage of duration d of request r has ended.
StageEnds(a, r, d) == [a EXCEPT !.stages = IF r \in timed THEN @ + d ELSE @]

\* The first stages are over: admission, the wait for the scheduler, decoding.
ServerRoutes(r) ==
    /\ stage[r] = "observed"
    /\ stage' = [stage EXCEPT ![r] = "routed"]
    /\ at' = [at EXCEPT ![r]["routed"] = now]
    /\ arena' = [arena EXCEPT ![Server] = StageEnds(@, r, now - at[r]["observed"])]
    /\ UNCHANGED <<now, copy, repeats, timed, verdict>>

\* So are the others: routing, encoding, the wait for publication, publishing.
ServerPublishes(r) ==
    /\ stage[r] = "routed"
    /\ stage' = [stage EXCEPT ![r] = "published"]
    /\ at' = [at EXCEPT ![r]["published"] = now]
    /\ arena' = [arena EXCEPT ![Server] =
          [StageEnds(Passed(@, r, "publish", 0 - 1), r, now - at[r]["routed"]) EXCEPT
             !.service = Observe(@, now - at[r]["observed"], r \in timed, FALSE)]]
    /\ UNCHANGED <<now, copy, repeats, timed, verdict>>

\* A submission the server takes from the queue a second time.
ServerRepeats(r) ==
    /\ stage[r] = "published"
    /\ repeats < MaxRepeats
    /\ stage' = [stage EXCEPT ![r] = "submitted"]
    /\ repeats' = repeats + 1
    /\ UNCHANGED <<now, at, arena, copy, timed, verdict>>

\* The wait ends; polling and sleeping took all of it.
ClientConsumes(r) ==
    /\ stage[r] = "published"
    /\ stage' = [stage EXCEPT ![r] = "consumed"]
    /\ at' = [at EXCEPT ![r]["consumed"] = now]
    /\ LET d == now - at[r]["submitted"]
       IN  arena' = [arena EXCEPT ![Owner[r]] =
              [StageEnds(Passed(@, r, "consume", 0 - 1), r, d) EXCEPT
                 !.wait = Observe(@, d, r \in timed, FALSE)]]
    /\ UNCHANGED <<now, copy, repeats, timed, verdict>>

\* The arena of one process is copied out.
CopyArena(p) ==
    /\ copy[p] = Missing
    /\ copy' = [copy EXCEPT ![p] = arena[p]]
    /\ UNCHANGED <<now, stage, at, arena, repeats, timed, verdict>>

-----------------------------------------------------------------------------
\* The analysis of the copies.

\* Mutant: digests reduced to the number of requests.
CombineDigestsCountOnly(e) ==
    [count |-> MapThenSumSet(LAMBDA p : copy[p].digest[e].count, Processes),
     xor |-> {}, sum |-> 0]

\* _combined_request_digests: the same algebra as the writers use.
CombineDigests(e) ==
    [count |-> MapThenSumSet(LAMBDA p : copy[p].digest[e].count, Processes),
     xor |-> {b \in 0..(Width - 1) :
                Cardinality({p \in Processes : b \in copy[p].digest[e].xor}) % 2 = 1},
     sum |-> MapThenSumSet(LAMBDA p : copy[p].digest[e].sum, Processes) % 2^Width]

\* _combined_stage over the arenas of the clients.
CombinedWait ==
    FoldSet(LAMBDA p, m : IF copy[p].wait.calls = 0 THEN m ELSE AddMetric(m, copy[p].wait),
            EmptyMetric, Clients)

\* decode_arena: no scope or request is still open in the copy.
ArenaValid(p) == copy[p].active = 0

\* transport_ledger, as analyze_observation_files combines it with the arenas.
Analyse ==
    /\ \A p \in Processes : copy[p] # Missing
    /\ verdict = NoVerdict
    /\ LET wait    == CombinedWait
           service == copy[Server].service
           polled  == MapThenSumSet(LAMBDA p : copy[p].stages, Clients)
           handoff == wait.sum - service.sum
           match   == \A e \in Edges : CombineDigests(e) = CombineDigests("submit")
           reached == wait.calls > 0
           sound   == /\ match
                      /\ wait.samples = service.samples
                      /\ wait.samples > 0
                      /\ handoff >= 0
                      /\ service.sum - copy[Server].stages >= 0
                      /\ wait.sum - polled >= 0
       IN  verdict' = [valid |-> /\ \A p \in Processes : ArenaValid(p)
                                 /\ reached => sound,
                       reached |-> reached, match |-> match, handoff |-> handoff]
    /\ UNCHANGED <<now, stage, at, arena, copy, repeats, timed>>

Finished == verdict # NoVerdict /\ UNCHANGED vars

Next == \/ Tick
        \/ \E r \in Requests : \/ Submit(r)
                               \/ ServerObserves(r)
                               \/ ServerRoutes(r)
                               \/ ServerPublishes(r)
                               \/ ServerRepeats(r)
                               \/ ClientConsumes(r)
        \/ \E p \in Processes : CopyArena(p)
        \/ Analyse
        \/ Finished

Spec == Init /\ [][Next]_vars

-----------------------------------------------------------------------------
\* How often request r passed edge e, according to the copies.
Passes(e, r) == MapThenSumSet(LAMBDA p : copy[p].seen[e][r], Processes)
SameRequests == \A e \in Edges, r \in Requests : Passes(e, r) = Passes("submit", r)
Judged == verdict # NoVerdict

\* Arenas that were copied at different moments are accepted only when they hold
\* the same requests at every edge, each of them once, at least one of them
\* sampled, or when no client's copy holds any request (the server's may: the
\* digests are not compared then).  Copies that hold the same requests once, none
\* of them open and one of them sampled, are accepted however the requests were
\* divided among the clients: a wrapped digest sum is never mistaken for a
\* difference and no residual turns out negative (transport_ledger).
LedgerIsExact ==
    LET once == SameRequests /\ \A r \in Requests : Passes("submit", r) \in {0, 1}
        some == \E r \in timed : Passes("submit", r) > 0
        none == \A r \in Requests : Passes("submit", r) = 0 /\ Passes("consume", r) = 0
    IN  Judged =>
            /\ verdict.valid => (once /\ some) \/ none
            /\ once /\ some /\ (\A p \in Processes : ArenaValid(p)) => verdict.valid
=============================================================================
