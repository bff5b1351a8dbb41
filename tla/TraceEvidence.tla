---------------------------- MODULE TraceEvidence ----------------------------
(***************************************************************************)
(* The coherence trace that CXLMemSim writes while hosts share lines of      *)
(* device memory, as the validators in scripts/ read it, and what the       *)
(* runners conclude from it: the dirty hand-offs of scripts/cxl_bi_app.py,  *)
(* the registrations of the LegoFS runners, and the interval evidence and   *)
(* request timing of scripts/legofs_v2_qemu_bi.py.  A host registers,       *)
(* asks for a line, the owner of a modified line is snooped, answers, and its *)
(* data is written back before the request completes.  Lines are served side *)
(* by side, so the records of several requests interleave; the position of a *)
(* record stands for its monotonic_ns.  The runner may mark the begin and   *)
(* the end of the workload at any moment, also while requests are under way. *)
(***************************************************************************)
EXTENDS Naturals, Sequences, FiniteSets

CONSTANTS
    Hosts, Lines,
    Targets,         \* the lines that contain the target addresses
    MarksInterval,   \* whether the run marks a workload interval (the V2 runner does)
    MaxRequests,     \* bound: requests in a trace
    MaxOdd           \* bound: answers that are clean, weak or failed, and reconnections

NoHost == 65535      \* dst_host of an acknowledgement, and the owner of an idle line

VARIABLES trace, owner, pending, serving, requests, snoops, odd
traceVars == <<trace, owner, pending, serving, requests, snoops, odd>>

Idle == [host |-> NoHost, id |-> 0, opcode |-> "none", snoop |-> 0, stage |-> "idle"]

TraceInit ==
    /\ trace = <<>> /\ owner = [l \in Lines |-> NoHost] /\ pending = {}
    /\ serving = [l \in Lines |-> Idle] /\ requests = 0 /\ snoops = 0 /\ odd = 0

(* A record has every field, as the trace writer's does; cause is the host    *)
(* whose request is being served, which no record of the real trace carries. *)
Blank ==
    [event |-> "none", opcode |-> "none", src |-> NoHost, dst |-> NoHost, line |-> 0,
     session |-> 0, request |-> 0, snoop |-> 0, dirty |-> FALSE, status |-> "OK",
     strength |-> "none", cause |-> NoHost]

Logs(record) == trace' = Append(trace, record)
OddBy(n) == odd + n <= MaxOdd /\ odd' = odd + n

Registered(h) == \E i \in DOMAIN trace : trace[i].event = "registration" /\ trace[i].src = h
Session(h) ==
    LET mine == { i \in DOMAIN trace : trace[i].event = "registration" /\ trace[i].src = h }
    IN  CHOOSE i \in mine : \A j \in mine : j <= i

(* A host registers under a session of its own; one that reconnects gets     *)
(* another one.                                                             *)
Registers(h) ==
    /\ requests = 0 /\ \A g \in Hosts : g < h => Registered(g)
    /\ OddBy(IF Registered(h) THEN 1 ELSE 0)
    /\ Logs([Blank EXCEPT !.event = "registration", !.src = h, !.session = Len(trace) + 1])
    /\ UNCHANGED <<owner, pending, serving, requests, snoops>>

Requests(h, l, opcode) ==
    /\ \A g \in Hosts : Registered(g)
    /\ requests < MaxRequests /\ requests' = requests + 1
    /\ owner[l] # h /\ serving[l].host # h /\ ~\E p \in pending : p.host = h
    /\ pending' = pending \cup {[host |-> h, line |-> l, opcode |-> opcode, id |-> requests']}
    /\ Logs([Blank EXCEPT !.event = "request", !.opcode = opcode, !.src = h, !.line = l,
                          !.session = Session(h), !.request = requests'])
    /\ UNCHANGED <<owner, serving, snoops, odd>>

(* A line serves one request at a time, in the order in which they were      *)
(* recorded, and snoops its owner first.                                    *)
Serves(p) ==
    /\ serving[p.line] = Idle /\ \A q \in pending : q.line = p.line => p.id <= q.id
    /\ pending' = pending \ {p}
    /\ IF owner[p.line] = NoHost
       THEN /\ serving' = [serving EXCEPT ![p.line] =
                   [host |-> p.host, id |-> p.id, opcode |-> p.opcode, snoop |-> 0, stage |-> "granted"]]
            /\ UNCHANGED <<trace, snoops>>
       ELSE /\ snoops' = snoops + 1
            /\ serving' = [serving EXCEPT ![p.line] =
                   [host |-> p.host, id |-> p.id, opcode |-> p.opcode, snoop |-> snoops', stage |-> "snooped"]]
            /\ Logs([Blank EXCEPT !.event = "snoop_send", !.opcode = "SNP_DATA_INV", !.dst = owner[p.line],
                                  !.line = p.line, !.session = Session(owner[p.line]),
                                  !.snoop = snoops', !.cause = p.host])
    /\ UNCHANGED <<owner, requests, odd>>

Answers(l) ==
    /\ serving[l].stage = "snooped"
    /\ \E dirty \in BOOLEAN, status \in {"OK", "FAILED"}, strength \in {"MODEL", "WEAK"} :
        /\ OddBy(IF dirty /\ status = "OK" /\ strength = "MODEL" THEN 0 ELSE 1)
        /\ Logs([Blank EXCEPT !.event = "snoop_ack", !.opcode = "SNOOP_ACK", !.src = owner[l], !.line = l,
                              !.session = Session(owner[l]), !.snoop = serving[l].snoop,
                              !.dirty = dirty, !.status = status, !.strength = strength])
        /\ serving' = [serving EXCEPT ![l].stage = IF dirty /\ status = "OK" THEN "dirty" ELSE "granted"]
    /\ UNCHANGED <<owner, pending, requests, snoops>>

WritesBack(l) ==
    /\ serving[l].stage = "dirty"
    /\ Logs([Blank EXCEPT !.event = "dirty_completion", !.opcode = "SNOOP_ACK", !.src = owner[l],
                          !.line = l, !.session = Session(owner[l]), !.snoop = serving[l].snoop,
                          !.dirty = TRUE, !.strength = "MODEL"])
    /\ serving' = [serving EXCEPT ![l].stage = "granted"]
    /\ UNCHANGED <<owner, pending, requests, snoops, odd>>

Completes(l) ==
    /\ serving[l].stage = "granted"
    /\ Logs([Blank EXCEPT !.event = "request_completion", !.opcode = serving[l].opcode,
                          !.src = serving[l].host, !.line = l, !.session = Session(serving[l].host),
                          !.request = serving[l].id])
    /\ owner' = [owner EXCEPT ![l] = IF serving[l].opcode = "GETM" THEN serving[l].host ELSE NoHost]
    /\ serving' = [serving EXCEPT ![l] = Idle]
    /\ UNCHANGED <<pending, requests, snoops, odd>>

TraceNext ==
    \/ \E h \in Hosts : Registers(h) \/ \E l \in Lines, o \in {"GETS", "GETM"} : Requests(h, l, o)
    \/ \E p \in pending : Serves(p)
    \/ \E l \in Lines : Answers(l) \/ WritesBack(l) \/ Completes(l)

(* What happened, told from the directory's side: the snoop of record i took  *)
(* modified data from its owner for the host that caused it.                *)
HandedOver(i) ==
    /\ trace[i].event = "snoop_send"
    /\ \E j, k \in DOMAIN trace :
        /\ i < j /\ j < k /\ trace[j].event = "snoop_ack" /\ trace[k].event = "dirty_completion"
        /\ \A m \in {j, k} :
             /\ trace[m].snoop = trace[i].snoop /\ trace[m].dirty /\ trace[m].status = "OK"
             /\ trace[m].strength = "MODEL" /\ trace[m].line = trace[i].line

-----------------------------------------------------------------------------
(* The workload interval.                                                   *)
VARIABLES begin, end \* the interval, in positions of the trace; 0 before it is marked
vars == <<traceVars, begin, end>>

Init == TraceInit /\ begin = 0 /\ end = 0

MarksBegin == MarksInterval /\ begin = 0 /\ begin' = Len(trace) + 1 /\ UNCHANGED <<traceVars, end>>

MarksEnd ==
    /\ begin # 0 /\ end = 0 /\ begin <= Len(trace) /\ end' = Len(trace)
    /\ UNCHANGED <<traceVars, begin>>

Next ==
    \/ TraceNext /\ UNCHANGED <<begin, end>>
    \/ MarksBegin \/ MarksEnd

Spec == Init /\ [][Next]_vars

-----------------------------------------------------------------------------
(* validate_registrations and validate_three_registrations.                 *)
Registrations == { i \in DOMAIN trace : trace[i].event = "registration" /\ trace[i].status = "OK" }
Sessions == { trace[i].session : i \in Registrations }
RegisteredHosts == { trace[i].src : i \in Registrations }

validate_registrations ==
    /\ Cardinality(Registrations) = Cardinality(Hosts)
    /\ RegisteredHosts = Hosts /\ Cardinality(Sessions) = Cardinality(Registrations)

(* coherence_evidence asks for the hosts and for as many sessions.          *)
validate_endpoints == RegisteredHosts = Hosts /\ Cardinality(Sessions) = Cardinality(Hosts)

-----------------------------------------------------------------------------
(* analyze_trace: for each snoop the last request for its line before it,    *)
(* and the first acknowledgement and completion with its number after it.   *)
IsRequest(i, line) ==
    trace[i].event = "request" /\ trace[i].opcode \in {"GETS", "GETM", "UPGRADE"} /\ trace[i].line = line
MaxOf(S) == CHOOSE x \in S : \A y \in S : y <= x
MinOf(S) == CHOOSE x \in S : \A y \in S : x <= y

RequestsBefore(s) == { i \in 1 .. s : IsRequest(i, trace[s].line) }
AfterWith(s, event) == { i \in s + 1 .. Len(trace) : trace[i].event = event /\ trace[i].snoop = trace[s].snoop }

(* Mutant: the answer's strength and status are taken on trust.             *)
TrustsAnswer(s, m) == trace[m].snoop = trace[s].snoop /\ trace[m].line = trace[s].line

IsDirtyAnswer(s, m) ==
    /\ trace[m].opcode = "SNOOP_ACK" /\ trace[m].snoop = trace[s].snoop /\ trace[m].line = trace[s].line
    /\ trace[m].session = trace[s].session
    /\ trace[m].status = "OK" /\ trace[m].strength = "MODEL" /\ trace[m].dirty

_valid_dirty_path(r, s, a, c) ==
    /\ trace[r].line = trace[s].line /\ r <= s
    /\ trace[s].opcode = "SNP_DATA_INV" /\ trace[s].status = "OK"
    /\ IsDirtyAnswer(s, a) /\ IsDirtyAnswer(s, c) /\ s <= a /\ a <= c

DirtyPathOf(s) ==
    [line |-> trace[s].line, owner |-> trace[s].dst, snoop |-> trace[s].snoop,
     requester |-> trace[MaxOf(RequestsBefore(s))].src]

analyze_trace ==
    { DirtyPathOf(s) : s \in
        { i \in DOMAIN trace :
            /\ trace[i].event = "snoop_send" /\ trace[i].line \in Targets
            /\ RequestsBefore(i) # {} /\ AfterWith(i, "snoop_ack") # {} /\ AfterWith(i, "dirty_completion") # {}
            /\ _valid_dirty_path(MaxOf(RequestsBefore(i)), i, MinOf(AfterWith(i, "snoop_ack")),
                                 MinOf(AfterWith(i, "dirty_completion"))) } }

(* require_dirty_handoff.                                                   *)
require_dirty_handoff(o, r) == \E p \in analyze_trace : p.owner = o /\ p.requester = r

-----------------------------------------------------------------------------
(* coherence_evidence: snoops of the interval, with the last record of each  *)
(* kind for their number; a clean answer needs no completion.               *)
In(i) == begin <= i /\ i <= end
LastWith(s, event) == MaxOf({ i \in DOMAIN trace : trace[i].event = event /\ trace[i].snoop = trace[s].snoop })
Has(s, event) == \E i \in DOMAIN trace : trace[i].event = event /\ trace[i].snoop = trace[s].snoop

Answered(s) ==
    /\ Has(s, "snoop_ack")
    /\ LET a == LastWith(s, "snoop_ack") IN
        /\ trace[a].opcode = "SNOOP_ACK" /\ trace[a].status = "OK" /\ trace[a].src = trace[s].dst
        /\ trace[a].session = trace[s].session /\ s <= a
        /\ trace[a].dirty =>
             /\ Has(s, "dirty_completion")
             /\ LET c == LastWith(s, "dirty_completion") IN
                  trace[c].status = "OK" /\ trace[c].src = trace[s].dst /\ a <= c

proofs ==
    { s \in DOMAIN trace :
        /\ trace[s].event = "snoop_send" /\ trace[s].opcode \in {"SNP_DATA_INV", "SNP_DATA_DOWNGRADE"}
        /\ In(s) /\ trace[s].line \in Targets /\ Answered(s) }
dirty_proofs == { s \in proofs : trace[LastWith(s, "snoop_ack")].dirty }

(* It raises for the endpoints, without a proof and without a dirty one.    *)
coherence_evidence == validate_endpoints /\ proofs # {} /\ dirty_proofs # {}

-----------------------------------------------------------------------------
(* coherence_request_completion_timing: requests and completions of the      *)
(* interval, matched by host, session and number.                           *)
Key(i) == <<trace[i].src, trace[i].session, trace[i].request>>
RequestsIn == { i \in DOMAIN trace : In(i) /\ trace[i].event = "request" }
CompletionsIn == { i \in DOMAIN trace : In(i) /\ trace[i].event = "request_completion" }

coherence_request_completion_timing ==
    /\ \A i, j \in RequestsIn : Key(i) = Key(j) => i = j
    /\ \A i, j \in CompletionsIn : Key(i) = Key(j) => i = j
    /\ \A c \in CompletionsIn :
        /\ trace[c].status = "OK"
        /\ \E r \in RequestsIn : Key(r) = Key(c) /\ trace[r].opcode = trace[c].opcode /\ r <= c
    /\ CompletionsIn # {} => { Key(c) : c \in CompletionsIn } = { Key(r) : r \in RequestsIn }

-----------------------------------------------------------------------------
(* Both registration gates accept exactly the runs in which every endpoint  *)
(* registered and none reconnected.                                         *)
RegistrationsExact ==
    LET once == \A h \in Hosts : Cardinality({ i \in DOMAIN trace :
                    trace[i].event = "registration" /\ trace[i].src = h }) = 1
    IN  (validate_registrations <=> once) /\ (validate_endpoints <=> once)

(* A hand-off that is reported took place: the named owner's modified data  *)
(* was written back for the named requester, however requests interleave;   *)
(* and none that took place on a target line is missed.                     *)
HandoffIsExact ==
    /\ \A p \in analyze_trace : \E i \in DOMAIN trace :
        /\ HandedOver(i) /\ trace[i].line = p.line
        /\ trace[i].dst = p.owner /\ trace[i].cause = p.requester
    /\ \A i \in DOMAIN trace : (HandedOver(i) /\ trace[i].line \in Targets) =>
        require_dirty_handoff(trace[i].dst, trace[i].cause)

(* The interval is accepted only when a host other than the owner asked for  *)
(* a target line whose modified data the owner returned and was written back *)
(* after the answer, the snoop inside the interval; and an interval in which *)
(* that happened is not refused, unless an endpoint reconnected.            *)
WrittenBack(s) ==
    \E a \in s .. Len(trace) : \E c \in a .. Len(trace) :
        /\ trace[a].event = "snoop_ack" /\ trace[a].status = "OK" /\ trace[a].dirty
        /\ trace[c].event = "dirty_completion"
        /\ \A m \in {a, c} : trace[m].snoop = trace[s].snoop /\ trace[m].line = trace[s].line

IntervalEvidenceIsReal ==
    end # 0 =>
        LET handed == { s \in begin .. end : trace[s].event = "snoop_send" /\ trace[s].line \in Targets
                                             /\ trace[s].cause # trace[s].dst /\ WrittenBack(s) }
        IN  coherence_evidence <=> handed # {} /\ validate_endpoints

(* The timing of an interval that has completions is accepted exactly when   *)
(* each request that began in it also ended in it, and the other way round:  *)
(* a request under way at the begin or the end of the interval rejects it.  *)
EndedIn(r) == \E c \in begin .. end : trace[c].event = "request_completion" /\ trace[c].request = trace[r].request
TimingIsExact ==
    end # 0 =>
        (coherence_request_completion_timing <=>
            \/ ~\E c \in begin .. end : trace[c].event = "request_completion"
            \/ \A r \in DOMAIN trace : trace[r].event = "request" => (r \in begin .. end <=> EndedIn(r)))
==============================================================================
