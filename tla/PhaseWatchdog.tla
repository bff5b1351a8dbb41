---------------------------- MODULE PhaseWatchdog ----------------------------
(***************************************************************************)
(* IO500PhaseWatchdog of scripts/legofs_io500.py, polled by wait_mpi_exit   *)
(* while a client guest prints the results of its phases.  The console     *)
(* arrives in pieces that do not respect lines; the watchdog keeps the      *)
(* unfinished line and must neither lose nor count twice what it has seen.  *)
(***************************************************************************)
EXTENDS Naturals, Sequences, FiniteSets

CONSTANTS
    Required,    \* the phases the stage must complete
    Auxiliary,   \* phases that are reported but not required
    Limit,       \* the window (600 s)
    Horizon,     \* bound: time
    MaxLines     \* bound: printed lines

(* A line is the banner or a phase's result with the time it reports.       *)
Line(kind, elapsed) == [kind |-> kind, elapsed |-> elapsed]
Lines == { Line(<<"banner">>, 0) } \cup
         { Line(<<"phase", p>>, e) : p \in Required \cup Auxiliary, e \in {Limit, Limit + 1} }

VARIABLES
    now,
    output,      \* halves of lines: <<line, 1>>, and <<line, 2>> with the line break
    begun,       \* time at which the banner was printed, or Never
    progress,    \* time at which the last new required phase (or the banner) was printed
    polled,      \* observe has run since time passed
    offset, partial, window, completed,   \* the watchdog's own state
    raised       \* "none", "window" or "reported"

watchdog == <<offset, partial, window, completed, raised>>
vars == <<now, output, begun, progress, polled, watchdog>>

Never == Horizon + 1     \* window_started is None

Init ==
    /\ now = 0 /\ output = <<>> /\ begun = Never /\ progress = Never /\ polled = TRUE
    /\ offset = 0 /\ partial = <<>> /\ window = Never /\ completed = {} /\ raised = "none"

-----------------------------------------------------------------------------
(* The complete lines of a sequence of halves.                              *)
Whole(halves) ==
    LET ends == SelectSeq(halves, LAMBDA h : h[2] = 2) IN [i \in DOMAIN ends |-> ends[i][1]]
Printed == { Whole(output)[i] : i \in DOMAIN Whole(output) }

(* The guest (external) prints half a line.                                 *)
Latest == output[Len(output)]
OpenLine == output # <<>> /\ Latest[2] = 1

PrintsHalf(line) ==
    /\ raised = "none"
    /\ IF OpenLine THEN line = Latest[1] ELSE Len(Whole(output)) < MaxLines
    /\ output' = Append(output, <<line, IF OpenLine THEN 2 ELSE 1>>)
    /\ IF OpenLine /\ line \notin Printed
       THEN /\ begun' = IF line.kind = <<"banner">> THEN now ELSE begun
            /\ progress' = IF line.kind = <<"banner">> /\ progress = Never THEN now
                           ELSE IF \E p \in Required : line.kind = <<"phase", p>> THEN now
                           ELSE progress
       ELSE UNCHANGED <<begun, progress>>
    /\ UNCHANGED <<now, polled, watchdog>>

(* wait_mpi_exit polls at least twice a second.                             *)
TimePasses ==
    /\ raised = "none" /\ polled /\ now < Horizon
    /\ now' = now + 1 /\ polled' = FALSE
    /\ UNCHANGED <<output, begun, progress, watchdog>>

-----------------------------------------------------------------------------
(* One line of observe.  w is the record of the watchdog's state.           *)
See(w, line) ==
    LET opened == IF line.kind = <<"banner">> /\ w.window = Never THEN [w EXCEPT !.window = now] ELSE w
    IN IF w.raised # "none" THEN w
       ELSE IF ~\E p \in Required : line.kind = <<"phase", p>> THEN opened
       ELSE IF line.elapsed > Limit THEN [opened EXCEPT !.raised = "reported"]
       ELSE IF line.kind[2] \in w.completed THEN opened
       ELSE [opened EXCEPT !.completed = @ \cup {line.kind[2]}, !.window = now]

(* Mutant: the unfinished line is dropped.                                  *)
NewlyDropping == SubSeq(output, offset + 1, Len(output))

(* self.partial and what has arrived since.                                 *)
Newly == partial \o SubSeq(output, offset + 1, Len(output))

(* The complete lines of Newly.  A second half alone does not have the form  *)
(* of a result.                                                             *)
NoForm == Line(<<"none">>, 0)
Recognized(halves) ==
    LET whole(i) == i > 1 /\ halves[i][2] = 2 /\ halves[i - 1][2] = 1
    IN  SelectSeq([i \in DOMAIN halves |-> IF whole(i) THEN halves[i][1] ELSE NoForm],
                  LAMBDA line : line # NoForm)

Expired(w) == w.window # Never /\ w.completed # Required /\ now - w.window > Limit

(* The unfinished line is kept for the next time.                           *)
Keeps == IF OpenLine THEN <<Latest>> ELSE <<>>

Observe ==
    /\ raised = "none"
    /\ LET lines == Recognized(Newly)
           seen[i \in 0 .. Len(lines)] ==
               IF i = 0 THEN [window |-> window, completed |-> completed, raised |-> raised]
               ELSE See(seen[i - 1], lines[i])
           w == seen[Len(lines)]
       IN /\ window' = w.window /\ completed' = w.completed
          /\ raised' = IF w.raised = "none" /\ Expired(w) THEN "window" ELSE w.raised
    /\ offset' = Len(output)
    /\ partial' = Keeps
    /\ polled' = TRUE
    /\ UNCHANGED <<now, output, begun, progress>>

Stopped == raised # "none" /\ UNCHANGED vars

Next == (\E line \in Lines : PrintsHalf(line)) \/ TimePasses \/ Observe \/ Stopped

Spec == Init /\ [][Next]_vars

-----------------------------------------------------------------------------
(* No false alarm: the window is exceeded only when no new required phase   *)
(* has been printed for longer than the limit.                              *)
AlarmIsJust == raised = "window" => now - progress > Limit
==============================================================================
