----------------------------- MODULE RtlProcess -----------------------------
(***************************************************************************)
(* A behavioural process of the register transfer level: its waits are     *)
(* lowered to picoseconds (passes/rtl/wait_lower.py, with the counters of  *)
(* counter_recognition.py), its body to a switch (co_run), and sim_run     *)
(* drives it beside the clock (c_emit.py).                                 *)
(*                                                                         *)
(* A process has a body, the period of its clock, a counter, and says      *)
(* whether its component has clocked processes as well.  The body is the   *)
(* sequence of its lines; the end of a loop names the line that opens it.  *)
(* C goes through the text line by line, one step each.                    *)
(***************************************************************************)
EXTENDS Integers, Sequences, FiniteSets

CONSTANTS Processes,   \* the processes looked at
          MaxRun,      \* cycles of one call of sim_run
          MaxCycles    \* cycles in all

ASSUME CyclesAssumption == MaxRun \in Nat /\ MaxCycles \in Nat

VARIABLES proc,
          pc,          \* _co_pc: the case where the coroutine goes on
          tick,        \* _co_tick: the time
          wake,        \* _co_wake: the time to resume it
          running,     \* whether sim_run runs
          end,         \* and the time its call ends (end_tick)
          at,          \* the line of co_run that comes next, 0 outside of it
          log          \* the lines that were executed, and when

vars == <<proc, pc, tick, wake, running, end, at, log>>

Act(id)       == [s |-> "act", id |-> id]
Wait(kind, n) == [s |-> "wait", kind |-> kind, n |-> n]
While         == [s |-> "while"]
End(line)     == [s |-> "end", loop |-> line]

-----------------------------------------------------------------------------
(* Waits. *)

(* The modulus of a counter: PERIOD, or 2 to the power of WIDTH; 0 stands  *)
(* for a parameter that is not there.                                      *)
_build_info(ctr) ==
    IF ctr.type = "Counter"
    THEN (IF ctr.param = 0 THEN 256 ELSE 2 ^ ctr.param)
    ELSE (IF ctr.param = 0 THEN 256 ELSE ctr.param)

(* Always to the next time the counter has the value, never to now. *)
_try_lower_counter_wait(p, w, t) ==
    LET M   == _build_info(p.ctr)
        cur == (t \div p.period) % M
    IN  IF w.kind = "wait_next" THEN (M - cur) * p.period
        ELSE (((w.n - cur + M - 1) % M) + 1) * p.period

(* Mutant: a time is rounded down to a cycle. *)
lower_time_down(p, w) == (w.n \div p.period) * p.period

(* A time is rounded up to a cycle. *)
_lower_time(p, w) == ((w.n + p.period - 1) \div p.period) * p.period

lower_await(p, w, t) ==
    CASE w.kind = "wait_cycles" -> w.n * p.period
      [] w.kind = "wait_time"   -> _lower_time(p, w)
      [] w.kind \in {"wait_for", "wait_next"} -> _try_lower_counter_wait(p, w, t)
      [] OTHER                  -> p.period

IsWait(st) == st.s = "wait"
IsCounterJump(st) == IsWait(st) /\ st.kind \in {"wait_for", "wait_next"}

-----------------------------------------------------------------------------
(* The text of co_run.  state_counter is the number of suspensions so far: *)
(* it numbers the cases, and names the label of a loop as well.            *)

state_counter(body, i) == Cardinality({k \in 1 .. i : IsWait(body[k])})

CaseLine(body, n) ==
    IF n = 0 THEN 0
    ELSE CHOOSE i \in DOMAIN body : IsWait(body[i]) /\ state_counter(body, i) = n

LabelLine(body, n) ==
    CHOOSE i \in DOMAIN body : body[i] = While /\ state_counter(body, i) = n

(* The switch is left behind its last line. *)
Entered(i) == IF i \in DOMAIN proc.body THEN i ELSE 0

Execute == log' = Append(log, <<at, tick>>)

(* A statement or a label.  The test of a loop is not printed. *)
_lower_behav_stmt ==
    /\ at # 0 /\ proc.body[at].s \in {"act", "while"}
    /\ Execute
    /\ at' = Entered(at + 1)
    /\ UNCHANGED <<proc, pc, tick, wake, running, end>>

(* The end of a loop is a jump to its label. *)
Goto ==
    /\ at # 0 /\ proc.body[at].s = "end"
    /\ Execute
    /\ at' = LabelLine(proc.body, state_counter(proc.body, proc.body[at].loop))
    /\ UNCHANGED <<proc, pc, tick, wake, running, end>>

Suspend ==
    /\ at # 0 /\ IsWait(proc.body[at])
    /\ Execute
    /\ wake' = tick + lower_await(proc, proc.body[at], tick)
    /\ pc' = state_counter(proc.body, at)
    /\ at' = 0
    /\ UNCHANGED <<proc, tick, running, end>>

-----------------------------------------------------------------------------
(* sim_run. *)

rtl_protocol(p) == IF p.clocked THEN "RTL" ELSE "ALGORITHMIC"

all_counter_jumps(p) ==
    LET waits == {i \in DOMAIN p.body : IsWait(p.body[i])}
    IN  /\ waits # {}
        /\ \A i \in waits : IsCounterJump(p.body[i])
        /\ rtl_protocol(p) = "ALGORITHMIC"

Resumed == Entered(CaseLine(proc.body, pc) + 1)

(* Mutant: each call primes the coroutine. *)
sim_run_primes_again(n) ==
    /\ ~running /\ running' = TRUE
    /\ end' = tick + n * proc.period
    /\ at' = Resumed
    /\ UNCHANGED <<proc, pc, tick, wake, log>>

(* A call for n cycles.  The first one primes the coroutine. *)
_emit_sim_run(n) ==
    /\ ~running /\ running' = TRUE
    /\ end' = tick + n * proc.period
    /\ at' = IF pc = 0 THEN Resumed ELSE 0
    /\ UNCHANGED <<proc, pc, tick, wake, log>>

InLoop == running /\ at = 0

(* One cycle: the clock edge, the time, and the coroutine if it is due.    *)
Cycle ==
    /\ InLoop /\ ~all_counter_jumps(proc) /\ tick < end
    /\ tick' = tick + proc.period
    /\ at' = IF pc >= 0 /\ tick' >= wake THEN Resumed ELSE 0
    /\ UNCHANGED <<proc, pc, wake, running, end, log>>

(* No cycles, but one jump per wait. *)
CounterJump ==
    /\ InLoop /\ all_counter_jumps(proc) /\ tick < end /\ wake <= end
    /\ tick' = wake
    /\ at' = Resumed
    /\ UNCHANGED <<proc, pc, wake, running, end, log>>

Return ==
    /\ InLoop
    /\ tick >= end \/ (all_counter_jumps(proc) /\ wake > end)
    /\ tick' = end
    /\ running' = FALSE
    /\ UNCHANGED <<proc, pc, wake, end, at, log>>

-----------------------------------------------------------------------------
(* What a process is, and which processes run as they are written.         *)

IsLine(body, i) ==
    /\ body[i].s \in {"act", "wait", "while", "end"}
    /\ body[i].s = "while" => body[i] = While
    /\ IsWait(body[i]) => /\ body[i].kind \in {"wait_cycles", "wait_time", "wait_for", "wait_next"}
                          /\ body[i].n \in Nat
    /\ body[i].s = "end" => body[i].loop \in 1 .. i - 1 /\ body[body[i].loop] = While

(* A counter without a modulus is not recognised as one. *)
ASSUME ProcessesAssumption ==
    \A p \in Processes :
        /\ Len(p.body) \in Nat /\ DOMAIN p.body = 1 .. Len(p.body)
        /\ \A i \in DOMAIN p.body : IsLine(p.body, i)
        /\ p.period \in Nat \ {0} /\ _build_info(p.ctr) \in Nat \ {0}

(* No label is printed twice: there is a wait between two loops. *)
Compiles(p) ==
    \A i, j \in DOMAIN p.body :
        p.body[i] = While /\ p.body[j] = While
            /\ state_counter(p.body, i) = state_counter(p.body, j) => i = j

(* A loop ends, which no line does behind it, and there is a wait in it.   *)
LoopsAndWaits(p) ==
    \E e \in DOMAIN p.body :
        /\ p.body[e].s = "end" /\ \A i \in 1 .. e - 1 : p.body[i].s # "end"
        /\ \E i \in p.body[e].loop .. e : IsWait(p.body[i])

(* It waits for something, and for a value that its counter takes. *)
WaitsForSomething(p) ==
    \A i \in DOMAIN p.body : IsWait(p.body[i]) =>
        LET w == p.body[i]
        IN  /\ w.kind \in {"wait_cycles", "wait_time"} => w.n > 0
            /\ w.kind = "wait_for" => w.n < _build_info(p.ctr)

Reliable(p) == Compiles(p) /\ LoopsAndWaits(p) /\ WaitsForSomething(p)

Init == /\ proc \in {p \in Processes : Reliable(p)}
        /\ pc = 0 /\ tick = 0 /\ wake = 0 /\ log = << >>
        /\ running = FALSE /\ end = 0 /\ at = 0

sim_run == \E n \in 0 .. MaxRun :
               /\ tick + n * proc.period <= MaxCycles * proc.period
               /\ _emit_sim_run(n)

Next == \/ sim_run \/ Cycle \/ CounterJump \/ Return
        \/ _lower_behav_stmt \/ Goto \/ Suspend

Spec == Init /\ [][Next]_vars

-----------------------------------------------------------------------------
(* The process as it is written: its waits end at the first time that is   *)
(* right, its other lines take none, and the end of a loop is followed by  *)
(* its beginning.                                                          *)

IsOver(p, w, t, u) ==
    LET value == (u \div p.period) % _build_info(p.ctr)
    IN  /\ u > t /\ u % p.period = 0
        /\ CASE w.kind = "wait_cycles" -> u >= t + w.n * p.period
             [] w.kind = "wait_time"   -> u >= t + w.n
             [] w.kind = "wait_for"    -> value = w.n
             [] w.kind = "wait_next"   -> value = 0

Ends(p, w, t, u) == IsOver(p, w, t, u) /\ \A v \in t .. u - 1 : ~IsOver(p, w, t, v)

(* Line b[1] at time b[2] comes after line a[1] at time a[2]. *)
Follows(p, a, b) ==
    LET line == p.body[a[1]]
    IN  CASE line.s = "wait" -> b[1] = a[1] + 1 /\ Ends(p, line, a[2], b[2])
          [] line.s = "end"  -> b = <<line.loop, a[2]>>
          [] OTHER           -> b = <<a[1] + 1, a[2]>>

(* However a run is divided into calls of sim_run, and whether they step   *)
(* from cycle to cycle or jump from wake to wake, the process does what it *)
(* is written to do, at the times its waits end; and when a call returns,  *)
(* it has done all there is to do up to then.                              *)
RunsOnTime ==
    /\ \A k \in DOMAIN log :
          IF k = 1 THEN log[1] = <<1, 0>> ELSE Follows(proc, log[k - 1], log[k])
    /\ ~running /\ (tick > 0 \/ log # << >>) =>
          /\ log # << >>
          /\ LET last == log[Len(log)]
                 line == proc.body[last[1]]
             IN  IsWait(line) /\ \A u \in last[2] .. tick : ~IsOver(proc, line, last[2], u)

(* Between two calls the process sleeps: it is not due yet, and it is due  *)
(* at an edge of the clock.                                                *)
SleepsUntilAnEdge ==
    ~running /\ pc # 0 => wake > tick /\ wake % proc.period = 0
-----------------------------------------------------------------------------
(* Instances for TLC: loops of up to two lines behind up to one, and loops *)
(* in loops.                                                               *)

Lines ==
    { Act("a"), Act("b"), Wait("wait_cycles", 1), Wait("wait_cycles", 3),
      Wait("wait_time", 7), Wait("wait_time", 4), Wait("wait_for", 0),
      Wait("wait_for", 2), Wait("wait_next", 0) }

UpTo(n) == UNION {[1 .. k -> Lines] : k \in 0 .. n}

OneLoop(start, body) == start \o <<While>> \o body \o <<End(Len(start) + 1)>>

TwoLoops(start, body) ==
    <<While>> \o start \o <<While>> \o body
        \o <<End(Len(start) + 2), Act("never"), End(1)>>

MCProcesses ==
    { [body |-> body, period |-> 5, ctr |-> ctr, clocked |-> clocked] :
        body \in {OneLoop(x, y) : x \in UpTo(1), y \in UpTo(2)}
                   \cup {TwoLoops(x, y) : x \in UpTo(1), y \in UpTo(1)},
        clocked \in BOOLEAN,
        ctr \in { [type |-> "Counter", param |-> 2],
                  [type |-> "ModuloCounter", param |-> 3] } }
=============================================================================
