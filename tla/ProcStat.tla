------------------------------- MODULE ProcStat -------------------------------
(***************************************************************************)
(* naesala/common/proc_stat.h: what update(pid) reads about a process from *)
(* /proc/<pid>/stat, in four calls to the operating system.  Meanwhile the *)
(* process can exit, and another one can be given the same pid.            *)
(***************************************************************************)
EXTENDS Naturals

CONSTANTS MaxProcesses   \* bound: how many processes have the pid in turn

ProcessAssumption == MaxProcesses \in Nat

Processes == 1..MaxProcesses
Nobody    == 0

VARIABLES spaced,      \* the processes whose command has a blank in it
          running,     \* the process that has the pid
          started,     \* how many have had it so far
          pc,          \* the next call of update, or "idle"
          opened,      \* the process whose file is open
          ids,         \* the process that euid and egid are about...
          head,        \* ...the one that pid and command are about...
          rest,        \* ...and the one that the other members are about
          result,      \* of the last update
          restarted    \* history: was a process started since access?

vars == <<spaced, running, started, pc, opened, ids, head, rest, result, restarted>>
members == <<ids, head, rest>>

\* The members of a new object are not initialised.
Init ==
    /\ spaced \in SUBSET Processes
    /\ running = Nobody /\ started = 0
    /\ pc = "idle" /\ opened = Nobody
    /\ ids = Nobody /\ head = Nobody /\ rest = Nobody
    /\ result = "none" /\ restarted = FALSE

-----------------------------------------------------------------------------
\* The operating system.

Exit ==
    /\ running # Nobody
    /\ running' = Nobody
    /\ UNCHANGED <<spaced, started, pc, opened, members, result, restarted>>

Start ==
    /\ running = Nobody /\ started < MaxProcesses
    /\ started' = started + 1
    /\ running' = started'
    /\ restarted' = TRUE
    /\ UNCHANGED <<spaced, pc, opened, members, result>>

-----------------------------------------------------------------------------
\* update.

Goto(from, to) == pc = from /\ pc' = to

Returns(r) == result' = r

\* access: anybody may read the file, if there is one.
Access ==
    /\ \/ running = Nobody /\ Goto("idle", "idle") /\ Returns("false")
       \/ running # Nobody /\ Goto("idle", "stat") /\ UNCHANGED result
    /\ restarted' = FALSE
    /\ UNCHANGED <<spaced, running, started, opened, members>>

\* A defect to catch: the ids are looked up for the first update only.
StatOnce ==
    /\ Goto("stat", "open")
    /\ ids' = IF ids = Nobody THEN running ELSE ids
    /\ UNCHANGED <<spaced, running, started, opened, head, rest, result, restarted>>

\* stat: the owner of the file, or -1 if it is gone.
Stat ==
    /\ Goto("stat", "open")
    /\ ids' = running
    /\ UNCHANGED <<spaced, running, started, opened, head, rest, result, restarted>>

Open ==
    /\ \/ running = Nobody /\ Goto("open", "idle") /\ Returns("false") /\ UNCHANGED opened
       \/ running # Nobody /\ Goto("open", "read") /\ UNCHANGED result /\ opened' = running
    /\ UNCHANGED <<spaced, running, started, members, restarted>>

\* If the process has exited nothing is read, and substr of an empty command
\* throws.  A blank in the command ends it; then task_state is a letter of it,
\* and no other member can be read, which update does not notice.
Read ==
    /\ Goto("read", "idle")
    /\ IF running = opened
       THEN /\ Returns("true")
            /\ head' = opened
            /\ rest' = IF opened \in spaced THEN rest ELSE opened
       ELSE Returns("thrown") /\ UNCHANGED <<head, rest>>
    /\ opened' = Nobody
    /\ UNCHANGED <<spaced, running, started, ids, restarted>>

Next == Exit \/ Start \/ Access \/ Stat \/ Open \/ Read

Spec == Init /\ [][Next]_vars

-----------------------------------------------------------------------------
\* Type invariant; a file is open only when it is about to be read.
TypeOK ==
    /\ spaced \subseteq Processes
    /\ {running, opened, ids, head, rest} \subseteq Processes \cup {Nobody}
    /\ started \in 0..MaxProcesses
    /\ pc \in {"idle", "stat", "open", "read"}
    /\ pc = "read" <=> opened # Nobody
    /\ result \in {"none", "true", "false", "thrown"} /\ restarted \in BOOLEAN

\* After an update that returned true, and unless the pid went to another
\* process meanwhile, the ids, the pid, the command and the other members are
\* all about one process, but for those that a blank in the command keeps from
\* being read (update of proc_stat.h).
OneProcess ==
    pc = "idle" /\ result = "true" =>
        /\ head # Nobody
        /\ head \notin spaced => rest = head
        /\ ~restarted => ids = head
=============================================================================
