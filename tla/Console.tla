------------------------------ MODULE Console ------------------------------
(***************************************************************************)
(* What the pages of the administration (internal/http) and the data       *)
(* commands (internal/cli) have in common: one operation of an operator on *)
(* one target, a few accesses to a database that the operations of others  *)
(* change in between, and one answer, an exit code or an HTTP status.      *)
(***************************************************************************)
EXTENDS Naturals, FiniteSets

CONSTANTS
  Operators,  \* each has one operation done for it
  Keep,       \* a field that was not given
  Blank       \* an empty field; as a name, any value the validation refuses

ASSUME ConsoleAssumption == Keep # Blank

\* A request the server handles, or a data command in a process of its own.
Ways == {"page", "command"}

VARIABLE job  \* operator -> how far its operation is and what it has in hand

\* by: its way.   pc: the next step.   id: the target.   made: the id it created.
\* ask, put: the values given, and those merged with what is stored.
\* force: --force.   found: entries read.   hold: files in its quarantine.
\* seen, wrote: history, what the target held (or which entries there were)
\* since the operation began, and whether a transaction of it changed anything.
Nothing == [name |-> Keep, secret |-> Keep]
Idle == [by |-> "none", pc |-> "idle", op |-> "none", id |-> 0, made |-> 0, ask |-> Nothing, put |-> Nothing,
         force |-> FALSE, found |-> {}, hold |-> {}, seen |-> {}, wrote |-> FALSE,
         answer |-> "none"]

\* "internal": exit code 10, status 500, and no answer at all.
Answers == {"ok", "usage", "validation", "notfound", "conflict", "internal", "none"}

ConsoleInit == job = [a \in Operators |-> Idle]

At(a, pc, op) == job[a].pc = pc /\ job[a].op = op

Goto(a, pc) == job' = [job EXCEPT ![a].pc = pc]

\* With the answer goes everything the operation had in hand, but for files
\* that it leaves in its quarantine.
End(a, answer, left) ==
  job' = [job EXCEPT ![a] = [@ EXCEPT !.pc = "done", !.answer = answer, !.ask = Nothing,
                                      !.put = Nothing, !.found = {}, !.hold = left, !.seen = {}]]

Answer(a, answer) == End(a, answer, {})

Page(a) == job[a].by = "page"

\* A command settles what needs no database before it connects to one.
Open(a, way, op, id, ask, force, seen) ==
  /\ job[a].pc = "idle"
  /\ job' = [job EXCEPT ![a] = [Idle EXCEPT !.by = way, !.op = op, !.id = id, !.ask = ask,
                                            !.pc = IF way = "page" THEN "begin" ELSE "parse",
                                            !.force = force, !.seen = seen]]

\* Flags and files: a usage error, a validation error, or on to the database.
Parse(a) ==
  /\ job[a].pc = "parse"
  /\ Answer(a, "usage") \/ Answer(a, "validation") \/ Goto(a, "begin")

\* The result is rendered; a command prints it.
Report(a) == job[a].pc = "report" /\ Answer(a, "ok")

\* Any step can fail for a reason of its own, the output after the change
\* included; and a killed process or a closed connection gives no answer.
Fails(a) ==
  /\ job[a].pc \notin {"idle", "erase", "done"}
  /\ Answer(a, "internal")
=============================================================================
