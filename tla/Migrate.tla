-------------------------------- MODULE Migrate --------------------------------
(***************************************************************************)
(* Schema migrations.  Before it does anything else a process opens the    *)
(* database file, reads which migrations are recorded, and brings in the   *)
(* missing ones in order, each in a transaction with its row in            *)
(* schema_migrations.  Any error ends the process, which is then started   *)
(* again; it may be killed at any moment, and a second process, of another *)
(* build, may be doing the same with the same file.                        *)
(*                                                                         *)
(* A migration is a number, its body as many statements as any other's.    *)
(***************************************************************************)
EXTENDS Naturals

CONSTANTS
    Procs,
    Known,       \* process -> how many migrations its binary embeds
    Latest,      \* the newest migration
    Statements,  \* statements per migration
    Nobody,
    MaxFaults    \* bound: kills, failing statements and cut listings

ASSUME MigrationsAreNumbered ==
    /\ Latest \in Nat /\ Statements \in Nat \ {0}
    /\ Known \in [Procs -> 0..Latest]
ASSUME NobodyIsNoProcess == Nobody \notin Procs
ASSUME BoundIsNatural == MaxFaults \in Nat

VARIABLES
    file,     \* what is committed: whether schema_migrations is there, the versions
              \* in it, and how many statements of each migration are in effect
    draft,    \* the same as the writer sees it
    writer,   \* who holds SQLite's write lock
    proc,     \* per process: where it is, what it read, its next migration
    faults

vars == <<file, draft, writer, proc, faults>>

Migrations == 1..Latest
File == [created : BOOLEAN, recorded : SUBSET Migrations,
         schema : [Migrations -> 0..Statements]]
Phases == {"down", "create", "read", "next", "body", "insert", "commit", "serving"}
Proc == [phase : Phases, applied : SUBSET Migrations, at : 1..(Latest + 1),
         done : 0..Statements]

Upto(n) == [v \in Migrations |-> IF v <= n THEN Statements ELSE 0]
Blank == [created |-> FALSE, recorded |-> {}, schema |-> Upto(0)]
Down == [phase |-> "down", applied |-> {}, at |-> 1, done |-> 0]

At(p, phase) == proc[p].phase = phase
Version(p) == proc[p].at

TypeOK ==
    /\ file \in File /\ draft \in File
    /\ writer \in Procs \union {Nobody}
    /\ proc \in [Procs -> Proc]
    /\ faults \in 0..MaxFaults

Init ==
    /\ file = Blank
    /\ draft = Blank
    /\ writer = Nobody
    /\ proc = [p \in Procs |-> Down]
    /\ faults = 0

Goes(p, r) == proc' = [proc EXCEPT ![p] = r]
Step(p, phase) == Goes(p, [proc[p] EXCEPT !.phase = phase])

-----------------------------------------------------------------------------
\* main and Open

Start(p) ==
    /\ At(p, "down")
    /\ Step(p, "create")
    /\ UNCHANGED <<file, draft, writer, faults>>

\* The process ends; what it had not committed is gone.
Exit(p) ==
    /\ Goes(p, Down)
    /\ writer' = IF writer = p THEN Nobody ELSE writer
    /\ UNCHANGED <<file, draft>>

\* A kill, or a statement that fails for a reason outside the program.
Crash(p) ==
    /\ ~At(p, "down")
    /\ faults < MaxFaults
    /\ faults' = faults + 1
    /\ Exit(p)

-----------------------------------------------------------------------------
\* Migrate

\* Mutant: a plain CREATE TABLE, which fails when the table is there.
CreateUnlessThere(p) ==
    /\ At(p, "create")
    /\ writer = Nobody
    /\ file' = [file EXCEPT !.created = TRUE]
    /\ IF file.created THEN Goes(p, Down) ELSE Step(p, "read")
    /\ UNCHANGED <<draft, writer, faults>>

\* CREATE TABLE IF NOT EXISTS: a transaction of its own.
CreateVersions(p) ==
    /\ At(p, "create")
    /\ file.created \/ writer = Nobody
    /\ file' = [file EXCEPT !.created = TRUE]
    /\ Step(p, "read")
    /\ UNCHANGED <<draft, writer, faults>>

Knows(p, versions) == Goes(p, [proc[p] EXCEPT !.phase = "next", !.applied = versions])

ReadVersions(p) ==
    /\ At(p, "read")
    /\ Knows(p, file.recorded)
    /\ UNCHANGED <<file, draft, writer, faults>>

\* The loop over the rows ends on an error that nobody asks for: the versions
\* after the first few are taken for missing.
ReadCutShort(p) ==
    /\ At(p, "read")
    /\ faults < MaxFaults
    /\ faults' = faults + 1
    /\ \E last \in 0..Latest : Knows(p, {v \in file.recorded : v <= last})
    /\ UNCHANGED <<file, draft, writer>>

NextMigration(r) == [r EXCEPT !.phase = "next", !.at = @ + 1, !.done = 0]

Skip(p) ==
    /\ At(p, "next")
    /\ Version(p) <= Known[p]
    /\ Version(p) \in proc[p].applied
    /\ Goes(p, NextMigration(proc[p]))
    /\ UNCHANGED <<file, draft, writer, faults>>

Pending(p) == Version(p) <= Known[p] /\ Version(p) \notin proc[p].applied

\* The first statement takes the write lock, once nobody else has it.
Begin(p) ==
    /\ At(p, "next")
    /\ Pending(p)
    /\ writer = Nobody
    /\ writer' = p
    /\ draft' = file
    /\ Step(p, "body")
    /\ UNCHANGED <<file, faults>>

\* Mutant: statements that can be executed again, and add to what they have made.
NeverRefused(p) == FALSE

\* CREATE and ALTER are refused when what they make is there already.
Refused(p) == draft.schema[Version(p)] > proc[p].done

Executed(f, p) == [f EXCEPT !.schema[Version(p)] = @ + 1]
Advanced(p) ==
    LET done == proc[p].done + 1 IN
    Goes(p, [proc[p] EXCEPT !.done = done,
                            !.phase = IF done = Statements THEN "insert" ELSE "body"])

\* Mutant: outside a transaction each statement counts at once.
ExecuteAtOnce(p) ==
    /\ At(p, "body")
    /\ ~Refused(p)
    /\ draft' = Executed(draft, p)
    /\ file' = Executed(file, p)
    /\ Advanced(p)
    /\ UNCHANGED <<writer, faults>>

Execute(p) ==
    /\ At(p, "body")
    /\ ~Refused(p)
    /\ draft' = Executed(draft, p)
    /\ Advanced(p)
    /\ UNCHANGED <<file, writer, faults>>

\* schema_migrations.version is the primary key.
InsertVersion(p) ==
    /\ At(p, "insert")
    /\ Version(p) \notin draft.recorded
    /\ draft' = [draft EXCEPT !.recorded = @ \union {Version(p)}]
    /\ Step(p, "commit")
    /\ UNCHANGED <<file, writer, faults>>

Commit(p) ==
    /\ At(p, "commit")
    /\ file' = draft
    /\ writer' = Nobody
    /\ Goes(p, NextMigration(proc[p]))
    /\ UNCHANGED <<draft, faults>>

\* The lock is not free within busy_timeout, or a statement is refused.
LockedOut(p) ==
    /\ writer \notin {p, Nobody}
    /\ \/ At(p, "create") /\ ~file.created
       \/ At(p, "next") /\ Pending(p)

MigrateFails(p) ==
    /\ \/ LockedOut(p)
       \/ At(p, "body") /\ Refused(p)
       \/ At(p, "insert") /\ Version(p) \in draft.recorded
    /\ Exit(p)
    /\ UNCHANGED faults

\* Mutant: a failing migration ends the loop without an error.
ServeAnyway(p) ==
    /\ At(p, "next")
    /\ Version(p) > Known[p] \/ LockedOut(p)
    /\ Step(p, "serving")
    /\ UNCHANGED <<file, draft, writer, faults>>

Serve(p) ==
    /\ At(p, "next")
    /\ Version(p) > Known[p]
    /\ Step(p, "serving")
    /\ UNCHANGED <<file, draft, writer, faults>>

Proceed(p) ==
    \/ Start(p) \/ CreateVersions(p) \/ ReadVersions(p) \/ Skip(p)
    \/ Begin(p) \/ Execute(p) \/ InsertVersion(p) \/ Commit(p)
    \/ Serve(p) \/ MigrateFails(p)

Next == \E p \in Procs : Proceed(p) \/ ReadCutShort(p) \/ Crash(p)

\* Processes are scheduled, and started again when they have ended.
Spec == Init /\ [][Next]_vars /\ \A p \in Procs : WF_vars(Proceed(p))

-----------------------------------------------------------------------------
\* The committed schema is what the first few migrations make, each taken once,
\* whole and in order, and they are the recorded ones, however many processes
\* ran, failed or were killed, and whatever they read of the versions.
WholeMigrations ==
    \E n \in 0..Latest : file.recorded = 1..n /\ file.schema = Upto(n)

\* A process that serves finds every migration its binary knows in effect.
ServesMigrated ==
    \A p \in Procs : At(p, "serving") => 1..Known[p] \subseteq file.recorded

\* Every process serves in the end: processes that lock each other out, refusals
\* and half-read versions cost restarts only.
EventuallyServes == \A p \in Procs : <>[]At(p, "serving")

=============================================================================
