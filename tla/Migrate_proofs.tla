---------------------------- MODULE Migrate_proofs ----------------------------
(***************************************************************************)
(* Proofs about Migrate, for any number of processes, of any builds, and   *)
(* of migrations.  The invariant follows one migration through its         *)
(* transaction: once its first statement has been taken, it is the one     *)
(* after the last recorded one.                                            *)
(***************************************************************************)
EXTENDS Migrate, TLAPS

Writing(p) == proc[p].phase \in {"body", "insert", "commit"}

\* The write lock is with the process that is inside a transaction.
Locked == \A p \in Procs : Writing(p) <=> writer = p

\* What a process has read or passed over is recorded.
Passed(p) ==
    /\ proc[p].at <= Known[p] + 1
    /\ \A u \in 1..(proc[p].at - 1) : u \in file.recorded
    /\ proc[p].applied \subseteq file.recorded
    /\ At(p, "serving") => proc[p].at > Known[p]
    /\ Writing(p) \/ proc[p].done = 0

\* The draft is the file and the statements taken so far.
Drafted(p) ==
    Writing(p) =>
        /\ proc[p].at <= Known[p]
        /\ At(p, "body") => proc[p].done < Statements
        /\ ~At(p, "body") => proc[p].done = Statements
        /\ proc[p].done > 0 => proc[p].at \notin file.recorded
        /\ draft.recorded = IF At(p, "commit")
                            THEN file.recorded \union {proc[p].at}
                            ELSE file.recorded
        /\ draft.schema = IF proc[p].done > 0
                          THEN [file.schema EXCEPT ![proc[p].at] = proc[p].done]
                          ELSE file.schema

IInv ==
    /\ TypeOK
    /\ Locked
    /\ \A p \in Procs : Passed(p) /\ Drafted(p)
    /\ WholeMigrations

\* A migration that a process has come to is in Migrations.
LEMMA AtMigration ==
    ASSUME TypeOK, NEW p \in Procs, proc[p].at <= Known[p]
    PROVE  proc[p].at \in Migrations
BY MigrationsAreNumbered DEF TypeOK, Proc, Migrations

-----------------------------------------------------------------------------

LEMMA InitTypeOK == Init => TypeOK
BY MigrationsAreNumbered, BoundIsNatural
   DEF Init, TypeOK, Blank, Down, File, Proc, Phases, Upto, Migrations

LEMMA InitIInv == Init => IInv
<1> SUFFICES ASSUME Init PROVE IInv
    OBVIOUS
<1>1. TypeOK
    BY InitTypeOK
<1>2. Locked
    BY NobodyIsNoProcess DEF Init, Locked, Writing, Down
<1>3. ASSUME NEW p \in Procs PROVE Passed(p) /\ Drafted(p)
    BY MigrationsAreNumbered DEF Init, Passed, Drafted, Writing, At, Down
<1>4. WholeMigrations
  <2>1. file.recorded = 1..0 /\ file.schema = Upto(0)
      BY DEF Init, Blank
  <2> QED
      BY <2>1, MigrationsAreNumbered DEF WholeMigrations
<1> QED
    BY <1>1, <1>2, <1>3, <1>4 DEF IInv

\* A process that does not move keeps what is true of it while the versions and
\* the schema stay, and nobody writes into its draft.
LEMMA Kept ==
    ASSUME NEW q \in Procs, Passed(q), Drafted(q),
           proc'[q] = proc[q],
           file'.recorded = file.recorded, file'.schema = file.schema,
           UNCHANGED draft \/ ~Writing(q)
    PROVE  Passed(q)' /\ Drafted(q)'
BY DEF Passed, Drafted, Writing, At

\* The lock after a step of p that leaves the other processes where they are.
LEMMA LockKept ==
    ASSUME TypeOK, Locked, NEW p \in Procs,
           \A q \in Procs \ {p} : proc'[q] = proc[q],
           writer' = IF Writing(p)' THEN p ELSE IF writer = p THEN Nobody ELSE writer,
           Writing(p)' => writer \in {p, Nobody}
    PROVE  Locked'
<1> SUFFICES ASSUME NEW q \in Procs PROVE Writing(q)' <=> writer' = q
    BY DEF Locked
<1>1. CASE q = p
    BY <1>1, NobodyIsNoProcess DEF Locked
<1>2. CASE q # p
  <2>1. Writing(q)' <=> Writing(q)
      BY <1>2 DEF Writing
  <2> QED
      BY <1>2, <2>1, NobodyIsNoProcess DEF Locked
<1> QED
    BY <1>1, <1>2

\* A process that moves without touching file or draft.
LEMMA Moves ==
    ASSUME IInv, NEW p \in Procs, NEW r \in Proc, Goes(p, r),
           UNCHANGED <<file, draft>>, faults' \in 0..MaxFaults,
           writer' = IF Writing(p)' THEN p ELSE IF writer = p THEN Nobody ELSE writer,
           Writing(p)' => writer \in {p, Nobody},
           Passed(p)', Drafted(p)'
    PROVE  IInv'
<1>1. TypeOK'
    BY DEF IInv, TypeOK, Goes
<1>2. \A q \in Procs \ {p} : proc'[q] = proc[q]
    BY DEF Goes, IInv, TypeOK
<1>3. Locked'
    BY <1>2, LockKept DEF IInv
<1>4. ASSUME NEW q \in Procs PROVE Passed(q)' /\ Drafted(q)'
  <2>1. CASE q = p
      BY <2>1
  <2>2. CASE q # p
      BY <1>2, <2>2, Kept DEF IInv
  <2> QED
      BY <2>1, <2>2
<1>5. WholeMigrations'
    BY DEF IInv, WholeMigrations
<1> QED
    BY <1>1, <1>3, <1>4, <1>5 DEF IInv

LEMMA ExitStep ==
    ASSUME IInv, NEW p \in Procs, Exit(p), faults' \in 0..MaxFaults
    PROVE  IInv'
<1> USE MigrationsAreNumbered
<1>1. Down \in Proc
    BY DEF Down, Proc, Phases
<1>2. proc'[p] = Down
    BY DEF Exit, Goes, IInv, TypeOK
<1>3. ~Writing(p)'
    BY <1>2 DEF Down, Writing
<1>4. Passed(p)' /\ Drafted(p)'
    BY <1>2, <1>3 DEF Down, Passed, Drafted, At
<1> QED
    BY <1>1, <1>3, <1>4, Moves DEF Exit

LEMMA StartStep ==
    ASSUME IInv, NEW p \in Procs, Start(p)
    PROVE  IInv'
<1> DEFINE r == [proc[p] EXCEPT !.phase = "create"]
<1>1. r \in Proc /\ Goes(p, r) /\ proc'[p] = r
    BY DEF Start, Step, Goes, IInv, TypeOK, Proc, Phases
<1>2. ~Writing(p) /\ ~Writing(p)' /\ writer # p
    BY <1>1 DEF Start, At, Writing, IInv, Locked
<1>3. Passed(p)' /\ Drafted(p)'
    BY <1>1, <1>2 DEF Start, IInv, Passed, Drafted, At, TypeOK, Proc
<1> QED
    BY <1>1, <1>2, <1>3, Moves DEF Start, IInv, TypeOK

LEMMA CreateStep ==
    ASSUME IInv, NEW p \in Procs, CreateVersions(p)
    PROVE  IInv'
<1> DEFINE r == [proc[p] EXCEPT !.phase = "read"]
<1>1. r \in Proc /\ proc' = [proc EXCEPT ![p] = r] /\ proc'[p] = r
    BY DEF CreateVersions, Step, Goes, IInv, TypeOK, Proc, Phases
<1>2. file' \in File /\ file'.recorded = file.recorded /\ file'.schema = file.schema
    BY DEF CreateVersions, IInv, TypeOK, File
<1>3. TypeOK'
    BY <1>1, <1>2 DEF CreateVersions, IInv, TypeOK
<1>4. ~Writing(p) /\ ~Writing(p)' /\ writer # p
    BY <1>1 DEF CreateVersions, At, Writing, IInv, Locked
<1>5. \A q \in Procs \ {p} : proc'[q] = proc[q]
    BY <1>1 DEF IInv, TypeOK
<1>6. Locked'
    BY <1>4, <1>5, LockKept DEF CreateVersions, IInv
<1>7. ASSUME NEW q \in Procs PROVE Passed(q)' /\ Drafted(q)'
  <2>1. CASE q = p
      BY <1>1, <1>2, <1>4, <2>1
         DEF CreateVersions, IInv, Passed, Drafted, At, TypeOK, Proc
  <2>2. CASE q # p
      BY <1>2, <1>5, <2>2, Kept DEF CreateVersions, IInv
  <2> QED
      BY <2>1, <2>2
<1>8. WholeMigrations'
    BY <1>2 DEF IInv, WholeMigrations
<1> QED
    BY <1>3, <1>6, <1>7, <1>8 DEF IInv

LEMMA ReadStep ==
    ASSUME IInv, NEW p \in Procs, At(p, "read"), UNCHANGED <<file, draft, writer>>,
           faults' \in 0..MaxFaults,
           NEW versions \in SUBSET file.recorded, Knows(p, versions)
    PROVE  IInv'
<1> DEFINE r == [proc[p] EXCEPT !.phase = "next", !.applied = versions]
<1> HIDE DEF r
<1>0. versions \subseteq Migrations
    BY DEF IInv, TypeOK, File
<1>1. r \in Proc /\ Goes(p, r) /\ proc'[p] = r
    BY <1>0 DEF r, Knows, Goes, IInv, TypeOK, Proc, Phases
<1>2. ~Writing(p) /\ ~Writing(p)' /\ writer # p
    BY <1>1 DEF r, At, Writing, IInv, Locked, TypeOK, Proc
<1>3. proc'[p].phase = "next" /\ proc'[p].at = proc[p].at
      /\ proc'[p].applied = versions /\ proc'[p].done = proc[p].done
    BY <1>1 DEF r, IInv, TypeOK, Proc
<1>4. UNCHANGED <<file, draft>> /\ UNCHANGED <<writer, file>>
    OBVIOUS
<1>5. Passed(p)' /\ Drafted(p)'
    BY <1>2, <1>3, <1>4 DEF IInv, Passed, Drafted, At
<1> QED
    BY <1>1, <1>2, <1>4, <1>5, Moves

LEMMA SkipStep ==
    ASSUME IInv, NEW p \in Procs, Skip(p)
    PROVE  IInv'
<1> USE MigrationsAreNumbered
<1> DEFINE r == NextMigration(proc[p])
<1>1. proc[p].at \in Migrations /\ proc[p].at \in file.recorded
    BY AtMigration DEF Skip, Version, IInv, Passed
<1>2. r \in Proc /\ Goes(p, r) /\ proc'[p] = r
  <2>1. proc[p].at + 1 \in 1..(Latest + 1) /\ 0 \in 0..Statements
      BY <1>1 DEF Migrations
  <2>2. r \in Proc
      BY <2>1 DEF NextMigration, IInv, TypeOK, Proc, Phases
  <2> QED
      BY <2>2 DEF Skip, Goes, IInv, TypeOK
<1>3. proc'[p].phase = "next" /\ proc'[p].at = proc[p].at + 1
      /\ proc'[p].applied = proc[p].applied /\ proc'[p].done = 0
    BY <1>2 DEF NextMigration, IInv, TypeOK, Proc
<1>4. ~Writing(p) /\ ~Writing(p)' /\ writer # p
    BY <1>3 DEF Skip, At, Writing, IInv, Locked
<1>5. Passed(p)'
  <2>1. file' = file /\ proc[p].at \in Nat /\ proc[p].at <= Known[p] /\ Known[p] \in Nat
      BY <1>1 DEF Skip, Version, Migrations
  <2>2. \A u \in 1..proc[p].at : u \in file.recorded
      BY <1>1, <2>1 DEF IInv, Passed
  <2> QED
      BY <1>3, <2>1, <2>2 DEF IInv, Passed, At
<1>6. Drafted(p)'
    BY <1>4 DEF Drafted
<1> QED
    BY <1>2, <1>4, <1>5, <1>6, Moves DEF Skip, IInv, TypeOK

LEMMA ServeStep ==
    ASSUME IInv, NEW p \in Procs, Serve(p)
    PROVE  IInv'
<1> DEFINE r == [proc[p] EXCEPT !.phase = "serving"]
<1>1. r \in Proc /\ Goes(p, r) /\ proc'[p] = r
    BY DEF Serve, Step, Goes, IInv, TypeOK, Proc, Phases
<1>2. ~Writing(p) /\ ~Writing(p)' /\ writer # p
    BY <1>1 DEF Serve, At, Writing, IInv, Locked
<1>3. Passed(p)' /\ Drafted(p)'
    BY <1>1, <1>2 DEF Serve, Version, IInv, Passed, Drafted, At, TypeOK, Proc
<1> QED
    BY <1>1, <1>2, <1>3, Moves DEF Serve, IInv, TypeOK

\* The migration a process has come to is not recorded, if none of its statements
\* is in effect.
LEMMA NotYet ==
    ASSUME TypeOK, WholeMigrations, NEW v \in Migrations, file.schema[v] = 0
    PROVE  v \notin file.recorded
BY MigrationsAreNumbered DEF WholeMigrations, Upto, Migrations

LEMMA BeginStep ==
    ASSUME IInv, NEW p \in Procs, Begin(p)
    PROVE  IInv'
<1> USE MigrationsAreNumbered
<1> DEFINE r == [proc[p] EXCEPT !.phase = "body"]
<1>1. r \in Proc /\ proc' = [proc EXCEPT ![p] = r] /\ proc'[p] = r
    BY DEF Begin, Step, Goes, IInv, TypeOK, Proc, Phases
<1>2. TypeOK'
    BY <1>1 DEF Begin, IInv, TypeOK
<1>3. \A q \in Procs : ~Writing(q)
    BY NobodyIsNoProcess DEF Begin, IInv, Locked
<1>4. \A q \in Procs \ {p} : proc'[q] = proc[q]
    BY <1>1 DEF IInv, TypeOK
<1>5. Locked'
    BY <1>1, <1>3, <1>4 DEF Begin, Locked, Writing, IInv, TypeOK, Proc
<1>6. proc'[p].at = proc[p].at /\ proc'[p].phase = "body"
      /\ proc'[p].applied = proc[p].applied /\ proc'[p].done = proc[p].done
    BY <1>1 DEF IInv, TypeOK, Proc
<1>7. proc[p].done = 0
    BY DEF Begin, IInv, Passed, At, Writing
<1>8. ASSUME NEW q \in Procs PROVE Passed(q)' /\ Drafted(q)'
  <2>1. CASE q = p
    <3>1. Passed(p)'
        BY <1>6 DEF Begin, IInv, Passed, At, Writing
    <3>2. Drafted(p)'
        BY <1>6, <1>7 DEF Begin, Pending, Version, Drafted, At
    <3> QED
        BY <2>1, <3>1, <3>2
  <2>2. CASE q # p
      BY <1>3, <1>4, <2>2, Kept DEF Begin, IInv
  <2> QED
      BY <2>1, <2>2
<1>9. WholeMigrations'
    BY DEF Begin, IInv, WholeMigrations
<1> QED
    BY <1>2, <1>5, <1>8, <1>9 DEF IInv

\* A step of the process that holds the lock into another step of its
\* transaction: the file stays, and nobody else has a draft.
LEMMA WriterMoves ==
    ASSUME IInv, NEW p \in Procs, Writing(p), NEW r \in Proc, Goes(p, r),
           UNCHANGED <<file, writer, faults>>, draft' \in File,
           Writing(p)', Passed(p)', Drafted(p)'
    PROVE  IInv'
<1>1. TypeOK'
    BY DEF IInv, TypeOK, Goes
<1>2. \A q \in Procs \ {p} : proc'[q] = proc[q]
    BY DEF Goes, IInv, TypeOK
<1>3. writer = p
    BY DEF IInv, Locked
<1>4. Locked'
    BY <1>2, <1>3, LockKept DEF IInv
<1>5. ASSUME NEW q \in Procs PROVE Passed(q)' /\ Drafted(q)'
  <2>1. CASE q = p
      BY <2>1
  <2>2. CASE q # p
    <3>1. ~Writing(q)
        BY <1>3, <2>2 DEF IInv, Locked
    <3> QED
        BY <1>2, <2>2, <3>1, Kept DEF IInv
  <2> QED
      BY <2>1, <2>2
<1>6. WholeMigrations'
    BY DEF IInv, WholeMigrations
<1> QED
    BY <1>1, <1>4, <1>5, <1>6 DEF IInv

LEMMA ExecuteStep ==
    ASSUME IInv, NEW p \in Procs, Execute(p)
    PROVE  IInv'
<1> USE MigrationsAreNumbered
<1> DEFINE v == proc[p].at
           n == proc[p].done + 1
           r == [proc[p] EXCEPT !.done = n,
                                !.phase = IF n = Statements THEN "insert" ELSE "body"]
<1>1. Writing(p) /\ At(p, "body")
    BY DEF Execute, Writing, At
<1>2. v \in Migrations /\ v <= Known[p] /\ n \in 1..Statements /\ proc[p].done \in Nat
  <2>1. v <= Known[p] /\ proc[p].done < Statements
      BY <1>1 DEF IInv, Drafted
  <2>2. proc[p].done \in 0..Statements
      BY DEF IInv, TypeOK, Proc
  <2> QED
      BY <2>1, <2>2, AtMigration DEF IInv
<1>3. r \in Proc
  <2>1. n \in 0..Statements
      BY <1>2
  <2> HIDE DEF n
  <2> QED
      BY <2>1 DEF IInv, TypeOK, Proc, Phases
<1>4. Goes(p, r) /\ proc'[p] = r
    BY <1>3 DEF Execute, Advanced, Goes, IInv, TypeOK
<1>5. /\ proc'[p].at = v /\ proc'[p].done = n /\ proc'[p].applied = proc[p].applied
      /\ proc'[p].phase = IF n = Statements THEN "insert" ELSE "body"
    BY <1>4 DEF IInv, TypeOK, Proc
<1>6. draft.recorded = file.recorded /\ draft.schema \in [Migrations -> 0..Statements]
    BY <1>1 DEF IInv, TypeOK, File, Drafted, At
<1>7. draft.schema[v] = proc[p].done
  <2>1. draft.schema[v] <= proc[p].done
      BY <1>2, <1>6 DEF Execute, Refused, Version
  <2>2. CASE proc[p].done = 0
      BY <1>2, <1>6, <2>1, <2>2
  <2>3. CASE proc[p].done > 0
    <3>1. draft.schema = [file.schema EXCEPT ![v] = proc[p].done]
        BY <1>1, <2>3 DEF IInv, Drafted
    <3> QED
        BY <1>2, <3>1 DEF IInv, TypeOK, File
  <2> QED
      BY <1>2, <2>2, <2>3
<1>8. /\ draft' \in File /\ draft'.recorded = draft.recorded
      /\ draft'.schema = [draft.schema EXCEPT ![v] = n]
    BY <1>2, <1>6, <1>7 DEF Execute, Executed, Version, IInv, TypeOK, File
<1>9. v \notin file.recorded
  <2>1. CASE proc[p].done = 0
    <3>1. Drafted(p) /\ ~(proc[p].done > 0)
        BY <2>1 DEF IInv
    <3>2. draft.schema = file.schema
        BY <1>1, <3>1 DEF Drafted
    <3>3. file.schema[v] = 0
        BY <1>7, <2>1, <3>2
    <3> QED
        BY <1>2, <3>3, NotYet DEF IInv
  <2>2. CASE proc[p].done > 0
      BY <1>1, <2>2 DEF IInv, Drafted
  <2> QED
      BY <1>2, <2>1, <2>2
<1>10. draft'.schema = [file.schema EXCEPT ![v] = n]
  <2>1. CASE proc[p].done = 0
    <3>1. Drafted(p) /\ ~(proc[p].done > 0)
        BY <2>1 DEF IInv
    <3>2. draft.schema = file.schema
        BY <1>1, <3>1 DEF Drafted
    <3> QED
        BY <1>8, <3>2
  <2>2. CASE proc[p].done > 0
    <3>1. draft.schema = [file.schema EXCEPT ![v] = proc[p].done]
        BY <1>1, <2>2 DEF IInv, Drafted
    <3> QED
        BY <1>2, <1>8, <3>1 DEF IInv, TypeOK, File
  <2> QED
      BY <1>2, <2>1, <2>2
<1>11. file' = file /\ Writing(p)'
    BY <1>5 DEF Execute, Writing
<1>12. Passed(p)'
    BY <1>5, <1>11 DEF IInv, Passed, At
<1>13. Drafted(p)'
    BY <1>2, <1>5, <1>6, <1>8, <1>9, <1>10, <1>11 DEF Drafted, At
<1>14. UNCHANGED <<file, writer, faults>>
    BY DEF Execute
<1> HIDE DEF r
<1> QED
    BY <1>1, <1>3, <1>4, <1>8, <1>11, <1>12, <1>13, <1>14, WriterMoves

LEMMA InsertStep ==
    ASSUME IInv, NEW p \in Procs, InsertVersion(p)
    PROVE  IInv'
<1> USE MigrationsAreNumbered
<1> DEFINE r == [proc[p] EXCEPT !.phase = "commit"]
<1>1. Writing(p) /\ ~At(p, "body") /\ ~At(p, "commit")
    BY DEF InsertVersion, Writing, At
<1>2. r \in Proc /\ Goes(p, r) /\ proc'[p] = r
    BY DEF InsertVersion, Step, Goes, IInv, TypeOK, Proc, Phases
<1>3. /\ proc'[p].at = proc[p].at /\ proc'[p].done = proc[p].done
      /\ proc'[p].applied = proc[p].applied /\ proc'[p].phase = "commit"
    BY <1>2 DEF IInv, TypeOK, Proc
<1>4. proc[p].at \in Migrations /\ proc[p].at <= Known[p] /\ proc[p].done = Statements
    BY <1>1, AtMigration DEF IInv, Drafted
<1>5. /\ draft' \in File /\ draft'.recorded = draft.recorded \union {proc[p].at}
      /\ draft'.schema = draft.schema
    BY <1>4 DEF InsertVersion, Version, IInv, TypeOK, File
<1>6. UNCHANGED <<file, writer, faults>> /\ file' = file
    BY DEF InsertVersion
<1>7. Passed(p)' /\ Writing(p)'
    BY <1>1, <1>3, <1>6 DEF IInv, Passed, At, Writing
<1>8. draft.recorded = file.recorded
    BY <1>1 DEF IInv, Drafted
<1>9. Drafted(p)'
    BY <1>1, <1>3, <1>4, <1>5, <1>6, <1>8 DEF IInv, Drafted, At
<1> HIDE DEF r
<1> QED
    BY <1>1, <1>2, <1>5, <1>6, <1>7, <1>9, WriterMoves

LEMMA CommitStep ==
    ASSUME IInv, NEW p \in Procs, Commit(p)
    PROVE  IInv'
<1> USE MigrationsAreNumbered
<1> DEFINE v == proc[p].at
           r == NextMigration(proc[p])
<1>1. Writing(p) /\ At(p, "commit") /\ writer = p /\ ~At(p, "body")
    BY DEF Commit, Writing, At, IInv, Locked
<1>2. v \in Migrations /\ proc[p].done = Statements /\ v <= Known[p]
    BY <1>1, AtMigration DEF IInv, Drafted
<1>3. r \in Proc
  <2>1. v + 1 \in 1..(Latest + 1) /\ 0 \in 0..Statements
      BY <1>2 DEF Migrations
  <2> QED
      BY <2>1 DEF NextMigration, IInv, TypeOK, Proc, Phases
<1>4. proc' = [proc EXCEPT ![p] = r] /\ proc'[p] = r
    BY <1>3 DEF Commit, Goes, IInv, TypeOK
<1>5. /\ proc'[p].at = v + 1 /\ proc'[p].done = 0 /\ proc'[p].phase = "next"
      /\ proc'[p].applied = proc[p].applied
    BY <1>4 DEF NextMigration, IInv, TypeOK, Proc
<1>6. /\ file'.recorded = file.recorded \union {v}
      /\ file'.schema = [file.schema EXCEPT ![v] = Statements]
      /\ v \notin file.recorded
  <2>1. Drafted(p) /\ proc[p].done > 0
      BY <1>2 DEF IInv
  <2> QED
      BY <1>1, <1>2, <2>1 DEF Commit, Drafted
<1>7. TypeOK'
    BY <1>3, <1>4 DEF Commit, IInv, TypeOK
<1>8. \A q \in Procs \ {p} : proc'[q] = proc[q] /\ ~Writing(q)
    BY <1>1, <1>4 DEF IInv, TypeOK, Locked
<1>9. Locked'
    BY <1>5, <1>8, NobodyIsNoProcess DEF Commit, Locked, Writing
<1>10. ASSUME NEW q \in Procs PROVE Passed(q)' /\ Drafted(q)'
  <2>1. CASE q = p
    <3>1. \A u \in 1..v : u \in file'.recorded
        BY <1>2, <1>6 DEF IInv, Passed, Migrations
    <3>2. v + 1 <= Known[p] + 1 /\ (v + 1) - 1 = v
        BY <1>2 DEF Migrations
    <3>3. Passed(p)'
        BY <1>5, <1>6, <3>1, <3>2 DEF IInv, Passed, At, Writing
    <3>4. Drafted(p)'
        BY <1>5 DEF Drafted, Writing
    <3> QED
        BY <2>1, <3>3, <3>4
  <2>2. CASE q # p
      BY <1>6, <1>8, <2>2 DEF IInv, Passed, Drafted, Writing, At
  <2> QED
      BY <2>1, <2>2
<1>11. WholeMigrations'
  <2>1. PICK n \in 0..Latest : file.recorded = 1..n /\ file.schema = Upto(n)
      BY DEF IInv, WholeMigrations
  <2>2. \A u \in 1..(v - 1) : u \in 1..n
      BY <2>1 DEF IInv, Passed
  <2>3. v \notin 1..n
      BY <1>6, <2>1
  <2>4. v = n + 1
    <3>1. v > n
        BY <1>2, <2>3 DEF Migrations
    <3>2. v - 1 <= n
      <4>1. CASE v = 1
          BY <4>1
      <4>2. CASE v # 1
        <5>1. v - 1 \in 1..(v - 1)
            BY <1>2, <4>2 DEF Migrations
        <5> QED
            BY <2>2, <5>1
      <4> QED
          BY <4>1, <4>2
    <3> QED
        BY <1>2, <3>1, <3>2 DEF Migrations
  <2>5. file'.recorded = 1..v
      BY <1>2, <1>6, <2>1, <2>4 DEF Migrations
  <2>6. file'.schema = Upto(v)
    <3>1. Upto(n) \in [Migrations -> {0, Statements}] /\ v = n + 1
        BY <2>4 DEF Upto
    <3>2. file'.schema \in [Migrations -> {0, Statements}]
        BY <1>6, <2>1, <3>1
    <3>3. ASSUME NEW u \in Migrations PROVE file'.schema[u] = Upto(v)[u]
      <4>1. CASE u = v
          BY <1>2, <1>6, <2>1, <3>1, <4>1 DEF Upto, Migrations
      <4>2. CASE u # v
        <5>1. file'.schema[u] = Upto(n)[u] /\ (u <= v <=> u <= n)
            BY <1>6, <2>1, <3>1, <4>2 DEF Migrations
        <5> QED
            BY <5>1 DEF Upto
      <4> QED
          BY <4>1, <4>2
    <3>4. Upto(v) \in [Migrations -> {0, Statements}]
        BY DEF Upto
    <3> QED
        BY <3>2, <3>3, <3>4
  <2>7. v \in 0..Latest
      BY <1>2 DEF Migrations
  <2> QED
      BY <2>5, <2>6, <2>7 DEF WholeMigrations
<1> QED
    BY <1>7, <1>9, <1>10, <1>11 DEF IInv

-----------------------------------------------------------------------------

LEMMA NextIInv == IInv /\ [Next]_vars => IInv'
<1> SUFFICES ASSUME IInv, [Next]_vars PROVE IInv'
    OBVIOUS
<1>1. CASE UNCHANGED vars
    BY <1>1 DEF vars, IInv, TypeOK, Locked, Passed, Drafted, Writing, At, WholeMigrations
<1>2. ASSUME NEW p \in Procs, Proceed(p) PROVE IInv'
  <2>1. CASE MigrateFails(p)
    <3>1. Exit(p) /\ faults' \in 0..MaxFaults
        BY <2>1 DEF MigrateFails, IInv, TypeOK
    <3> QED
        BY <3>1, ExitStep
  <2>2. CASE ReadVersions(p)
    <3>1. file.recorded \in SUBSET file.recorded /\ faults' \in 0..MaxFaults
        BY <2>2 DEF ReadVersions, IInv, TypeOK
    <3>2. /\ At(p, "read") /\ Knows(p, file.recorded)
          /\ UNCHANGED <<file, draft, writer>>
        BY <2>2 DEF ReadVersions
    <3> QED
        BY <3>1, <3>2, ReadStep
  <2> QED
      BY <1>2, <2>1, <2>2, StartStep, CreateStep, SkipStep, BeginStep, ExecuteStep,
         InsertStep, CommitStep, ServeStep DEF Proceed
<1>3. ASSUME NEW p \in Procs, ReadCutShort(p) PROVE IInv'
  <2>1. PICK last \in 0..Latest : Knows(p, {v \in file.recorded : v <= last})
      BY <1>3 DEF ReadCutShort
  <2>2. /\ At(p, "read") /\ UNCHANGED <<file, draft, writer>>
        /\ faults' \in 0..MaxFaults
      BY <1>3, BoundIsNatural DEF ReadCutShort, IInv, TypeOK
  <2>3. {v \in file.recorded : v <= last} \in SUBSET file.recorded
      OBVIOUS
  <2> QED
      BY <2>1, <2>2, <2>3, ReadStep
<1>4. ASSUME NEW p \in Procs, Crash(p) PROVE IInv'
  <2>1. Exit(p) /\ faults' \in 0..MaxFaults
      BY <1>4, BoundIsNatural DEF Crash, IInv, TypeOK
  <2> QED
      BY <2>1, ExitStep
<1> QED
    BY <1>1, <1>2, <1>3, <1>4 DEF Next

\* Type correctness, for any number of processes and migrations.
THEOREM TypeCorrect == Spec => []TypeOK
<1>1. IInv => TypeOK
    BY DEF IInv
<1> QED
    BY <1>1, InitIInv, NextIInv, PTL DEF Spec

\* Whatever processes run beside each other, are killed, fail or misread the
\* versions, the committed schema is what the recorded migrations make, each taken
\* once, whole and in order.
THEOREM MigrationsAreWhole == Spec => []WholeMigrations
<1>1. IInv => WholeMigrations
    BY DEF IInv
<1> QED
    BY <1>1, InitIInv, NextIInv, PTL DEF Spec

\* A process that serves does so on a schema with every migration it knows.
THEOREM ServersAreMigrated == Spec => []ServesMigrated
<1>1. IInv => ServesMigrated
  <2> SUFFICES ASSUME IInv, NEW p \in Procs, At(p, "serving"), NEW u \in 1..Known[p]
               PROVE  u \in file.recorded
      BY DEF ServesMigrated
  <2>1. proc[p].at > Known[p] /\ proc[p].at \in Nat /\ Known[p] \in Nat
      BY MigrationsAreNumbered DEF IInv, TypeOK, Proc, Passed
  <2>2. u \in 1..(proc[p].at - 1)
      BY <2>1
  <2> QED
      BY <2>2 DEF IInv, Passed
<1> QED
    BY <1>1, InitIInv, NextIInv, PTL DEF Spec

=============================================================================
