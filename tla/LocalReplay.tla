---------------------------- MODULE LocalReplay ----------------------------
(***************************************************************************)
(* The isolated replay of a trace (local_replay.py) by several processes   *)
(* that share one answer cache on disk (npu_task_cache.py).  A process     *)
(* estimates a work itself or gives it to a process pool; answers of the   *)
(* pool are stored by a callback on the pool's completion thread.  A       *)
(* document stands for its timing input and its key.                       *)
(***************************************************************************)
EXTENDS Integers, Sequences, FiniteSets, SequencesExt

CONSTANTS
    None,
    Processes,
    Pooled,           \* the processes started with --workers
    Cached,           \* the processes started with --task-cache
    Traces,           \* traces to replay: the bindings of their works
    Document,         \* binding -> model document
    Estimate,         \* document -> what the cycle model answers
    Rejected,         \* documents the cycle model refuses
    Capacity,         \* BINDING_CACHE_ENTRIES
    MaxCrashes

ASSUME LocalReplayAssumption ==
    /\ Capacity \in Nat \ {0} /\ Pooled \subseteq Processes /\ Cached \subseteq Processes
    /\ Traces \subseteq Seq(DOMAIN Document)

VARIABLES
    trace,            \* the trace all processes replay
    tasks,            \* the tasks table: document -> row or None
    pc, at,           \* step of _replay and the next work
    cache,            \* bindings in the FIFO with the answer each one got
    answers,          \* answers the process holds, in the order it asked
    works,            \* work -> index of its answer
    rows,             \* values written to the result stream
    errors,           \* _Persist.errors is not empty
    closed,           \* TaskCache.close has run
    crashes

replayVars == <<trace, tasks, pc, at, cache, answers, works, rows, errors, closed, crashes>>
private == <<trace, at, cache, works, rows, closed, crashes>>

Documents == Range(Document)

\* A row holds a result and whether status, identities and checksum agree with it.
Complete(d) == [value |-> Estimate[d], ok |-> TRUE]
Damaged(d) == [value |-> Estimate[d] + 1, ok |-> FALSE]

Start(p) ==
    /\ pc' = [pc EXCEPT ![p] = "PARSE"] /\ at' = [at EXCEPT ![p] = 1]
    /\ cache' = [cache EXCEPT ![p] = << >>] /\ answers' = [answers EXCEPT ![p] = << >>]
    /\ works' = [works EXCEPT ![p] = << >>] /\ rows' = [rows EXCEPT ![p] = << >>]
    /\ errors' = [errors EXCEPT ![p] = FALSE] /\ closed' = [closed EXCEPT ![p] = FALSE]

ReplayInit ==
    /\ trace \in Traces
    /\ tasks \in {t \in [Documents -> {None} \cup {Complete(d) : d \in Documents} \cup {Damaged(d) : d \in Documents}] :
                     \A d \in Documents : t[d] \in {None, Complete(d), Damaged(d)} /\ (d \in Rejected => t[d] = None)}
    /\ pc = [p \in Processes |-> "PARSE"] /\ at = [p \in Processes |-> 1]
    /\ cache = [p \in Processes |-> << >>] /\ answers = [p \in Processes |-> << >>]
    /\ works = [p \in Processes |-> << >>] /\ rows = [p \in Processes |-> << >>]
    /\ errors = [p \in Processes |-> FALSE] /\ closed = [p \in Processes |-> FALSE]
    /\ crashes = 0

(***************************************************************************)
(* TaskCache                                                               *)
(***************************************************************************)
\* Fault: a row is used without the comparisons.
RowTrusted(row) == TRUE

RowOK(row) == row.ok

\* The transaction of store(): insert unless there, and the row that is there
\* must hold the same result.  After close() the statement fails.
StoreOK(p, d) == ~closed[p] /\ (tasks[d] = None \/ tasks[d].value = Estimate[d])
Stored(p, d) == IF StoreOK(p, d) /\ tasks[d] = None THEN [tasks EXCEPT ![d] = Complete(d)] ELSE tasks

\* _Persist.answer: only PASS answers are stored, a failure is remembered.
Persist(p, d) ==
    IF d \in Rejected THEN UNCHANGED <<tasks, errors>>
    ELSE /\ tasks' = Stored(p, d)
         /\ errors' = IF StoreOK(p, d) THEN errors ELSE [errors EXCEPT ![p] = TRUE]

(***************************************************************************)
(* The work loop of _replay                                                *)
(***************************************************************************)
Answer(d, value, done, called) == [document |-> d, value |-> value, done |-> done, called |-> called]

Binding(p) == trace[at[p]]
Doc(p) == Document[Binding(p)]
CacheHits(p) == {n \in DOMAIN cache[p] : cache[p][n][1] = Binding(p)}

\* The work takes answer i; a binding that missed enters the FIFO.
Take(p, i) ==
    /\ works' = [works EXCEPT ![p] = Append(@, i)]
    /\ cache' = [cache EXCEPT ![p] = IF CacheHits(p) /= {} THEN @
                                     ELSE Append(IF Len(@) = Capacity THEN Tail(@) ELSE @, <<Binding(p), i>>)]
    /\ at' = [at EXCEPT ![p] = @ + 1]

\* A binding miss that needs the cycle model: the pool gets the document, or
\* the process estimates it here and then stores it.
Ask(p) ==
    IF p \in Pooled
    THEN /\ answers' = [answers EXCEPT ![p] = Append(@, Answer(Doc(p), None, FALSE, FALSE))]
         /\ pc' = [pc EXCEPT ![p] = "PARSE"]
         /\ Take(p, Len(answers[p]) + 1)
    ELSE /\ answers' = [answers EXCEPT ![p] = Append(@, Answer(Doc(p), Estimate[Doc(p)], TRUE, FALSE))]
         /\ pc' = [pc EXCEPT ![p] = IF Doc(p) \in Rejected THEN "FAILED" ELSE "STORE"]
         /\ UNCHANGED <<at, cache, works>>

HitBinding(p) ==
    /\ pc[p] = "PARSE" /\ at[p] <= Len(trace) /\ CacheHits(p) /= {}
    /\ \E n \in CacheHits(p) : Take(p, cache[p][n][2])
    /\ UNCHANGED <<tasks, pc, answers, rows, errors, closed, crashes, trace>>

\* lookup(): the SELECT runs outside any transaction.
Lookup(p) ==
    /\ pc[p] = "PARSE" /\ at[p] <= Len(trace) /\ CacheHits(p) = {}
    /\ LET row == IF p \in Cached THEN tasks[Doc(p)] ELSE None IN
       IF row = None THEN Ask(p)
       ELSE IF RowOK(row)
       THEN /\ answers' = [answers EXCEPT ![p] = Append(@, Answer(Doc(p), row.value, TRUE, TRUE))]
            /\ Take(p, Len(answers[p]) + 1)
            /\ UNCHANGED pc
       ELSE pc' = [pc EXCEPT ![p] = "QUARANTINE"] /\ UNCHANGED <<at, cache, answers, works>>
    /\ UNCHANGED <<tasks, rows, errors, closed, crashes, trace>>

\* The transaction that moves the row found bad to rejected: it deletes
\* whatever row the key has by then.
Quarantine(p) ==
    /\ pc[p] = "QUARANTINE"
    /\ tasks' = [tasks EXCEPT ![Doc(p)] = None]
    /\ Ask(p)
    /\ UNCHANGED <<rows, errors, closed, crashes, trace>>

\* The serial replay stores its own answer.
Store(p) ==
    /\ pc[p] = "STORE"
    /\ pc' = [pc EXCEPT ![p] = "PARSE"]
    /\ Take(p, Len(answers[p]))
    /\ answers' = [answers EXCEPT ![p][Len(answers[p])].called = TRUE]
    /\ IF p \in Cached THEN Persist(p, Doc(p)) ELSE UNCHANGED <<tasks, errors>>
    /\ UNCHANGED <<rows, closed, crashes, trace>>

\* A pool worker delivers: the future is set, waiters wake up...
Deliver(p, i) ==
    /\ pc[p] /= "DOWN" /\ ~answers[p][i].done
    /\ answers' = [answers EXCEPT ![p][i].done = TRUE, ![p][i].value = Estimate[answers[p][i].document]]
    /\ UNCHANGED <<tasks, pc, errors, private>>

\* ... and then the completion thread runs the done callback.
Callback(p, i) ==
    /\ pc[p] /= "DOWN" /\ p \in Pooled \cap Cached /\ answers[p][i].done /\ ~answers[p][i].called
    /\ answers' = [answers EXCEPT ![p][i].called = TRUE]
    /\ Persist(p, answers[p][i].document)
    /\ UNCHANGED <<pc, private>>

\* Rows are written in trace order, each when its answer is there.
Write(p) ==
    /\ pc[p] = "PARSE" /\ at[p] > Len(trace) /\ Len(rows[p]) < Len(trace)
    /\ LET answer == answers[p][works[p][Len(rows[p]) + 1]] IN
       /\ answer.done
       /\ IF answer.document \in Rejected
          THEN pc' = [pc EXCEPT ![p] = "FAILED"] /\ UNCHANGED rows
          ELSE rows' = [rows EXCEPT ![p] = Append(@, answer.value)] /\ UNCHANGED pc
    /\ UNCHANGED <<tasks, at, cache, answers, works, errors, closed, crashes, trace>>

Close(p) ==
    /\ pc[p] = "PARSE" /\ Len(rows[p]) = Len(trace)
    /\ closed' = [closed EXCEPT ![p] = TRUE]
    /\ pc' = [pc EXCEPT ![p] = "CHECK"]
    /\ UNCHANGED <<tasks, at, cache, answers, works, rows, errors, crashes, trace>>

Check(p) ==
    /\ pc[p] = "CHECK"
    /\ pc' = [pc EXCEPT ![p] = IF errors[p] THEN "FAILED" ELSE "PUBLISHED"]
    /\ UNCHANGED <<tasks, answers, errors, private>>

\* An interrupted replay keeps nothing but the tasks table, and is run again.
Crash(p) ==
    /\ crashes < MaxCrashes /\ pc[p] \notin {"DOWN", "PUBLISHED", "FAILED"}
    /\ pc' = [pc EXCEPT ![p] = "DOWN"] /\ crashes' = crashes + 1
    /\ UNCHANGED <<tasks, at, cache, answers, works, rows, errors, closed, trace>>

Resume(p) == pc[p] = "DOWN" /\ Start(p) /\ UNCHANGED <<tasks, crashes, trace>>

ReplayNext ==
    \E p \in Processes :
        \/ HitBinding(p) \/ Lookup(p) \/ Quarantine(p) \/ Store(p)
        \/ \E i \in DOMAIN answers[p] : Deliver(p, i) \/ Callback(p, i)
        \/ Write(p) \/ Close(p) \/ Check(p) \/ Crash(p) \/ Resume(p)

ReplaySpec == ReplayInit /\ [][ReplayNext]_replayVars

(***************************************************************************)
(* Properties                                                              *)
(***************************************************************************)
\* Whatever the pool's order, the evictions, the damaged rows, the other
\* processes and the crashes, a published replay holds the cycle model's
\* answer for every work in trace order, the one the serial replay gives.
RowsExact ==
    \A p \in Processes : pc[p] = "PUBLISHED" =>
        /\ rows[p] = [n \in DOMAIN trace |-> Estimate[Document[trace[n]]]]
        /\ \A n \in DOMAIN trace : Document[trace[n]] \notin Rejected

\* "an interrupted replay keeps every completed answer": what a process has
\* stored without an error stays in the table.
AnswersKept ==
    \A p \in Cached : pc[p] /= "DOWN" /\ ~errors[p] =>
        \A i \in DOMAIN answers[p] : answers[p][i].called /\ answers[p][i].document \notin Rejected
            => tasks[answers[p][i].document] /= None
=============================================================================
