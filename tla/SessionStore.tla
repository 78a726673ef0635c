---------------------------- MODULE SessionStore ----------------------------
(***************************************************************************)
(* One session of src/nanobot/session/manager.py, as its turns and the     *)
(* consolidator of src/nanobot/agent/memory.py use it: Session objects in  *)
(* memory, a cache entry, a JSONL file, the offset last_consolidated and   *)
(* the archive (memory graph and HISTORY.md) that consolidation writes.    *)
(*                                                                         *)
(* Turns, consolidations, the running summary and the archiving of /new    *)
(* are coroutines that hold a Session object across model calls; a recall  *)
(* edits the session between them; a restart drops everything but the file *)
(* and the archive.  What the model decides by token counts (whether to    *)
(* consolidate, how far) is a free choice among the boundaries the code    *)
(* can pick.                                                               *)
(***************************************************************************)
EXTENDS Naturals, Sequences, FiniteSets, SequencesExt

CONSTANTS
  MaxTurns,      \* bound: turns of a run
  TurnKinds,     \* "user", "system" (under a lock of their own), "new"
  MaxRecalls,    \* bound: recall events that reach the session
  MaxUpsets,     \* bound: recalls and restarts together
  MayFail,       \* consolidations can fail
  OtherSessions, \* consolidations of other sessions share the failure count
  MaxCrashes,    \* bound: restarts of the process
  ShortHistory,  \* history kept next to a running summary (12)
  SummaryAfter   \* history length that asks for a running summary (20)

Turns == 1 .. MaxTurns
Jobs == Turns \X {"inline", "background", "summary"}
LockKinds == {"user", "system"}
NoObj == 0
MaxFailures == 3  \* _MAX_FAILURES_BEFORE_RAW_ARCHIVE
MaxRounds == 2    \* _MAX_CONSOLIDATION_ROUNDS

ASSUME StoreAssumption ==
  /\ {MaxTurns, MaxRecalls, MaxUpsets, MaxCrashes, ShortHistory, SummaryAfter} \subseteq Nat
  /\ TurnKinds \subseteq {"user", "system", "new"}
  /\ {MayFail, OtherSessions} \subseteq BOOLEAN

VARIABLES
  heap,      \* the Session objects, in order of creation
  cache,     \* SessionManager._cache[key]: an object, or NoObj
  disk,      \* the session file
  turn,      \* each turn: where it stands, its Session object, its history
  lock,      \* the turn that holds each of AgentLoop's two locks, or 0
  job,       \* each consolidator coroutine
  jobLock,   \* the holder of MemoryConsolidator's lock: a set of at most one job
  archiving, \* the background archive_messages of each /new
  failures,  \* MemoryStore._consecutive_failures
  archived,  \* how often each message has been archived
  expected,  \* history: what the session's users put and left in it
  recalls,
  crashes

storeVars == <<heap, cache, disk>>
bounds == <<recalls, crashes>>
vars == <<storeVars, turn, lock, job, jobLock, archiving, failures,
          archived, expected, bounds>>

-----------------------------------------------------------------------------
(* A turn adds two messages: the user's (or a subagent's result, in the    *)
(* assistant role) and the answer.                                         *)

Message == [turn : Turns, part : {1, 2}, role : {"user", "assistant"}]

NewMessages(t, kind) ==
  << [turn |-> t, part |-> 1, role |-> IF kind = "user" THEN "user" ELSE "assistant"],
     [turn |-> t, part |-> 2, role |-> "assistant"] >>

SessionData == [msgs : Seq(Message), lc : Nat, summary : BOOLEAN]
Fresh == [msgs |-> <<>>, lc |-> 0, summary |-> FALSE]

Unconsolidated(s) == SubSeq(s.msgs, s.lc + 1, Len(s.msgs))

\* get_history: from the first user message, if there is one.
History(s) ==
  LET rest == Unconsolidated(s)
      users == {p \in DOMAIN rest : rest[p].role = "user"}
  IN IF users = {} THEN rest
     ELSE SubSeq(rest, CHOOSE p \in users : \A q \in users : p <= q, Len(rest))

\* Mutant: any message is a boundary.
AnyBoundary(s) == s.lc + 1 .. Len(s.msgs) - 1

\* pick_consolidation_boundary, for any number of tokens to remove: offsets
\* in front of a user message, past the first unconsolidated one.
Boundaries(s) == {e \in s.lc + 1 .. Len(s.msgs) - 1 : s.msgs[e + 1].role = "user"}

LastN(s, n) == SubSeq(s, Len(s) - n + 1, Len(s))

\* remove_message_by_id: the messages that stay, in their order.
Without(s, m) ==
  LET kept[n \in 0 .. Len(s)] ==
        IF n = 0 THEN <<>>
        ELSE IF s[n] = m THEN kept[n - 1] ELSE Append(kept[n - 1], s[n])
  IN kept[Len(s)]

\* Mutant: the cache is not consulted.
UncachedHandle == Len(heap) + 1

\* A handle on the session for a caller of get_or_create: the cached object,
\* or a new one loaded from the file.
Handle == IF cache = NoObj THEN Len(heap) + 1 ELSE cache
Loaded == IF cache = NoObj THEN disk ELSE heap[cache]
Put(o, s) == IF o > Len(heap) THEN Append(heap, s) ELSE [heap EXCEPT ![o] = s]

\* Mutant: save does not put the object back into the cache.
SaveUncached(o, s) ==
  /\ heap' = Put(o, s)
  /\ disk' = s
  /\ cache' = cache

\* SessionManager.save: the file is replaced, the object is cached (again).
Save(o, s) ==
  /\ heap' = Put(o, s)
  /\ disk' = s
  /\ cache' = o

Archive(msgs) ==
  archived' = [m \in DOMAIN archived |->
                 archived[m] + Cardinality({p \in DOMAIN msgs : <<msgs[p].turn, msgs[p].part>> = m})]

IdleTurn == [pc |-> "idle", kind |-> "user", obj |-> NoObj, base |-> 0, sent |-> 0]
IdleJob == [pc |-> "idle", obj |-> NoObj, chunk |-> <<>>, end |-> 0, round |-> 0]
IdleArchive == [pc |-> "idle", msgs |-> <<>>, tries |-> 0]

\* The end of a coroutine, with its locals.
Ended(idle) == [idle EXCEPT !.pc = "done"]
Stopped(c, idle) == IF c.pc = "idle" THEN idle ELSE Ended(idle)

TypeOK ==
  /\ heap \in Seq(SessionData) /\ disk \in SessionData
  /\ cache \in 0 .. Len(heap)
  /\ turn \in [Turns -> [pc : {"idle", "consolidating", "ready", "graph", "done"},
                         kind : {"user", "system", "new"}, obj : 0 .. Len(heap),
                         base : Nat, sent : Nat]]
  /\ lock \in [LockKinds -> Turns \cup {0}]
  /\ job \in [Jobs -> [pc : {"idle", "wait", "pick", "llm", "done"}, obj : 0 .. Len(heap),
                       chunk : Seq(Message), end : Nat, round : 0 .. MaxRounds]]
  /\ jobLock \subseteq Jobs /\ Cardinality(jobLock) <= 1
  /\ archiving \in [Turns -> [pc : {"idle", "trying", "done"}, msgs : Seq(Message),
                              tries : 0 .. MaxFailures - 1]]
  /\ failures \in 0 .. MaxFailures - 1
  /\ archived \in [Turns \X {1, 2} -> Nat]
  /\ expected \in Seq(Message)
  /\ recalls \in 0 .. MaxRecalls /\ crashes \in 0 .. MaxCrashes

Init ==
  /\ heap = <<>> /\ cache = NoObj /\ disk = Fresh
  /\ turn = [t \in Turns |-> IdleTurn] /\ lock = [k \in LockKinds |-> 0]
  /\ job = [j \in Jobs |-> IdleJob] /\ jobLock = {}
  /\ archiving = [t \in Turns |-> IdleArchive]
  /\ failures = 0
  /\ archived = [m \in Turns \X {1, 2} |-> 0]
  /\ expected = <<>>
  /\ recalls = 0 /\ crashes = 0

-----------------------------------------------------------------------------
(* Turns: AgentLoop._process_message.                                      *)

NextTurn(t) == turn[t].pc = "idle" /\ \A u \in 1 .. t - 1 : turn[u].pc # "idle"

\* _dispatch locks the key of the message: a subagent's result and a chat's
\* message for one session have different keys.
TakeLock(t, kind) == lock[kind] = 0 /\ lock' = [lock EXCEPT ![kind] = t]

\* get_or_create, then maybe_consolidate_by_tokens unless there is nothing.
BeginTurn(t, kind) ==
  /\ NextTurn(t) /\ kind # "new"
  /\ TakeLock(t, kind)
  /\ heap' = Put(Handle, Loaded)
  /\ cache' = Handle
  /\ LET empty == Loaded.msgs = <<>>
     IN /\ turn' = [turn EXCEPT ![t] = [@ EXCEPT !.kind = kind, !.obj = Handle,
                                          !.pc = IF empty THEN "ready" ELSE "consolidating"]]
        /\ job' = IF empty THEN job
                  ELSE [job EXCEPT ![<<t, "inline">>] = [@ EXCEPT !.pc = "wait", !.obj = Handle]]
  /\ UNCHANGED <<disk, jobLock, archiving, failures, archived, expected, bounds>>

\* Mutant: a fresh session is saved, the object others hold is not emptied.
ReplaceSession(t) ==
  /\ NextTurn(t) /\ lock["user"] = 0
  /\ heap' = Put(Handle, Loaded)
  /\ disk' = Fresh
  /\ cache' = NoObj
  /\ archiving' = [archiving EXCEPT ![t] =
       [@ EXCEPT !.pc = "trying", !.msgs = Unconsolidated(Loaded)]]
  /\ turn' = [turn EXCEPT ![t] = [@ EXCEPT !.kind = "new", !.pc = "done"]]
  /\ expected' = <<>>
  /\ UNCHANGED <<lock, job, jobLock, failures, archived, bounds>>

\* clear() empties the object it is given and leaves the metadata alone; the
\* snapshot is archived in the background; no await in between.
NewSession(t) ==
  /\ NextTurn(t) /\ lock["user"] = 0
  /\ LET cleared == [Loaded EXCEPT !.msgs = <<>>, !.lc = 0]
         snapshot == Unconsolidated(Loaded)
     IN /\ heap' = Put(Handle, cleared)
        /\ disk' = cleared
        /\ cache' = NoObj
        /\ archiving' = IF snapshot = <<>> THEN archiving
                        ELSE [archiving EXCEPT ![t] = [@ EXCEPT !.pc = "trying", !.msgs = snapshot]]
  /\ turn' = [turn EXCEPT ![t] = [@ EXCEPT !.kind = "new", !.pc = "done"]]
  /\ expected' = <<>>
  /\ UNCHANGED <<lock, job, jobLock, failures, archived, bounds>>

\* The prompt: with a running summary only the last messages, else all of
\* the history, and a summary is asked for when that is long.
BuildPrompt(t) ==
  /\ turn[t].pc = "ready"
  /\ LET s == heap[turn[t].obj]
         hist == History(s)
         short == turn[t].kind = "user" /\ s.summary /\ Len(hist) > ShortHistory
         prompt == IF short THEN LastN(hist, ShortHistory) ELSE hist
         summarize == turn[t].kind = "user" /\ ~short /\ Len(hist) > SummaryAfter
     IN /\ turn' = [turn EXCEPT ![t] =
              [@ EXCEPT !.pc = "graph", !.base = Len(hist), !.sent = Len(prompt)]]
        /\ job' = IF summarize
                  THEN [job EXCEPT ![<<t, "summary">>] =
                          [@ EXCEPT !.pc = "wait", !.obj = turn[t].obj]]
                  ELSE job
  /\ UNCHANGED <<storeVars, lock, jobLock, archiving, failures, archived, expected, bounds>>

EndTurn(t, jobs) ==
  /\ turn' = [turn EXCEPT ![t] = [@ EXCEPT !.pc = "done", !.obj = NoObj]]
  /\ lock' = [k \in LockKinds |-> IF lock[k] = t THEN 0 ELSE lock[k]]
  /\ job' = jobs

\* _save_turn skips 1 + len(history) messages of a list that holds the
\* prompt's part of the history; then save and a background consolidation.
SaveTurn(t) ==
  /\ turn[t].pc = "graph"
  /\ LET o == turn[t].obj
         new == NewMessages(t, turn[t].kind)
         kept == SubSeq(new, 1 + turn[t].base - turn[t].sent, 2)
     IN /\ Save(o, [heap[o] EXCEPT !.msgs = @ \o kept])
        /\ expected' = expected \o new
        /\ EndTurn(t, IF heap[o].msgs \o kept = <<>> THEN job
                      ELSE [job EXCEPT ![<<t, "background">>] =
                              [@ EXCEPT !.pc = "wait", !.obj = o]])
  /\ UNCHANGED <<jobLock, archiving, failures, archived, bounds>>

\* Cancelled, timed out, failed: the inline consolidation dies with the turn.
AbortTurn(t) ==
  /\ turn[t].pc \in {"consolidating", "ready", "graph"}
  /\ EndTurn(t, [job EXCEPT ![<<t, "inline">>] = Ended(IdleJob)])
  /\ jobLock' = jobLock \ {<<t, "inline">>}
  /\ UNCHANGED <<storeVars, archiving, failures, archived, expected, bounds>>

\* _handle_recall_control, between the turns it cancels.
Recall(m) ==
  /\ recalls < MaxRecalls /\ recalls + crashes < MaxUpsets /\ recalls' = recalls + 1
  /\ m \in ToSet(Loaded.msgs)
  /\ Save(Handle, [Loaded EXCEPT !.msgs = Without(@, m)])
  /\ expected' = Without(expected, m)
  /\ UNCHANGED <<turn, lock, job, jobLock, archiving, failures, archived, crashes>>

-----------------------------------------------------------------------------
(* MemoryConsolidator: one coroutine at a time per session.                *)

EndJob(j) ==
  /\ job' = [job EXCEPT ![j] = Ended(IdleJob)]
  /\ jobLock' = {}
  /\ turn' = IF j[2] = "inline" THEN [turn EXCEPT ![j[1]].pc = "ready"] ELSE turn

\* Mutant: consolidations of one session do not exclude each other.
EnterUnlocked(j) ==
  /\ job[j].pc = "wait"
  /\ jobLock' = jobLock \cup {j}
  /\ job' = [job EXCEPT ![j].pc = "pick"]
  /\ UNCHANGED <<storeVars, turn, lock, archiving, failures, archived, expected, bounds>>

TakeJobLock(j) ==
  /\ job[j].pc = "wait"
  /\ jobLock = {}
  /\ jobLock' = {j}
  /\ job' = [job EXCEPT ![j].pc = "pick"]
  /\ UNCHANGED <<storeVars, turn, lock, archiving, failures, archived, expected, bounds>>

\* The prompt is small enough, no boundary is left, or the rounds are used up.
NothingToConsolidate(j) ==
  /\ job[j].pc = "pick"
  /\ EndJob(j)
  /\ UNCHANGED <<storeVars, lock, archiving, failures, archived, expected, bounds>>

PickChunk(j) ==
  /\ job[j].pc = "pick" /\ j[2] # "summary" /\ job[j].round < MaxRounds
  /\ LET s == heap[job[j].obj]
     IN \E e \in Boundaries(s) :
          job' = [job EXCEPT ![j] = [@ EXCEPT !.pc = "llm", !.end = e, !.round = job[j].round + 1,
                                       !.chunk = SubSeq(s.msgs, s.lc + 1, e)]]
  /\ UNCHANGED <<storeVars, turn, lock, jobLock, archiving, failures, archived,
                 expected, bounds>>

\* consolidate returned True: the offset moves and the object that was held
\* across the model call is saved.
Consolidated(j) ==
  /\ job[j].pc = "llm" /\ j[2] # "summary"
  /\ Archive(job[j].chunk)
  /\ Save(job[j].obj, [heap[job[j].obj] EXCEPT !.lc = job[j].end])
  /\ job' = [job EXCEPT ![j].pc = "pick"]
  /\ failures' = 0
  /\ UNCHANGED <<turn, lock, jobLock, archiving, expected, bounds>>

\* _fail_or_raw_archive: the third failure in a row archives the raw text,
\* which then counts as consolidated.
ConsolidationFails(j) ==
  /\ MayFail /\ job[j].pc = "llm" /\ j[2] # "summary"
  /\ IF failures + 1 < MaxFailures
     THEN /\ failures' = failures + 1
          /\ EndJob(j)
          /\ UNCHANGED <<storeVars, archived>>
     ELSE /\ failures' = 0
          /\ Archive(job[j].chunk)
          /\ Save(job[j].obj, [heap[job[j].obj] EXCEPT !.lc = job[j].end])
          /\ job' = [job EXCEPT ![j].pc = "pick"]
          /\ UNCHANGED <<turn, jobLock>>
  /\ UNCHANGED <<lock, archiving, expected, bounds>>

\* update_running_summary: the early messages are enough for a summary, or
\* NothingToConsolidate returns at once.
Summarize(j) ==
  /\ job[j].pc = "pick" /\ j[2] = "summary"
  /\ job' = [job EXCEPT ![j].pc = "llm"]
  /\ UNCHANGED <<storeVars, turn, lock, jobLock, archiving, failures, archived,
                 expected, bounds>>

Summarized(j) ==
  /\ job[j].pc = "llm" /\ j[2] = "summary"
  /\ EndJob(j)
  /\ \/ LET o == job[j].obj
        IN Save(o, [heap[o] EXCEPT !.summary = TRUE])
     \/ UNCHANGED storeVars
  /\ UNCHANGED <<lock, archiving, failures, archived, expected, bounds>>

-----------------------------------------------------------------------------
(* archive_messages, in the background of /new.                            *)

ArchiveDone(t) == archiving' = [archiving EXCEPT ![t] = Ended(IdleArchive)]

ArchiveSucceeds(t) ==
  /\ archiving[t].pc = "trying"
  /\ Archive(archiving[t].msgs)
  /\ failures' = 0
  /\ ArchiveDone(t)
  /\ UNCHANGED <<storeVars, turn, lock, job, jobLock, expected, bounds>>

\* Three attempts; the raw dump comes with the third failure in a row of the
\* store, not of these attempts.
ArchiveFails(t) ==
  /\ MayFail /\ archiving[t].pc = "trying"
  /\ IF failures + 1 < MaxFailures
     THEN /\ failures' = failures + 1
          /\ IF archiving[t].tries + 1 = MaxFailures THEN ArchiveDone(t)
             ELSE archiving' = [archiving EXCEPT ![t].tries = @ + 1]
          /\ UNCHANGED archived
     ELSE /\ failures' = 0
          /\ Archive(archiving[t].msgs)
          /\ ArchiveDone(t)
  /\ UNCHANGED <<storeVars, turn, lock, job, jobLock, expected, bounds>>

\* A consolidation of another session moves the shared count.
OtherConsolidation ==
  /\ OtherSessions
  /\ failures' \in {0, IF failures + 1 < MaxFailures THEN failures + 1 ELSE 0}
  /\ UNCHANGED <<storeVars, turn, lock, job, jobLock, archiving, archived,
                 expected, bounds>>

-----------------------------------------------------------------------------
(* The process dies: file and archive stay.                                *)

Lose ==
  /\ crashes < MaxCrashes /\ recalls + crashes < MaxUpsets /\ crashes' = crashes + 1
  /\ heap' = <<>> /\ cache' = NoObj
  /\ turn' = [t \in Turns |-> [turn[t] EXCEPT !.pc = IF @ = "idle" THEN "idle" ELSE "done",
                                              !.obj = NoObj]]
  /\ lock' = [k \in LockKinds |-> 0]
  /\ job' = [j \in Jobs |-> Stopped(job[j], IdleJob)]
  /\ jobLock' = {}
  /\ archiving' = [t \in Turns |-> Stopped(archiving[t], IdleArchive)]
  /\ failures' = 0
  /\ UNCHANGED <<expected, recalls>>

Crash == Lose /\ UNCHANGED <<disk, archived>>

\* Mutant: the offset is saved first, the archive written after it.
CrashBeforeArchive(j) ==
  /\ job[j].pc = "llm" /\ j[2] # "summary"
  /\ disk' = [heap[job[j].obj] EXCEPT !.lc = job[j].end]
  /\ Lose
  /\ UNCHANGED archived

\* ... after HISTORY.md was written and before the session is saved.
CrashAfterArchive(j) ==
  /\ job[j].pc = "llm" /\ j[2] # "summary"
  /\ Archive(job[j].chunk)
  /\ Lose
  /\ UNCHANGED disk

TurnStep(t) ==
  \/ \E kind \in TurnKinds : BeginTurn(t, kind)
  \/ "new" \in TurnKinds /\ NewSession(t)
  \/ BuildPrompt(t) \/ SaveTurn(t) \/ AbortTurn(t)
  \/ ArchiveSucceeds(t) \/ ArchiveFails(t)

JobStep(j) ==
  \/ TakeJobLock(j) \/ NothingToConsolidate(j) \/ PickChunk(j)
  \/ Consolidated(j) \/ ConsolidationFails(j)
  \/ Summarize(j) \/ Summarized(j)

Next ==
  \/ \E t \in Turns : TurnStep(t)
  \/ \E j \in Jobs : JobStep(j) \/ CrashAfterArchive(j)
  \/ \E m \in Message : Recall(m)
  \/ OtherConsolidation
  \/ Crash

Spec == Init /\ [][Next]_vars

-----------------------------------------------------------------------------
(* Properties.                                                             *)

\* What a reader of the session sees: the cached object, or else the file.
Current == IF cache = NoObj THEN disk ELSE heap[cache]

\* The cached object and the file never differ between two steps, whichever
\* coroutine saved last and whichever object it held.
CacheMatchesDisk == Current = disk

\* What /new or a recall took out of the session never comes back, though
\* consolidations, summaries and a subagent's turn go on with the object they
\* hold and save it afterwards.  A second /new is another matter: it empties
\* one of the two objects that may then be in use.
NothingReturns ==
  (\A t, u \in Turns : turn[t].kind = "new" /\ turn[u].kind = "new" => t = u)
    => ToSet(disk.msgs) \subseteq ToSet(expected)

\* A message was recalled, or /new emptied the session.
Edited == recalls > 0 \/ \E t \in Turns : turn[t].kind = "new"

\* The messages of a turn that _save_turn takes for history, because it
\* counts more history than the prompt held.
Skipped(m) == m.part <= turn[m.turn].base - turn[m.turn].sent

\* Apart from those, turns that are saved stay in the session, whole and in
\* order, however consolidations, a subagent's turns and restarts fall between
\* them, as long as no user edits the session.
SessionHoldsTurns ==
  Edited \/ /\ ToSet(disk.msgs) = {m \in ToSet(expected) : ~Skipped(m)}
            /\ (\A t \in Turns : turn[t].sent = turn[t].base) => disk.msgs = expected

\* Whatever the offset hides from the model's history has been archived: no
\* message falls between the history and the archive, not even when the
\* process dies inside a consolidation.
HiddenIsArchived ==
  Edited \/ /\ disk.lc <= Len(disk.msgs)
            /\ \A p \in 1 .. disk.lc : archived[<<disk.msgs[p].turn, disk.msgs[p].part>>] > 0

\* A message is archived again only after a restart, once per restart: inline
\* and background consolidations of one session do not repeat each other.
ArchivedOnce == Edited \/ \A m \in DOMAIN archived : archived[m] <= 1 + crashes

\* The offset stands in front of a user message, so that the history never
\* starts inside a turn.
HistoryStartsWithUser ==
  ~Edited /\ 0 < disk.lc /\ disk.lc < Len(disk.msgs) => disk.msgs[disk.lc + 1].role = "user"

-----------------------------------------------------------------------------
(* What comments say and the code does not do.                             *)

\* _save_turn: "Save new-turn messages into session".
SavedTurnsWhole == Edited \/ disk.msgs = expected
=============================================================================
