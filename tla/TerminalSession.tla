-------------------------- MODULE TerminalSession --------------------------
(***************************************************************************)
(* One PTY session of a parity case: parity/terminal.py and the replay of  *)
(* its capture by parity/observe_cli_terminal.py.                          *)
(*                                                                         *)
(* Four actors: the candidate on the terminal's slave side, with a helper  *)
(* that may keep the slave open; the thread that waits for the candidate;  *)
(* the reader thread, which interprets the output and answers cursor       *)
(* queries; and the test's own thread, which sends, resizes, takes         *)
(* screenshots and finishes, each under _control.  What one of them does   *)
(* under _state is one step; reading a descriptor and interpreting what    *)
(* was read are two.                                                       *)
(*                                                                         *)
(* The screen is the history of what changed it, the cursor its length.    *)
(* Of the three descriptors the plain stdout pipe is left out: it is read  *)
(* like the terminal and not interpreted.                                  *)
(***************************************************************************)
EXTENDS Integers, Sequences, FiniteSets, SequencesExt

CONSTANTS
    Programs,   \* what candidates may write: sequences of Tokens
    Helpers,    \* who else holds the slave: subset of {"none", "group", "escaped"}
    Sizes,      \* sizes the test resizes to, strings
    Labels,     \* labels of screenshots
    RawLimit,   \* RAW_FILE_LIMIT, in tokens
    MaxResizes  \* bound: resizes of the test

\* A query may come in two halves; "begin" and "end" are mode 2026.
Tokens == {"text", "begin", "end", "ask", "as", "k", "bad"}

ASSUME TerminalSessionAssumption ==
    /\ Programs \subseteq Seq(Tokens)
    /\ Helpers \subseteq {"none", "group", "escaped"}
    /\ Sizes \subseteq STRING /\ Labels \subseteq STRING \ {"none"}
    /\ RawLimit \in Nat /\ MaxResizes \in Nat

VARIABLES
    todo, wrote,   \* what the candidate has still to write, and has written
    child,         \* "running", "exited", "reaped"
    helper,        \* a process with the slave open beside the candidate
    queue,         \* output in the kernel
    term,          \* self.terminal
    raw, events, shots,
    error,         \* _terminal_error
    reader,        \* [pc, open, got]
    note,          \* the exit pipe holds its byte
    stop,          \* _stop and _wake
    pc,            \* the test's thread
    copy,          \* the screenshot being taken, outside the lock
    failed,        \* the failure finish will raise
    record         \* the invocation's record: the bytes and the saved journal

candidate == <<todo, wrote, child, helper, note>>
capture == <<raw, events, shots, term, error>>
sessionVars == <<todo, wrote, child, helper, queue, term, raw, events, shots, error,
          reader, note, stop, pc, copy, failed, record>>

Incomplete(t) == t.sync \/ t.partial
Query(t) == [t EXCEPT !.partial = FALSE, !.replies = Append(@, Len(t.seen))]

\* Terminal.feed of one token; an error leaves what came before it.
Interpret(t, token) ==
    IF t.error THEN t
    ELSE CASE token = "text" -> [t EXCEPT !.seen = Append(@, token)]
           [] token = "begin" -> [t EXCEPT !.sync = TRUE]
           [] token = "end" -> [t EXCEPT !.sync = FALSE]
           [] token = "ask" \/ (token = "k" /\ t.partial) -> Query(t)
           [] token = "as" -> [t EXCEPT !.partial = TRUE]
           [] OTHER -> [t EXCEPT !.error = TRUE]
Feed(t, tokens) ==
    LET fed[i \in 0..Len(tokens)] == IF i = 0 THEN t ELSE Interpret(fed[i - 1], tokens[i])
    IN  fed[Len(tokens)]
NewTerminal == [seen |-> <<>>, sync |-> FALSE, partial |-> FALSE, replies |-> <<>>, error |-> FALSE]

\* An entry of the journal: the place in the output, and what was sent to, drawn
\* on or answered by the terminal there.
Event(kind, place) == [kind |-> kind, offset |-> place, what |-> "none", answer |-> 0]

SlaveOpen == child = "running" \/ helper # "none"

NoCopy == [label |-> "none", offset |-> 0, state |-> NewTerminal, index |-> 0]

SessionInit ==
    /\ todo \in Programs /\ wrote = <<>> /\ child = "running" /\ helper \in Helpers
    /\ queue = <<>> /\ term = NewTerminal /\ raw = <<>> /\ events = <<>> /\ shots = <<>>
    /\ error = "none" /\ reader = [pc |-> "select", open |-> {"tty", "exit"}, got |-> <<>>]
    /\ note = FALSE /\ stop = FALSE /\ pc = "start" /\ copy = NoCopy
    /\ failed = FALSE /\ record = [tty |-> <<>>, events |-> <<>>, shots |-> <<>>]

-----------------------------------------------------------------------------
\* The candidate, its helper and the thread that waits for it.

WriteOutput ==
    /\ child = "running" /\ todo # <<>>
    /\ queue' = Append(queue, Head(todo)) /\ wrote' = Append(wrote, Head(todo)) /\ todo' = Tail(todo)
    /\ UNCHANGED <<capture, child, helper, reader, note, stop, pc, copy, failed, record>>

Exit ==
    /\ child = "running" /\ todo = <<>> /\ child' = "exited"
    /\ UNCHANGED <<capture, todo, wrote, helper, queue, reader, note, stop, pc, copy, failed, record>>

HelperExits ==
    /\ helper # "none" /\ helper' = "none"
    /\ UNCHANGED <<capture, todo, wrote, child, queue, reader, note, stop, pc, copy, failed, record>>

\* exited(): reaps the candidate and tells the reader.
Waiter ==
    /\ child = "exited" /\ child' = "reaped" /\ note' = TRUE
    /\ UNCHANGED <<capture, todo, wrote, helper, queue, reader, stop, pc, copy, failed, record>>

\* Context._terminate: the candidate's group is gone when it returns.
KillGroup ==
    /\ child' = IF child = "running" THEN "exited" ELSE child
    /\ helper' = IF helper = "group" THEN "none" ELSE helper

-----------------------------------------------------------------------------
\* The reader thread.

ReadTty ==
    /\ reader.pc = "select" /\ ~stop /\ "tty" \in reader.open /\ queue # <<>>
    /\ \E n \in 1..Len(queue) :
          /\ reader' = [reader EXCEPT !.pc = "apply", !.got = SubSeq(queue, 1, n)]
          /\ queue' = SubSeq(queue, n + 1, Len(queue))
    /\ UNCHANGED <<candidate, capture, stop, pc, copy, failed, record>>

\* An empty read, or EIO, when nobody has the slave open any more.
EndOfTty ==
    /\ reader.pc = "select" /\ ~stop /\ "tty" \in reader.open /\ queue = <<>> /\ ~SlaveOpen
    /\ reader' = [reader EXCEPT !.open = @ \ {"tty"}]
    /\ UNCHANGED <<candidate, capture, queue, stop, pc, copy, failed, record>>

ReadExit ==
    /\ reader.pc = "select" /\ ~stop /\ "exit" \in reader.open /\ note
    /\ reader' = [reader EXCEPT !.open = @ \ {"exit"}]
    /\ KillGroup
    /\ UNCHANGED <<capture, todo, wrote, note, queue, stop, pc, copy, failed, record>>

\* _terminate may raise, before or after it has killed: the reader gives up.
ReadExitFails ==
    /\ reader.pc = "select" /\ ~stop /\ "exit" \in reader.open /\ note
    /\ reader' = [reader EXCEPT !.pc = "done", !.open = @ \ {"exit"}]
    /\ error' = IF error = "none" THEN "terminate" ELSE error
    /\ KillGroup \/ UNCHANGED <<child, helper>>
    /\ UNCHANGED <<raw, events, shots, term, todo, wrote, note, queue, stop, pc, copy, failed, record>>

ReaderEnds ==
    /\ reader.pc = "select" /\ (stop \/ reader.open = {})
    /\ reader' = [reader EXCEPT !.pc = "done"]
    /\ UNCHANGED <<candidate, capture, queue, stop, pc, copy, failed, record>>

\* _feed_tty, token by token: a query is answered, and the answer recorded
\* with its place, before what follows it is interpreted.  The answer is
\* recorded before it is written; writing fails when the slave is closed.
Answer(s, token, writable) ==
    IF s.error # "none" THEN s
    ELSE LET t == Interpret(s.term, token)
             at == s.at + 1
         IN  IF t.error THEN [s EXCEPT !.term = t, !.at = at, !.error = "feed"]
             ELSE IF t.replies = <<>> THEN [s EXCEPT !.term = t, !.at = at]
             ELSE [term |-> [t EXCEPT !.replies = Tail(@)], at |-> at,
                   events |-> Append(s.events, [Event("reply", at) EXCEPT !.answer = Head(t.replies)]),
                   error |-> IF writable THEN "none" ELSE "write"]

FeedTty(s, data, writable) ==
    LET fed[i \in 0..Len(data)] == IF i = 0 THEN s ELSE Answer(fed[i - 1], data[i], writable)
    IN  fed[Len(data)]

OverBudget(bytes) == Len(bytes) > RawLimit

\* The rest of _pump, under _state.  Output over the budget ends the reader.
Apply ==
    /\ reader.pc = "apply"
    /\ raw' = raw \o reader.got
    /\ IF OverBudget(raw')
       THEN /\ error' = IF error = "none" THEN "budget" ELSE error
            /\ reader' = [reader EXCEPT !.pc = "done", !.got = <<>>]
            /\ UNCHANGED <<term, events>>
       ELSE /\ reader' = [reader EXCEPT !.pc = "select", !.got = <<>>]
            /\ IF error # "none" THEN UNCHANGED <<term, events, error>>
               ELSE \E writable \in {TRUE, SlaveOpen} :
                      LET s == FeedTty([term |-> term, events |-> events, at |-> Len(raw), error |-> "none"],
                                       reader.got, writable)
                      IN  term' = s.term /\ events' = s.events /\ error' = s.error
    /\ UNCHANGED <<candidate, shots, queue, stop, pc, copy, failed, record>>

-----------------------------------------------------------------------------
\* The test's thread.

\* __enter__, once the reader runs: the process registration may still fail.
Enter(fails) ==
    /\ pc = "start"
    /\ IF fails THEN pc' = "waiting" /\ error' = IF error = "none" THEN "start" ELSE error
       ELSE pc' = "drive" /\ UNCHANGED error
    /\ UNCHANGED <<candidate, raw, events, shots, term, queue, reader, stop, copy, failed, record>>

\* An exception in the test: __exit__ terminates the candidate and finishes.
DriveFails == pc' = "waiting" /\ failed' = TRUE /\ KillGroup
Go == UNCHANGED <<pc, failed, child, helper>>

\* The event is recorded before the write, which a dead candidate may break.
Send ==
    /\ pc = "drive" /\ copy = NoCopy /\ \A i \in DOMAIN events : events[i].kind # "input"
    /\ IF child = "running"
       THEN /\ events' = Append(events, Event("input", Len(raw)))
            /\ Go
       ELSE UNCHANGED events /\ DriveFails
    /\ UNCHANGED <<raw, shots, term, error, todo, wrote, note, queue, reader, stop, copy, record>>

\* wait(): gives up at its deadline, at the end of the output or at an error.
WaitFails ==
    /\ pc = "drive" /\ copy = NoCopy /\ DriveFails
    /\ UNCHANGED <<capture, todo, wrote, note, queue, reader, stop, copy, record>>

\* The first half of snapshot: containers are copied under the lock.
SnapshotBegins(label) ==
    /\ pc \in {"drive", "done"} /\ copy = NoCopy
    /\ ~\E i \in DOMAIN shots : shots[i].label = label
    /\ ~Incomplete(term)
    /\ copy' = [label |-> label, offset |-> Len(raw), state |-> term, index |-> Len(events)]
    /\ UNCHANGED <<candidate, capture, queue, reader, stop, pc, failed, record>>

SnapshotFails ==
    /\ pc = "drive" /\ copy = NoCopy /\ Incomplete(term) /\ DriveFails
    /\ UNCHANGED <<capture, todo, wrote, note, queue, reader, stop, copy, record>>

Shot == [label |-> copy.label, offset |-> copy.offset, state |-> copy.state]
Taken == [Event("snapshot", copy.offset) EXCEPT !.what = copy.label]
Save == record' = [record EXCEPT !.tty = raw, !.events = events', !.shots = shots']

\* faulty: the event goes to the end of the journal
SnapshotAppends ==
    /\ copy # NoCopy
    /\ shots' = Append(shots, Shot)
    /\ events' = Append(events, Taken)
    /\ copy' = NoCopy /\ Save
    /\ UNCHANGED <<candidate, raw, term, error, queue, reader, stop, pc, failed>>
\* The second half: the event goes where the screen was copied, and the
\* capture is saved.
SnapshotEnds ==
    /\ copy # NoCopy
    /\ shots' = Append(shots, Shot)
    /\ events' = InsertAt(events, copy.index + 1, Taken)
    /\ copy' = NoCopy /\ Save
    /\ UNCHANGED <<candidate, raw, term, error, queue, reader, stop, pc, failed>>

\* The signal to a group that is gone raises, after everything else was done.
ResizePty(new) ==
    /\ pc = "drive" /\ copy = NoCopy
    /\ Cardinality({i \in DOMAIN events : events[i].kind = "resize"}) < MaxResizes
    /\ term' = [term EXCEPT !.seen = Append(@, new)]
    /\ events' = Append(events, [Event("resize", Len(raw)) EXCEPT !.what = new])
    /\ IF child # "reaped" \/ helper = "group" THEN Go ELSE DriveFails
    /\ UNCHANGED <<raw, shots, error, todo, wrote, note, queue, reader, stop, copy, record>>

Finish ==
    /\ pc = "drive" /\ copy = NoCopy /\ pc' = "waiting"
    /\ UNCHANGED <<candidate, capture, queue, reader, stop, copy, failed, record>>

\* The three ends of _finish's waiting: the reader is done, an error, time.
Waited ==
    /\ pc = "waiting"
    /\ IF reader.pc = "done"
       THEN \/ child = "reaped" /\ pc' = "complete" /\ UNCHANGED failed
            \/ child # "reaped" /\ pc' = "cleanup" /\ failed' = TRUE
       ELSE pc' = "cleanup" /\ failed' = TRUE
    /\ UNCHANGED <<candidate, capture, queue, reader, stop, copy, record>>

Complete ==
    /\ pc = "complete" /\ pc' = "cleanup"
    /\ failed' = (failed \/ term.partial \/ error # "none")
    /\ UNCHANGED <<candidate, capture, queue, reader, stop, copy, record>>

\* _terminate; when inspecting the processes fails, the group is killed all the same.
Cleanup ==
    /\ pc = "cleanup" /\ pc' = "join" /\ KillGroup
    /\ \E inspected \in BOOLEAN : failed' = (failed \/ ~inspected)
    /\ UNCHANGED <<capture, todo, wrote, note, queue, reader, stop, copy, record>>

Join ==
    /\ pc = "join" /\ reader.pc = "done" /\ pc' = "close"
    /\ UNCHANGED <<candidate, capture, queue, reader, stop, copy, failed, record>>

\* The reader did not end in two seconds: it is stopped, and then joined.
StopReader ==
    /\ pc = "join" /\ reader.pc # "done" /\ ~stop /\ stop' = TRUE /\ failed' = TRUE
    /\ UNCHANGED <<candidate, capture, queue, reader, pc, copy, record>>

Close ==
    /\ pc = "close" /\ pc' = "done"
    /\ record' = [tty |-> raw, events |-> events, shots |-> shots]
    /\ UNCHANGED <<candidate, capture, queue, reader, stop, copy, failed>>

Candidate == WriteOutput \/ Exit \/ HelperExits
Reader == ReadTty \/ EndOfTty \/ ReadExit \/ ReadExitFails \/ ReaderEnds \/ Apply
Drive ==
    \/ \E fails \in BOOLEAN : Enter(fails)
    \/ Send \/ WaitFails \/ SnapshotFails
    \/ \E label \in Labels : SnapshotBegins(label)
    \/ \E size \in Sizes : ResizePty(size)
    \/ Finish
Finishing == SnapshotEnds \/ Waited \/ Complete \/ Cleanup \/ Join \/ StopReader \/ Close
SessionNext == Candidate \/ Waiter \/ Reader \/ Drive \/ Finishing

\* The operating system reaps and delivers, threads run; the candidate, its
\* helper and the test promise nothing.
SessionFairness == WF_sessionVars(Waiter) /\ WF_sessionVars(Reader) /\ WF_sessionVars(Finishing)
SessionSpec == SessionInit /\ [][SessionNext]_sessionVars

-----------------------------------------------------------------------------
\* observe_cli_terminal.replay: the raw stream and the journal, once more.
ReplayEvent(r, bytes, taken, event) ==
    LET t == Feed(r.term, SubSeq(bytes, r.fed + 1, event.offset))
        s == [r EXCEPT !.term = t, !.fed = event.offset]
        shot == CHOOSE x \in ToSet(taken) : x.label = event.what
        refuse == [s EXCEPT !.ok = FALSE]
    IN  IF ~r.ok \/ event.offset < r.fed \/ event.offset > Len(bytes) \/ t.error THEN [r EXCEPT !.ok = FALSE]
        ELSE
        CASE event.kind = "resize" -> [s EXCEPT !.term.seen = Append(@, event.what)]
          [] event.kind = "input" -> s
          [] event.kind = "reply" ->
               IF t.replies = <<>> \/ Head(t.replies) # event.answer THEN refuse
               ELSE [s EXCEPT !.term.replies = Tail(@)]
          [] event.kind = "snapshot" ->
               IF \/ ~\E x \in ToSet(taken) : x.label = event.what
                  \/ event.what \in ToSet(r.observed)
                  \/ Incomplete(t) \/ shot.offset # event.offset \/ shot.state # t
               THEN refuse
               ELSE [s EXCEPT !.observed = Append(@, event.what)]
Replay(bytes, journal, taken) ==
    LET after[k \in 0..Len(journal)] ==
            IF k = 0 THEN [term |-> NewTerminal, fed |-> 0, ok |-> TRUE, observed |-> <<>>]
            ELSE ReplayEvent(after[k - 1], bytes, taken, journal[k])
        r == after[Len(journal)]
        last == Feed(r.term, SubSeq(bytes, r.fed + 1, Len(bytes)))
        labels == [i \in DOMAIN taken |-> taken[i].label]
    IN  [term |-> last, ok |-> r.ok /\ ~last.error /\ IsInjective(labels) /\ r.observed = labels]
Certified(r) == r.ok /\ ~Incomplete(r.term) /\ r.term.replies = <<>>

-----------------------------------------------------------------------------
SessionTypeOK ==
    /\ todo \in Seq(Tokens) /\ wrote \in Seq(Tokens) /\ queue \in Seq(Tokens) /\ raw \in Seq(Tokens)
    /\ child \in {"running", "exited", "reaped"} /\ helper \in {"none", "group", "escaped"}
    /\ error \in {"none", "feed", "write", "budget", "terminate", "start"}
    /\ reader.pc \in {"select", "apply", "done"} /\ reader.open \subseteq {"tty", "exit"}
    /\ (reader.got # <<>>) = (reader.pc = "apply")
    /\ pc \in {"start", "drive", "waiting", "complete", "cleanup", "join", "close", "done"}
    /\ stop => pc \in {"join", "close", "done"}
    /\ Len(raw) <= RawLimit \/ error # "none"

\* At every moment, whatever the reader did between the two halves of a
\* screenshot, the bytes and the journal replay to the screens that were
\* taken and to the screen there is (replay in observe_cli_terminal.py).
JournalReplays ==
    error = "none" =>
        LET r == Replay(raw, events, shots) IN r.ok /\ r.term = term

\* A session that finishes without a failure has every byte the candidate
\* and its group wrote, left no process of the group, and its saved capture
\* is certified unless the candidate stopped in the middle of an update.
CleanFinishIsWhole ==
    pc = "done" /\ ~failed =>
        /\ raw = wrote /\ queue = <<>> /\ child # "running" /\ helper # "group"
        /\ LET r == Replay(record.tty, record.events, record.shots) IN Certified(r) \/ (r.ok /\ r.term.sync)

\* The record's bytes and the journal on the disk belong together, and once
\* finish has returned the reader adds nothing to either.
RecordIsFinal ==
    pc = "done" => record = [tty |-> raw, events |-> events, shots |-> shots]

\* What was recorded replays to the screens that were taken, at every moment;
\* a clean finish has all of it, and nothing is added afterwards.
CaptureReplays == SessionTypeOK /\ JournalReplays /\ CleanFinishIsWhole /\ RecordIsFinal

=============================================================================
