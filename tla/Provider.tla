------------------------------ MODULE Provider ------------------------------
(***************************************************************************)
(* The recording HTTP fake of a parity case: parity/provider.py with the   *)
(* steps of parity/run.py (_run_case, Context.close) that judge it.  One   *)
(* thread handles each connection; the main thread runs the case, checks   *)
(* that the scripts were used up, stops the server, kills the candidate,   *)
(* collects the evidence and checks again.                                 *)
(***************************************************************************)
EXTENDS Naturals, Sequences, FiniteSets

CONSTANTS
    Conns,        \* connections of the candidate
    Kinds,        \* requests it may send
    NumScripts,   \* scripts are numbered in the order of expect
    Key,          \* per script: path, marker and model
    Matches,      \* per kind: the keys that match it
    Barrier,      \* per script: the name it waits for before it answers, or NoName
    ChunkBarrier, \* per script: the name it waits for before the last chunk, or NoName
    Resets,       \* scripts that end with a reset
    Closes,       \* scripts that close the connection
    NoName,
    MaxRequests   \* bound: requests per connection

Scripts == 1 .. NumScripts
Names == ({Barrier[s] : s \in Scripts} \cup {ChunkBarrier[s] : s \in Scripts}) \ {NoName}

ASSUME ProviderAssumption ==
    /\ NumScripts \in Nat /\ MaxRequests \in Nat /\ IsFiniteSet(Conns)
    /\ DOMAIN Key = Scripts /\ DOMAIN Barrier = Scripts /\ DOMAIN ChunkBarrier = Scripts
    /\ DOMAIN Matches = Kinds
    /\ Resets \subseteq Closes /\ Closes \subseteq Scripts

VARIABLES
    conn,      \* per connection: [st, open, shut, sent, count, at]
    scripts,   \* Provider._scripts
    requests,  \* Provider.requests: [kind, script, wrote, completed, ended]
    errors,    \* Provider.errors is not empty
    events,    \* events that are set
    released,  \* those that the case has set
    stopped,   \* Provider._stopped
    listening,
    main,      \* where the main thread is
    collected, \* the requests that became evidence
    verdict    \* "none", "passed", "failed"

vars == <<conn, scripts, requests, errors, events, released, stopped, listening, main, collected, verdict>>
recorded == <<scripts, requests, errors>>
control == <<events, released, stopped, listening, main, collected, verdict>>

Unused == [st |-> "free", open |-> FALSE, shut |-> FALSE, sent |-> <<>>, count |-> 0, at |-> 0]
Registered == {c \in Conns : conn[c].st \notin {"free", "idle", "gone"}}   \* Provider._sockets
ScriptAt(c) == requests[conn[c].at].script
Abortive(c) == conn[c].at # 0 /\ ScriptAt(c) \in Resets
Move(c, st) == conn' = [conn EXCEPT ![c].st = st]

-----------------------------------------------------------------------------
(* The candidate, and the sockets between it and the server.  It does not  *)
(* pipeline: the next request follows the answer to the last.              *)

Running == main \in {"case", "asserted", "stopping", "events", "shutdown", "drain"}

Connect(c) ==
    /\ Running /\ listening /\ conn[c].st = "free"
    /\ conn' = [conn EXCEPT ![c] = [@ EXCEPT !.st = "idle", !.open = TRUE]]
    /\ UNCHANGED <<recorded, control>>

Send(c, kind) ==
    /\ Running /\ conn[c].open /\ ~conn[c].shut /\ conn[c].count < MaxRequests
    /\ conn[c].sent = <<>>
    /\ conn[c].st \in {"idle", "ending"} /\ (conn[c].at # 0 => requests[conn[c].at].completed)
    /\ conn' = [conn EXCEPT ![c].sent = Append(@, kind), ![c].count = @ + 1]
    /\ UNCHANGED <<recorded, control>>

Disconnect(c) ==
    /\ Running /\ conn[c].open
    /\ conn' = [conn EXCEPT ![c].open = FALSE]
    /\ UNCHANGED <<recorded, control>>

-----------------------------------------------------------------------------
(* Provider._handle, in the thread of the connection.                      *)

(* A request line arrives; the connection is registered.                   *)
Receive(c) ==
    /\ conn[c].st = "idle" /\ conn[c].sent # <<>>
    /\ Move(c, "reading")
    /\ UNCHANGED <<recorded, control>>

(* End of file: the thread ends.                                           *)
Eof(c) ==
    /\ conn[c].st = "idle" /\ conn[c].sent = <<>> /\ (conn[c].shut \/ ~conn[c].open)
    /\ Move(c, "gone")
    /\ UNCHANGED <<recorded, control>>

(* The body is cut off by the end of the client or by close: too short is  *)
(* an error, a reset or a timeout is passed over.                          *)
ReadFails(c) ==
    /\ conn[c].st = "reading" /\ (conn[c].shut \/ ~conn[c].open)
    /\ errors' \in {errors, TRUE}
    /\ Move(c, "ending")
    /\ UNCHANGED <<scripts, requests, control>>

(* The request is recorded and takes the first script of the only key that *)
(* matches, in one critical section.                                       *)
Matching(kind) == {s \in scripts : Key[s] \in Matches[kind]}
First(S) == CHOOSE s \in S : \A t \in S : s <= t

Match(c) ==
    LET kind == Head(conn[c].sent)
        unique == Cardinality({Key[s] : s \in Matching(kind)}) = 1
        script == IF unique THEN First(Matching(kind)) ELSE 0
    IN /\ conn[c].st = "reading"
       /\ requests' = Append(requests, [kind |-> kind, script |-> script, wrote |-> 0, completed |-> FALSE, ended |-> FALSE])
       /\ scripts' = scripts \ {script}
       /\ errors' = (errors \/ ~unique)
       /\ conn' = [conn EXCEPT ![c].st = "barrier", ![c].sent = Tail(@), ![c].at = Len(requests) + 1]
       /\ UNCHANGED control

NameOf(B, s) == IF s = 0 THEN NoName ELSE B[s]

(* Wait for a name, and leave if the provider has stopped meanwhile.       *)
Passes(name) == name = NoName \/ name \in events

(* The barrier, then the delay, which the stop ends as well.               *)
Delay(c) ==
    /\ conn[c].st = "barrier"
    /\ \/ Passes(NameOf(Barrier, ScriptAt(c))) /\ Move(c, "delay")
       \/ stopped /\ NameOf(Barrier, ScriptAt(c)) # NoName /\ Move(c, "ending")
    /\ UNCHANGED <<recorded, control>>

\* faulty: the stop is not looked at again after the barrier
AnswerAnyway(c) ==
    /\ conn[c].st = "delay"
    /\ Move(c, "headers")
    /\ UNCHANGED <<recorded, control>>
Answer(c) ==
    /\ conn[c].st = "delay"
    /\ Move(c, IF stopped THEN "ending" ELSE "headers")
    /\ UNCHANGED <<recorded, control>>

(* Writing may fail: the client has left or the socket was shut down.      *)
Write(c, from, to, wrote) ==
    /\ conn[c].st = from
    /\ \/ /\ Move(c, to)
          /\ requests' = [requests EXCEPT ![conn[c].at].wrote = wrote, ![conn[c].at].completed = (wrote = 2)]
       \/ /\ conn[c].shut \/ ~conn[c].open
          /\ Move(c, "ending") /\ UNCHANGED requests
    /\ UNCHANGED <<scripts, errors, control>>

WriteHeaders(c) == Write(c, "headers", "chunk", 1)

(* The barrier and the delay before the chunk.                             *)
ChunkDelay(c) ==
    /\ conn[c].st = "chunk"
    /\ \/ Passes(NameOf(ChunkBarrier, ScriptAt(c))) /\ Move(c, IF stopped THEN "ending" ELSE "body")
       \/ stopped /\ Move(c, "ending")
    /\ UNCHANGED <<recorded, control>>

WriteBody(c) == Write(c, "body", "ending", 2)

(* finally: the response has ended and the connection is not registered    *)
(* any more.  One whose answer was not completed is left open.             *)
Finished(c) == /\ conn[c].at # 0 /\ requests[conn[c].at].completed
               /\ ScriptAt(c) \in Closes \cup {0}
EndResponse(c) ==
    /\ conn[c].st = "ending"
    /\ requests' = IF conn[c].at = 0 THEN requests ELSE [requests EXCEPT ![conn[c].at].ended = TRUE]
    /\ conn' = [conn EXCEPT ![c].st = IF Finished(c) THEN "gone" ELSE "idle", ![c].open = @ /\ ~Finished(c)]
    /\ UNCHANGED <<scripts, errors, control>>

-----------------------------------------------------------------------------
(* The main thread.                                                        *)

Step(from, to) == main = from /\ main' = to

(* The case, or a controller beside it, releases what waits.               *)
Release(name) ==
    /\ main = "case"
    /\ events' = events \cup {name} /\ released' = released \cup {name}
    /\ UNCHANGED <<conn, recorded, stopped, listening, main, collected, verdict>>

Complete == ~errors /\ scripts = {}

(* assert_complete when the case is over: a failure is the verdict, and    *)
(* the rest is done for cleanup only.                                      *)
AssertFirst ==
    /\ Step("case", "asserted")
    /\ verdict' = IF Complete THEN "none" ELSE "failed"
    /\ UNCHANGED <<conn, recorded, events, released, stopped, listening, collected>>

(* close: stop, release all barriers and shut the registered connections   *)
(* down, end the listener, wait for the handlers.                          *)
Stop ==
    /\ Step("asserted", "events")
    /\ stopped' = TRUE
    /\ UNCHANGED <<conn, recorded, events, released, listening, collected, verdict>>

SetEvents ==
    /\ Step("events", "shutdown")
    /\ events' = Names
    /\ conn' = [c \in Conns |-> IF c \in Registered /\ ~Abortive(c) THEN [conn[c] EXCEPT !.shut = TRUE] ELSE conn[c]]
    /\ UNCHANGED <<recorded, released, stopped, listening, collected, verdict>>

Shutdown ==
    /\ Step("shutdown", "drain")
    /\ listening' = FALSE
    /\ UNCHANGED <<conn, recorded, events, released, stopped, collected, verdict>>

Drain ==
    /\ Step("drain", "guard")
    /\ Registered = {}
    /\ UNCHANGED <<conn, recorded, events, released, stopped, listening, collected, verdict>>

DrainTimesOut ==
    /\ Step("drain", "done")
    /\ Registered # {}
    /\ verdict' = "failed"
    /\ UNCHANGED <<conn, recorded, events, released, stopped, listening, collected>>

(* The process guard kills what is left of the candidate.                  *)
KillCandidate ==
    /\ Step("guard", "collect")
    /\ conn' = [c \in Conns |-> [conn[c] EXCEPT !.open = FALSE]]
    /\ UNCHANGED <<recorded, events, released, stopped, listening, collected, verdict>>

Collect ==
    /\ Step("collect", "judge")
    /\ collected' = requests
    /\ UNCHANGED <<conn, recorded, events, released, stopped, listening, verdict>>

\* faulty: judges what was collected
AssertEvidence ==
    /\ Step("judge", "done")
    /\ verdict' = IF verdict = "none" /\ scripts = {} /\ \A i \in DOMAIN collected : collected[i].script # 0 /\ collected[i].ended
                  THEN "passed" ELSE "failed"
    /\ UNCHANGED <<conn, recorded, events, released, stopped, listening, collected>>
AssertAgain ==
    /\ Step("judge", "done")
    /\ verdict' = IF verdict = "none" /\ Complete THEN "passed" ELSE "failed"
    /\ UNCHANGED <<conn, recorded, events, released, stopped, listening, collected>>

-----------------------------------------------------------------------------
Init ==
    /\ conn = [c \in Conns |-> Unused]
    /\ scripts = Scripts /\ requests = <<>> /\ errors = FALSE
    /\ events = {} /\ released = {} /\ stopped = FALSE /\ listening = TRUE
    /\ main = "case" /\ collected = <<>> /\ verdict = "none"

Handler(c) ==
    \/ Receive(c) \/ Eof(c) \/ ReadFails(c) \/ Match(c) \/ Delay(c) \/ Answer(c)
    \/ WriteHeaders(c) \/ ChunkDelay(c) \/ WriteBody(c) \/ EndResponse(c)

Closing == Stop \/ SetEvents \/ Shutdown \/ Drain \/ DrainTimesOut \/ KillCandidate \/ Collect \/ AssertAgain

Candidate(c) == Connect(c) \/ Disconnect(c) \/ \E kind \in Kinds : Send(c, kind)

Next ==
    \/ \E c \in Conns : Candidate(c) \/ Handler(c)
    \/ \E name \in Names : Release(name)
    \/ AssertFirst \/ Closing

Spec == Init /\ [][Next]_vars

-----------------------------------------------------------------------------
Record == [kind : Kinds, script : 0 .. NumScripts, wrote : 0 .. 2, completed : BOOLEAN, ended : BOOLEAN]

ConnState == [st : {"free", "idle", "reading", "barrier", "delay", "headers", "chunk", "body", "ending", "gone"},
              open : BOOLEAN, shut : BOOLEAN, sent : Seq(Kinds), count : 0 .. MaxRequests, at : Nat]

TypeOK ==
    /\ conn \in [Conns -> ConnState] /\ \A c \in Conns : conn[c].at \in 0 .. Len(requests)
    /\ scripts \subseteq Scripts /\ requests \in Seq(Record) /\ collected \in Seq(Record)
    /\ {errors, stopped, listening} \subseteq BOOLEAN
    /\ released \subseteq events /\ events \subseteq Names
    /\ main \in {"case", "asserted", "events", "shutdown", "drain", "guard", "collect", "judge", "done"}
    /\ verdict \in {"none", "passed", "failed"}

(* A case that passed has final evidence: no handler adds to a response    *)
(* that was collected.                                                     *)
EvidenceFinal ==
    verdict = "passed" => \A i \in DOMAIN collected : collected[i].ended /\ collected[i] = requests[i]

(* When it passes no request was recorded that is not in the evidence,     *)
(* although handlers may still start while the provider closes.            *)
EvidenceComplete == [][verdict' = "passed" /\ verdict # "passed" => requests = collected]_vars

(* What passes is exactly what was scripted: every script was taken by one *)
(* request of its own, in the order of expect for each key.                *)
ScriptsUsedUp ==
    /\ \A i, j \in DOMAIN requests :
         i < j /\ requests[i].script # 0 /\ requests[j].script # 0 =>
            /\ requests[i].script # requests[j].script
            /\ Key[requests[i].script] = Key[requests[j].script] => requests[i].script < requests[j].script
    /\ verdict = "passed" => {collected[i].script : i \in DOMAIN collected} = Scripts

(* Close releases every barrier, and yet no client is answered that the    *)
(* case did not release.                                                   *)
AnswersAreReleased ==
    \A i \in DOMAIN requests :
        LET s == requests[i].script
        IN /\ requests[i].wrote >= 1 => NameOf(Barrier, s) \in released \cup {NoName}
           /\ requests[i].wrote = 2 => NameOf(ChunkBarrier, s) \in released \cup {NoName}

(* A case passes on requests that are the scripts', each used once and in  *)
(* order, and on evidence to which nothing is added any more.              *)
EvidenceIsScripted == EvidenceFinal /\ ScriptsUsedUp /\ AnswersAreReleased

=============================================================================
